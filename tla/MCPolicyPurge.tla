---------------------------- MODULE MCPolicyPurge -----------------------------
(* An instance of PolicyPurge small enough for TLC. *)
EXTENDS PolicyPurge, TLC

CONSTANTS w1, w2, policy, source, parsed, chunk, event

\* The version belongs to the policy's record; the parser result mentions only its source,
\* and an audit event mentions the policy.
PolicyLinks ==
  policy :> {} @@ source :> {policy} @@ parsed :> {source} @@ chunk :> {policy, source}
  @@ event :> {policy}
=============================================================================
