-------------------------- MODULE MCDurableLifecycle --------------------------
(* Instances of DurableLifecycle small enough for TLC. *)
EXTENDS DurableLifecycle, TLC

CONSTANTS p1, v1, v2, s1, s2, u1, u2, everyone

OnePolicy == [v \in Versions |-> p1]

Symmetry == Permutations(Sources) \union Permutations(Versions)

\* Bound: extraction succeeds, a version has one document, and a document that waits for its
\* PDF is not approved.  The rest is explored without persistence in MCPolicyLifecycle.
Bound ==
  /\ \A s \in Sources : sources[s].status # "failed"
  /\ \A s \in Sources : sources[s].markdown_only => sources[s].status # "approved"
  /\ \A v \in Versions : Cardinality(versions[v].source_document_ids) <= 1
=============================================================================
