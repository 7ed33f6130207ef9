-------------------------- MODULE MCPolicyLifecycle --------------------------
(* Instances of PolicyLifecycle small enough for TLC. *)
EXTENDS PolicyLifecycle, TLC

CONSTANTS p1, v1, v2, s1, s2, u1, everyone, restricted

OnePolicy == [v \in Versions |-> p1]

\* No definition tells one source, one version or one scope from another.
Symmetry == Permutations(Sources) \union Permutations(Versions) \union Permutations(Scopes)
=============================================================================
