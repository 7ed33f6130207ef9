----------------------------- MODULE PurgePromise -----------------------------
(* What a permanent purge promises of one policy: once it has begun nothing    *)
(* is added to the policy again, it ends only when nothing is left, and it     *)
(* never goes back to a policy that is merely damaged.                         *)
EXTENDS FiniteSets

CONSTANT Things   \* everything any service may hold of the policy

VARIABLES
  stage,  \* "kept", "purging" or "gone"
  left    \* what is still held

promise == <<stage, left>>

Init == stage = "kept" /\ left \in SUBSET Things

\* The policy is used and edited.
Change == stage = "kept" /\ left' \in SUBSET Things /\ UNCHANGED stage
Begin == stage = "kept" /\ stage' = "purging" /\ UNCHANGED left
Remove == stage = "purging" /\ left' \in SUBSET left /\ UNCHANGED stage
Complete == stage = "purging" /\ left = {} /\ stage' = "gone" /\ UNCHANGED left

Next == Change \/ Begin \/ Remove \/ Complete
Spec == Init /\ [][Next]_promise
===============================================================================
