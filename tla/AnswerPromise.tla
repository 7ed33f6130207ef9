----------------------------- MODULE AnswerPromise -----------------------------
(***************************************************************************)
(* What the assistant promises about the text it lets out: none before it  *)
(* is known what it rests on, none after an error, and "done" only when    *)
(* all of it is out.                                                       *)
(***************************************************************************)
EXTENDS Naturals

CONSTANT Parts  \* in how many parts an answer is sent

VARIABLES basis, released, ended

Bases == {"canned", "sections", "verified"}
Endings == {"no", "done", "error"}

Init == basis = "open" /\ released = 0 /\ ended = "no"

\* Until then drafts are made and thrown away.
Settle == basis = "open" /\ basis' \in Bases /\ UNCHANGED <<released, ended>>

Release(n) ==
  /\ ended = "no" /\ released < n /\ n <= Parts
  /\ released' = n /\ basis' \in Bases /\ basis \in {"open", basis'}
  /\ ended' = IF n = Parts THEN "done" ELSE "no"

Stop == ended = "no" /\ ended' = "error" /\ UNCHANGED <<basis, released>>

Next == Settle \/ Stop \/ \E n \in 1 .. Parts : Release(n)

Spec == Init /\ [][Next]_<<basis, released, ended>>
=============================================================================
