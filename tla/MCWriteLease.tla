---------------------------- MODULE MCWriteLease ----------------------------
(* Instances of WriteLease small enough for TLC. *)
EXTENDS WriteLease, TLC

CONSTANTS w1, w2, r1, r2, r3

\* Two requests meet at one worker's lock, the third comes to a worker whose clock is ahead.
TwoAtOneWorker == r1 :> w1 @@ r2 :> w2 @@ r3 :> w1
SecondClockAhead == w1 :> 0 @@ w2 :> 1
=============================================================================
