--------------------------- MODULE WriteLeaseProofs ---------------------------
(***************************************************************************)
(* Proofs about WriteLease that hold for every set of workers and          *)
(* requests, every lease and renewal time and all clocks that differ by    *)
(* at most MaxSkew.                                                        *)
(***************************************************************************)
EXTENDS WriteLease, SequenceTheorems, TLAPS

-----------------------------------------------------------------------------
(* The inductive invariant. *)

\* A request that was let in is at the head of its worker's queue until it has left.
Admitted(r) == phase[r] \in {"inside", "handled", "leaving"}
AdmittedHoldLock == \A r \in Requests : Admitted(r) => HoldsLock(r)

\* A request's lease has an age only while the request is inside.
AgeOnlyInside == \A r \in Requests : ~Inside(r) => since[r] = 0

\* Until it is overdue, a request inside owns the lease, with what its age leaves of it.
OwnsUntilOverdue ==
  \A r \in Requests : Inside(r) /\ ~Overdue(r) => lease.owner = r /\ lease.left + since[r] >= Lease

LeaseInv == LeaseTypeOK /\ AdmittedHoldLock /\ AgeOnlyInside /\ OwnsUntilOverdue

\* With no request inside, nothing has been promised.
LEMMA InitLeaseInv == Init => LeaseInv
  BY LeaseAssumption
  DEF Init, LeaseInv, LeaseTypeOK, AdmittedHoldLock, AgeOnlyInside, OwnsUntilOverdue, Admitted,
      Inside, Phase, Outcome, Cap

\* Only one request of a worker is admitted at a time, so that the head of a queue that is
\* removed is the request that leaves.
LEMMA OneAdmittedPerWorker ==
  ASSUME AdmittedHoldLock, NEW r \in Requests, NEW q \in Requests,
         Admitted(r), Admitted(q), WorkerOf[r] = WorkerOf[q]
  PROVE  r = q
  BY DEF AdmittedHoldLock, HoldsLock

\* A lease is set to a time that Cap bounds.
LEMMA ExpiryType == ASSUME NEW w \in Workers PROVE Expiry(w) \in 0 .. Cap
  BY LeaseAssumption DEF Expiry, Cap

\* Every action keeps the types; Leave may remove the head since it holds the lock.
LEMMA NextLeaseTypeOK == LeaseInv /\ [Next]_vars => LeaseTypeOK'
<1> SUFFICES ASSUME LeaseInv, [Next]_vars PROVE LeaseTypeOK'
  OBVIOUS
<1> USE LeaseAssumption DEF LeaseTypeOK, Phase, Outcome
<1>t. LeaseTypeOK /\ AdmittedHoldLock
  BY DEF LeaseInv
<1>z. 0 \in 0 .. Cap /\ 0 \in 0 .. Tries
  BY DEF Cap
<1>u. ASSUME NEW w \in Workers, queue[w] # <<>> PROVE Tail(queue[w]) \in Seq(Requests)
  BY <1>t, <1>u, HeadTailProperties
<1>e. ASSUME NEW r \in Requests, NEW how \in Outcome, Ends(r, how), mongo' \in SUBSET Requests
      PROVE  LeaseTypeOK'
  <2>1. /\ phase' \in [Requests -> Phase] /\ outcome' \in [Requests -> Outcome]
        /\ since' \in [Requests -> 0 .. Cap]
    BY <1>e, <1>t, <1>z DEF Ends
  <2> QED
    BY <1>e, <1>t, <2>1 DEF Ends
<1>1. ASSUME NEW r \in Requests, Arrive(r) PROVE LeaseTypeOK'
  <2>1. Append(queue[WorkerOf[r]], r) \in Seq(Requests)
    BY <1>t, AppendProperties
  <2> QED
    BY <1>1, <1>t, <2>1 DEF Arrive
<1>2. ASSUME NEW r \in Requests, Acquire(r) PROVE LeaseTypeOK'
  BY <1>2, <1>t, <1>z, ExpiryType DEF Acquire
<1>3. ASSUME NEW r \in Requests, TryInVain(r) PROVE LeaseTypeOK'
  BY <1>3, <1>t DEF TryInVain
<1>4. ASSUME NEW r \in Requests, Refuse(r) PROVE LeaseTypeOK'
  <2>1. queue' \in [Workers -> Seq(Requests)]
    BY <1>4, <1>t, <1>u DEF Refuse, Unlock, HoldsLock
  <2>2. /\ phase' \in [Requests -> Phase] /\ outcome' \in [Requests -> Outcome]
        /\ tries' \in [Requests -> 0 .. Tries]
    BY <1>4, <1>t, <1>z DEF Refuse
  <2> QED
    BY <1>4, <1>t, <2>1, <2>2 DEF Refuse
<1>5. ASSUME NEW r \in Requests, Handle(r) PROVE LeaseTypeOK'
  BY <1>5, <1>t DEF Handle
<1>6. ASSUME NEW r \in Requests, Flush(r) PROVE LeaseTypeOK'
  BY <1>6, <1>t, <1>e DEF Flush
<1>7. ASSUME NEW r \in Requests, FlushFails(r) \/ RenewalFails(r) PROVE LeaseTypeOK'
  BY <1>7, <1>t, <1>e DEF FlushFails, RenewalFails
<1>8. ASSUME NEW r \in Requests, Renew(r) PROVE LeaseTypeOK'
  <2>1. lease' \in [owner : Requests \union {None}, left : 0 .. Cap]
    BY <1>8, <1>t, ExpiryType, ZenonT(30) DEF Renew
  <2>2. since' \in [Requests -> 0 .. Cap]
    BY <1>8, <1>t, <1>z DEF Renew
  <2> QED
    BY <1>8, <1>t, <2>1, <2>2 DEF Renew
<1>9. ASSUME NEW r \in Requests, Leave(r) PROVE LeaseTypeOK'
  <2>1. queue[WorkerOf[r]] # <<>>
    BY <1>9, <1>t DEF AdmittedHoldLock, Admitted, HoldsLock, Leave
  <2>2. queue' \in [Workers -> Seq(Requests)]
    BY <1>9, <1>t, <1>u, <2>1 DEF Leave, Unlock
  <2>3. lease' \in [owner : Requests \union {None}, left : 0 .. Cap]
    BY <1>9, <1>t, <1>z DEF Leave
  <2> QED
    BY <1>9, <1>t, <2>2, <2>3 DEF Leave
<1>10. ASSUME NEW w \in Workers, Crash(w) PROVE LeaseTypeOK'
  BY <1>10, <1>t, <1>z DEF Crash
<1>11. ASSUME Tick PROVE LeaseTypeOK'
  <2> DEFINE rest == IF lease.left > 0 THEN lease.left - 1 ELSE 0
  <2>1. rest \in 0 .. Cap
    BY <1>t DEF Cap
  <2>2. lease' = [lease EXCEPT !.left = rest]
    BY <1>11 DEF Tick
  <2> HIDE DEF rest
  <2>3. lease' \in [owner : Requests \union {None}, left : 0 .. Cap]
    BY <1>t, <2>1, <2>2
  <2>4. since' \in [Requests -> 0 .. Cap]
    <3>1. ASSUME NEW r \in Requests
          PROVE  (IF Inside(r) /\ since[r] < Cap THEN since[r] + 1 ELSE since[r]) \in 0 .. Cap
      BY <1>t DEF Cap
    <3> QED
      BY <1>11, <3>1 DEF Tick
  <2> QED
    BY <1>11, <1>t, <2>3, <2>4 DEF Tick
<1>12. ASSUME UNCHANGED vars PROVE LeaseTypeOK'
  BY <1>12, <1>t DEF vars
<1> QED
  BY <1>1, <1>2, <1>3, <1>4, <1>5, <1>6, <1>7, <1>8, <1>9, <1>10, <1>11, <1>12 DEF Next

\* A request that is admitted stays at the head: others are appended behind it, and only
\* itself or a crash removes it.
LEMMA NextAdmittedHoldLock == LeaseInv /\ [Next]_vars => AdmittedHoldLock'
<1> SUFFICES ASSUME LeaseInv, [Next]_vars, NEW q \in Requests, Admitted(q)'
             PROVE  HoldsLock(q)'
  BY DEF AdmittedHoldLock
<1> USE LeaseAssumption DEF Admitted, HoldsLock
<1>t. /\ LeaseTypeOK /\ AdmittedHoldLock
      /\ phase \in [Requests -> Phase] /\ queue \in [Workers -> Seq(Requests)]
  BY DEF LeaseInv, LeaseTypeOK
<1>1. ASSUME NEW r \in Requests, Arrive(r) PROVE HoldsLock(q)'
  <2>1. q # r /\ Admitted(q)
    BY <1>1, <1>t DEF Arrive
  <2>2. queue[WorkerOf[q]] # <<>> /\ Head(queue[WorkerOf[q]]) = q
    BY <2>1, <1>t DEF AdmittedHoldLock
  <2>3. CASE WorkerOf[q] = WorkerOf[r]
    <3>1. queue'[WorkerOf[q]] = Append(queue[WorkerOf[q]], r)
      BY <1>1, <1>t, <2>3 DEF Arrive
    <3>2. queue[WorkerOf[q]] \in Seq(Requests)
      BY <1>t
    <3>3. Head(Append(queue[WorkerOf[q]], r)) = q /\ Append(queue[WorkerOf[q]], r) # <<>>
      BY <2>2, <3>2, AppendProperties
    <3> QED
      BY <3>1, <3>3
  <2>4. CASE WorkerOf[q] # WorkerOf[r]
    BY <1>1, <1>t, <2>2, <2>4 DEF Arrive
  <2> QED
    BY <2>3, <2>4
<1>2. ASSUME NEW r \in Requests, Acquire(r) PROVE HoldsLock(q)'
  BY <1>2, <1>t DEF Acquire, AdmittedHoldLock
<1>3. ASSUME NEW r \in Requests, Refuse(r) PROVE HoldsLock(q)'
  <2>1. q # r /\ Admitted(q)
    BY <1>3, <1>t DEF Refuse
  <2>2. WorkerOf[q] # WorkerOf[r]
    BY <1>3, <1>t, <2>1 DEF Refuse, AdmittedHoldLock
  <2> QED
    BY <1>3, <1>t, <2>1, <2>2 DEF Refuse, Unlock, AdmittedHoldLock
<1>4. ASSUME NEW r \in Requests,
             \/ TryInVain(r) \/ Handle(r) \/ Flush(r) \/ FlushFails(r)
             \/ Renew(r) \/ RenewalFails(r)
      PROVE  HoldsLock(q)'
  <2>1. queue' = queue /\ Admitted(q)
    BY <1>4, <1>t
    DEF TryInVain, Handle, Flush, FlushFails, Renew, RenewalFails, Ends, Inside
  <2> QED
    BY <2>1, <1>t DEF AdmittedHoldLock
<1>5. ASSUME NEW r \in Requests, Leave(r) PROVE HoldsLock(q)'
  <2>1. q # r /\ Admitted(q) /\ Admitted(r)
    BY <1>5, <1>t DEF Leave
  <2>2. WorkerOf[q] # WorkerOf[r]
    BY <2>1, <1>t, OneAdmittedPerWorker
  <2> QED
    BY <1>5, <1>t, <2>1, <2>2 DEF Leave, Unlock, AdmittedHoldLock
<1>6. ASSUME NEW w \in Workers, Crash(w) PROVE HoldsLock(q)'
  <2>1. WorkerOf[q] # w /\ Admitted(q)
    BY <1>6, <1>t DEF Crash
  <2> QED
    BY <1>6, <1>t, <2>1 DEF Crash, AdmittedHoldLock
<1>7. ASSUME Tick \/ UNCHANGED vars PROVE HoldsLock(q)'
  BY <1>7, <1>t DEF Tick, vars, AdmittedHoldLock
<1> QED
  BY <1>1, <1>2, <1>3, <1>4, <1>5, <1>6, <1>7 DEF Next

\* Whoever stops being inside starts the next lease from age 0.
LEMMA NextAgeOnlyInside == LeaseInv /\ [Next]_vars => AgeOnlyInside'
<1> SUFFICES ASSUME LeaseInv, [Next]_vars, NEW q \in Requests, ~Inside(q)'
             PROVE  since[q]' = 0
  BY DEF AgeOnlyInside
<1> USE LeaseAssumption DEF Inside
<1>t. /\ LeaseTypeOK /\ AgeOnlyInside
      /\ phase \in [Requests -> Phase] /\ since \in [Requests -> 0 .. Cap]
  BY DEF LeaseInv, LeaseTypeOK
<1>1. ASSUME NEW r \in Requests,
             Arrive(r) \/ Acquire(r) \/ TryInVain(r) \/ Refuse(r) \/ Handle(r) \/ Leave(r)
      PROVE  since[q]' = 0
  BY <1>1, <1>t DEF Arrive, Acquire, TryInVain, Refuse, Handle, Leave, AgeOnlyInside
<1>2. ASSUME NEW r \in Requests, Flush(r) \/ FlushFails(r) \/ RenewalFails(r)
      PROVE  since[q]' = 0
  BY <1>2, <1>t DEF Flush, FlushFails, RenewalFails, Ends, AgeOnlyInside
<1>3. ASSUME NEW r \in Requests, Renew(r) PROVE since[q]' = 0
  BY <1>3, <1>t DEF Renew, AgeOnlyInside
<1>4. ASSUME NEW w \in Workers, Crash(w) PROVE since[q]' = 0
  BY <1>4, <1>t DEF Crash, AgeOnlyInside
<1>5. ASSUME Tick PROVE since[q]' = 0
  BY <1>5, <1>t DEF Tick, AgeOnlyInside
<1>6. ASSUME UNCHANGED vars PROVE since[q]' = 0
  BY <1>6, <1>t DEF vars, AgeOnlyInside
<1> QED
  BY <1>1, <1>2, <1>3, <1>4, <1>5, <1>6 DEF Next

\* The heart of the guard: a lease with more than MaxSkew left is expired by no clock, so
\* that nobody takes it from a request that is not overdue.
LEMMA NextOwnsUntilOverdue == LeaseInv /\ [Next]_vars => OwnsUntilOverdue'
<1> SUFFICES ASSUME LeaseInv, [Next]_vars, NEW q \in Requests, Inside(q)', ~Overdue(q)'
             PROVE  lease'.owner = q /\ lease'.left + since'[q] >= Lease
  BY DEF OwnsUntilOverdue
<1> USE LeaseAssumption DEF Inside, Overdue
<1>t. /\ AgeOnlyInside /\ OwnsUntilOverdue
      /\ lease \in [owner : Requests \union {None}, left : 0 .. Lease + MaxSkew]
      /\ phase \in [Requests -> Phase] /\ since \in [Requests -> 0 .. Lease + MaxSkew]
  BY DEF LeaseInv, LeaseTypeOK, Cap
<1> DEFINE Owns == lease'.owner = q /\ lease'.left + since'[q] >= Lease
<1>1. ASSUME NEW r \in Requests,
             \/ Arrive(r) \/ TryInVain(r) \/ Refuse(r) \/ Handle(r) \/ Flush(r)
             \/ FlushFails(r) \/ RenewalFails(r)
      PROVE  Owns
  <2>1. Inside(q) /\ since'[q] = since[q] /\ lease' = lease
    BY <1>1, <1>t
    DEF Arrive, TryInVain, Refuse, Handle, Flush, FlushFails, RenewalFails, Ends
  <2> QED
    BY <2>1, <1>t DEF OwnsUntilOverdue
<1>2. ASSUME NEW r \in Requests, Acquire(r) PROVE Owns
  <2>1. /\ lease'.owner = r /\ lease'.left = Lease + Skew[WorkerOf[r]] /\ since' = since
        /\ lease.left <= Skew[WorkerOf[r]] /\ Skew[WorkerOf[r]] \in 0 .. MaxSkew
    BY <1>2, <1>t DEF Acquire, Expiry, Expired
  <2>2. CASE q = r
    <3>1. since[r] = 0
      BY <1>2, <1>t DEF Acquire, AgeOnlyInside
    <3> QED
      BY <2>1, <2>2, <3>1
  <2>3. CASE q # r
    <3>1. Inside(q) /\ ~Overdue(q)
      BY <1>2, <1>t, <2>1, <2>3 DEF Acquire
    <3>2. lease.left + since[q] >= Lease
      BY <3>1, <1>t DEF OwnsUntilOverdue
    <3> QED
      BY <2>1, <3>1, <3>2, <1>t
  <2> QED
    BY <2>2, <2>3
<1>3. ASSUME NEW r \in Requests, Renew(r) PROVE Owns
  <2>1. /\ lease.owner = r /\ lease'.owner = r /\ lease'.left = Lease + Skew[WorkerOf[r]]
        /\ Skew[WorkerOf[r]] \in 0 .. MaxSkew /\ phase' = phase
        /\ since' = [since EXCEPT ![r] = 0]
    BY <1>3, <1>t DEF Renew, Expiry
  <2>2. CASE q = r
    BY <2>1, <2>2, <1>t
  <2>3. CASE q # r
    BY <2>1, <2>3, <1>t DEF OwnsUntilOverdue
  <2> QED
    BY <2>2, <2>3
<1>4. ASSUME NEW r \in Requests, Leave(r) PROVE Owns
  <2>1. q # r /\ Inside(q) /\ since' = since
    BY <1>4, <1>t DEF Leave
  <2>2. lease.owner = q /\ lease.left + since[q] >= Lease
    BY <2>1, <1>t DEF OwnsUntilOverdue
  <2>3. lease' = lease
    BY <1>4, <2>1, <2>2 DEF Leave
  <2> QED
    BY <2>1, <2>2, <2>3
<1>5. ASSUME NEW w \in Workers, Crash(w) PROVE Owns
  <2>1. Inside(q) /\ since'[q] = since[q] /\ lease' = lease
    BY <1>5, <1>t DEF Crash
  <2> QED
    BY <2>1, <1>t DEF OwnsUntilOverdue
<1>6. ASSUME Tick PROVE Owns
  <2>1. /\ Inside(q) /\ lease'.owner = lease.owner
        /\ lease'.left = IF lease.left > 0 THEN lease.left - 1 ELSE 0
    BY <1>6, <1>t DEF Tick
  <2>2. since'[q] = IF since[q] < Lease + MaxSkew THEN since[q] + 1 ELSE since[q]
    BY <1>6, <1>t, <2>1 DEF Tick, Cap
  <2>3. ~Overdue(q) /\ since'[q] = since[q] + 1
    BY <2>2, <1>t
  <2>4. lease.owner = q /\ lease.left + since[q] >= Lease
    BY <2>1, <2>3, <1>t DEF OwnsUntilOverdue
  <2>5. lease.left > 0
    BY <2>3, <2>4, <1>t
  <2> QED
    BY <2>1, <2>3, <2>4, <2>5, <1>t
<1>7. ASSUME UNCHANGED vars PROVE Owns
  BY <1>7, <1>t DEF vars, OwnsUntilOverdue
<1> QED
  BY <1>1, <1>2, <1>3, <1>4, <1>5, <1>6, <1>7 DEF Next

-----------------------------------------------------------------------------
(* Theorems. *)

\* In every reachable state the invariant holds.
THEOREM LeaseInvariant == Spec => []LeaseInv
<1>1. LeaseInv /\ [Next]_vars => LeaseInv'
  BY NextLeaseTypeOK, NextAdmittedHoldLock, NextAgeOnlyInside, NextOwnsUntilOverdue DEF LeaseInv
<1> QED
  BY <1>1, InitLeaseInv, PTL DEF Spec

\* The state of the guard is always well typed; in particular no lock is released that
\* is not held.
THEOREM LeaseTypeCorrect == Spec => []LeaseTypeOK
<1>1. LeaseInv => LeaseTypeOK
  BY DEF LeaseInv
<1> QED
  BY <1>1, LeaseInvariant, PTL

\* write_guard keeps two requests of any workers apart, as long as their renewals are not
\* late by more than the lease less the difference of the clocks.
THEOREM WritersExclude == Spec => []OneWriter
<1>1. LeaseInv => OneWriter
  BY DEF LeaseInv, OwnsUntilOverdue, OneWriter
<1> QED
  BY <1>1, LeaseInvariant, PTL

\* A step takes the lease of a running request only for a request that saw it expired,
\* and never gives it back.
LEMMA StepKeepsToken ==
  ASSUME LeaseTypeOK, [Next]_vars, NEW r \in Requests, Inside(r), Inside(r)'
  PROVE  TokenKept(r)
<1> USE LeaseAssumption DEF Inside, TokenKept
<1>t. lease \in [owner : Requests \union {None}, left : 0 .. Cap] /\ phase \in [Requests -> Phase]
  BY DEF LeaseTypeOK
<1>1. ASSUME lease'.owner # lease.owner
      PROVE  \E q \in Requests : Acquire(q) \/ Leave(q)
  BY <1>1, <1>t
  DEF Next, Arrive, TryInVain, Refuse, Handle, Flush, FlushFails, Renew, RenewalFails, Ends,
      Crash, Tick, vars
<1>2. ASSUME NEW q \in Requests, Acquire(q)
      PROVE  q # r /\ phase[q] = "waiting" /\ lease'.owner = q /\ Expired(WorkerOf[q])
  BY <1>2 DEF Acquire
<1>3. ASSUME NEW q \in Requests, Leave(q)
      PROVE  lease' = lease \/ (lease.owner # r /\ lease'.owner = None)
  BY <1>3 DEF Leave
<1> QED
  BY <1>1, <1>2, <1>3

\* The token in every query of write_guard: a request that lost its lease never owns it
\* again, and only an expired lease is taken.
THEOREM TokenIsFinal == Spec => LostLeaseIsFinal
<1>1. LeaseTypeOK /\ [Next]_vars => [TokensKept]_vars
  BY StepKeepsToken DEF TokensKept
<1> QED
  BY <1>1, LeaseTypeCorrect, PTL DEF Spec, LostLeaseIsFinal
===============================================================================
