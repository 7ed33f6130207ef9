------------------------------ MODULE WriteLease ------------------------------
(***************************************************************************)
(* The write guard of PurgeRepository: mutating requests of one worker     *)
(* queue on a lock in the process, and workers exclude each other through  *)
(* a lease document in Mongo that a task renews while the handler runs.    *)
(* A renewal that fails cancels the handler at its next await.             *)
(*                                                                         *)
(* Under the guard a handler changes one record in its worker's cache,     *)
(* which was read from Mongo when the worker started, and the flush writes *)
(* the cached record back: the record is the set of requests whose change  *)
(* it contains.  Time is what the slowest worker's clock shows; event      *)
(* loops may be blocked, and the network slow, for any time.               *)
(***************************************************************************)
EXTENDS Integers, Sequences

CONSTANTS
  Workers,     \* API processes over one Mongo database
  Requests,    \* mutating requests; each takes a fresh lease token
  WorkerOf,    \* the worker a request is sent to
  Lease,       \* how long a lease is valid after it was set (90 s)
  Renewal,     \* how long the renewing task sleeps (15 s)
  Tries,       \* how often a request asks for the lease (50)
  Skew,        \* how far each worker's clock is ahead of the slowest one
  MaxSkew,
  MaxCrashes,  \* bound on the number of crashes explored
  None

ASSUME LeaseAssumption ==
  /\ Lease \in Nat /\ Renewal \in Nat /\ Tries \in Nat /\ MaxSkew \in Nat /\ MaxCrashes \in Nat
  /\ WorkerOf \in [Requests -> Workers]
  /\ Skew \in [Workers -> 0 .. MaxSkew]
  /\ None \notin Requests

VARIABLES
  lease,    \* the document "foundation-write": its owner, and the time left by the slowest clock
  queue,    \* the requests at each worker's lock, its holder first
  phase,    \* where each request is
  outcome,  \* how it was answered
  tries,    \* how often it asked for the lease in vain
  since,    \* while it is inside, the time since it last set expires_at
  cache,    \* the record in each worker's store
  mongo,    \* the record in Mongo
  crashes

vars == <<lease, queue, phase, outcome, tries, since, cache, mongo, crashes>>

Cap == Lease + MaxSkew
Phase == {"new", "waiting", "inside", "handled", "leaving", "settled"}
Outcome == {"none", "ok", "error", "refused", "cancelled", "crashed"}

LeaseTypeOK ==
  /\ lease \in [owner : Requests \union {None}, left : 0 .. Cap]
  /\ queue \in [Workers -> Seq(Requests)]
  /\ phase \in [Requests -> Phase] /\ outcome \in [Requests -> Outcome]
  /\ tries \in [Requests -> 0 .. Tries] /\ since \in [Requests -> 0 .. Cap]
  /\ cache \in [Workers -> SUBSET Requests] /\ mongo \in SUBSET Requests
  /\ crashes \in 0 .. MaxCrashes

Init ==
  /\ lease = [owner |-> None, left |-> 0]
  /\ queue = [w \in Workers |-> <<>>]
  /\ phase = [r \in Requests |-> "new"] /\ outcome = [r \in Requests |-> "none"]
  /\ tries = [r \in Requests |-> 0] /\ since = [r \in Requests |-> 0]
  /\ cache = [w \in Workers |-> {}] /\ mongo = {}
  /\ crashes = 0

Inside(r) == phase[r] \in {"inside", "handled"}
HoldsLock(r) == queue[WorkerOf[r]] # <<>> /\ Head(queue[WorkerOf[r]]) = r
Unlock(w) == queue' = [queue EXCEPT ![w] = Tail(queue[w])]
\* expires_at as it would be set by worker w now, and whether w's clock has reached it.
TwiceExpiry(w) == Lease + Lease + Skew[w]   \* a renewal that adds to what is left
AnyTime(w) == lease.left <= Skew[w] + Renewal   \* a contender that comes a renewal too early
Expiry(w) == Lease + Skew[w]
Expired(w) == lease.left <= Skew[w]

-----------------------------------------------------------------------------
(* Entering: the lock of the process, then the lease. *)

Arrive(r) ==
  /\ phase[r] = "new"
  /\ phase' = [phase EXCEPT ![r] = "waiting"]
  /\ queue' = [queue EXCEPT ![WorkerOf[r]] = Append(@, r)]
  /\ UNCHANGED <<lease, outcome, tries, since, cache, mongo, crashes>>

Acquire(r) ==
  /\ phase[r] = "waiting" /\ HoldsLock(r)
  /\ tries[r] < Tries /\ Expired(WorkerOf[r])
  /\ lease' = [owner |-> r, left |-> Expiry(WorkerOf[r])]
  /\ phase' = [phase EXCEPT ![r] = "inside"]
  /\ tries' = [tries EXCEPT ![r] = 0]
  /\ UNCHANGED <<queue, outcome, since, cache, mongo, crashes>>

\* The upsert of a lease that is held collides with it.
TryInVain(r) ==
  /\ phase[r] = "waiting" /\ HoldsLock(r)
  /\ tries[r] < Tries /\ ~Expired(WorkerOf[r])
  /\ tries' = [tries EXCEPT ![r] = @ + 1]
  /\ UNCHANGED <<lease, queue, phase, outcome, since, cache, mongo, crashes>>

\* A refusal that keeps the lock of the process.
RefuseLocked(r) ==
  /\ phase[r] = "waiting" /\ HoldsLock(r) /\ tries[r] = Tries
  /\ phase' = [phase EXCEPT ![r] = "settled"]
  /\ outcome' = [outcome EXCEPT ![r] = "refused"]
  /\ tries' = [tries EXCEPT ![r] = 0]
  /\ UNCHANGED <<lease, queue, since, cache, mongo, crashes>>
Refuse(r) ==
  /\ phase[r] = "waiting" /\ HoldsLock(r) /\ tries[r] = Tries
  /\ phase' = [phase EXCEPT ![r] = "settled"]
  /\ outcome' = [outcome EXCEPT ![r] = "refused"]
  /\ tries' = [tries EXCEPT ![r] = 0]
  /\ Unlock(WorkerOf[r])
  /\ UNCHANGED <<lease, since, cache, mongo, crashes>>

-----------------------------------------------------------------------------
(* Inside: the handler, the flush of its changes, and the renewing task. *)

Handle(r) ==
  /\ phase[r] = "inside"
  /\ cache' = [cache EXCEPT ![WorkerOf[r]] = @ \union {r}]
  /\ phase' = [phase EXCEPT ![r] = "handled"]
  /\ UNCHANGED <<lease, queue, outcome, tries, since, mongo, crashes>>

Ends(r, how) ==
  /\ phase' = [phase EXCEPT ![r] = "leaving"]
  /\ outcome' = [outcome EXCEPT ![r] = how]
  /\ since' = [since EXCEPT ![r] = 0]
  /\ UNCHANGED <<lease, queue, tries, cache, crashes>>

Flush(r) ==
  /\ phase[r] = "handled"
  /\ mongo' = cache[WorkerOf[r]]
  /\ Ends(r, "ok")

FlushFails(r) ==
  /\ phase[r] = "handled"
  /\ Ends(r, "error")
  /\ UNCHANGED mongo

\* A renewal that does not ask whose lease it is.
RenewAny(r) ==
  /\ Inside(r) /\ since[r] >= Renewal
  /\ lease' = [owner |-> r, left |-> Expiry(WorkerOf[r])]
  /\ since' = [since EXCEPT ![r] = 0]
  /\ UNCHANGED <<queue, phase, outcome, tries, cache, mongo, crashes>>
\* A lease that expired and that nobody took is renewed all the same.
Renew(r) ==
  /\ Inside(r) /\ since[r] >= Renewal /\ lease.owner = r
  /\ lease' = [lease EXCEPT !.left = Expiry(WorkerOf[r])]
  /\ since' = [since EXCEPT ![r] = 0]
  /\ UNCHANGED <<queue, phase, outcome, tries, cache, mongo, crashes>>

\* The lease is another's, or Mongo does not answer: the task group cancels the handler.
RenewalFails(r) ==
  /\ Inside(r) /\ since[r] >= Renewal
  /\ Ends(r, "cancelled")
  /\ UNCHANGED mongo

-----------------------------------------------------------------------------
(* Leaving, the passing of time, and crashes. *)

\* The shielded delete_one, which may fail, removes the lease of this token only.
Leave(r) ==
  /\ phase[r] = "leaving"
  /\ \/ lease.owner = r /\ lease' = [owner |-> None, left |-> 0]
     \/ UNCHANGED lease
  /\ phase' = [phase EXCEPT ![r] = "settled"]
  /\ Unlock(WorkerOf[r])
  /\ UNCHANGED <<outcome, tries, since, cache, mongo, crashes>>

Tick ==
  /\ lease.left > 0 \/ \E r \in Requests : Inside(r) /\ since[r] < Cap
  /\ lease' = [lease EXCEPT !.left = IF @ > 0 THEN @ - 1 ELSE 0]
  /\ since' = [r \in Requests |->
                 IF Inside(r) /\ since[r] < Cap THEN since[r] + 1 ELSE since[r]]
  /\ UNCHANGED <<queue, phase, outcome, tries, cache, mongo, crashes>>

\* The process is killed and started again: its store is loaded from Mongo.
Crash(w) ==
  LET running == {r \in Requests : WorkerOf[r] = w /\ phase[r] \notin {"new", "settled"}}
  IN  /\ crashes < MaxCrashes
      /\ crashes' = crashes + 1
      /\ phase' = [r \in Requests |-> IF r \in running THEN "settled" ELSE phase[r]]
      /\ outcome' = [r \in Requests |-> IF r \in running THEN "crashed" ELSE outcome[r]]
      /\ queue' = [queue EXCEPT ![w] = <<>>]
      /\ cache' = [cache EXCEPT ![w] = mongo]
      /\ tries' = [r \in Requests |-> IF r \in running THEN 0 ELSE tries[r]]
      /\ since' = [r \in Requests |-> IF r \in running THEN 0 ELSE since[r]]
      /\ UNCHANGED <<lease, mongo>>

Next ==
  \/ \E r \in Requests :
       \/ Arrive(r) \/ Acquire(r) \/ TryInVain(r) \/ Refuse(r)
       \/ Handle(r) \/ Flush(r) \/ FlushFails(r)
       \/ Renew(r) \/ RenewalFails(r) \/ Leave(r)
  \/ \E w \in Workers : Crash(w)
  \/ Tick

\* The event loop runs every task that is ready, and handlers come to an end: what they
\* call has timeouts.  Nothing makes a request arrive or a worker crash.
Fairness ==
  /\ \A r \in Requests :
       /\ WF_vars(Acquire(r) \/ TryInVain(r) \/ Refuse(r))
       /\ WF_vars(Handle(r) \/ Flush(r) \/ FlushFails(r))
       /\ WF_vars(Renew(r) \/ RenewalFails(r))
       /\ WF_vars(Leave(r))
  /\ WF_vars(Tick)

Spec == Init /\ [][Next]_vars
FairSpec == Spec /\ Fairness

-----------------------------------------------------------------------------
(* Properties. *)

\* The request's last renewal is so old that a worker whose clock is ahead may see its
\* lease expired.
Overdue(r) == since[r] + MaxSkew >= Lease

\* write_guard says "Serialize policy writes and purge across workers, including cache
\* flushes": two requests are inside at once only when one of them has failed to renew
\* its lease for as long as the lease lasts, less the difference of the clocks.
OneWriter ==
  \A r, q \in Requests : Inside(r) /\ Inside(q) /\ r # q => Overdue(r) \/ Overdue(q)

\* The lease of a request that stays inside goes only to one that saw it expired, and does
\* not come back to a request that lost it.
TokenKept(r) ==
  IF lease.owner = r
  THEN lease'.owner = r \/ \E q \in Requests : /\ phase[q] = "waiting" /\ lease'.owner = q
                                              /\ Expired(WorkerOf[q])
  ELSE lease'.owner # r
TokensKept == \A r \in Requests : Inside(r) /\ Inside(r)' => TokenKept(r)

\* A request that lost its lease never gets it back, and a running request loses it only
\* to one whose clock has passed expires_at, never to one that leaves or renews: the token
\* in every query of write_guard.
LostLeaseIsFinal == [][TokensKept]_vars

\* A request that waits for the lock or the lease is answered, refused or lost with its
\* worker, whatever the requests before it did.
EveryRequestIsSettled == \A r \in Requests : phase[r] = "waiting" ~> phase[r] = "settled"

\* foundation_persistence.py says that flush prevents "data loss from concurrent processes,
\* stale restarts, or multi-worker deployments": what was acknowledged stays in Mongo.
NoLostUpdate == \A r \in Requests : phase[r] = "settled" /\ outcome[r] = "ok" => r \in mongo
===============================================================================
