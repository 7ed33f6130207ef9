---------------------------- MODULE AssistantProofs ----------------------------
(***************************************************************************)
(* Proofs about the assistant: the release of an answer, for every set of  *)
(* chunks, answers of any length and any number of changes by others; and  *)
(* the transport to the models, for any number of operations and           *)
(* connections and for all times.                                          *)
(***************************************************************************)
EXTENDS AnswerRelease, ChatTransport, TLAPS

-----------------------------------------------------------------------------
(* AnswerRelease: the inductive invariant. *)

Ended == {"settled", "failed"}
Drafting == {"plan", "search", "ranking", "reading", "rereading", "gate", "generate"}
Checking == {"member", "evidence"}

\* What the answer rests on is settled when a release check begins, and never before.
BasisFollowsStage ==
  /\ stage \in Drafting \union {"verify"} \union Checking \union Ended
  /\ stage \in Drafting => basis = "open"
  /\ stage = "verify" => basis = "draft"
  /\ stage \in Checking \union {"settled"} => basis \in {"canned", "sections", "verified"}
  /\ basis \in {"open", "draft", "canned", "sections", "verified"}

\* Nothing is out before the work has ended; the stream sends parts of a settled answer, and
\* a response that has not ended is one whose parts are not all out.
ResponseFollowsWork ==
  /\ parts \in 0 .. Parts
  /\ ended \in {"no", "done", "error", "gone"} /\ streamed \in BOOLEAN
  /\ sender \in {"waiting", "closed"} \union Checking
  /\ ended = "no" => parts < Parts
  /\ streamed /\ sender # "closed" => ended = "no"
  /\ ~streamed => sender = "closed"
  /\ ~streamed /\ stage \notin Ended => ended = "no"
  /\ sender \in Checking => stage = "settled"
  /\ stage \notin Ended \/ sender = "waiting" => parts = 0

\* After a part that went out late, the profile still forbids the evidence, and so does the
\* profile that a check has read since.
LateIsNoticed ==
  /\ late \in {0, 1} /\ (parts = 0 => late = 0)
  /\ late = 1 => ~Allowed(member, scope)
  /\ late = 1 /\ sender = "evidence" => ~(pool \union options \subseteq checked)

ReleaseInv == BasisFollowsStage /\ ResponseFollowsWork /\ LateIsNoticed

\* A question that has just come in.
LEMMA InitRelease == Init => ReleaseInv
  BY ReleaseAssumption
  DEF Init, ReleaseInv, BasisFollowsStage, ResponseFollowsWork, LateIsNoticed, Drafting, Checking,
      Ended, Parts

\* The changes by others leave the work and its response alone.
LEMMA OthersKeep == ReleaseInv /\ Others => ReleaseInv'
<1> SUFFICES ASSUME ReleaseInv, NEW l, NEW m, NEW s, Change(l, m, s) PROVE ReleaseInv'
  BY DEF Others, Publish, Withdraw, Disable, Reactivate, Rescope
<1>1. BasisFollowsStage' /\ ResponseFollowsWork'
  BY DEF ReleaseInv, Change, BasisFollowsStage, ResponseFollowsWork, work
<1>2. LateIsNoticed'
  BY DEF ReleaseInv, Change, LateIsNoticed, Allowed, work
<1> QED
  BY <1>1, <1>2 DEF ReleaseInv

\* The work sends nothing of a stream, and the whole answer at once otherwise.
LEMMA WorkKeeps == ReleaseInv /\ Work => ReleaseInv'
<1> SUFFICES ASSUME ReleaseInv, Work PROVE ReleaseInv'
  OBVIOUS
<1> USE ReleaseAssumption
    DEF ReleaseInv, BasisFollowsStage, ResponseFollowsWork, LateIsNoticed, Allowed, Drafting,
        Checking, Ended, Parts, Working, Go, Keep, response, work, store
<1>1. CASE Plan
  BY <1>1 DEF Plan, Canned
<1>2. CASE Search
  BY <1>2 DEF Search
<1>3. CASE Rank
  BY <1>3 DEF Rank, Canned, Fail
<1>4. CASE ReadContext
  BY <1>4 DEF ReadContext, Canned
<1>5. CASE Reread
  BY <1>5 DEF Reread, Canned, Overview
<1>6. CASE Gate
  BY <1>6 DEF Gate, Canned, Fail
<1>7. CASE Generate
  BY <1>7 DEF Generate, Canned, Fail
<1>8. CASE Verify
  BY <1>8 DEF Verify, Release, Fail, Retry, Again, Overview
<1>9. CASE CheckMember
  BY <1>9 DEF CheckMember, MemberRead, Fail
<1>10. CASE CheckEvidence
  BY <1>10 DEF CheckEvidence, Counted
<1> QED
  BY <1>1, <1>2, <1>3, <1>4, <1>5, <1>6, <1>7, <1>8, <1>9, <1>10 DEF Work

\* The stream reads the profile before every part and stops when the profile or the store
\* no longer allows the evidence.
LEMMA SendKeeps == ReleaseInv /\ Send => ReleaseInv'
<1> SUFFICES ASSUME ReleaseInv, Send PROVE ReleaseInv'
  OBVIOUS
<1> USE ReleaseAssumption
    DEF ReleaseInv, BasisFollowsStage, ResponseFollowsWork, LateIsNoticed, Allowed, Drafting,
        Checking, Ended, Parts, Sending, StreamError, response, work, store
<1>1. CASE TakeResult
  BY <1>1 DEF TakeResult
<1>2. CASE SendMember
  BY <1>2 DEF SendMember, MemberRead
<1>3. CASE SendPart
  BY <1>3 DEF SendPart, Counted, Released, AfterPart
<1> QED
  BY <1>1, <1>2, <1>3 DEF Send

\* Every step keeps the invariant.
LEMMA NextRelease == ReleaseInv /\ [Next]_vars => ReleaseInv'
<1> SUFFICES ASSUME ReleaseInv, [Next]_vars PROVE ReleaseInv'
  OBVIOUS
<1>1. CASE Disconnect
  BY <1>1
  DEF Disconnect, ReleaseInv, BasisFollowsStage, ResponseFollowsWork, LateIsNoticed, Allowed,
      Drafting, Checking, Ended, work, store
<1>2. CASE UNCHANGED vars
  BY <1>2
  DEF vars, ReleaseInv, BasisFollowsStage, ResponseFollowsWork, LateIsNoticed, Allowed,
      work, store, response
<1> QED
  BY <1>1, <1>2, OthersKeep, WorkKeeps, SendKeeps DEF Next

-----------------------------------------------------------------------------
(* Theorems. *)

\* The invariant holds in every reachable state.
LEMMA ReleaseInvariant == Spec => []ReleaseInv
  BY InitRelease, NextRelease, PTL DEF Spec

\* At most one part goes out after the profile stopped allowing it, however often policies
\* and the profile change.
THEOREM AtMostOneLatePart == Spec => []LateIsBounded
<1>1. ReleaseInv => LateIsBounded
  BY DEF ReleaseInv, LateIsNoticed, LateIsBounded
<1> QED
  BY <1>1, ReleaseInvariant, PTL

-----------------------------------------------------------------------------
(* AnswerRelease implements AnswerPromise. *)

\* What AnswerPromise sees of the basis and of the ending.
PromisedBasis == IF basis = "draft" THEN "open" ELSE basis
PromisedEnding == IF ended = "gone" THEN "error" ELSE ended
PromiseStep ==
  \/ UNCHANGED <<PromisedBasis, parts, PromisedEnding>>
  \/ Promise!Settle
  \/ Promise!Stop
  \/ \E n \in 1 .. Parts : Promise!Release(n)

\* A step of the work settles the basis, sends the whole of a settled answer, or ends with an
\* error; a draft that is verified, thrown away or made again is nothing anyone sees.
LEMMA WorkPromise == ReleaseInv /\ Work => PromiseStep
<1> SUFFICES ASSUME ReleaseInv, Work PROVE PromiseStep
  OBVIOUS
<1> USE ReleaseAssumption
    DEF ReleaseInv, BasisFollowsStage, ResponseFollowsWork, Drafting, Checking, Ended, Parts,
        Working, Go, Keep, response, work, PromiseStep, PromisedBasis, PromisedEnding,
        Promise!Settle, Promise!Stop, Promise!Release, Promise!Bases
<1>0. CASE Canned /\ stage \in Drafting /\ UNCHANGED streamed
  BY <1>0 DEF Canned
<1>1. CASE Plan
  BY <1>0, <1>1 DEF Plan
<1>2. CASE Search
  BY <1>2 DEF Search
<1>3. CASE Rank
  BY <1>0, <1>3 DEF Rank, Fail
<1>4. CASE ReadContext
  BY <1>0, <1>4 DEF ReadContext
<1>5. CASE Reread
  BY <1>0, <1>5 DEF Reread, Overview
<1>6. CASE Gate
  BY <1>0, <1>6 DEF Gate, Fail
<1>7. CASE Generate
  BY <1>0, <1>7 DEF Generate, Fail
<1>8. CASE Verify
  BY <1>8 DEF Verify, Release, Fail, Retry, Again, Overview
<1>9. CASE CheckMember
  BY <1>9 DEF CheckMember, Fail
<1>10. CASE CheckEvidence
  BY <1>10 DEF CheckEvidence
<1> QED
  BY <1>1, <1>2, <1>3, <1>4, <1>5, <1>6, <1>7, <1>8, <1>9, <1>10 DEF Work

\* A step of the stream sends one more part of a settled answer or ends with an error; the
\* last part ends it.
LEMMA SendPromise == ReleaseInv /\ Send => PromiseStep
<1> SUFFICES ASSUME ReleaseInv, Send PROVE PromiseStep
  OBVIOUS
<1> USE ReleaseAssumption
    DEF ReleaseInv, BasisFollowsStage, ResponseFollowsWork, Drafting, Checking, Ended, Parts,
        Sending, StreamError, response, work, PromiseStep, PromisedBasis, PromisedEnding,
        Promise!Settle, Promise!Stop, Promise!Release, Promise!Bases
<1>1. CASE TakeResult
  BY <1>1 DEF TakeResult
<1>2. CASE SendMember
  BY <1>2 DEF SendMember
<1>3. CASE SendPart
  <2>1. CASE ~Released
    BY <1>3, <2>1 DEF SendPart
  <2>2. CASE Released
    <3>1. parts + 1 \in 1 .. Parts /\ Promise!Release(parts + 1)
      BY <1>3, <2>2 DEF SendPart
    <3> QED
      BY <3>1
  <2> QED
    BY <2>1, <2>2
<1> QED
  BY <1>1, <1>2, <1>3 DEF Send

\* Others change nothing AnswerPromise sees, and a client that goes away ends the answer as
\* an error does.
LEMMA NextPromise == ReleaseInv /\ [Next]_vars => PromiseStep
<1> SUFFICES ASSUME ReleaseInv, [Next]_vars PROVE PromiseStep
  OBVIOUS
<1>1. CASE Others
  BY <1>1
  DEF Others, Publish, Withdraw, Disable, Reactivate, Rescope, Change, work, PromiseStep,
      PromisedBasis, PromisedEnding
<1>2. CASE Disconnect
  BY <1>2
  DEF Disconnect, ReleaseInv, ResponseFollowsWork, work, PromiseStep, PromisedBasis,
      PromisedEnding, Promise!Stop
<1>3. CASE UNCHANGED vars
  BY <1>3 DEF vars, work, response, PromiseStep, PromisedBasis, PromisedEnding
<1> QED
  BY <1>1, <1>2, <1>3, WorkPromise, SendPromise DEF Next

\* Whatever the models answer, whoever changes what meanwhile, and whenever the client goes:
\* nothing of an unverified draft gets out, nothing follows an error, and "done" is said
\* when all of the answer is out.
THEOREM ReleaseKeepsPromise == Spec => ImplementsAnswerPromise
<1>1. Init => Promise!Init
  BY DEF Init, Promise!Init
<1>2. ReleaseInv /\ [Next]_vars => [Promise!Next]_<<PromisedBasis, parts, PromisedEnding>>
  BY NextPromise DEF PromiseStep, Promise!Next
<1> QED
  BY <1>1, <1>2, ReleaseInvariant, PTL
  DEF Spec, ImplementsAnswerPromise, Promise!Spec, PromisedBasis, PromisedEnding

-----------------------------------------------------------------------------
(* ChatTransport: the inductive invariant. *)

Outcome == [verdict : {"availability", "rejected", "malformed", "result"},
            rejects : BOOLEAN, after : Waits \union {None}]

TransportTypeOK ==
  /\ phase \in [Callers -> {"idle", "queueing", "posting", "backoff"} \union Over]
  /\ attempt \in [Callers -> {0, 1}]
  /\ left \in [Callers -> Nat] /\ elapsed \in [Callers -> Nat]
  /\ timer \in [Callers -> Nat] /\ since \in [Callers -> Nat]
  /\ first \in [Callers -> Outcome]

\* What an operation has used of its deadline and what it has left make up the deadline.
TimeAddsUp == \A c \in Callers : left[c] + elapsed[c] = Deadline

\* An operation that pauses has made one request, whose answer rejects nothing, and what is
\* left of the pause is at least what is left of the time that answer asked for.
PauseIsDue ==
  \A c \in Callers : phase[c] = "backoff" =>
    /\ attempt[c] = 0 /\ ~first[c].rejects
    /\ first[c].after # None => since[c] + timer[c] >= first[c].after

TransportInv == TransportTypeOK /\ TimeAddsUp /\ PauseIsDue

\* Nothing has begun.
LEMMA InitTransport == TransportInit => TransportInv
  BY ChatAssumption
  DEF TransportInit, TransportInv, TransportTypeOK, TimeAddsUp, PauseIsDue, Outcome, Nothing, Over

-----------------------------------------------------------------------------
(* What a response comes to. *)

\* Whatever a response says at its many places: one that is taken for an availability
\* failure rejects nothing at any of them.
LEMMA AvailabilityRejectsNothing ==
  /\ Outcomes \subseteq Outcome
  /\ \A o \in Outcomes : o.verdict = "availability" => ~o.rejects
<1> SUFFICES ASSUME NEW r \in Response
             PROVE  LET o == [verdict |-> Classify(r), after |-> RetryAfter(r),
                              rejects |-> r.status = "refused" \/ r.top = "other"
                                            \/ \E c \in r.choices : Rejecting(c)]
                    IN  o \in Outcome /\ (o.verdict = "availability" => ~o.rejects)
  BY DEF Outcomes
<1>1. Classify(r) \in {"availability", "rejected", "malformed", "result"}
  BY DEF Classify
<1>2. RetryAfter(r) \in Waits \union {None}
  BY DEF RetryAfter, Response
<1>3. Classify(r) = "availability" =>
        ~(r.status = "refused" \/ r.top = "other" \/ \E c \in r.choices : Rejecting(c))
  BY DEF Classify, Response, Error
<1> QED
  BY <1>1, <1>2, <1>3 DEF Outcome

\* An outcome ends the operation or, if it is the first and asks for no long wait, pauses it.
LEMMA SettleKeeps ==
  ASSUME TransportInv, NEW c \in Callers, NEW o \in Outcome, Active(c),
         o.verdict = "availability" => ~o.rejects,
         Settle(c, o)
  PROVE  TransportInv'
<1>a. TransportTypeOK /\ TimeAddsUp /\ PauseIsDue
  BY DEF TransportInv
<1>1. CASE /\ o.verdict = "availability" /\ attempt[c] = 0
           /\ phase' = [phase EXCEPT ![c] = "backoff"]
  <2>1. PICK wait \in Nat : /\ o.after # None => wait = o.after
                            /\ timer' = [timer EXCEPT ![c] = wait]
                            /\ first' = [first EXCEPT ![c] = o]
                            /\ since' = [since EXCEPT ![c] = 0]
    BY <1>1, <1>a, ChatAssumption
    DEF Settle, BackOff, Enter, SetTimer, TransportTypeOK, Outcome, Over
  <2>2. UNCHANGED <<attempt, left, elapsed>>
    BY DEF Settle
  <2>3. TransportTypeOK' /\ TimeAddsUp'
    BY <1>1, <1>a, <2>1, <2>2 DEF TransportTypeOK, TimeAddsUp
  <2>4. PauseIsDue'
    BY <1>1, <1>a, <2>1, <2>2, ChatAssumption DEF TransportTypeOK, PauseIsDue, Outcome
  <2> QED
    BY <2>3, <2>4 DEF TransportInv
<1>2. CASE /\ \E p \in Over : phase' = [phase EXCEPT ![c] = p]
           /\ timer' = [timer EXCEPT ![c] = 0] /\ UNCHANGED <<first, since>>
  BY <1>2, <1>a
  DEF Settle, TransportInv, TransportTypeOK, TimeAddsUp, PauseIsDue, Over
<1> QED
  BY <1>1, <1>2, <1>a DEF Settle, BackOff, Enter, SetTimer, TransportTypeOK, Over

-----------------------------------------------------------------------------
(* The invariant is kept. *)

\* Time passes for every operation at once, and for none that is due.
LEMMA TickKeeps == TransportInv /\ Tick => TransportInv'
<1> SUFFICES ASSUME TransportInv, Tick PROVE TransportInv'
  OBVIOUS
<1>a. TransportTypeOK /\ TimeAddsUp /\ PauseIsDue
  BY DEF TransportInv
<1>1. UNCHANGED <<phase, attempt, first>>
  BY DEF Tick
<1>2. ASSUME NEW c \in Callers
      PROVE  /\ left'[c] \in Nat /\ elapsed'[c] \in Nat /\ timer'[c] \in Nat /\ since'[c] \in Nat
             /\ left'[c] + elapsed'[c] = Deadline
             /\ phase[c] = "backoff" => since'[c] = since[c] + 1 /\ timer'[c] = timer[c] - 1
  <2>1. /\ left[c] \in Nat /\ elapsed[c] \in Nat /\ timer[c] \in Nat /\ since[c] \in Nat
        /\ left[c] + elapsed[c] = Deadline
    BY <1>a DEF TransportTypeOK, TimeAddsUp
  <2>2. CASE Active(c)
    <3>1. left[c] # 0 /\ (phase[c] = "backoff" => timer[c] # 0)
      BY <2>2 DEF Tick, Due
    <3>2. left'[c] = left[c] - 1 /\ elapsed'[c] = elapsed[c] + 1
      BY <2>1, <2>2 DEF Tick, Advance
    <3>3. phase[c] = "backoff" => since'[c] = since[c] + 1 /\ timer'[c] = timer[c] - 1
      BY <1>a, <2>1, <2>2, <3>1 DEF Tick, PauseIsDue
    <3>4. timer'[c] \in Nat /\ since'[c] \in Nat
      BY <2>1 DEF Tick
    <3> QED
      BY <2>1, <3>1, <3>2, <3>3, <3>4, ChatAssumption
  <2>3. CASE ~Active(c)
    BY <2>1, <2>3 DEF Tick, Advance, Active
  <2> QED
    BY <2>2, <2>3
<1>3. /\ left' \in [Callers -> Nat] /\ elapsed' \in [Callers -> Nat]
      /\ timer' \in [Callers -> Nat] /\ since' \in [Callers -> Nat]
  BY <1>2 DEF Tick, Advance
<1>4. TransportTypeOK'
  BY <1>a, <1>1, <1>3 DEF TransportTypeOK
<1>5. PauseIsDue'
  BY <1>a, <1>1, <1>2, ChatAssumption DEF PauseIsDue, TransportTypeOK, Outcome
<1> QED
  BY <1>2, <1>4, <1>5 DEF TransportInv, TimeAddsUp

\* Every step keeps the invariant.
LEMMA NextTransport == TransportInv /\ [TransportNext]_transportVars => TransportInv'
<1> SUFFICES ASSUME TransportInv, [TransportNext]_transportVars PROVE TransportInv'
  OBVIOUS
<1>a. TransportTypeOK /\ TimeAddsUp /\ PauseIsDue
  BY DEF TransportInv
\* An operation that does not pause has a new phase and a new timer.
<1>1. ASSUME NEW c \in Callers,
             NEW p \in {"queueing", "posting"} \union Over, NEW t \in Nat,
             Enter(c, p), SetTimer(c, t), UNCHANGED <<left, first, since, elapsed>>,
             attempt' \in [Callers -> {0, 1}],
             \A d \in Callers \ {c} : attempt'[d] = attempt[d]
      PROVE  TransportInv'
  <2>1. TransportTypeOK' /\ TimeAddsUp'
    BY <1>1, <1>a DEF Enter, SetTimer, TransportTypeOK, TimeAddsUp, Over
  <2>2. PauseIsDue'
    BY <1>1, <1>a DEF Enter, SetTimer, TransportTypeOK, PauseIsDue, Over
  <2> QED
    BY <2>1, <2>2 DEF TransportInv
<1>2. ASSUME NEW c \in Callers, Complete(c) \/ Connect(c) \/ Expire(c) \/ Cancel(c)
      PROVE  TransportInv'
  BY <1>1, <1>2, <1>a, ChatAssumption DEF Complete, Connect, Expire, Cancel, TransportTypeOK, Over
<1>3. ASSUME NEW c \in Callers, Resume(c)
      PROVE  TransportInv'
  BY <1>1, <1>3, <1>a, ChatAssumption DEF Resume, TimeoutRunsOn, TransportTypeOK
<1>4. ASSUME NEW c \in Callers, Respond(c)
      PROVE  TransportInv'
  <2>1. PICK o \in Outcomes : Settle(c, o)
    BY <1>4 DEF Respond
  <2> QED
    BY <1>4, <2>1, AvailabilityRejectsNothing, SettleKeeps DEF Respond, Active
<1>5. ASSUME NEW c \in Callers, NoResponse(c)
      PROVE  TransportInv'
  <2>1. \A v \in {"availability", "rejected"} :
          [Nothing EXCEPT !.verdict = v] \in Outcome /\ ~[Nothing EXCEPT !.verdict = v].rejects
    BY DEF Nothing, Outcome
  <2>2. Nothing \in Outcome /\ ~Nothing.rejects
    BY DEF Nothing, Outcome
  <2> QED
    BY <1>5, <2>1, <2>2, SettleKeeps DEF NoResponse, Active
<1>6. CASE UNCHANGED transportVars
  BY <1>6, <1>a DEF transportVars, TransportInv, TransportTypeOK, TimeAddsUp, PauseIsDue
<1> QED
  BY <1>2, <1>3, <1>4, <1>5, <1>6, TickKeeps DEF TransportNext, Finished

-----------------------------------------------------------------------------
(* Theorems. *)

\* The invariant holds in every reachable state.
LEMMA TransportInvariant == TransportSpec => []TransportInv
  BY InitTransport, NextTransport, PTL DEF TransportSpec

\* No operation takes longer than its deadline, however many share however few connections
\* and however long the answers ask it to wait.
THEOREM DeadlineHolds == TransportSpec => []WithinDeadline
<1>1. TransportInv => WithinDeadline
  BY ChatAssumption DEF TransportInv, TransportTypeOK, TimeAddsUp, WithinDeadline
<1> QED
  BY <1>1, TransportInvariant, PTL

\* A second request follows no rejection, and comes no earlier than it was asked to.
THEOREM FallbackWaits == TransportSpec => FallbackIsDue
<1> DEFINE Due2 ==
      \A c \in Callers : attempt'[c] > attempt[c] =>
        /\ ~first[c].rejects
        /\ first[c].after # None => since[c] >= first[c].after
<1>1. ASSUME TransportInv, [TransportNext]_transportVars
      PROVE  Due2
  <2>a. TransportTypeOK /\ PauseIsDue
    BY <1>1 DEF TransportInv
  <2>1. ASSUME NEW c \in Callers, Resume(c)
        PROVE  Due2
    <3>1. phase[c] = "backoff" /\ timer[c] = 0 /\ attempt' = [attempt EXCEPT ![c] = 1]
      BY <2>1 DEF Resume
    <3>2. ~first[c].rejects /\ (first[c].after # None => since[c] >= first[c].after)
      BY <2>a, <3>1 DEF PauseIsDue, TransportTypeOK
    <3>3. \A d \in Callers \ {c} : attempt'[d] = attempt[d] /\ attempt[d] \in {0, 1}
      BY <2>a, <3>1 DEF TransportTypeOK
    <3> QED
      BY <3>2, <3>3
  <2>2. CASE UNCHANGED attempt
    BY <2>2, <2>a DEF TransportTypeOK
  <2> QED
    BY <1>1, <2>1, <2>2
    DEF TransportNext, transportVars, Complete, Connect, Respond, NoResponse, Settle, Expire, Cancel, Tick, Finished
<1>2. TransportInv /\ [TransportNext]_transportVars => [Due2]_transportVars
  BY <1>1
<1> QED
  BY <1>2, TransportInvariant, PTL DEF TransportSpec, FallbackIsDue
=============================================================================
