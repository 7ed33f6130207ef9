----------------------------- MODULE ChatTransport -----------------------------
(***************************************************************************)
(* ChatCompletionTransport: operations on a model behind HTTP, each at     *)
(* most two requests under one deadline, over a pool of connections that   *)
(* all operations of the process share.  A response is classified by what  *)
(* it says at any of its places.  A tick of time waits until whoever is    *)
(* due has acted: the event loop is not blocked for as long as a tick.     *)
(***************************************************************************)
EXTENDS Integers, FiniteSets

CONSTANTS
  Callers,
  Connections,  \* size of the pool (20)
  Deadline,     \* of an operation (45 s)
  PoolWait,     \* how long a request waits for a connection (2 s)
  MaxWait,      \* the longest Retry-After that is honoured (2 s)
  Waits,        \* the values of Retry-After explored
  None

ASSUME ChatAssumption ==
  /\ Connections \in Nat \ {0} /\ Deadline \in Nat \ {0} /\ PoolWait \in Nat /\ MaxWait \in Nat
  /\ Waits \subseteq Nat /\ None \notin Waits

VARIABLES
  phase,    \* where each operation is
  attempt,  \* its request, 0 or 1
  left,     \* what is left of the timeout around it
  timer,    \* the pool's or the back-off's, while it waits for either
  first,    \* what the first request came to: [verdict, rejects, after]
  since,    \* the time since then
  elapsed   \* the time since the operation began

transportVars == <<phase, attempt, left, timer, first, since, elapsed>>

Over == {"returned", "raised", "cancelled"}
Nothing == [verdict |-> "availability", rejects |-> FALSE, after |-> None]

-----------------------------------------------------------------------------
(* Responses: the status, an error at the top, and the choices, each with   *)
(* an error or a refusal; "fits" is content that the schema accepts.  An    *)
(* error is "busy" if its code is 429 or 5xx.                               *)

Error == {"none", "busy", "other"}
Choice == [error : Error, refusal : BOOLEAN]
Response == [status : {"ok", "busy", "refused"}, top : Error,
             choices : {s \in SUBSET Choice : Cardinality(s) <= 2},
             fits : BOOLEAN, after : Waits \union {None}]

Rejecting(c) == c.refusal \/ c.error = "other"

\* The checks of _attempt in their order; a Retry-After goes with errors at the top and
\* with the status, not with the error of a choice.
ClassifyStatusFirst(r) ==
  CASE r.status = "refused" -> "rejected"
    [] r.status = "busy" -> "availability"
    [] r.top # "none" -> IF r.top = "busy" THEN "availability" ELSE "rejected"
    [] \E c \in r.choices : Rejecting(c) -> "rejected"
    [] OTHER -> IF Cardinality(r.choices) = 1 /\ r.fits THEN "result" ELSE "malformed"

Classify(r) ==
  IF r.status = "refused" \/ (\E c \in r.choices : Rejecting(c)) THEN "rejected"
  ELSE IF r.top # "none" THEN IF r.top = "busy" THEN "availability" ELSE "rejected"
  ELSE IF r.status = "busy" THEN "availability"
  ELSE IF Cardinality(r.choices) # 1 THEN "malformed"
  ELSE IF \E c \in r.choices : c.error = "busy" THEN "availability"
  ELSE IF r.fits THEN "result" ELSE "malformed"

RetryAfter(r) == IF r.status = "busy" \/ r.top # "none" THEN r.after ELSE None

\* What is remembered of a response; "rejects" is whether it says no anywhere.
Outcomes ==
  {[verdict |-> Classify(r), after |-> RetryAfter(r),
    rejects |-> r.status = "refused" \/ r.top = "other" \/ \E c \in r.choices : Rejecting(c)]
     : r \in Response}

-----------------------------------------------------------------------------

TransportInit ==
  /\ phase = [c \in Callers |-> "idle"] /\ attempt = [c \in Callers |-> 0]
  /\ left = [c \in Callers |-> Deadline] /\ timer = [c \in Callers |-> 0]
  /\ first = [c \in Callers |-> Nothing]
  /\ since = [c \in Callers |-> 0] /\ elapsed = [c \in Callers |-> 0]

Active(c) == phase[c] \in {"queueing", "posting", "backoff"}
Enter(c, p) == phase' = [phase EXCEPT ![c] = p]
SetTimer(c, t) == timer' = [timer EXCEPT ![c] = t]
Busy == Cardinality({c \in Callers : phase[c] = "posting"})

Complete(c) ==
  /\ phase[c] = "idle" /\ Enter(c, "queueing") /\ SetTimer(c, PoolWait)
  /\ UNCHANGED <<attempt, left, first, since, elapsed>>

Connect(c) ==
  /\ phase[c] = "queueing" /\ Busy < Connections /\ left[c] > 0
  /\ Enter(c, "posting") /\ SetTimer(c, 0)
  /\ UNCHANGED <<attempt, left, first, since, elapsed>>

\* The second attempt ends the operation; the first may be repeated, after a wait.
BackOff(c, o) ==
  LET wait == IF o.after = None THEN 0 ELSE o.after  \* a quarter of a second, or as asked
  IN IF attempt[c] = 1 \/ wait > MaxWait
     THEN Enter(c, "raised") /\ SetTimer(c, 0) /\ UNCHANGED <<first, since>>
     ELSE /\ Enter(c, "backoff") /\ SetTimer(c, wait)
          /\ first' = [first EXCEPT ![c] = o] /\ since' = [since EXCEPT ![c] = 0]

Settle(c, o) ==
  /\ UNCHANGED <<attempt, left, elapsed>>
  /\ CASE o.verdict = "availability" -> BackOff(c, o)
       [] o.verdict = "result" ->
            Enter(c, "returned") /\ SetTimer(c, 0) /\ UNCHANGED <<first, since>>
       [] OTHER -> Enter(c, "raised") /\ SetTimer(c, 0) /\ UNCHANGED <<first, since>>

Respond(c) == phase[c] = "posting" /\ left[c] > 0 /\ \E o \in Outcomes : Settle(c, o)

\* A broken connection, or a timeout of httpx: while reading, or while waiting for the pool;
\* what else goes wrong with a request counts as a rejection.
NoResponse(c) ==
  /\ left[c] > 0
  /\ \/ phase[c] = "posting"
        /\ \E v \in {"availability", "rejected"} : Settle(c, [Nothing EXCEPT !.verdict = v])
     \/ phase[c] = "queueing" /\ timer[c] = 0 /\ Settle(c, Nothing)

TimeoutAgain(c) == left' = [left EXCEPT ![c] = Deadline]
TimeoutRunsOn(c) == UNCHANGED left
Resume(c) ==
  /\ phase[c] = "backoff" /\ timer[c] = 0 /\ left[c] > 0
  /\ Enter(c, "queueing") /\ SetTimer(c, PoolWait)
  /\ attempt' = [attempt EXCEPT ![c] = 1]
  /\ TimeoutRunsOn(c) /\ UNCHANGED <<first, since, elapsed>>

\* The timeout around the operation, or the caller's own cancellation; the connection is
\* closed and a late response is not read.
Expire(c) ==
  /\ Active(c) /\ left[c] = 0 /\ Enter(c, "raised") /\ SetTimer(c, 0)
  /\ UNCHANGED <<attempt, left, first, since, elapsed>>

Cancel(c) ==
  /\ Active(c) /\ Enter(c, "cancelled") /\ SetTimer(c, 0)
  /\ UNCHANGED <<attempt, left, first, since, elapsed>>

Due(c) ==
  Active(c) /\ (left[c] = 0 \/ (timer[c] = 0 /\ phase[c] \in {"queueing", "backoff"}))

Advance(f, d) == [c \in Callers |-> IF Active(c) THEN f[c] + d ELSE f[c]]

Tick ==
  /\ \E c \in Callers : Active(c)
  /\ \A c \in Callers : ~Due(c)
  /\ left' = Advance(left, -1) /\ elapsed' = Advance(elapsed, 1)
  /\ since' = [c \in Callers |-> IF Active(c) /\ attempt[c] = 0 /\ phase[c] = "backoff"
                                 THEN since[c] + 1 ELSE since[c]]
  /\ timer' = [c \in Callers |-> IF timer[c] > 0 THEN timer[c] - 1 ELSE 0]
  /\ UNCHANGED <<phase, attempt, first>>

Finished == (\A c \in Callers : phase[c] \in Over) /\ UNCHANGED transportVars

TransportNext ==
  \/ \E c \in Callers :
       \/ Complete(c) \/ Connect(c) \/ Respond(c) \/ NoResponse(c) \/ Resume(c)
       \/ Expire(c) \/ Cancel(c)
  \/ Tick
  \/ Finished

TransportSpec == TransportInit /\ [][TransportNext]_transportVars

-----------------------------------------------------------------------------
(* Waits for the pool, both requests and the pause between them share the   *)
(* deadline: no operation takes longer, however the others use the pool.    *)
WithinDeadline == \A c \in Callers : elapsed[c] <= Deadline

(* A second request, which may go to another model, is sent only after an   *)
(* answer that says nothing of a rejection at any place, and not before the *)
(* time its Retry-After asks for.                                           *)
FallbackIsDue ==
  [][\A c \in Callers : attempt'[c] > attempt[c] =>
       /\ ~first[c].rejects
       /\ first[c].after # None => since[c] >= first[c].after]_transportVars
=============================================================================
