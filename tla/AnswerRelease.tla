----------------------------- MODULE AnswerRelease -----------------------------
(***************************************************************************)
(* One question to the assistant: the work of AssistantService and         *)
(* RetrievalService, and the event stream that sends its answer in parts.  *)
(* Between any two steps other requests publish and withdraw policies and  *)
(* change the profile of the one who asks; a step reads the store and the  *)
(* profile after its last await, as the code does.                         *)
(*                                                                         *)
(* A chunk stands for one section of a policy version with its citation;   *)
(* the words of questions and answers are abstracted, and what depends on  *)
(* them (the plan, the ranking, the gate, the model, the verifier) may go  *)
(* any way.                                                                *)
(***************************************************************************)
EXTENDS Integers, FiniteSets

CONSTANTS
  Chunks,
  Deltas,      \* 160-character slices of an answer
  MaxChanges   \* bound on the changes by others

ASSUME ReleaseAssumption == Deltas \in Nat /\ MaxChanges \in Nat

VARIABLES
  live,     \* the chunks of active versions, as the store has them
  member,   \* whether the profile of the asker is active
  scope,    \* the chunks that profile may read
  changes,
  streamed, \* the question came to /answer/events rather than /answer
  asked,    \* the scope in the profile the request was accepted with
  stage,    \* of the work
  pool,     \* the chunks in hand: eligible, then found, then the context
  options,  \* the sections of an overview
  tries,    \* drafts so far
  basis,    \* what the answer rests on
  checked,  \* the scope in the profile that a release check has read
  sender,   \* of the event stream
  parts,    \* answer_start, the deltas and the sources that are out
  ended,    \* how the response ended: "gone" is a client that went away
  late      \* how many parts went out since the profile stopped allowing them

store == <<live, member, scope, changes>>
work == <<pool, options, tries, basis>>
response == <<parts, ended, late>>
vars == <<store, streamed, asked, stage, work, checked, sender, response>>

Parts == Deltas + 2

Init ==
  /\ live \in SUBSET Chunks /\ member = TRUE /\ scope \in SUBSET Chunks /\ changes = 0
  /\ streamed \in BOOLEAN /\ asked = scope
  /\ stage = "plan" /\ pool = {} /\ options = {} /\ tries = 0 /\ basis = "open" /\ checked = {}
  /\ sender = (IF streamed THEN "waiting" ELSE "closed")
  /\ parts = 0 /\ ended = "no" /\ late = 0

-----------------------------------------------------------------------------
(* The others. *)

Allowed(m, s) == m /\ pool \union options \subseteq s

Change(l, m, s) ==
  /\ changes < MaxChanges /\ changes' = changes + 1
  /\ live' = l /\ member' = m /\ scope' = s
  /\ late' = (IF Allowed(m, s) THEN 0 ELSE late)
  /\ UNCHANGED <<streamed, asked, stage, work, checked, sender, parts, ended>>

Publish(c) == Change(live \union {c}, member, scope)
Withdraw(c) == Change(live \ {c}, member, scope)
Disable == Change(live, FALSE, scope)
Reactivate == Change(live, TRUE, scope)
Rescope(s) == Change(live, member, s)

-----------------------------------------------------------------------------
(* The work: answer_with_context. *)

Readable == live \intersect asked

Working(s) == stage = s /\ UNCHANGED <<store, streamed, asked, sender>>
Go(s) == stage' = s /\ UNCHANGED response
Keep(vs) == UNCHANGED <<vs, checked>>

\* work of the event stream puts its result in the queue; /answer returns it: a canned
\* answer at once, without a release check.
Canned ==
  /\ stage' = "settled" /\ basis' = "canned" /\ pool' = {} /\ options' = {}
  /\ IF streamed THEN UNCHANGED response
     ELSE parts' = Parts /\ ended' = "done" /\ late' = late
  /\ UNCHANGED <<tries, checked>>

\* VerificationError, LLMUnavailableError or any other exception.
Fail ==
  /\ stage' = "failed"
  /\ IF streamed THEN UNCHANGED response ELSE ended' = "error" /\ UNCHANGED <<parts, late>>
  /\ UNCHANGED <<work, checked>>

\* build_query_plan: small talk, out of scope or unclear without its context.
Plan == Working("plan") /\ (Canned \/ (Go("search") /\ Keep(work)))

\* retrieve: the eligible chunks are known before the search.
Search ==
  /\ Working("search")
  /\ pool' = Readable /\ Go("ranking") /\ Keep(<<options, tries, basis>>)

\* Only what is still readable after the search is found; the search may fail.
Ranked(found) == found \in SUBSET (pool \intersect Readable)

Rank ==
  /\ Working("ranking")
  /\ \/ Fail
     \/ Canned
     \/ \E found \in SUBSET Chunks :
          /\ Ranked(found) /\ found # {}
          /\ pool' = found /\ Go("reading") /\ Keep(<<options, tries, basis>>)

\* assistant_context
ReadContext ==
  /\ Working("reading")
  /\ LET context == pool \intersect Readable
     IN IF context = {} THEN Canned
        ELSE pool' = context /\ Go("rereading") /\ Keep(<<options, tries, basis>>)

\* _build_sections_overview: the sections of readable policies, or None.
Overview(s) ==
  /\ s \subseteq Readable /\ s # {}
  /\ options' = s /\ basis' = "sections" /\ Go("member") /\ Keep(<<pool, tries>>)

\* revalidate_evidence; then, if the question is broad, an overview.
Reread ==
  /\ Working("rereading")
  /\ IF pool \subseteq Readable
     THEN (Go("gate") /\ Keep(work)) \/ \E s \in SUBSET Chunks : Overview(s)
     ELSE Canned

Gate ==
  /\ Working("gate")
  /\ Fail \/ Canned \/ (Go("generate") /\ Keep(work))

\* Another draft with feedback, once; then an overview, or no answer.
Again == basis' = "open" /\ Go("generate") /\ Keep(<<pool, options, tries>>)
RetryOrShow == IF tries = 1 THEN Again ELSE Go("member") /\ Keep(work)
Retry ==
  IF tries = 1 THEN Again ELSE Fail \/ \E s \in SUBSET Chunks : Overview(s)

\* The first draft may be malformed too.
Generate ==
  /\ Working("generate")
  /\ \/ Fail
     \/ Canned
     \/ tries = 0 /\ tries' = 1 /\ UNCHANGED <<stage, response>> /\ Keep(<<pool, options, basis>>)
     \/ tries' = tries + 1 /\ basis' = "draft" /\ Go("verify") /\ Keep(<<pool, options>>)

\* The citations and the words of a draft are checked, then a model is asked about its claims.
Release == basis' = "verified" /\ Go("member") /\ Keep(<<pool, options, tries>>)
Verify == Working("verify") /\ (Release \/ Fail \/ Retry)

-----------------------------------------------------------------------------
(* assert_release_authorized: the profile is read from Mongo, then, after   *)
(* another await, the store decides about the evidence and the sections.    *)

MemberRead == member /\ checked' = scope
Released == pool \union options \subseteq live \intersect checked

CheckMember ==
  /\ Working("member")
  /\ IF member THEN MemberRead /\ Go("evidence") /\ UNCHANGED work ELSE Fail

Counted == late' = IF Allowed(member, scope) THEN 0 ELSE late + 1

CheckEvidence ==
  /\ Working("evidence") /\ checked' = checked
  /\ IF ~Released
     THEN /\ stage' = "failed" /\ UNCHANGED work
          /\ IF streamed THEN UNCHANGED response ELSE ended' = "error" /\ UNCHANGED <<parts, late>>
     ELSE /\ stage' = "settled" /\ UNCHANGED work
          /\ IF streamed THEN UNCHANGED response
             ELSE parts' = Parts /\ ended' = "done" /\ Counted

-----------------------------------------------------------------------------
(* The event stream: every part is sent right after a check of its own. *)

Sending(s) == sender = s /\ UNCHANGED <<store, streamed, asked, work>>

\* "done" follows the sources in the same step.
AfterPartOnce == "evidence"
AfterPart == "member"

StreamError == ended' = "error" /\ sender' = "closed" /\ UNCHANGED <<parts, late>>

TakeAnswer ==
  Sending("waiting") /\ stage = "settled" /\ sender' = "member" /\ UNCHANGED <<stage, checked, response>>
TakeResult ==
  /\ Sending("waiting") /\ UNCHANGED <<stage, checked>>
  /\ \/ stage = "settled" /\ sender' = "member" /\ UNCHANGED response
     \/ stage = "failed" /\ StreamError

SendMember ==
  /\ Sending("member") /\ UNCHANGED stage
  /\ IF member THEN MemberRead /\ sender' = "evidence" /\ UNCHANGED response
     ELSE StreamError /\ UNCHANGED checked

SendPart ==
  /\ Sending("evidence") /\ UNCHANGED <<stage, checked>>
  /\ IF ~Released THEN StreamError
     ELSE /\ parts' = parts + 1 /\ Counted
          /\ IF parts' = Parts THEN ended' = "done" /\ sender' = "closed"
             ELSE ended' = "no" /\ sender' = AfterPart

\* The client goes away: the stream ends and cancels the work.
Disconnect ==
  /\ streamed /\ sender # "closed"
  /\ sender' = "closed" /\ ended' = "gone"
  /\ stage' = IF stage = "settled" THEN "settled" ELSE "failed"
  /\ UNCHANGED <<store, streamed, asked, work, checked, parts, late>>

Others ==
  \/ \E c \in Chunks : Publish(c) \/ Withdraw(c)
  \/ Disable \/ Reactivate \/ \E s \in SUBSET Chunks : Rescope(s)

Work == \/ Plan \/ Search \/ Rank \/ ReadContext \/ Reread \/ Gate \/ Generate \/ Verify
        \/ CheckMember \/ CheckEvidence
Send == TakeResult \/ SendMember \/ SendPart

Next == Others \/ Work \/ Send \/ Disconnect

Spec == Init /\ [][Next]_vars

\* Tasks that can go on do: every call to a model has a deadline (ChatTransport), and the
\* others to Mongo and to the search end.
FairSpec == Spec /\ WF_vars(Work) /\ WF_vars(Send)

-----------------------------------------------------------------------------
(* A profile that is disabled or re-scoped while an answer is being sent is *)
(* noticed: at most one part goes out late, the one whose check had already *)
(* read the profile, whatever else is changed, withdrawn or given back.     *)
LateIsBounded == late <= 1

(* Every question is answered or refused, whatever the models answer and    *)
(* whoever changes what meanwhile; work does not outlive its client.        *)
EveryQuestionEnds == <>(ended # "no" /\ stage \in {"settled", "failed"} /\ sender = "closed")

(* The detailed release is one that AnswerPromise allows: no part of a      *)
(* draft that was not verified, none after an error, "done" when all is out.*)
Promise == INSTANCE AnswerPromise WITH
  basis <- IF basis = "draft" THEN "open" ELSE basis,
  released <- parts,
  ended <- IF ended = "gone" THEN "error" ELSE ended
ImplementsAnswerPromise == Promise!Spec
=============================================================================
