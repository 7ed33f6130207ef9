-------------------------- MODULE PolicyPurgeProofs ---------------------------
(***************************************************************************)
(* Proofs about PolicyPurge that hold for any records of a policy and any  *)
(* links between them, for any workers, failures and crashes.              *)
(***************************************************************************)
EXTENDS PolicyPurge, TLAPS

-----------------------------------------------------------------------------
(* The inductive invariant. *)

\* What the policy's own rows lead to: a manifest has at least these identifiers.
Owned == Identifiers[Core][{}]

\* Until a purge begins Mongo and every cache have the policy's own rows; and a worker that
\* has a mutation waiting has them in its cache, so that an eviction takes the mutation too.
RowsStay ==
  /\ ~Begun => Core \subseteq mongo
  /\ \A w \in Workers : ~Begun \/ marked[w] # {} => Core \subseteq cache[w]

\* A purge request has a worker and a manifest with the whole graph, and its last steps come
\* after the stages before.
PurgeFits ==
  /\ purge.step # "idle" => purge.worker \in Workers /\ manifest # None
  /\ manifest # None => Owned \subseteq manifest.graph
  /\ purge.step \in {"r2", "mongo", "verify", "tombstone", "finish"} =>
       "pinecone" \in manifest.done
  /\ purge.step = "finish" => tombstone

\* Vectors that Pinecone does not list have been hidden in every inventory so far.
Hidden == listed = {} /\ vectors # {}
HiddenWhileStale ==
  Hidden =>
    /\ purge.step = "inventory" => stale >= 1 + purge.empty
    /\ manifest # None => ("pinecone" \in manifest.done => stale >= 3)

\* What a search has seen of a purge when it has read the manifests, and after.
ReadersFit ==
  \A w \in Workers :
    /\ reader[w].step = "tombstones" =>
         /\ reader[w].seen => Begun
         /\ reader[w].begun => reader[w].seen \/ tombstone
    /\ reader[w].step = "answered" /\ reader[w].begun => reader[w].found = {}

\* Nothing is left once the verification has passed.
Empty == mongo = {} /\ objects = {} /\ vectors = {}
VerifiedIsEmpty == purge.step = "tombstone" \/ tombstone => Empty

PurgeInv == PurgeTypeOK /\ RowsStay /\ PurgeFits /\ HiddenWhileStale /\ ReadersFit

-----------------------------------------------------------------------------
(* The graph of a policy. *)

\* discover returns the least set of identifiers that its rows do not extend.
LEMMA IdentifiersAreClosed ==
  ASSUME NEW rows \in SUBSET Records, NEW known \in SUBSET Records
  PROVE  /\ Identifiers[rows][known] \subseteq Records
         /\ known \union {Policy} \subseteq Identifiers[rows][known]
         /\ Closed(rows, Identifiers[rows][known])
<1> DEFINE closed == {ids \in SUBSET Records :
                        known \union {Policy} \subseteq ids /\ Closed(rows, ids)}
           least == {i \in Records : \A ids \in closed : i \in ids}
<1>1. Identifiers[rows][known] = least
  BY DEF Identifiers
<1>2. known \union {Policy} \subseteq least
  BY RecordsAssumption
<1>3. ASSUME NEW r \in rows \intersect Core, References(r, least)
      PROVE  {r} \union Links[r] \subseteq least
  <2>1. PICK i \in {r} \union Links[r] : i \in least
    BY <1>3 DEF References
  <2>2. \A ids \in closed : {r} \union Links[r] \subseteq ids
    BY <2>1 DEF Closed, References
  <2>3. {r} \union Links[r] \subseteq Records
    BY RecordsAssumption
  <2> QED
    BY <2>2, <2>3
<1> QED
  BY <1>1, <1>2, <1>3 DEF Closed

\* More rows lead to more.
LEMMA IdentifiersGrow ==
  ASSUME NEW rows \in SUBSET Records, NEW more \in SUBSET Records, rows \subseteq more
  PROVE  Identifiers[rows][{}] \subseteq Identifiers[more][{}]
<1>1. \A ids \in SUBSET Records : Closed(more, ids) => Closed(rows, ids)
  BY DEF Closed
<1> QED
  BY <1>1 DEF Identifiers

\* The policy's own rows are among what they lead to.
LEMMA OwnedHasCore ==
  /\ Owned \subseteq Records /\ Core \subseteq Owned
  /\ \A r \in Records : References(r, Owned)
<1>1. Core \in SUBSET Records /\ {} \in SUBSET Records
  BY RecordsAssumption
<1>2. Owned \subseteq Records /\ Closed(Core, Owned)
  BY <1>1, IdentifiersAreClosed DEF Owned
<1>3. \A r \in Records : References(r, Owned)
  BY OwnershipAssumption DEF Owned
<1>4. Core \subseteq Owned
  BY <1>1, <1>2, <1>3 DEF Closed
<1> QED
  BY <1>2, <1>3, <1>4

\* An eviction takes the policy and its chunks from any cache, even from one that was loaded
\* while a purge had deleted half of the rows.
LEMMA EvictionTakesChunks ==
  ASSUME PurgeTypeOK, NEW w \in Workers
  PROVE  /\ Kept(w) \subseteq cache[w] /\ Kept(w) \subseteq Records
         /\ MarksKept(w) \subseteq marked[w] /\ MarksKept(w) \subseteq Records
         /\ Policy \notin Kept(w) /\ Kept(w) \intersect Chunks = {}
<1>1. cache[w] \subseteq Records /\ marked[w] \subseteq Records /\ {} \in SUBSET Records
  BY DEF PurgeTypeOK
<1>2. Policy \in Identifiers[cache[w]][{}]
  BY <1>1, IdentifiersAreClosed
<1>3. References(Policy, Identifiers[cache[w]][{}])
  BY <1>2 DEF References
<1>4. \A c \in Chunks : References(c, Identifiers[cache[w]][{}])
  BY <1>2, RecordsAssumption DEF References
<1> QED
  BY <1>1, <1>3, <1>4 DEF Kept, MarksKept, Discover

\* From a cache with the policy's own rows it takes everything.
LEMMA EvictionTakesAll ==
  ASSUME PurgeTypeOK, NEW w \in Workers, Core \subseteq cache[w]
  PROVE  Kept(w) = {} /\ MarksKept(w) = {}
<1>1. /\ cache[w] \in SUBSET Records /\ marked[w] \in SUBSET Records /\ Core \in SUBSET Records
  BY RecordsAssumption DEF PurgeTypeOK
<1>2. Owned \subseteq Identifiers[cache[w]][{}]
  BY <1>1, IdentifiersGrow DEF Owned
<1>3. \A r \in Records : References(r, Identifiers[cache[w]][{}])
  BY <1>2, OwnedHasCore DEF References
<1> QED
  BY <1>1, <1>3 DEF Kept, MarksKept, Discover

-----------------------------------------------------------------------------
(* The steps. *)

Searches(w) == BeginSearch(w) \/ ReadManifests(w) \/ ReadTombstones(w) \/ SearchReturns(w) \/ Answered(w)
Writes(w) == \E r \in Records \ Core : Write(w, {r})

LEMMA PurgeNextSteps ==
  ASSUME [Next]_vars
  PROVE  \/ PurgeSteps \/ Fails
         \/ \E w \in Workers : BeginPurge(w) \/ Crash(w) \/ Writes(w) \/ Searches(w)
         \/ UNCHANGED vars
BY DEF Next, Searches, Writes

Purge == [step : PurgeStep, worker : Workers \union {None}, polls : 0 .. Polls, empty : 0 .. 1]

\* What a step of the request keeps of it.
LEMMA StepMoves ==
  ASSUME PurgeTypeOK, NEW step \in PurgeStep, Step(step)
  PROVE  /\ purge' \in Purge /\ purge'.step = step /\ purge'.worker = purge.worker
         /\ purge'.polls = purge.polls /\ purge'.empty = purge.empty
BY DEF PurgeTypeOK, Step, Purge

LEMMA PollsMove ==
  ASSUME PurgeTypeOK, NEW step \in PurgeStep, NEW polls \in 0 .. Polls, NEW empty \in 0 .. 1,
         purge' = [purge EXCEPT !.step = step, !.polls = polls, !.empty = empty]
  PROVE  /\ purge' \in Purge /\ purge'.step = step /\ purge'.worker = purge.worker
         /\ purge'.polls = polls /\ purge'.empty = empty
<1>1. purge \in Purge
  BY DEF PurgeTypeOK, Purge
<1>2. /\ purge'.step = step /\ purge'.worker = purge.worker
      /\ purge'.polls = polls /\ purge'.empty = empty
  BY <1>1 DEF Purge
<1>3. purge' = [step |-> step, worker |-> purge.worker, polls |-> polls, empty |-> empty]
  BY <1>1 DEF Purge
<1>4. purge.worker \in Workers \union {None}
  BY <1>1 DEF Purge
<1>5. purge' \in Purge
  BY <1>3, <1>4 DEF Purge
<1> QED
  BY <1>2, <1>5

LEMMA StopsMoves ==
  ASSUME Stops
  PROVE  purge' \in Purge /\ purge'.step = "idle"
BY RecordsAssumption DEF Stops, NoPurge, Purge, PurgeStep

\* The steps of the request: its manifest keeps its graph until it is removed, nothing is
\* added to what the services hold, and an inventory shows more or is one more that does not.
LEMMA PurgeStepsFit ==
  ASSUME PurgeTypeOK, PurgeFits, PurgeSteps
  PROVE  /\ purge' \in Purge /\ purge.step # "idle"
         /\ mongo' \subseteq mongo /\ objects' \subseteq objects /\ vectors' \subseteq vectors
         /\ UNCHANGED <<reader, faults>>
         /\ \/ Inventory
            \/ UNCHANGED <<listed, stale>>
         /\ \/ UNCHANGED <<cache, marked>>
            \/ purge.worker \in Workers /\ Evict(purge.worker)
         /\ \/ UNCHANGED manifest
            \/ manifest' \in Manifest /\ manifest'.graph = manifest.graph
            \/ manifest' = None /\ purge.step = "finish"
         /\ \/ UNCHANGED tombstone
            \/ tombstone' = TRUE /\ purge.step = "tombstone"
<1>a. /\ purge \in Purge /\ manifest \in Manifest \union {None} /\ listed \subseteq Chunks
      /\ Polls \in Nat /\ MaxStale \in Nat
  BY RecordsAssumption DEF PurgeTypeOK, Purge
<1>b. purge.step # "idle" => manifest \in Manifest /\ purge.worker \in Workers
  BY <1>a DEF PurgeFits
<1>1. CASE SyncOwnCache
  BY <1>1, <1>b, StepMoves DEF SyncOwnCache, PurgeStep, services, journal
<1>2. CASE SkipStage
  BY <1>2, StepMoves DEF SkipStage, Skip, PurgeStep, services, journal, workers
<1>3. CASE DeleteVectors
  <2>1. purge' \in Purge
    <3> DEFINE zero == 0
    <3>1. zero \in 0 .. Polls /\ zero \in 0 .. 1 /\ "inventory" \in PurgeStep
      BY <1>a DEF PurgeStep
    <3>2. purge' = [purge EXCEPT !.step = "inventory", !.polls = zero, !.empty = zero]
      BY <1>3 DEF DeleteVectors
    <3> HIDE DEF zero
    <3> QED
      BY <3>1, <3>2, PollsMove
  <2> QED
    BY <1>3, <2>1 DEF DeleteVectors, journal, workers
<1>4. CASE Poll
  <2> DEFINE seen == IF listed' = {} THEN purge.empty + 1 ELSE 0
  <2>1. /\ purge.step = "inventory" /\ purge.polls < Polls /\ Inventory
        /\ \/ Done("pinecone") /\ purge' = [purge EXCEPT !.step = "r2", !.empty = 0, !.polls = 0]
           \/ /\ seen # 2 /\ UNCHANGED manifest
              /\ purge' = [purge EXCEPT !.polls = @ + 1, !.empty = seen]
        /\ UNCHANGED <<mongo, objects, vectors, tombstone, workers, faults>>
    BY <1>4 DEF Poll, EnoughEmpty
  <2>2. seen # 2 => seen \in 0 .. 1
    BY <1>a DEF Purge
  <2>3. purge.polls + 1 \in 0 .. Polls
    BY <1>a, <2>1 DEF Purge
  <2>4. purge' \in Purge
    <3> DEFINE next == purge.polls + 1
    <3>1. next \in 0 .. Polls /\ (seen # 2 => seen \in 0 .. 1)
      BY <2>2, <2>3
    <3>2. \/ purge' = [purge EXCEPT !.step = "r2", !.empty = 0, !.polls = 0]
          \/ seen # 2 /\ purge' = [purge EXCEPT !.polls = next, !.empty = seen]
      BY <2>1
    <3> HIDE DEF seen, next
    <3>3. CASE purge' = [purge EXCEPT !.step = "r2", !.empty = 0, !.polls = 0]
      <4> DEFINE zero == 0
      <4>1. zero \in 0 .. Polls /\ zero \in 0 .. 1 /\ "r2" \in PurgeStep
        BY <1>a DEF PurgeStep
      <4>2. purge' = [purge EXCEPT !.step = "r2", !.polls = zero, !.empty = zero]
        BY <3>3
      <4> HIDE DEF zero
      <4> QED
        BY <4>1, <4>2, PollsMove
    <3>4. CASE seen # 2 /\ purge' = [purge EXCEPT !.polls = next, !.empty = seen]
      <4>1. purge' = [purge EXCEPT !.step = purge.step, !.polls = next, !.empty = seen]
        BY <1>a, <3>4 DEF Purge
      <4> QED
        BY <1>a, <3>1, <3>4, <4>1, PollsMove DEF Purge
    <3> QED
      BY <3>2, <3>3, <3>4
  <2>5. \/ UNCHANGED manifest
        \/ manifest' \in Manifest /\ manifest'.graph = manifest.graph
    BY <1>b, <2>1 DEF Done, Manifest, Stages
  <2> QED
    BY <2>1, <2>4, <2>5 DEF workers
<1>5. CASE GivesUp
  BY <1>5, StopsMoves DEF GivesUp, services, journal, workers
<1>6. CASE DeleteObjects
  <2>1. manifest' \in Manifest /\ manifest'.graph = manifest.graph
    BY <1>6, <1>b DEF DeleteObjects, Done, Manifest, Stages
  <2> QED
    BY <1>6, <2>1, StepMoves DEF DeleteObjects, PurgeStep, workers
<1>7. CASE DeleteGraph
  <2>1. manifest' \in Manifest /\ manifest'.graph = manifest.graph
    BY <1>7, <1>b DEF DeleteGraph, Done, Manifest, Stages
  <2> QED
    BY <1>7, <2>1, StepMoves DEF DeleteGraph, PurgeStep, workers
<1>8. CASE Verify
  BY <1>8, StepMoves DEF Verify, PurgeStep, journal, workers
<1>9. CASE VerifyFinds
  <2>1. manifest' \in Manifest /\ manifest'.graph = manifest.graph
    BY <1>9, <1>b DEF VerifyFinds, Manifest
  <2> QED
    BY <1>9, <2>1, StopsMoves DEF VerifyFinds, workers
<1>10. CASE WriteTombstone
  BY <1>10, StepMoves DEF WriteTombstone, PurgeStep, services, workers
<1>11. CASE Finish
  BY <1>11, StopsMoves DEF Finish, services, workers
<1> QED
  BY <1>1, <1>2, <1>3, <1>4, <1>5, <1>6, <1>7, <1>8, <1>9, <1>10, <1>11 DEF PurgeSteps

\* A failure takes away some of what the stage was to take.
LEMMA FailsFit ==
  ASSUME PurgeTypeOK, PurgeFits, Fails
  PROVE  /\ purge' \in Purge /\ purge.step # "idle" /\ purge'.step = "idle"
         /\ mongo' \subseteq mongo /\ objects' \subseteq objects /\ vectors' \subseteq vectors
         /\ UNCHANGED <<listed, stale, manifest, tombstone, cache, marked, reader>>
         /\ faults' \in [failures : 0 .. MaxFailures, crashes : 0 .. MaxCrashes]
<1>a. faults \in [failures : 0 .. MaxFailures, crashes : 0 .. MaxCrashes] /\ MaxFailures \in Nat
  BY RecordsAssumption DEF PurgeTypeOK
<1>1. faults' \in [failures : 0 .. MaxFailures, crashes : 0 .. MaxCrashes]
  <2> DEFINE next == faults.failures + 1
  <2>1. next \in 0 .. MaxFailures /\ faults' = [faults EXCEPT !.failures = next]
    BY <1>a DEF Fails
  <2> HIDE DEF next
  <2> QED
    BY <1>a, <2>1
<1> QED
  BY <1>1, StopsMoves DEF Fails, journal, workers

LEMMA BeginPurgeFits ==
  ASSUME PurgeTypeOK, NEW w \in Workers, BeginPurge(w)
  PROVE  /\ purge' \in Purge /\ purge'.step = "sync" /\ purge'.worker = w
         /\ UNCHANGED <<mongo, objects, vectors, listed, stale, tombstone, cache, marked,
                        reader, faults>>
         /\ manifest' \in Manifest
         /\ \/ UNCHANGED manifest
            \/ /\ ~Begun /\ manifest'.done = {}
               /\ manifest'.graph = Identifiers[mongo][{}]
<1>a. manifest \in Manifest \union {None} /\ mongo \in SUBSET Records /\ {} \in SUBSET Records
  BY DEF PurgeTypeOK
<1>1. Identifiers[mongo][{}] \in SUBSET Records
  BY <1>a, IdentifiersAreClosed
<1>2. purge' = [step |-> "sync", worker |-> w, polls |-> 0, empty |-> 0]
  BY DEF BeginPurge, NoPurge
<1>3. purge' \in Purge /\ purge'.step = "sync" /\ purge'.worker = w
  BY <1>2, RecordsAssumption DEF Purge, PurgeStep
<1>4. /\ manifest' \in Manifest
      /\ \/ UNCHANGED manifest
         \/ /\ ~Begun /\ manifest'.done = {}
            /\ manifest'.graph = Identifiers[mongo][{}]
  <2>1. CASE manifest # None /\ UNCHANGED manifest
    BY <1>a, <2>1
  <2>2. CASE ~Begun /\ manifest' = [graph |-> Identifiers[mongo][{}], done |-> {}]
    BY <1>1, <2>2 DEF Manifest
  <2> QED
    BY <2>1, <2>2 DEF BeginPurge
<1> QED
  BY <1>3, <1>4 DEF BeginPurge, services, workers

LEMMA CrashFits ==
  ASSUME PurgeTypeOK, NEW w \in Workers, Crash(w)
  PROVE  /\ purge' \in Purge /\ (purge' = purge \/ purge'.step = "idle")
         /\ UNCHANGED <<mongo, objects, vectors, listed, stale, manifest, tombstone>>
         /\ cache' = [cache EXCEPT ![w] = mongo] /\ marked' = [marked EXCEPT ![w] = {}]
         /\ reader' \in [Workers -> Reader]
         /\ \A v \in Workers \ {w} : reader'[v] = reader[v]
         /\ reader'[w].step = "manifests"
         /\ faults' \in [failures : 0 .. MaxFailures, crashes : 0 .. MaxCrashes]
<1>a. /\ faults \in [failures : 0 .. MaxFailures, crashes : 0 .. MaxCrashes] /\ MaxCrashes \in Nat
      /\ purge \in Purge /\ reader \in [Workers -> Reader]
  BY RecordsAssumption DEF PurgeTypeOK, Purge
<1>1. faults' \in [failures : 0 .. MaxFailures, crashes : 0 .. MaxCrashes]
  <2> DEFINE next == faults.crashes + 1
  <2>1. next \in 0 .. MaxCrashes /\ faults' = [faults EXCEPT !.crashes = next]
    BY <1>a DEF Crash
  <2> HIDE DEF next
  <2> QED
    BY <1>a, <2>1
<1>2. NoPurge \in Purge /\ NoPurge.step = "idle"
  BY RecordsAssumption DEF NoPurge, Purge, PurgeStep
<1>3. purge' \in Purge /\ (purge' = purge \/ purge'.step = "idle")
  BY <1>a, <1>2 DEF Crash
<1> DEFINE starting == [NoReader EXCEPT !.step = "manifests", !.purpose = "start"]
<1>4. starting \in Reader /\ starting.step = "manifests"
  BY DEF NoReader, Reader
<1>5. reader' = [reader EXCEPT ![w] = starting]
  BY DEF Crash
<1> HIDE DEF starting
<1>6. /\ reader' \in [Workers -> Reader] /\ \A v \in Workers \ {w} : reader'[v] = reader[v]
      /\ reader'[w].step = "manifests"
  BY <1>a, <1>4, <1>5
<1> QED
  BY <1>1, <1>3, <1>6 DEF Crash, services, journal

\* A write changes a policy that is there, and adds only what it changed or had waiting.
LEMMA WritesFit ==
  ASSUME PurgeTypeOK, NEW w \in Workers, Writes(w)
  PROVE  /\ purge.step = "idle"
         /\ UNCHANGED <<objects, vectors, listed, stale, manifest, tombstone, purge, reader>>
         /\ faults' \in [failures : 0 .. MaxFailures, crashes : 0 .. MaxCrashes]
         /\ \E known \in SUBSET Records, dirty \in SUBSET Records :
              /\ cache' = [cache EXCEPT ![w] = known]
              /\ \/ mongo' = mongo \union dirty /\ marked' = [marked EXCEPT ![w] = {}]
                 \/ mongo' = mongo /\ marked' = [marked EXCEPT ![w] = dirty]
              /\ ~Begun => cache[w] \subseteq known
              /\ Begun => known = Kept(w) /\ dirty = MarksKept(w)
<1>a. /\ faults \in [failures : 0 .. MaxFailures, crashes : 0 .. MaxCrashes] /\ MaxFailures \in Nat
      /\ cache[w] \subseteq Records /\ marked[w] \subseteq Records
  BY RecordsAssumption DEF PurgeTypeOK
<1>1. PICK r \in Records \ Core : Write(w, {r})
  BY DEF Writes
<1> DEFINE known == IF Begun THEN Kept(w) ELSE cache[w]
           kept == IF Begun THEN MarksKept(w) ELSE marked[w]
           dirty == IF Policy \in known THEN kept \union {r} ELSE kept
           all == IF Policy \in known THEN known \union {r} ELSE known
<1>2. /\ purge.step = "idle"
      /\ UNCHANGED <<objects, vectors, listed, stale, manifest, tombstone, purge, reader>>
      /\ cache' = [cache EXCEPT ![w] = all]
      /\ \/ mongo' = mongo \union dirty /\ marked' = [marked EXCEPT ![w] = {}] /\ UNCHANGED faults
         \/ /\ faults.failures < MaxFailures
            /\ faults' = [faults EXCEPT !.failures = @ + 1]
            /\ marked' = [marked EXCEPT ![w] = dirty] /\ UNCHANGED mongo
  BY <1>1 DEF Write, journal
<1>3. faults' \in [failures : 0 .. MaxFailures, crashes : 0 .. MaxCrashes]
  <2> DEFINE next == faults.failures + 1
  <2>1. \/ UNCHANGED faults
        \/ next \in 0 .. MaxFailures /\ faults' = [faults EXCEPT !.failures = next]
    BY <1>a, <1>2
  <2> HIDE DEF next
  <2> QED
    BY <1>a, <2>1
<1>4. /\ all \in SUBSET Records /\ dirty \in SUBSET Records
      /\ ~Begun => cache[w] \subseteq all
      /\ Begun => all = Kept(w) /\ dirty = MarksKept(w)
  BY <1>a, EvictionTakesChunks
<1> HIDE DEF known, kept, dirty, all
<1>5. \E k \in SUBSET Records, d \in SUBSET Records :
        /\ cache' = [cache EXCEPT ![w] = k]
        /\ \/ mongo' = mongo \union d /\ marked' = [marked EXCEPT ![w] = {}]
           \/ mongo' = mongo /\ marked' = [marked EXCEPT ![w] = d]
        /\ ~Begun => cache[w] \subseteq k
        /\ Begun => k = Kept(w) /\ d = MarksKept(w)
  BY <1>2, <1>4
<1> QED
  BY <1>2, <1>3, <1>5

\* A search changes nothing that is stored; the refresh of a cache evicts only what has begun.
LEMMA SearchesFit ==
  ASSUME PurgeTypeOK, NEW w \in Workers, Searches(w)
  PROVE  /\ UNCHANGED <<mongo, objects, vectors, listed, stale, manifest, tombstone, purge, faults>>
         /\ reader' \in [Workers -> Reader] /\ \A v \in Workers \ {w} : reader'[v] = reader[v]
         /\ \/ UNCHANGED <<cache, marked>>
            \/ ReadTombstones(w) /\ Evict(w) /\ (reader[w].seen \/ tombstone)
         /\ \/ reader'[w].step \in {"idle", "manifests", "searching"}
            \/ /\ reader'[w].step = "tombstones"
               /\ reader'[w].seen <=> manifest # None
               /\ reader'[w].begun <=> Begun
            \/ /\ ReadTombstones(w) /\ reader'[w].step = "answered"
               /\ reader'[w].begun = reader[w].begun
               /\ reader[w].seen \/ tombstone => reader'[w].found = {}
<1>a. /\ reader \in [Workers -> Reader] /\ reader[w] \in Reader
      /\ cache \in [Workers -> SUBSET Records] /\ marked \in [Workers -> SUBSET Records]
      /\ cache[w] \in SUBSET Records
  BY DEF PurgeTypeOK
<1>b. NoReader \in Reader /\ NoReader.step = "idle"
  BY DEF NoReader, Reader
<1>0. ASSUME NEW r \in Reader, reader' = [reader EXCEPT ![w] = r]
      PROVE  /\ reader' \in [Workers -> Reader] /\ reader'[w] = r
             /\ \A v \in Workers \ {w} : reader'[v] = reader[v]
  BY <1>0, <1>a
<1>1. CASE BeginSearch(w)
  <2> DEFINE r == [reader[w] EXCEPT !.step = "manifests"]
  <2>1. r \in Reader /\ r.step = "manifests"
    BY <1>a DEF Reader
  <2>2. reader' = [reader EXCEPT ![w] = r]
    BY <1>1 DEF BeginSearch
  <2> HIDE DEF r
  <2> QED
    BY <1>0, <1>1, <2>1, <2>2 DEF BeginSearch, services, journal
<1>2. CASE ReadManifests(w)
  <2> DEFINE seen == Reads[1]
             begun == Begun
             r == [reader[w] EXCEPT !.step = "tombstones", !.seen = seen, !.begun = begun]
  <2>1. /\ seen \in BOOLEAN /\ begun \in BOOLEAN
        /\ seen <=> manifest # None
        /\ begun <=> Begun
    BY DEF Begun, Reads
  <2>2. reader' = [reader EXCEPT ![w].step = "tombstones", ![w].seen = seen, ![w].begun = begun]
    BY <1>2 DEF ReadManifests
  <2> HIDE DEF seen, begun
  <2>3. r \in Reader /\ r.step = "tombstones" /\ r.seen = seen /\ r.begun = begun
    BY <1>a, <2>1 DEF Reader
  <2>4. reader' = [reader EXCEPT ![w] = r]
    BY <1>a, <2>2
  <2> HIDE DEF r
  <2>5. /\ reader' \in [Workers -> Reader] /\ reader'[w] = r
        /\ \A v \in Workers \ {w} : reader'[v] = reader[v]
    BY <1>0, <2>3, <2>4
  <2>6. /\ reader'[w].step = "tombstones"
        /\ reader'[w].seen <=> manifest # None
        /\ reader'[w].begun <=> Begun
    BY <2>1, <2>3, <2>5
  <2> QED
    BY <1>2, <2>5, <2>6 DEF ReadManifests, services, journal
<1>3. CASE ReadTombstones(w)
  <2> DEFINE evicts == reader[w].seen \/ Reads[2]
             kept == IF evicts THEN Kept(w) ELSE cache[w]
             searching == [reader[w] EXCEPT !.step = "searching", !.seen = FALSE, !.begun = FALSE,
                                            !.found = kept \intersect Chunks]
             answered == [reader[w] EXCEPT !.step = "answered", !.found = @ \intersect kept]
  <2>1. evicts <=> reader[w].seen \/ tombstone
    BY DEF Reads
  <2>2. /\ UNCHANGED <<mongo, objects, vectors, listed, stale, manifest, tombstone, purge, faults>>
        /\ cache' = [cache EXCEPT ![w] = kept]
        /\ marked' = [marked EXCEPT ![w] = IF evicts THEN MarksKept(w) ELSE @]
        /\ \/ reader' = [reader EXCEPT ![w] = NoReader]
           \/ reader' = [reader EXCEPT ![w].step = "searching", ![w].seen = FALSE,
                                       ![w].begun = FALSE, ![w].found = kept \intersect Chunks]
           \/ reader' = [reader EXCEPT ![w].step = "answered", ![w].found = @ \intersect kept]
    BY <1>3 DEF ReadTombstones, services, journal
  <2>3. kept \subseteq Records /\ (evicts => kept \intersect Chunks = {})
    BY <1>a, EvictionTakesChunks
  <2>4. \/ UNCHANGED <<cache, marked>>
        \/ Evict(w) /\ (reader[w].seen \/ tombstone)
    <3>1. CASE evicts
      BY <2>1, <2>2, <3>1 DEF Evict
    <3>2. CASE ~evicts
      BY <1>a, <2>2, <3>2
    <3> QED
      BY <3>1, <3>2
  <2> HIDE DEF kept, evicts
  <2>5. /\ searching \in Reader /\ searching.step = "searching"
        /\ answered \in Reader /\ answered.step = "answered" /\ answered.begun = reader[w].begun
        /\ answered.found = reader[w].found \intersect kept /\ reader[w].found \subseteq Chunks
    BY <1>a DEF Reader
  <2>6. \/ reader' = [reader EXCEPT ![w] = NoReader]
        \/ reader' = [reader EXCEPT ![w] = searching]
        \/ reader' = [reader EXCEPT ![w] = answered]
    BY <1>a, <2>2
  <2>7. evicts => answered.found = {}
    BY <2>3, <2>5
  <2> HIDE DEF searching, answered
  <2>8. CASE reader' = [reader EXCEPT ![w] = NoReader] \/ reader' = [reader EXCEPT ![w] = searching]
    BY <1>0, <1>3, <1>b, <2>2, <2>4, <2>5, <2>8
  <2>9. CASE reader' = [reader EXCEPT ![w] = answered]
    BY <1>0, <1>3, <2>1, <2>2, <2>4, <2>5, <2>7, <2>9
  <2> QED
    BY <2>6, <2>8, <2>9
<1>4. CASE SearchReturns(w)
  <2> DEFINE r == [reader[w] EXCEPT !.step = "manifests", !.purpose = "release"]
  <2>1. r \in Reader /\ r.step = "manifests"
    BY <1>a DEF Reader
  <2>2. reader' = [reader EXCEPT ![w] = r]
    BY <1>a, <1>4 DEF SearchReturns
  <2> HIDE DEF r
  <2> QED
    BY <1>0, <1>4, <2>1, <2>2 DEF SearchReturns, services, journal
<1>5. CASE Answered(w)
  BY <1>0, <1>5, <1>b DEF Answered, services, journal
<1> QED
  BY <1>1, <1>2, <1>3, <1>4, <1>5 DEF Searches

-----------------------------------------------------------------------------
(* Every step keeps the invariant. *)

\* An eviction, as what it does to each cache.
LEMMA EvictMoves ==
  ASSUME PurgeTypeOK, NEW w \in Workers, Evict(w)
  PROVE  /\ cache' \in [Workers -> SUBSET Records] /\ marked' \in [Workers -> SUBSET Records]
         /\ cache'[w] = Kept(w) /\ marked'[w] = MarksKept(w)
         /\ \A v \in Workers \ {w} : cache'[v] = cache[v] /\ marked'[v] = marked[v]
<1>1. Kept(w) \in SUBSET Records /\ MarksKept(w) \in SUBSET Records
  BY EvictionTakesChunks
<1> QED
  BY <1>1 DEF Evict, PurgeTypeOK

LEMMA NextPurgeTypes ==
  ASSUME PurgeInv, [Next]_vars
  PROVE  PurgeTypeOK'
<1>a. /\ PurgeTypeOK /\ PurgeFits
      /\ mongo \subseteq Records /\ objects \subseteq Sources /\ vectors \subseteq Chunks
      /\ listed \subseteq Chunks /\ stale \in 0 .. MaxStale
      /\ manifest \in Manifest \union {None} /\ tombstone \in BOOLEAN
      /\ cache \in [Workers -> SUBSET Records] /\ marked \in [Workers -> SUBSET Records]
      /\ purge \in Purge /\ reader \in [Workers -> Reader]
      /\ faults \in [failures : 0 .. MaxFailures, crashes : 0 .. MaxCrashes]
      /\ MaxStale \in Nat
  BY RecordsAssumption DEF PurgeInv, PurgeTypeOK, Purge
<1>1. CASE PurgeSteps
  <2>1. listed' \subseteq Chunks /\ stale' \in 0 .. MaxStale
    <3>1. Inventory \/ UNCHANGED <<listed, stale>>
      BY <1>1, <1>a, PurgeStepsFit
    <3> QED
      BY <1>a, <3>1 DEF Inventory
  <2>2. cache' \in [Workers -> SUBSET Records] /\ marked' \in [Workers -> SUBSET Records]
    BY <1>1, <1>a, PurgeStepsFit, EvictMoves
  <2>3. manifest' \in Manifest \union {None} /\ tombstone' \in BOOLEAN
    BY <1>1, <1>a, PurgeStepsFit
  <2>4. /\ mongo' \subseteq Records /\ objects' \subseteq Sources /\ vectors' \subseteq Chunks
        /\ purge' \in Purge /\ UNCHANGED <<reader, faults>>
    BY <1>1, <1>a, PurgeStepsFit
  <2> QED
    BY <1>a, <2>1, <2>2, <2>3, <2>4 DEF PurgeTypeOK, Purge
<1>2. CASE Fails
  BY <1>2, <1>a, FailsFit DEF PurgeTypeOK, Purge
<1>3. ASSUME NEW w \in Workers, BeginPurge(w)
      PROVE  PurgeTypeOK'
  BY <1>3, <1>a, BeginPurgeFits DEF PurgeTypeOK, Purge
<1>4. ASSUME NEW w \in Workers, Crash(w)
      PROVE  PurgeTypeOK'
  <2>1. cache' \in [Workers -> SUBSET Records] /\ marked' \in [Workers -> SUBSET Records]
    BY <1>4, <1>a, CrashFits
  <2> QED
    BY <1>4, <1>a, <2>1, CrashFits DEF PurgeTypeOK, Purge
<1>5. ASSUME NEW w \in Workers, Writes(w)
      PROVE  PurgeTypeOK'
  <2>1. /\ mongo' \subseteq Records
        /\ cache' \in [Workers -> SUBSET Records] /\ marked' \in [Workers -> SUBSET Records]
    BY <1>5, <1>a, WritesFit
  <2> QED
    BY <1>5, <1>a, <2>1, WritesFit DEF PurgeTypeOK, Purge
<1>6. ASSUME NEW w \in Workers, Searches(w)
      PROVE  PurgeTypeOK'
  <2>1. cache' \in [Workers -> SUBSET Records] /\ marked' \in [Workers -> SUBSET Records]
    BY <1>6, <1>a, SearchesFit, EvictMoves
  <2>2. reader' \in [Workers -> Reader]
    BY <1>6, <1>a, SearchesFit
  <2> QED
    BY <1>6, <1>a, <2>1, <2>2, SearchesFit DEF PurgeTypeOK, Purge
<1>7. CASE UNCHANGED vars
  BY <1>7, <1>a DEF vars, services, journal, workers, PurgeTypeOK, Purge
<1> QED
  BY <1>1, <1>2, <1>3, <1>4, <1>5, <1>6, <1>7, PurgeNextSteps

\* Once a purge has begun, it has begun for good: the tombstone comes before the manifest goes.
LEMMA BegunStays ==
  ASSUME PurgeInv, [Next]_vars
  PROVE  /\ Begun => Begun'
         /\ tombstone => tombstone'
         /\ ~Begun /\ Begun' => UNCHANGED <<mongo, cache, marked>>
<1>a. PurgeTypeOK /\ PurgeFits /\ tombstone \in BOOLEAN
  BY DEF PurgeInv, PurgeTypeOK
<1>1. CASE PurgeSteps
  BY <1>1, <1>a, PurgeStepsFit, NoneAssumption DEF Begun, PurgeFits
<1>2. CASE Fails
  BY <1>2, <1>a, FailsFit DEF Begun
<1>3. ASSUME NEW w \in Workers, BeginPurge(w)
      PROVE  /\ Begun => Begun'
             /\ tombstone => tombstone'
             /\ ~Begun /\ Begun' => UNCHANGED <<mongo, cache, marked>>
  BY <1>3, <1>a, BeginPurgeFits, NoneAssumption DEF Begun
<1>4. ASSUME NEW w \in Workers, Crash(w) \/ Writes(w) \/ Searches(w)
      PROVE  UNCHANGED <<manifest, tombstone>>
  BY <1>4, <1>a, CrashFits, WritesFit, SearchesFit
<1>5. CASE UNCHANGED vars
  BY <1>5 DEF vars, journal, Begun
<1> QED
  BY <1>1, <1>2, <1>3, <1>4, <1>5, PurgeNextSteps DEF Begun

LEMMA NextRowsStay ==
  ASSUME PurgeInv, [Next]_vars
  PROVE  RowsStay'
<1>a. /\ PurgeTypeOK /\ PurgeFits /\ RowsStay /\ Core \subseteq Records
      /\ cache \in [Workers -> SUBSET Records] /\ marked \in [Workers -> SUBSET Records]
  BY RecordsAssumption DEF PurgeInv, PurgeTypeOK
<1>b. Begun => Begun'
  BY BegunStays
<1>c. ASSUME NEW w \in Workers, Evict(w), Begun, UNCHANGED mongo
      PROVE  RowsStay'
  <2>1. \A v \in Workers \ {w} : marked'[v] # {} => Core \subseteq cache'[v]
    BY <1>a, <1>c, EvictMoves DEF RowsStay
  <2>2. marked'[w] = {}
    <3>1. marked[w] # {} => MarksKept(w) = {}
      BY <1>a, EvictionTakesAll DEF RowsStay
    <3>2. MarksKept(w) \subseteq marked[w]
      BY <1>a, EvictionTakesChunks
    <3> QED
      BY <1>a, <1>c, <3>1, <3>2, EvictMoves
  <2> QED
    BY <1>b, <1>c, <2>1, <2>2 DEF RowsStay
<1>1. CASE PurgeSteps
  <2>1. Begun
    BY <1>1, <1>a, PurgeStepsFit DEF PurgeFits, Begun
  <2>2. CASE UNCHANGED <<cache, marked>>
    BY <1>a, <1>b, <2>1, <2>2 DEF RowsStay
  <2>3. CASE purge.worker \in Workers /\ Evict(purge.worker)
    <3> PICK w \in Workers : Evict(w)
      BY <2>3
    <3>1. \A v \in Workers : marked'[v] # {} => Core \subseteq cache'[v]
      <4>1. MarksKept(w) \subseteq marked[w] /\ (Core \subseteq cache[w] => MarksKept(w) = {})
        BY <1>a, EvictionTakesChunks, EvictionTakesAll
      <4> QED
        BY <1>a, <4>1, EvictMoves DEF RowsStay
    <3> QED
      BY <1>b, <2>1, <3>1 DEF RowsStay
  <2> QED
    BY <1>1, <1>a, <2>2, <2>3, PurgeStepsFit
<1>2. CASE Fails
  <2>1. Begun
    BY <1>2, <1>a, FailsFit DEF PurgeFits, Begun
  <2> QED
    BY <1>2, <1>a, <1>b, <2>1, FailsFit DEF RowsStay
<1>3. ASSUME NEW w \in Workers, BeginPurge(w)
      PROVE  RowsStay'
  <2>1. UNCHANGED <<mongo, cache, marked>> /\ Begun'
    BY <1>3, <1>a, BeginPurgeFits, NoneAssumption DEF Begun
  <2> QED
    BY <1>a, <2>1 DEF RowsStay
<1>4. ASSUME NEW w \in Workers, Crash(w)
      PROVE  RowsStay'
  <2>1. /\ UNCHANGED mongo /\ (Begun' <=> Begun)
        /\ cache'[w] = mongo /\ marked'[w] = {}
        /\ \A v \in Workers \ {w} : cache'[v] = cache[v] /\ marked'[v] = marked[v]
    BY <1>4, <1>a, CrashFits DEF Begun
  <2> QED
    BY <1>a, <2>1 DEF RowsStay
<1>5. ASSUME NEW w \in Workers, Writes(w)
      PROVE  RowsStay'
  <2>1. PICK known \in SUBSET Records, dirty \in SUBSET Records :
          /\ cache' = [cache EXCEPT ![w] = known]
          /\ \/ mongo' = mongo \union dirty /\ marked' = [marked EXCEPT ![w] = {}]
             \/ mongo' = mongo /\ marked' = [marked EXCEPT ![w] = dirty]
          /\ ~Begun => cache[w] \subseteq known
          /\ Begun => known = Kept(w) /\ dirty = MarksKept(w)
    BY <1>5, <1>a, WritesFit
  <2>2. /\ Begun' <=> Begun
        /\ mongo \subseteq mongo'
        /\ cache'[w] = known /\ marked'[w] \in {{}, dirty}
        /\ \A v \in Workers \ {w} : cache'[v] = cache[v] /\ marked'[v] = marked[v]
    BY <1>5, <1>a, <2>1, WritesFit DEF Begun
  <2>3. CASE ~Begun
    BY <1>a, <2>1, <2>2, <2>3 DEF RowsStay
  <2>4. CASE Begun
    <3>1. dirty = {}
      <4>1. MarksKept(w) \subseteq marked[w] /\ (Core \subseteq cache[w] => MarksKept(w) = {})
        BY <1>a, EvictionTakesChunks, EvictionTakesAll
      <4> QED
        BY <1>a, <2>1, <2>4, <4>1 DEF RowsStay
    <3> QED
      BY <1>a, <2>2, <2>4, <3>1 DEF RowsStay
  <2> QED
    BY <2>3, <2>4
<1>6. ASSUME NEW w \in Workers, Searches(w)
      PROVE  RowsStay'
  <2>1. UNCHANGED mongo /\ (Begun' <=> Begun)
    BY <1>6, <1>a, SearchesFit DEF Begun
  <2>2. CASE UNCHANGED <<cache, marked>>
    BY <1>a, <2>1, <2>2 DEF RowsStay
  <2>3. CASE ReadTombstones(w) /\ Evict(w) /\ (reader[w].seen \/ tombstone)
    <3>1. Begun
      BY <2>3 DEF ReadTombstones, PurgeInv, ReadersFit, Begun
    <3> QED
      BY <1>c, <2>1, <2>3, <3>1
  <2> QED
    BY <1>6, <1>a, <2>2, <2>3, SearchesFit
<1>7. CASE UNCHANGED vars
  BY <1>7, <1>a DEF vars, services, journal, workers, RowsStay, Begun
<1> QED
  BY <1>1, <1>2, <1>3, <1>4, <1>5, <1>6, <1>7, PurgeNextSteps

LEMMA NextPurgeFits ==
  ASSUME PurgeInv, [Next]_vars
  PROVE  PurgeFits'
<1>a. /\ PurgeTypeOK /\ PurgeFits /\ RowsStay /\ purge \in Purge
      /\ manifest \in Manifest \union {None}
  BY DEF PurgeInv, PurgeTypeOK, Purge
<1>1. CASE PurgeSteps
  <2>1. purge.step # "idle" /\ manifest \in Manifest /\ purge.worker \in Workers
    BY <1>1, <1>a, PurgeStepsFit DEF PurgeFits
  <2>2. Owned \subseteq manifest.graph
    BY <1>a, <2>1, NoneAssumption DEF PurgeFits
  <2>3. manifest' # None => Owned \subseteq manifest'.graph
    BY <1>1, <1>a, <2>2, PurgeStepsFit
  \* Nothing is lost as long as the manifest stays.
  <2>4. ASSUME NEW step \in PurgeStep, Step(step), UNCHANGED <<manifest, tombstone>>,
               step \in {"r2", "mongo", "verify", "tombstone", "finish"} =>
                 "pinecone" \in manifest.done,
               step = "finish" => tombstone
        PROVE  PurgeFits'
    BY <1>a, <2>1, <2>2, <2>4, StepMoves, NoneAssumption DEF PurgeFits
  <2>5. CASE SyncOwnCache
    BY <2>4, <2>5 DEF SyncOwnCache, PurgeStep, journal
  <2>6. CASE SkipStage
    BY <1>a, <2>4, <2>6 DEF SkipStage, Skip, PurgeStep, journal, PurgeFits
  <2>7. CASE DeleteVectors
    <3>1. /\ purge'.step = "inventory" /\ purge'.worker = purge.worker /\ UNCHANGED manifest
      BY <1>a, <2>7 DEF DeleteVectors, journal, Purge
    <3> QED
      BY <2>1, <2>2, <3>1, NoneAssumption DEF PurgeFits
  <2>8. CASE Poll
    <3>1. /\ purge'.worker = purge.worker
          /\ \/ purge'.step = "inventory" /\ UNCHANGED manifest
             \/ purge'.step = "r2" /\ Done("pinecone")
      BY <1>a, <2>8 DEF Poll, Purge
    <3>2. Done("pinecone") => "pinecone" \in manifest'.done /\ manifest' \in Manifest
      BY <2>1 DEF Done, Manifest, Stages
    <3> QED
      BY <2>1, <2>3, <3>1, <3>2, NoneAssumption DEF PurgeFits
  <2>9. CASE GivesUp \/ VerifyFinds \/ Finish
    <3>1. purge'.step = "idle"
      BY <2>9, StopsMoves DEF GivesUp, VerifyFinds, Finish
    <3> QED
      BY <2>3, <3>1 DEF PurgeFits
  <2>10. CASE DeleteObjects \/ DeleteGraph
    <3>1. /\ purge'.step \in {"mongo", "verify"} /\ purge'.worker = purge.worker
          /\ Done("r2") \/ Done("mongo")
          /\ purge.step \in {"r2", "mongo"}
      BY <1>a, <2>10, StepMoves DEF DeleteObjects, DeleteGraph, PurgeStep
    <3>2. manifest' \in Manifest /\ ("pinecone" \in manifest.done => "pinecone" \in manifest'.done)
      BY <2>1, <3>1 DEF Done, Manifest, Stages
    <3> QED
      BY <1>a, <2>1, <2>3, <3>1, <3>2, NoneAssumption DEF PurgeFits
  <2>11. CASE Verify
    BY <1>a, <2>4, <2>11 DEF Verify, PurgeStep, journal, PurgeFits
  <2>12. CASE WriteTombstone
    <3>1. purge'.step = "finish" /\ purge'.worker = purge.worker /\ UNCHANGED manifest /\ tombstone'
      BY <1>a, <2>12, StepMoves DEF WriteTombstone, PurgeStep
    <3> QED
      BY <1>a, <2>1, <2>2, <2>12, <3>1, NoneAssumption DEF PurgeFits, WriteTombstone
  <2> QED
    BY <1>1, <2>5, <2>6, <2>7, <2>8, <2>9, <2>10, <2>11, <2>12 DEF PurgeSteps
<1>2. CASE Fails
  BY <1>2, <1>a, FailsFit DEF PurgeFits
<1>3. ASSUME NEW w \in Workers, BeginPurge(w)
      PROVE  PurgeFits'
  <2>1. ~Begun => Owned \subseteq Identifiers[mongo][{}]
    <3>1. mongo \in SUBSET Records /\ Core \in SUBSET Records
      BY <1>a, RecordsAssumption DEF PurgeTypeOK
    <3> QED
      BY <1>a, <3>1, IdentifiersGrow DEF RowsStay, Owned
  <2>2. manifest' # None /\ Owned \subseteq manifest'.graph
    BY <1>3, <1>a, <2>1, BeginPurgeFits, NoneAssumption DEF PurgeFits
  <2> QED
    BY <1>3, <1>a, <2>2, BeginPurgeFits DEF PurgeFits
<1>4. ASSUME NEW w \in Workers, Crash(w) \/ Writes(w) \/ Searches(w)
      PROVE  PurgeFits'
  <2>1. UNCHANGED <<manifest, tombstone>> /\ (purge' = purge \/ purge'.step = "idle")
    BY <1>4, <1>a, CrashFits, WritesFit, SearchesFit
  <2> QED
    BY <1>a, <2>1 DEF PurgeFits
<1>5. CASE UNCHANGED vars
  BY <1>5, <1>a DEF vars, journal, PurgeFits
<1> QED
  BY <1>1, <1>2, <1>3, <1>4, <1>5, PurgeNextSteps

\* An inventory that shows the index as it is ends the hiding: what it lists is what there is.
LEMMA NextHidden ==
  ASSUME PurgeInv, [Next]_vars
  PROVE  HiddenWhileStale'
<1>a. /\ PurgeTypeOK /\ PurgeFits /\ HiddenWhileStale /\ purge \in Purge
      /\ manifest \in Manifest \union {None} /\ stale \in Nat
  BY RecordsAssumption DEF PurgeInv, PurgeTypeOK, Purge
<1>1. CASE PurgeSteps
  <2>1. purge.step # "idle" /\ manifest \in Manifest /\ vectors' \subseteq vectors
    BY <1>1, <1>a, PurgeStepsFit DEF PurgeFits
  <2>2. Hidden' => Hidden /\ (stale' = stale + 1 \/ UNCHANGED <<listed, stale>>)
    <3>1. Inventory \/ UNCHANGED <<listed, stale>>
      BY <1>1, <1>a, PurgeStepsFit
    <3> QED
      BY <2>1, <3>1 DEF Inventory, Hidden
  <2> SUFFICES ASSUME Hidden'
               PROVE  /\ purge'.step = "inventory" => stale' >= 1 + purge'.empty
                      /\ manifest' # None => ("pinecone" \in manifest'.done => stale' >= 3)
    BY DEF HiddenWhileStale
  <2>3. /\ purge.step = "inventory" => stale >= 1 + purge.empty
        /\ "pinecone" \in manifest.done => stale >= 3
        /\ stale' >= stale /\ stale' \in Nat
    BY <1>a, <2>1, <2>2, NoneAssumption DEF HiddenWhileStale
  <2>4. CASE DeleteVectors
    <3>1. /\ purge'.step = "inventory" /\ purge'.empty = 0 /\ UNCHANGED manifest
          /\ "pinecone" \notin manifest.done
      BY <1>a, <2>4 DEF DeleteVectors, journal, Purge
    <3>2. Inventory
      BY <2>4 DEF DeleteVectors
    <3>3. stale' >= 1
      BY <1>a, <2>1, <3>2 DEF Inventory, Hidden
    <3> QED
      BY <3>1, <3>3
  <2>5. CASE Poll
    <3>1. /\ purge.step = "inventory" /\ Inventory /\ UNCHANGED vectors /\ listed' = {}
          /\ \/ Done("pinecone") /\ purge.empty + 1 = 2 /\ purge'.step # "inventory"
             \/ UNCHANGED manifest /\ purge'.empty = purge.empty + 1
      BY <1>a, <2>5 DEF Poll, EnoughEmpty, Purge, Hidden
    <3>2. stale' = stale + 1
      BY <1>a, <3>1 DEF Inventory, Hidden
    <3>3. purge.empty \in Nat
      BY <1>a DEF Purge
    <3> QED
      BY <1>a, <2>1, <2>3, <3>1, <3>2, <3>3 DEF Done, Manifest
  <2>6. CASE ~DeleteVectors /\ ~Poll
    <3>1. purge'.step # "inventory"
      BY <1>1, <2>6, StepMoves, StopsMoves, <1>a
      DEF PurgeSteps, SyncOwnCache, SkipStage, Skip, GivesUp, DeleteObjects, DeleteGraph, Verify,
          VerifyFinds, WriteTombstone, Finish, PurgeStep
    <3>2. manifest' # None => ("pinecone" \in manifest'.done => "pinecone" \in manifest.done)
      BY <1>1, <2>1, <2>6
      DEF PurgeSteps, SyncOwnCache, SkipStage, Skip, GivesUp, DeleteObjects, DeleteGraph, Verify,
          VerifyFinds, WriteTombstone, Finish, journal, Done, Manifest
    <3> QED
      BY <1>a, <2>3, <3>1, <3>2
  <2> QED
    BY <2>4, <2>5, <2>6
<1>2. CASE Fails
  BY <1>2, <1>a, FailsFit DEF HiddenWhileStale, Hidden
<1>3. ASSUME NEW w \in Workers, BeginPurge(w)
      PROVE  HiddenWhileStale'
  <2>1. /\ purge'.step # "inventory" /\ UNCHANGED <<listed, vectors, stale>>
        /\ UNCHANGED manifest \/ manifest'.done = {}
    BY <1>3, <1>a, BeginPurgeFits
  <2> QED
    BY <1>a, <2>1 DEF HiddenWhileStale, Hidden
<1>4. ASSUME NEW w \in Workers, Crash(w) \/ Writes(w) \/ Searches(w)
      PROVE  HiddenWhileStale'
  <2>1. /\ UNCHANGED <<listed, vectors, stale, manifest>>
        /\ purge' = purge \/ purge'.step = "idle"
    BY <1>4, <1>a, CrashFits, WritesFit, SearchesFit
  <2> QED
    BY <1>a, <2>1 DEF HiddenWhileStale, Hidden
<1>5. CASE UNCHANGED vars
  BY <1>5, <1>a DEF vars, journal, services, HiddenWhileStale, Hidden
<1> QED
  BY <1>1, <1>2, <1>3, <1>4, <1>5, PurgeNextSteps

LEMMA NextReadersFit ==
  ASSUME PurgeInv, [Next]_vars
  PROVE  ReadersFit'
<1>a. /\ PurgeTypeOK /\ PurgeFits /\ ReadersFit
  BY DEF PurgeInv
<1>b. (Begun => Begun') /\ (tombstone => tombstone')
  BY BegunStays
<1>1. CASE UNCHANGED reader
  BY <1>1, <1>a, <1>b DEF ReadersFit
<1>2. ASSUME NEW w \in Workers, \A v \in Workers \ {w} : reader'[v] = reader[v],
             \/ reader'[w].step \in {"idle", "manifests", "searching"}
             \/ /\ reader'[w].step = "tombstones"
                /\ reader'[w].seen => Begun
                /\ reader'[w].begun => reader'[w].seen \/ tombstone
             \/ /\ reader'[w].step = "answered"
                /\ reader'[w].begun => reader'[w].found = {}
      PROVE  ReadersFit'
  BY <1>2, <1>a, <1>b DEF ReadersFit
<1>3. ASSUME NEW w \in Workers, Crash(w)
      PROVE  ReadersFit'
  BY <1>2, <1>3, <1>a, CrashFits
<1>4. ASSUME NEW w \in Workers, Searches(w)
      PROVE  ReadersFit'
  <2>1. \/ reader'[w].step \in {"idle", "manifests", "searching"}
        \/ /\ reader'[w].step = "tombstones"
           /\ reader'[w].seen => Begun
           /\ reader'[w].begun => reader'[w].seen \/ tombstone
        \/ /\ reader'[w].step = "answered"
           /\ reader'[w].begun => reader'[w].found = {}
    BY <1>4, <1>a, SearchesFit DEF ReadersFit, ReadTombstones, Begun
  <2> QED
    BY <1>2, <1>4, <1>a, <2>1, SearchesFit
<1>5. CASE PurgeSteps \/ Fails \/ (\E w \in Workers : BeginPurge(w) \/ Writes(w)) \/ UNCHANGED vars
  <2>1. UNCHANGED reader
    BY <1>5, <1>a, PurgeStepsFit, FailsFit, BeginPurgeFits, WritesFit DEF vars, workers
  <2> QED
    BY <1>1, <2>1
<1> QED
  BY <1>3, <1>4, <1>5, PurgeNextSteps

\* What passes the verification is empty: of every record the graph of the manifest has what
\* leads to it, and vectors that are there have been listed, unless the index shows an old
\* state in more than three inventories in a row.
LEMMA NextVerifiedIsEmpty ==
  ASSUME MaxStale <= 3, PurgeInv, VerifiedIsEmpty, [Next]_vars
  PROVE  VerifiedIsEmpty'
<1>a. /\ PurgeTypeOK /\ PurgeFits /\ RowsStay /\ HiddenWhileStale
      /\ mongo \subseteq Records /\ objects \subseteq Core
      /\ manifest \in Manifest \union {None} /\ stale \in Nat /\ MaxStale \in Nat
      /\ listed \subseteq Chunks
  BY RecordsAssumption DEF PurgeInv, PurgeTypeOK
<1>1. CASE PurgeSteps
  <2>1. /\ mongo' \subseteq mongo /\ objects' \subseteq objects /\ vectors' \subseteq vectors
        /\ UNCHANGED tombstone \/ purge.step = "tombstone"
        /\ manifest \in Manifest
    BY <1>1, <1>a, PurgeStepsFit DEF PurgeFits
  <2>2. CASE Verify
    <3>1. Remaining(listed') = {} /\ Inventory /\ purge.step = "verify"
          /\ UNCHANGED <<mongo, objects, vectors>>
      BY <2>2 DEF Verify
    <3>2. Owned \subseteq manifest.graph /\ "pinecone" \in manifest.done
      BY <1>a, <2>1, <3>1, NoneAssumption DEF PurgeFits
    <3>3. /\ \A r \in mongo : ~References(r, manifest.graph)
          /\ objects \intersect manifest.graph = {}
          /\ listed' = {}
      <4>1. "mongo" \notin Remaining(listed') /\ "r2" \notin Remaining(listed')
            /\ "pinecone" \notin Remaining(listed')
        BY <3>1
      <4>2. "mongo" \in Stages /\ "r2" \in Stages /\ "pinecone" \in Stages
        BY DEF Stages
      <4> QED
        BY <4>1, <4>2 DEF Remaining
    <3>4. mongo = {}
      BY <1>a, <3>2, <3>3, OwnedHasCore DEF References
    <3>5. objects = {}
      BY <1>a, <3>2, <3>3, OwnedHasCore
    <3>6. vectors = {}
      <4>1. Hidden => stale >= 3
        BY <1>a, <2>1, <3>2, NoneAssumption DEF HiddenWhileStale
      <4> QED
        BY <1>a, <3>1, <3>3, <4>1 DEF Inventory, Hidden
    <3> QED
      BY <3>1, <3>4, <3>5, <3>6 DEF VerifiedIsEmpty, Empty
  <2>3. CASE ~Verify
    <3>1. purge'.step # "tombstone"
      BY <1>1, <2>3, <1>a, StepMoves, StopsMoves
      DEF PurgeSteps, SyncOwnCache, SkipStage, Skip, DeleteVectors, Poll, GivesUp, DeleteObjects,
          DeleteGraph, VerifyFinds, WriteTombstone, Finish, PurgeStep, PurgeTypeOK, Purge
    <3> QED
      BY <2>1, <3>1 DEF VerifiedIsEmpty, Empty
  <2> QED
    BY <2>2, <2>3
<1>2. CASE Fails
  BY <1>2, <1>a, FailsFit DEF VerifiedIsEmpty, Empty
<1>3. ASSUME NEW w \in Workers, BeginPurge(w)
      PROVE  VerifiedIsEmpty'
  BY <1>3, <1>a, BeginPurgeFits DEF VerifiedIsEmpty, Empty
<1>4. ASSUME NEW w \in Workers, Writes(w)
      PROVE  VerifiedIsEmpty'
  <2>1. /\ UNCHANGED <<tombstone, purge, objects, vectors>> /\ purge.step = "idle"
    BY <1>4, <1>a, WritesFit
  <2>2. CASE tombstone
    <3>1. PICK dirty \in SUBSET Records : mongo' \subseteq mongo \union dirty /\ dirty = MarksKept(w)
      BY <1>4, <1>a, <2>2, WritesFit DEF Begun
    <3>2. MarksKept(w) \subseteq marked[w] /\ (Core \subseteq cache[w] => MarksKept(w) = {})
      BY <1>a, EvictionTakesChunks, EvictionTakesAll
    <3>3. dirty = {}
      BY <1>a, <2>2, <3>1, <3>2 DEF RowsStay, Begun
    <3> QED
      BY <2>1, <2>2, <3>1, <3>3 DEF VerifiedIsEmpty, Empty
  <2>3. CASE ~tombstone
    BY <2>1, <2>3 DEF VerifiedIsEmpty
  <2> QED
    BY <2>2, <2>3
<1>5. ASSUME NEW w \in Workers, Crash(w) \/ Searches(w)
      PROVE  VerifiedIsEmpty'
  <2>1. /\ UNCHANGED <<tombstone, mongo, objects, vectors>>
        /\ purge' = purge \/ purge'.step = "idle"
    BY <1>5, <1>a, CrashFits, SearchesFit
  <2> QED
    BY <2>1 DEF VerifiedIsEmpty, Empty
<1>6. CASE UNCHANGED vars
  BY <1>6 DEF vars, journal, services, VerifiedIsEmpty, Empty
<1> QED
  BY <1>1, <1>2, <1>3, <1>4, <1>5, <1>6, PurgeNextSteps

-----------------------------------------------------------------------------
(* The invariant of every run. *)

LEMMA InitPurgeInv ==
  ASSUME Init
  PROVE  PurgeInv /\ VerifiedIsEmpty
<1>1. NoPurge \in Purge /\ NoReader \in Reader /\ NoPurge.step = "idle" /\ NoReader.step = "idle"
  BY RecordsAssumption DEF NoPurge, NoReader, Purge, PurgeStep, Reader
<1>2. [failures |-> 0, crashes |-> 0] \in [failures : 0 .. MaxFailures, crashes : 0 .. MaxCrashes]
  BY RecordsAssumption
<1>3. PurgeTypeOK
  <2>1. /\ mongo \subseteq Records /\ objects \subseteq Sources
        /\ vectors \subseteq Chunks /\ listed \subseteq Chunks
        /\ manifest \in Manifest \union {None} /\ tombstone \in BOOLEAN
    BY RecordsAssumption DEF Init
  <2>2. stale \in 0 .. MaxStale
    BY RecordsAssumption DEF Init
  <2>3. cache \in [Workers -> SUBSET Records] /\ marked \in [Workers -> SUBSET Records]
    BY RecordsAssumption DEF Init
  <2>4. reader \in [Workers -> Reader]
    BY <1>1 DEF Init
  <2> QED
    BY <1>1, <1>2, <2>1, <2>2, <2>3, <2>4 DEF Init, PurgeTypeOK, Purge
<1>4. RowsStay /\ ReadersFit
  BY <1>1 DEF Init, RowsStay, ReadersFit
<1>5. PurgeFits /\ HiddenWhileStale /\ VerifiedIsEmpty
  BY <1>1 DEF Init, PurgeFits, HiddenWhileStale, VerifiedIsEmpty
<1> QED
  BY <1>3, <1>4, <1>5 DEF PurgeInv

LEMMA NextPurgeInv ==
  ASSUME PurgeInv, [Next]_vars
  PROVE  PurgeInv'
BY NextPurgeTypes, NextRowsStay, NextPurgeFits, NextHidden, NextReadersFit DEF PurgeInv

LEMMA PurgeInvariant == Spec => []PurgeInv
<1>1. Init => PurgeInv
  BY InitPurgeInv
<1>2. PurgeInv /\ [Next]_vars => PurgeInv'
  BY NextPurgeInv
<1> QED
  BY <1>1, <1>2, PTL DEF Spec

-----------------------------------------------------------------------------
(* What holds of every behaviour of PolicyPurgeService and of the requests beside it. *)

(* The manifest, the caches and the requests are what the code admits.                *)
THEOREM PurgeTypes == Spec => []PurgeTypeOK
<1>1. PurgeInv => PurgeTypeOK
  BY DEF PurgeInv
<1> QED
  BY <1>1, PurgeInvariant, PTL

(* A search whose last refresh of the cache began when the purge had begun answers    *)
(* with nothing of the policy, whether the refresh found the manifest or, because the  *)
(* purge ended between its two reads, the tombstone.                                  *)
THEOREM PurgedIsNotServed == Spec => []NotServedOncePurging
<1>1. PurgeInv => NotServedOncePurging
  BY DEF PurgeInv, ReadersFit, NotServedOncePurging
<1> QED
  BY <1>1, PurgeInvariant, PTL

(* A purge keeps its promise whatever fails or stops: once begun nothing of the policy  *)
(* is added again, and "complete" is recorded only when Mongo, R2 and Pinecone hold     *)
(* nothing, as long as no more than three inventories in a row show an old index: the   *)
(* deletion, the two empty ones after it and the verification make four.               *)
THEOREM PurgeKeepsItsPromise ==
  ASSUME MaxStale <= 3
  PROVE  Spec => ImplementsPurgePromise
<1> DEFINE Abstract == Promise!Next \/ UNCHANGED Promise!promise
<1>1. Init => Promise!Init
  <2> SUFFICES ASSUME Init PROVE Promise!Init
    OBVIOUS
  <2>1. PurgeTypeOK
    BY InitPurgeInv DEF PurgeInv
  <2>2. Held \in SUBSET ({"mongo", "r2", "pinecone"} \X Records)
    BY <2>1, RecordsAssumption DEF PurgeTypeOK, Held
  <2>3. PurgeStage = "kept"
    BY DEF Init, PurgeStage
  <2> QED
    BY <2>2, <2>3 DEF Promise!Init
<1>2. Init => VerifiedIsEmpty
  BY InitPurgeInv
<1>3. PurgeInv /\ VerifiedIsEmpty /\ [Next]_vars => VerifiedIsEmpty'
  BY NextVerifiedIsEmpty
<1>4. PurgeInv /\ VerifiedIsEmpty /\ [Next]_vars => Abstract
  <2> SUFFICES ASSUME PurgeInv, VerifiedIsEmpty, [Next]_vars
               PROVE  Abstract
    OBVIOUS
  <2>1. PurgeTypeOK /\ PurgeFits /\ PurgeTypeOK' /\ VerifiedIsEmpty'
    BY NextPurgeTypes, NextVerifiedIsEmpty DEF PurgeInv
  <2>2. Held' \in SUBSET ({"mongo", "r2", "pinecone"} \X Records)
    BY <2>1, RecordsAssumption DEF PurgeTypeOK, Held
  <2>3. (Begun => Begun') /\ (tombstone => tombstone') /\ tombstone \in BOOLEAN
    BY <2>1, BegunStays DEF PurgeTypeOK
  \* Nothing is added once a purge has begun.
  <2>4. ~Begun' \/ (mongo' \subseteq mongo /\ objects' \subseteq objects /\ vectors' \subseteq vectors)
    <3>1. ASSUME NEW w \in Workers, Writes(w), Begun'
          PROVE  mongo' \subseteq mongo
      <4>1. Begun
        BY <2>1, <3>1, WritesFit DEF Begun
      <4>2. PICK dirty \in SUBSET Records : mongo' \subseteq mongo \union dirty /\ dirty = MarksKept(w)
        BY <2>1, <3>1, <4>1, WritesFit
      <4>3. MarksKept(w) \subseteq marked[w] /\ (Core \subseteq cache[w] => MarksKept(w) = {})
        BY <2>1, EvictionTakesChunks, EvictionTakesAll
      <4>4. dirty = {}
        BY <4>2, <4>3 DEF PurgeInv, RowsStay
      <4> QED
        BY <4>2, <4>4
    <3>2. CASE PurgeSteps \/ Fails
      BY <2>1, <3>2, PurgeStepsFit, FailsFit
    <3>3. ASSUME NEW w \in Workers, BeginPurge(w) \/ Crash(w) \/ Searches(w)
          PROVE  UNCHANGED <<mongo, objects, vectors>>
      BY <2>1, <3>3, BeginPurgeFits, CrashFits, SearchesFit
    <3>4. CASE \E w \in Workers : Writes(w)
      BY <2>1, <3>1, <3>4, WritesFit
    <3>5. CASE UNCHANGED vars
      BY <3>5 DEF vars, services
    <3> QED
      BY <3>2, <3>3, <3>4, <3>5, PurgeNextSteps
  <2>5. Begun' => Held' \subseteq Held
    BY <2>4 DEF Held
  <2>6. CASE ~Begun /\ ~Begun'
    BY <2>2, <2>6 DEF Promise!Next, Promise!Change, PurgeStage, Begun
  <2>7. CASE ~Begun /\ Begun'
    <3>1. /\ UNCHANGED <<mongo, objects, vectors, tombstone>> /\ manifest' # None
      <4>1. ASSUME NEW w \in Workers, BeginPurge(w)
            PROVE  UNCHANGED <<mongo, objects, vectors, tombstone>> /\ manifest' # None
        BY <2>1, <4>1, BeginPurgeFits, NoneAssumption
      <4>2. ASSUME NEW w \in Workers, Crash(w) \/ Writes(w) \/ Searches(w)
            PROVE  FALSE
        BY <2>1, <2>7, <4>2, CrashFits, WritesFit, SearchesFit DEF Begun
      <4>3. ~PurgeSteps /\ ~Fails
        BY <2>1, <2>7, PurgeStepsFit, FailsFit DEF PurgeFits, Begun
      <4>4. ~UNCHANGED vars
        BY <2>7 DEF vars, journal, Begun
      <4> QED
        BY <4>1, <4>2, <4>3, <4>4, PurgeNextSteps
    <3> QED
      BY <2>7, <3>1 DEF Promise!Next, Promise!Begin, PurgeStage, Begun, Held
  <2>8. CASE Begun /\ ~tombstone /\ ~tombstone'
    BY <2>3, <2>5, <2>8 DEF Promise!Next, Promise!Remove, PurgeStage, Begun
  <2>9. CASE Begun /\ ~tombstone /\ tombstone'
    <3>1. purge.step = "tombstone"
      BY <2>1, <2>9, PurgeNextSteps, PurgeStepsFit, FailsFit, BeginPurgeFits, CrashFits, WritesFit,
         SearchesFit DEF vars, journal
    <3>2. Held = {}
      BY <3>1 DEF VerifiedIsEmpty, Empty, Held
    <3>3. Held' = Held
      BY <2>3, <2>5, <2>9, <3>2
    <3> QED
      BY <2>9, <3>2, <3>3 DEF Promise!Next, Promise!Complete, PurgeStage, Begun
  <2>10. CASE tombstone
    <3>1. tombstone' /\ Held = {} /\ Held' = {}
      BY <2>1, <2>3, <2>10 DEF VerifiedIsEmpty, Empty, Held
    <3> QED
      BY <2>10, <3>1 DEF Promise!promise, PurgeStage
  <2> QED
    BY <2>3, <2>6, <2>7, <2>8, <2>9, <2>10
<1> QED
  BY <1>1, <1>2, <1>3, <1>4, PurgeInvariant, PTL DEF Spec, ImplementsPurgePromise, Promise!Spec
=============================================================================
