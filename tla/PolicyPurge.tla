----------------------------- MODULE PolicyPurge ------------------------------
(***************************************************************************)
(* The permanent purge of one policy: PolicyPurgeService, PurgeRepository  *)
(* and the purge graph, over Mongo, R2 and Pinecone, with the caches of    *)
(* all workers.                                                            *)
(*                                                                         *)
(* A purge saves a manifest, works through its stages with a checkpoint    *)
(* after each, verifies that nothing is left, writes a tombstone and       *)
(* removes the manifest.  Any step may fail and any worker may stop; an    *)
(* administrator repeats the purge, which goes on from the manifest.       *)
(* Mutating requests exclude each other (WriteLease); searches do not, and *)
(* see the caches at every await.                                          *)
(***************************************************************************)
EXTENDS Naturals

CONSTANTS
  Workers,
  Searchers,   \* bound: the workers that searches are sent to
  Records,     \* Mongo records that may belong to the policy
  Policy,      \* the record of the policy itself
  Core,        \* records of the CORE collections
  Sources,     \* the source documents among the records
  Chunks,      \* the retrieval chunks among the records
  Links,       \* the identifiers each record mentions
  Polls,       \* inventories of Pinecone after the deletion (12)
  MaxStale,    \* how many inventories in a row may show an old state of the index
  MaxFailures, \* bound on the number of failures explored
  MaxCrashes,  \* bound on the number of crashes explored
  None

\* A chunk has the identifier of its policy.
ASSUME RecordsAssumption ==
  /\ Searchers \subseteq Workers /\ Policy \in Core /\ Core \subseteq Records
  /\ Sources \subseteq Core /\ Chunks \subseteq Core
  /\ Links \in [Records -> SUBSET Records] /\ \A c \in Chunks : Policy \in Links[c]
  /\ {Polls, MaxStale, MaxFailures, MaxCrashes} \subseteq Nat

VARIABLES
  mongo,      \* the records in Mongo
  objects,    \* the sources that have artifacts in R2
  vectors,    \* the chunks that have a vector in Pinecone
  listed,     \* the chunks whose vectors Pinecone lists
  stale,      \* inventories in a row that showed an old state
  manifest,   \* the document of policy_purges: the graph and the completed stages
  tombstone,  \* whether the event policy.purged exists
  cache,      \* the policy's records in each worker's store
  marked,     \* the records among a worker's recorded mutations
  purge,      \* the running purge request
  reader,     \* a running search of each worker
  faults      \* failures and crashes so far

services == <<mongo, objects, vectors, listed, stale>>
journal == <<manifest, tombstone>>
workers == <<cache, marked, reader>>
vars == <<mongo, objects, vectors, listed, stale, manifest, tombstone, cache, marked,
          purge, reader, faults>>

Stages == {"pinecone", "r2", "mongo"}
Manifest == [graph : SUBSET Records, done : SUBSET Stages]
PurgeStep == {"idle", "sync", "pinecone", "inventory", "r2", "mongo", "verify", "tombstone",
              "finish"}
Reader == [step : {"idle", "manifests", "tombstones", "searching", "answered"},
           purpose : {"start", "find", "release"},
           seen : BOOLEAN, begun : BOOLEAN, found : SUBSET Chunks]

ASSUME NoneAssumption == None \notin Workers /\ None \notin Manifest

PurgeTypeOK ==
  /\ mongo \subseteq Records /\ objects \subseteq Sources
  /\ vectors \subseteq Chunks /\ listed \subseteq Chunks /\ stale \in 0 .. MaxStale
  /\ manifest \in Manifest \union {None} /\ tombstone \in BOOLEAN
  /\ cache \in [Workers -> SUBSET Records] /\ marked \in [Workers -> SUBSET Records]
  /\ purge \in [step : PurgeStep, worker : Workers \union {None}, polls : 0 .. Polls,
                empty : 0 .. 1]
  /\ reader \in [Workers -> Reader]
  /\ faults \in [failures : 0 .. MaxFailures, crashes : 0 .. MaxCrashes]

NoPurge == [step |-> "idle", worker |-> None, polls |-> 0, empty |-> 0]
NoReader ==
  [step |-> "idle", purpose |-> "find", seen |-> FALSE, begun |-> FALSE, found |-> {}]

\* The published policy, and an index that may not list its latest version yet.
Init ==
  /\ mongo = Core /\ objects = Sources /\ vectors = Chunks
  /\ listed \in {Chunks, {}} /\ stale = 0
  /\ manifest = None /\ tombstone = FALSE
  /\ cache = [w \in Workers |-> Core] /\ marked = [w \in Workers |-> {}]
  /\ purge = NoPurge /\ reader = [w \in Workers |-> NoReader]
  /\ faults = [failures |-> 0, crashes |-> 0]

-----------------------------------------------------------------------------
(* The purge graph and the eviction of a cache. *)

References(record, ids) == ({record} \union Links[record]) \intersect ids # {}

\* discover: the identifiers known so far and those that owned resource rows add to them,
\* until nothing changes.  Other rows that mention one are selected but add nothing.
Closed(rows, ids) ==
  \A r \in rows \intersect Core : References(r, ids) => {r} \union Links[r] \subseteq ids
Identifiers ==
  [rows \in SUBSET Records |-> [known \in SUBSET Records |->
     LET closed == {ids \in SUBSET Records :
                      known \union {Policy} \subseteq ids /\ Closed(rows, ids)}
     IN  {i \in Records : \A ids \in closed : i \in ids}]]
Discover(rows, known) ==
  LET ids == Identifiers[rows][known] IN {r \in rows : References(r, ids)}

\* The records are those of the policy: its own rows lead to each of them.  (TLC tabulates
\* Identifiers when it tests its type; the proofs derive the type.)
ASSUME OwnershipAssumption == \A r \in Records : References(r, Identifiers[Core][{}])
ASSUME IdentifiersType == Identifiers \in [SUBSET Records -> [SUBSET Records -> SUBSET Records]]

Begun == manifest # None \/ tombstone
\* evict: the store forgets the policy and so do the mutations that wait for a flush.
MarksStay(w) == marked[w]
MarksKept(w) ==
  LET ids == Identifiers[cache[w]][{}] IN {r \in marked[w] : ~References(r, ids)}
Kept(w) == cache[w] \ Discover(cache[w], {})
Evict(w) ==
  /\ cache' = [cache EXCEPT ![w] = Kept(w)]
  /\ marked' = [marked EXCEPT ![w] = MarksKept(w)]

-----------------------------------------------------------------------------
(* The purge request. *)

Step(step) == purge' = [purge EXCEPT !.step = step]
Stops == purge' = NoPurge

Started(w) == reader[w].purpose # "start"

\* From no manifest, a policy that exists and was previewed; else the saved manifest.
BeginPurge(w) ==
  /\ purge.step = "idle" /\ Started(w)
  /\ \/ /\ ~Begun /\ Policy \in mongo
        /\ manifest' = [graph |-> Identifiers[mongo][{}], done |-> {}]
     \/ manifest # None /\ UNCHANGED manifest
  /\ purge' = [NoPurge EXCEPT !.step = "sync", !.worker = w]
  /\ UNCHANGED <<services, tombstone, workers, faults>>

\* synchronize_cache in the worker that purges.
SyncOwnCache ==
  /\ purge.step = "sync"
  /\ Evict(purge.worker)
  /\ Step("pinecone")
  /\ UNCHANGED <<services, journal, reader, faults>>

Skip(stage, next) ==
  /\ purge.step = stage /\ stage \in manifest.done
  /\ Step(next)
  /\ UNCHANGED <<services, journal, workers, faults>>
SkipStage == Skip("pinecone", "r2") \/ Skip("r2", "mongo") \/ Skip("mongo", "verify")

\* The checkpoint after a stage.
Done(stage) == manifest' = [manifest EXCEPT !.done = @ \union {stage}]

\* An inventory shows the index as it is, or once more as it was shown before.
Inventory ==
  \/ listed' = vectors /\ stale' = 0
  \/ listed # vectors /\ stale < MaxStale /\ UNCHANGED listed /\ stale' = stale + 1

DeleteVectors ==
  /\ purge.step = "pinecone" /\ "pinecone" \notin manifest.done
  /\ Inventory
  /\ vectors' = vectors \ listed'
  /\ purge' = [purge EXCEPT !.step = "inventory", !.polls = 0, !.empty = 0]
  /\ UNCHANGED <<mongo, objects, journal, workers, faults>>

\* Two empty inventories in a row complete the stage.
EnoughEmptyThrice(empty) == empty = 3
EnoughEmpty(empty) == empty = 2
Poll ==
  LET empty == IF listed' = {} THEN purge.empty + 1 ELSE 0
  IN  /\ purge.step = "inventory" /\ purge.polls < Polls
      /\ Inventory
      /\ IF EnoughEmpty(empty)
         THEN Done("pinecone") /\ purge' = [purge EXCEPT !.step = "r2", !.empty = 0, !.polls = 0]
         ELSE purge' = [purge EXCEPT !.polls = @ + 1, !.empty = empty] /\ UNCHANGED manifest
      /\ UNCHANGED <<mongo, objects, vectors, tombstone, workers, faults>>

DeleteObjects ==
  /\ purge.step = "r2" /\ "r2" \notin manifest.done
  /\ objects' = objects \ manifest.graph
  /\ Done("r2") /\ Step("mongo")
  /\ UNCHANGED <<mongo, vectors, listed, stale, tombstone, workers, faults>>

\* The graph of the manifest is looked for again: what refers to a row that an earlier
\* attempt deleted is still found.
FoundAnew == Discover(mongo, {})
FoundAgain == Discover(mongo, manifest.graph)
DeleteGraph ==
  /\ purge.step = "mongo" /\ "mongo" \notin manifest.done
  /\ mongo' = mongo \ FoundAgain
  /\ Done("mongo") /\ Step("verify")
  /\ UNCHANGED <<objects, vectors, listed, stale, tombstone, workers, faults>>

\* What verify counts, by the stage that has to be repeated for it.
Remaining(inventory) ==
  {stage \in Stages :
     CASE stage = "mongo" -> \E r \in mongo : References(r, manifest.graph)
       [] stage = "r2" -> objects \intersect manifest.graph # {}
       [] stage = "pinecone" -> inventory # {}}
Verify ==
  /\ purge.step = "verify"
  /\ Inventory
  /\ Remaining(listed') = {}
  /\ Step("tombstone")
  /\ UNCHANGED <<mongo, objects, vectors, journal, workers, faults>>
VerifyFinds ==
  /\ purge.step = "verify"
  /\ Inventory
  /\ Remaining(listed') # {}
  /\ manifest' = [manifest EXCEPT !.done = @ \ Remaining(listed')]
  /\ Stops
  /\ UNCHANGED <<mongo, objects, vectors, tombstone, workers, faults>>

WriteTombstone ==
  /\ purge.step = "tombstone"
  /\ tombstone' = TRUE
  /\ Step("finish")
  /\ UNCHANGED <<services, manifest, workers, faults>>

Finish ==
  /\ purge.step = "finish"
  /\ manifest' = None
  /\ Stops
  /\ UNCHANGED <<services, tombstone, workers, faults>>

\* An external call or a checkpoint fails, or the write lease is lost: what was done before
\* stays done, and the stage is not completed.
Fails ==
  /\ purge.step # "idle" /\ faults.failures < MaxFailures
  /\ faults' = [faults EXCEPT !.failures = @ + 1]
  /\ \/ /\ purge.step = "pinecone" /\ \E some \in SUBSET listed : vectors' = vectors \ some
        /\ UNCHANGED <<mongo, objects>>
     \/ /\ purge.step = "r2" /\ \E some \in SUBSET manifest.graph : objects' = objects \ some
        /\ UNCHANGED <<mongo, vectors>>
     \/ /\ purge.step = "mongo" /\ \E some \in SUBSET FoundAgain : mongo' = mongo \ some
        /\ UNCHANGED <<objects, vectors>>
     \/ purge.step \in {"sync", "inventory", "verify", "tombstone", "finish"}
        /\ UNCHANGED <<mongo, objects, vectors>>
  /\ Stops
  /\ UNCHANGED <<listed, stale, journal, workers>>

\* Twelve inventories without two empty ones in a row.
GivesUp ==
  /\ purge.step = "inventory" /\ purge.polls = Polls
  /\ Stops
  /\ UNCHANGED <<services, journal, workers, faults>>

-----------------------------------------------------------------------------
(* Other requests: a write, and a search, of any worker. *)

\* A mutating request, under the guard: the cache is synchronised, the handler changes
\* records of a policy that is there, and the flush writes what is marked, or fails and
\* leaves it marked for the next one.
Write(w, changed) ==
  LET known == IF Begun THEN Kept(w) ELSE cache[w]
      kept == IF Begun THEN MarksKept(w) ELSE marked[w]
      dirty == IF Policy \in known THEN kept \union changed ELSE kept
  IN  /\ purge.step = "idle" /\ Started(w)
      /\ cache' = [cache EXCEPT ![w] = IF Policy \in known THEN known \union changed ELSE known]
      /\ \/ mongo' = mongo \union dirty /\ marked' = [marked EXCEPT ![w] = {}] /\ UNCHANGED faults
         \/ /\ faults.failures < MaxFailures
            /\ faults' = [faults EXCEPT !.failures = @ + 1]
            /\ marked' = [marked EXCEPT ![w] = dirty] /\ UNCHANGED mongo
      /\ UNCHANGED <<objects, vectors, listed, stale, journal, purge, reader>>

\* synchronize_cache reads the manifests, then the tombstones, and then evicts.
ReadsSwapped == <<tombstone, manifest # None>>
Reads == <<manifest # None, tombstone>>

BeginSearch(w) ==
  /\ w \in Searchers /\ reader[w].step = "idle"
  /\ reader' = [reader EXCEPT ![w].step = "manifests"]
  /\ UNCHANGED <<services, journal, cache, marked, purge, faults>>

ReadManifests(w) ==
  /\ reader[w].step = "manifests"
  /\ reader' = [reader EXCEPT ![w].step = "tombstones", ![w].seen = Reads[1], ![w].begun = Begun]
  /\ UNCHANGED <<services, journal, cache, marked, purge, faults>>

\* The eviction, and what the request does before it waits again: a worker that starts is
\* ready, retrieve takes the eligible chunks, and at the end selects those of the chunks it
\* found that are still there.
ReadTombstones(w) ==
  LET seen == reader[w].seen \/ Reads[2]
      kept == IF seen THEN Kept(w) ELSE cache[w]
  IN  /\ reader[w].step = "tombstones"
      /\ cache' = [cache EXCEPT ![w] = kept]
      /\ marked' = [marked EXCEPT ![w] = IF seen THEN MarksKept(w) ELSE @]
      /\ \/ /\ reader[w].purpose = "start" /\ reader' = [reader EXCEPT ![w] = NoReader]
         \/ /\ reader[w].purpose = "find"
            /\ reader' = [reader EXCEPT ![w].step = "searching", ![w].seen = FALSE, ![w].begun = FALSE,
                                        ![w].found = kept \intersect Chunks]
         \/ /\ reader[w].purpose = "release"
            /\ reader' = [reader EXCEPT ![w].step = "answered", ![w].found = @ \intersect kept]
      /\ UNCHANGED <<services, journal, purge, faults>>

\* Embedding and search have answered: retrieve refreshes once more before it selects.
SearchReturns(w) ==
  /\ reader[w].step = "searching"
  /\ reader' = [reader EXCEPT ![w].step = "manifests", ![w].purpose = "release"]
  /\ UNCHANGED <<services, journal, cache, marked, purge, faults>>

Answered(w) ==
  /\ reader[w].step = "answered"
  /\ reader' = [reader EXCEPT ![w] = NoReader]
  /\ UNCHANGED <<services, journal, cache, marked, purge, faults>>

\* A worker is killed in the middle of anything; it starts again from Mongo and synchronises
\* before it takes requests.
Crash(w) ==
  /\ faults.crashes < MaxCrashes
  /\ faults' = [faults EXCEPT !.crashes = @ + 1]
  /\ cache' = [cache EXCEPT ![w] = mongo] /\ marked' = [marked EXCEPT ![w] = {}]
  /\ reader' = [reader EXCEPT ![w] = [NoReader EXCEPT !.step = "manifests", !.purpose = "start"]]
  /\ purge' = IF purge.worker = w THEN NoPurge ELSE purge
  /\ UNCHANGED <<services, journal>>

PurgeSteps ==
  \/ SyncOwnCache \/ SkipStage \/ DeleteVectors \/ Poll \/ GivesUp \/ DeleteObjects
  \/ DeleteGraph \/ Verify \/ VerifyFinds \/ WriteTombstone \/ Finish

Next ==
  \/ PurgeSteps \/ Fails
  \/ \E w \in Workers :
       \/ BeginPurge(w) \/ Crash(w)
       \/ \E r \in Records \ Core : Write(w, {r})
       \/ BeginSearch(w) \/ ReadManifests(w) \/ ReadTombstones(w) \/ SearchReturns(w) \/ Answered(w)

\* A purge goes on as long as its worker runs, a worker that starts comes up, and an
\* administrator repeats a purge that was reported failed or never answered.
Fairness ==
  /\ WF_vars(PurgeSteps)
  /\ \A w \in Workers : WF_vars(ReadManifests(w) \/ ReadTombstones(w))
  /\ WF_vars(\E w \in Workers : manifest # None /\ BeginPurge(w))

Spec == Init /\ [][Next]_vars
FairSpec == Spec /\ Fairness

-----------------------------------------------------------------------------
(* Properties. *)

\* What the services hold of the policy.
Held ==
  ({"mongo"} \X mongo) \union ({"r2"} \X objects) \union ({"pinecone"} \X vectors)
PurgeStage == IF tombstone THEN "gone" ELSE IF manifest # None THEN "purging" ELSE "kept"
Promise == INSTANCE PurgePromise WITH
  Things <- {"mongo", "r2", "pinecone"} \X Records, stage <- PurgeStage, left <- Held

\* The purge keeps its promise through every failure, crash and stale inventory: once begun
\* nothing is added again, by no worker's cache or waiting mutation; it is never forgotten
\* half way; and "complete" is recorded only when Mongo, R2 and Pinecone hold nothing.
ImplementsPurgePromise == Promise!Spec

\* A search that began its last cache refresh when the purge had begun returns nothing of
\* the policy, whatever the purge does between the two reads of the refresh.
NotServedOncePurging ==
  \A w \in Workers : reader[w].step = "answered" /\ reader[w].begun => reader[w].found = {}

\* A purge that has begun and is repeated after every failure completes.
PurgeCompletes == manifest # None ~> tombstone /\ manifest = None
===============================================================================
