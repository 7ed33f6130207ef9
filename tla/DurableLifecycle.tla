-------------------------- MODULE DurableLifecycle ---------------------------
(***************************************************************************)
(* The policy lifecycle with its persistence: the FoundationStore of       *)
(* PolicyLifecycle is a process's memory, the handlers mark the records    *)
(* they modified, and the marked records are written to Mongo after each   *)
(* successful mutating request and after a conflict in publishing.  A      *)
(* process that stops loses its memory and starts again from what Mongo    *)
(* holds.                                                                  *)
(***************************************************************************)
EXTENDS PolicyLifecycle, Sequences

CONSTANTS
  AtomicFlush,       \* TRUE: a flush writes every marked record or none
  MaxRestarts,       \* bound on the number of restarts explored
  MaxFlushFailures   \* bound on the number of failed flushes explored

ASSUME FlushAssumption == AtomicFlush \in BOOLEAN /\ MaxRestarts \in Nat /\ MaxFlushFailures \in Nat

VARIABLES
  mongo,     \* the persisted collections
  pending,   \* store._mutations: the marked records
  order,     \* the pairs of marked records of which one was marked before the other
  rows,      \* the retrieval chunks among the marked records, as they were marked
  reply,     \* a flush is due before the running request is answered
  lost,      \* identifiers that a restart forgot and that are never generated again
  restarts,  \* restarts so far
  flushFailures

durable == <<mongo, pending, order, rows, reply, lost, restarts, flushFailures>>
allVars == <<vars, durable>>

-----------------------------------------------------------------------------
(* Marks and flushes. *)

Key(collection, id) == <<collection, id>>
PolicyKeys == {"policies"} \X Policies
VersionKeys == {"policy_versions"} \X Versions
SourceKeys == {"source_documents", "canonical_sops", "ingestion_jobs"} \X Sources
ChunkKey == Key("retrieval_chunks", None)
Keys == PolicyKeys \union VersionKeys \union SourceKeys \union {ChunkKey}

\* Of marks made in the order of a sequence of sets, `key` is made before `other`; nothing is
\* assumed of the order inside a set, where the code goes through a dictionary.
MadeBefore(marks, key, other) ==
  \E i \in DOMAIN marks : key \in marks[i] /\ \A j \in 1 .. i : other \notin marks[j]
MadeIn(marks) == UNION {marks[i] : i \in DOMAIN marks}

\* Marks that do not notice that a record is marked already.
MarkModifiedAgain(marks) ==
  /\ pending' = pending \union MadeIn(marks)
  /\ order' = order \union (pending \X MadeIn(marks))

\* mark_modified: a record that is marked already keeps its place.
MarkModified(marks) ==
  LET new == MadeIn(marks) \ pending
  IN  /\ pending' = pending \union new
      /\ order' = order \union (pending \X new)
                  \union {pair \in new \X new : MadeBefore(marks, pair[1], pair[2])}

\* flush goes through the collections in the order of their first mark, and through the
\* records of each in the order of theirs.
FlushedBefore(key, other) ==
  IF key[1] = other[1] THEN <<key, other>> \in order
  ELSE \E first \in pending : first[1] = key[1] /\ \A k \in pending :
         k[1] = other[1] => <<first, k>> \in order

Overwrite(old, new) == {c \in old : \A d \in new : VectorOf(c) # VectorOf(d)} \union new

\* What Mongo holds when these of the marked records have been written.
Written(keys) ==
  [policies |-> [p \in Policies |->
     IF Key("policies", p) \in keys THEN policies[p] ELSE mongo.policies[p]],
   versions |-> [v \in Versions |->
     IF Key("policy_versions", v) \in keys THEN versions[v] ELSE mongo.versions[v]],
   sources |-> [s \in Sources |->
     IF Key("source_documents", s) \in keys THEN sources[s] ELSE mongo.sources[s]],
   canonicals |-> [s \in Sources |->
     IF Key("canonical_sops", s) \in keys THEN canonicals[s] ELSE mongo.canonicals[s]],
   jobs |-> [s \in Sources |->
     IF Key("ingestion_jobs", s) \in keys THEN jobs[s] ELSE mongo.jobs[s]],
   chunks |-> IF ChunkKey \in keys THEN Overwrite(mongo.chunks, rows) ELSE mongo.chunks]

Mark(marks, chunkRows) ==
  /\ ~reply
  /\ MarkModified(marks)
  /\ rows' = Overwrite(rows, chunkRows)
  /\ UNCHANGED <<mongo, lost, restarts, flushFailures>>

\* The handler succeeded and the middleware flushes next, or preparing or publishing was
\* refused or failed and the endpoint flushes before it reports the conflict.
FlushDue(marks, chunkRows) == Mark(marks, chunkRows) /\ reply' = TRUE

\* The handler failed otherwise: what it marked waits for a later flush.
Failed(marks) == Mark(marks, {}) /\ UNCHANGED reply

Waits == ~reply /\ UNCHANGED durable

\* The records that handlers mark, in the order in which they do.
One(collection, id) == <<{Key(collection, id)}>>
Several(collection, ids) == <<{Key(collection, id) : id \in ids}>>

\* _process marks the version only when the document gives it an effective date.
ProcessMarks(s, v, units, dated) ==
  IF units = {} THEN One("source_documents", s)
  ELSE Several("policy_versions", IF dated THEN {v} ELSE {})
       \o One("canonical_sops", s) \o One("source_documents", s)
IngestMarks(s, v, units, dated) ==
  One("source_documents", s) \o One("ingestion_jobs", s) \o ProcessMarks(s, v, units, dated)

JobsOf(v) == {s \in Sources : sources[s].version_id = v}
CloneMarks(v, copies) ==
  Several("source_documents", copies) \o Several("canonical_sops", copies)
  \o Several("ingestion_jobs", copies) \o One("policy_versions", v)
\* publish and rollback mark the version that was active before the new one.
PreviousMarks(p) == Several("policy_versions", {policies[p].active_version_id} \ {None})
PublishMarksWithoutChunks(v) ==
  PreviousMarks(PolicyOf[v]) \o One("policy_versions", v) \o One("policies", PolicyOf[v])
PublishMarksWithoutVersion(v) ==
  PreviousMarks(PolicyOf[v]) \o <<{ChunkKey}>> \o One("policies", PolicyOf[v])
PublishMarks(v) ==
  PreviousMarks(PolicyOf[v])
  \o <<{ChunkKey}>> \o One("policy_versions", v) \o One("policies", PolicyOf[v])
RollbackMarks(v) ==
  PreviousMarks(PolicyOf[v]) \o One("policy_versions", v) \o One("policies", PolicyOf[v])
ReviewMarks(s) ==
  One("canonical_sops", s) \o One("source_documents", s)
  \o One("policy_versions", sources[s].version_id)
PdfMarks(s) ==
  Several("canonical_sops", IF Extracted(s) /\ canonicals[s].approved THEN {s} ELSE {})
  \o One("policy_versions", sources[s].version_id) \o One("source_documents", s)

-----------------------------------------------------------------------------
DurableInit ==
  /\ Init
  /\ mongo = [policies |-> policies, versions |-> versions, sources |-> sources,
              canonicals |-> canonicals, jobs |-> jobs, chunks |-> {}]
  /\ pending = {} /\ order = {} /\ rows = {} /\ reply = FALSE
  /\ lost = {} /\ restarts = 0 /\ flushFailures = 0

Fresh(ids) == ids \intersect lost = {}

Drafting ==
  \/ \E p \in Policies, v \in Versions, scope \in Scopes :
        /\ CreatePolicy(p, v, scope) /\ Fresh({p, v})
        /\ FlushDue(One("policies", p) \o One("policy_versions", v), {})
  \/ \E p \in Policies, v \in Versions, scope \in Scopes, clone \in [Sources -> Sources] :
        /\ CreateCorrectedAccessVersion(p, v, scope, clone)
        /\ Fresh({v} \union versions'[v].source_document_ids)
        /\ FlushDue(CloneMarks(v, versions'[v].source_document_ids), {})
  \/ \E v \in Versions, scope \in Scopes :
        SetAccess(v, scope) /\ FlushDue(One("policy_versions", v), {})

Sourcing ==
  \/ \E v \in Versions, s \in Sources, units \in SUBSET Units, markdown, dated \in BOOLEAN :
        /\ UploadSource(v, s, units, markdown) /\ Fresh({s})
        /\ FlushDue(IngestMarks(s, v, units, dated), {})
  \/ \E v \in Versions, s \in Sources, units \in SUBSET Units, dated \in BOOLEAN :
        /\ ImportUnattached(v, s, units) /\ Fresh({s})
        /\ Failed(IngestMarks(s, v, units, dated))
  \/ \E s \in Sources, units \in SUBSET Units, dated \in BOOLEAN :
        /\ RetrySource(s, units)
        /\ FlushDue(ProcessMarks(s, sources[s].version_id, units, dated), {})
  \/ \E s \in Sources, units \in (SUBSET Units) \ {{}}, scope \in Scopes :
        UpdateReview(s, units, scope) /\ FlushDue(ReviewMarks(s), {})
  \/ \E s \in Sources : AttachOriginalPdf(s) /\ FlushDue(PdfMarks(s), {})
  \/ \E s \in Sources :
        /\ ApproveStructure(s)
        /\ FlushDue(One("policy_versions", sources[s].version_id), {})

\* A request to prepare or publish that is refused writes what other requests left marked;
\* with nothing marked it changes nothing.
RefusePublication(v) ==
  /\ Idle /\ Exists(v) /\ pending # {}
  /\ ~AllApproved(v) \/ versions[v].status # "ready_to_publish"
  /\ FlushDue(<<>>, {})
  /\ UNCHANGED vars

Publishing ==
  \/ \E v \in Versions : PrepareBegins(v) /\ Waits
  \/ StageVectors /\ Waits
  \/ /\ PrepareSucceeds
     /\ FlushDue(<<{ChunkKey}>> \o One("policy_versions", call.version), call.batch)
  \/ /\ IndexingFails
     /\ FlushDue(One("policy_versions", call.version)
                   \o Several("ingestion_jobs", JobsOf(call.version)), {})
  \/ \E v \in Versions : RefusePublication(v)
  \/ \E v \in Versions : PublishBegins(v) /\ Waits
  \/ \E c \in Chunk : ActivateVector(c) /\ Waits
  \/ /\ PublishSucceeds
     /\ FlushDue(PublishMarks(call.version), chunks'[call.version])
  \/ \E v \in Versions : Rollback(v) /\ FlushDue(RollbackMarks(v), {})
  \/ \E p \in Policies : Deactivate(p) /\ FlushDue(One("policies", p), {})

Flush ==
  /\ reply
  /\ mongo' = Written(pending)
  /\ pending' = {} /\ order' = {} /\ rows' = {} /\ reply' = FALSE
  /\ UNCHANGED <<vars, lost, restarts, flushFailures>>

\* A write fails after these records were written: the client gets an error and the marks
\* stay.
Interrupted ==
  LET before == {pair \in pending \X pending : FlushedBefore(pair[1], pair[2])}
  IN  IF AtomicFlush THEN {{}}
      ELSE {keys \in SUBSET pending :
              \A pair \in before : pair[2] \in keys => pair[1] \in keys}
FlushFails ==
  /\ reply /\ flushFailures < MaxFlushFailures
  /\ \E keys \in Interrupted : mongo' = Written(keys)
  /\ reply' = FALSE
  /\ flushFailures' = flushFailures + 1
  /\ UNCHANGED <<vars, pending, order, rows, lost, restarts>>

\* MongoFoundationPersistence.load into an empty store.
Load(from) ==
  /\ policies' = from.policies /\ versions' = from.versions /\ sources' = from.sources
  /\ canonicals' = from.canonicals /\ jobs' = from.jobs
  /\ chunks' = [v \in Versions |->
        {c \in from.chunks : from.sources[c.source].version_id = v}]

Restart(from) ==
  /\ restarts < MaxRestarts
  /\ mongo' = from
  /\ Load(from)
  /\ lost' = lost
        \union {p \in Policies :
                  policies[p].status # "absent" /\ from.policies[p].status = "absent"}
        \union {v \in Versions : Exists(v) /\ from.versions[v].status = "absent"}
        \union {s \in Sources : sources[s].status # "absent" /\ from.sources[s].status = "absent"}
  /\ pending' = {} /\ order' = {} /\ rows' = {} /\ reply' = FALSE
  /\ call' = NoCall
  /\ restarts' = restarts + 1
  /\ UNCHANGED flushFailures
  /\ UNCHANGED index

Crash == Restart(mongo)

\* The lifespan's last flush, under the write guard.
Shutdown == Idle /\ ~reply /\ Restart(Written(pending))

DurableNext ==
  \/ Drafting
  \/ Sourcing
  \/ Publishing
  \/ Flush
  \/ FlushFails
  \/ Crash
  \/ Shutdown

DurableSpec == DurableInit /\ [][DurableNext]_allVars

-----------------------------------------------------------------------------
DurableTypeOK ==
  /\ mongo \in [policies : [Policies -> Policy], versions : [Versions -> Version],
                sources : [Sources -> Source],
                canonicals : [Sources -> Canonical \union {None}],
                jobs : [Sources -> JobState], chunks : SUBSET Chunk]
  /\ pending \subseteq Keys
  /\ order \subseteq pending \X pending
  /\ \A k, l \in pending : <<k, l>> \in order => <<l, k>> \notin order
  /\ rows \subseteq Chunk /\ (rows # {} => ChunkKey \in pending)
  /\ reply \in BOOLEAN
  /\ lost \subseteq Policies \union Versions \union Sources
  /\ restarts \in 0 .. MaxRestarts /\ flushFailures \in 0 .. MaxFlushFailures

\* The active version that Mongo names is a published one: whatever a flush had written
\* when it stopped, a restart finds a policy to show (a publication is not half visible).
PersistedActiveIsPublished ==
  \A p \in Policies :
    mongo.policies[p].active_version_id # None =>
      mongo.versions[mongo.policies[p].active_version_id].status = "published"

\* A restart does not change what employees are shown for a policy, unless a publication,
\* a rollback or a withdrawal was not acknowledged yet.
RestartKeepsServed ==
  [][Crash \/ Shutdown =>
       \A p \in Policies :
         Key("policies", p) \notin pending => Served(p)' = Served(p)]_allVars
=============================================================================
