--------------------------- MODULE PolicyLifecycle ---------------------------
(***************************************************************************)
(* Publication lifecycle of policy versions, as PolicyService, the         *)
(* ingestion pipeline and the admin endpoints keep it in the               *)
(* FoundationStore and in the derived Pinecone index.                      *)
(*                                                                         *)
(* The write guard serialises mutating requests, so a request that never   *)
(* waits on the index is one step.  Preparing and publishing a version     *)
(* wait on the embedding provider and on Pinecone; between those waits     *)
(* readers see the store, so each segment between two waits is a step.     *)
(* One organization is modelled, and administrators who manage every       *)
(* scope.                                                                  *)
(***************************************************************************)
EXTENDS Naturals, FiniteSets

CONSTANTS
  Policies,    \* identifiers of SOP policies
  Versions,    \* identifiers of policy versions
  Sources,     \* identifiers of uploaded source documents
  Units,       \* pieces of a document that become one retrieval chunk each
  Scopes,      \* access scopes
  PolicyOf,    \* the policy a version identifier belongs to
  PrepareByPage,   \* TRUE: versions are prepared only when the review page offers it
  RollbackByPage,  \* TRUE: only versions that were published are rolled back to
  None

ASSUME PolicyOfAssumption == PolicyOf \in [Versions -> Policies]
ASSUME ClientAssumption == PrepareByPage \in BOOLEAN /\ RollbackByPage \in BOOLEAN

VARIABLES
  policies,    \* store.policies
  versions,    \* store.versions
  sources,     \* store.sources
  canonicals,  \* store.canonicals: the reviewed structure of each source
  jobs,        \* store.jobs: the state of each source's ingestion job
  chunks,      \* store.chunks: the retrieval chunks of each version
  index,       \* publication_status of each vector in Pinecone
  call         \* the request that is waiting on an external service

store == <<policies, versions, sources, canonicals, jobs, chunks>>
vars == <<policies, versions, sources, canonicals, jobs, chunks, index, call>>

-----------------------------------------------------------------------------
(* Records of the store. *)

VersionStatus == {"absent", "draft", "extraction_review", "ready_for_indexing",
                  "indexing", "ready_to_publish", "published", "superseded",
                  "failed"}
Frozen == {"published", "superseded"}
JobState == {"absent", "extracting", "review_required", "structure_approved", "indexing",
             "ready_for_review", "published", "failed"}

Policy == [status : {"absent", "draft", "active", "inactive"},
           active_version_id : Versions \union {None}]
Version == [status : VersionStatus, access : Scopes \union {None}, index_revision : BOOLEAN,
            source_document_ids : SUBSET Sources]
Source == [status : {"absent", "processing", "review_required", "approved", "failed"},
           version_id : Versions \union {None}, markdown_only : BOOLEAN]
Canonical == [units : SUBSET Units, access : Scopes, approved : BOOLEAN]
Chunk == [source : Sources, unit : Units, access : Scopes,
          publication_status : {"staged", "published"}]
VectorId == Sources \X Units
Call == [op : {"none", "embedding", "verifying", "activating"},
         version : Versions \union {None}, batch : SUBSET Chunk]

ASSUME NoneAssumption == None \notin Versions /\ None \notin Canonical

\* A write guard that only publishing takes.
IdleExceptIndexing == call.op # "activating"
Idle == call.op = "none"
NoCall == [op |-> "none", version |-> None, batch |-> {}]
Exists(v) == versions[v].status # "absent"
\* A guard that forgets the superseded versions.
EditableUnlessPublished(v) == Exists(v) /\ versions[v].status # "published"
Editable(v) == Exists(v) /\ versions[v].status \notin Frozen
Extracted(s) == canonicals[s] # None
\* A version whose access is left for later.
NewVersionWithoutAccess(status, scope, ids) ==
  [status |-> status, access |-> None, index_revision |-> FALSE,
   source_document_ids |-> ids]
NewVersion(status, scope, ids) ==
  [status |-> status, access |-> scope, index_revision |-> FALSE,
   source_document_ids |-> ids]
Draft(units, scope) == [units |-> units, access |-> scope, approved |-> FALSE]
VectorOf(c) == <<c.source, c.unit>>

Init ==
  /\ policies = [p \in Policies |-> [status |-> "absent", active_version_id |-> None]]
  /\ versions = [v \in Versions |-> NewVersion("absent", None, {})]
  /\ sources = [s \in Sources |->
                  [status |-> "absent", version_id |-> None, markdown_only |-> FALSE]]
  /\ canonicals = [s \in Sources |-> None]
  /\ jobs = [s \in Sources |-> "absent"]
  /\ chunks = [v \in Versions |-> {}]
  /\ index = [id \in VectorId |-> "absent"]
  /\ call = NoCall

-----------------------------------------------------------------------------
(* Drafting: the policy, its versions and their access. *)

\* POST /admin/policies creates the policy together with its first version.
CreatePolicy(p, v, scope) ==
  /\ Idle
  /\ policies[p].status = "absent"
  /\ PolicyOf[v] = p /\ ~Exists(v)
  /\ policies' = [policies EXCEPT ![p].status = "draft"]
  /\ versions' = [versions EXCEPT ![v] = NewVersion("draft", scope, {})]
  /\ UNCHANGED <<sources, canonicals, jobs, chunks, index, call>>

\* The published content is cloned, unapproved, into a new version; `clone` names
\* the source each published source is copied to.
CreateCorrectedAccessVersion(p, v, scope, clone) ==
  LET current == policies[p].active_version_id
      originals == versions[current].source_document_ids
      copies == {clone[s] : s \in originals}
      OriginalOf(n) == CHOOSE s \in originals : clone[s] = n
  IN  /\ Idle
      /\ current # None /\ versions[current].status = "published"
      /\ \A s \in originals : Extracted(s) /\ sources[s].version_id = current
      /\ PolicyOf[v] = p /\ ~Exists(v)
      /\ \A s \in originals : sources[clone[s]].status = "absent"
      /\ \A s, t \in originals : clone[s] = clone[t] => s = t
      /\ versions' = [versions EXCEPT ![v] = NewVersion("extraction_review", scope, copies)]
      /\ sources' = [n \in Sources |->
            IF n \in copies
            THEN [status |-> "review_required", version_id |-> v,
                  markdown_only |-> sources[OriginalOf(n)].markdown_only]
            ELSE sources[n]]
      /\ canonicals' = [n \in Sources |->
            IF n \in copies THEN Draft(canonicals[OriginalOf(n)].units, scope)
                            ELSE canonicals[n]]
      /\ jobs' = [n \in Sources |-> IF n \in copies THEN "review_required" ELSE jobs[n]]
      /\ UNCHANGED <<policies, chunks, index, call>>

SetAccess(v, scope) ==
  /\ Idle /\ Editable(v)
  /\ versions' = [versions EXCEPT ![v].access = scope,
                                  ![v].index_revision = FALSE,
                                  ![v].status = "extraction_review"]
  /\ chunks' = [chunks EXCEPT ![v] = {}]
  /\ canonicals' = [s \in Sources |->
        IF s \in versions[v].source_document_ids /\ Extracted(s)
        THEN [canonicals[s] EXCEPT !.access = scope] ELSE canonicals[s]]
  /\ UNCHANGED <<policies, sources, jobs, index, call>>

-----------------------------------------------------------------------------
(* Sources: ingestion, retry, review and approval. *)

\* IngestionPipeline._process, whose failure is caught and recorded: `units` is
\* what the parser found, and {} stands for a failed extraction.
Process(s, v, units, markdown) ==
  /\ sources' = [sources EXCEPT ![s] =
        [status |-> IF units = {} THEN "failed" ELSE "review_required",
         version_id |-> v, markdown_only |-> markdown]]
  /\ jobs' = [jobs EXCEPT ![s] = IF units = {} THEN "failed" ELSE "review_required"]
  /\ canonicals' = [canonicals EXCEPT ![s] =
        IF units = {} THEN canonicals[s] ELSE Draft(units, versions[v].access)]

\* Ingesting over a document that exists.
IngestAgain(v, s, units, markdown) ==
  /\ Idle /\ Editable(v)
  /\ Process(s, v, units, markdown)

Ingest(v, s, units, markdown) ==
  /\ Idle /\ Editable(v)
  /\ sources[s].status = "absent"
  /\ Process(s, v, units, markdown)

AttachSource(v, s, status) ==
  versions' = [versions EXCEPT ![v].source_document_ids = @ \union {s}, ![v].status = status]

UploadSource(v, s, units, markdown) ==
  /\ Ingest(v, s, units, markdown)
  /\ AttachSource(v, s, "extraction_review")
  /\ UNCHANGED <<policies, chunks, index, call>>

\* write_guard's task group cancels the handler when a renewal of the lease fails, and no
\* `except Exception` sees that: the document stays in processing.
AbandonProcessing(s, v, markdown) ==
  /\ sources' = [sources EXCEPT ![s] =
        [status |-> "processing", version_id |-> v, markdown_only |-> markdown]]
  /\ jobs' = [jobs EXCEPT ![s] = "extracting"]
  /\ UNCHANGED <<policies, versions, canonicals, chunks, index, call>>

IngestCancelled(v, s) ==
  /\ Idle /\ Editable(v)
  /\ sources[s].status = "absent"
  /\ \E markdown \in BOOLEAN : AbandonProcessing(s, v, markdown)

\* An import whose PDF cannot be stored after the structured file was ingested: the
\* handler raises before attach_source, and the ingested source stays in the store.
ImportUnattached(v, s, units) ==
  /\ \E markdown \in BOOLEAN : Ingest(v, s, units, markdown)
  /\ UNCHANGED <<policies, versions, chunks, index, call>>

RetrySource(s, units) ==
  LET v == sources[s].version_id
  IN  /\ Idle
      /\ sources[s].status # "absent" /\ Editable(v)
      /\ jobs[s] = "failed"
      /\ Process(s, v, units, sources[s].markdown_only)
      /\ UNCHANGED <<policies, versions, chunks, index, call>>

RetryCancelled(s) ==
  /\ Idle
  /\ sources[s].status # "absent" /\ Editable(sources[s].version_id)
  /\ jobs[s] = "failed"
  /\ AbandonProcessing(s, sources[s].version_id, sources[s].markdown_only)

\* An invalidation that drops the index and leaves the status.
InvalidateIndexOnly(v) ==
  /\ versions' = [versions EXCEPT ![v].index_revision = FALSE]
  /\ chunks' = [chunks EXCEPT ![v] = {}]

InvalidateAfterReview(v) ==
  /\ versions' = [versions EXCEPT ![v].index_revision = FALSE,
                                  ![v].status = "extraction_review"]
  /\ chunks' = [chunks EXCEPT ![v] = {}]

UpdateReview(s, units, scope) ==
  LET v == sources[s].version_id
  IN  /\ Idle
      /\ sources[s].status # "absent" /\ Editable(v) /\ Extracted(s)
      /\ canonicals' = [canonicals EXCEPT ![s] = Draft(units, scope)]
      /\ sources' = [sources EXCEPT ![s].status = "review_required"]
      /\ InvalidateAfterReview(v)
      /\ UNCHANGED <<policies, jobs, index, call>>

AttachOriginalPdf(s) ==
  LET v == sources[s].version_id
  IN  /\ Idle
      /\ sources[s].status # "absent" /\ Editable(v)
      /\ sources[s].markdown_only
      /\ sources' = [sources EXCEPT ![s].markdown_only = FALSE,
                                    ![s].status = "review_required"]
      /\ canonicals' = [canonicals EXCEPT ![s] =
            IF Extracted(s) THEN [canonicals[s] EXCEPT !.approved = FALSE] ELSE None]
      /\ InvalidateAfterReview(v)
      /\ UNCHANGED <<policies, jobs, index, call>>

ApproveStructure(s) ==
  LET v == sources[s].version_id
  IN  /\ Idle
      /\ sources[s].status # "absent" /\ Extracted(s) /\ Editable(v)
      /\ canonicals' = [canonicals EXCEPT ![s].approved = TRUE]
      /\ sources' = [sources EXCEPT ![s].status = "approved"]
      /\ AttachSource(v, s, "ready_for_indexing")
      /\ jobs' = [jobs EXCEPT ![s] = "structure_approved"]
      /\ UNCHANGED <<policies, chunks, index, call>>

-----------------------------------------------------------------------------
(* Preparing a version: chunk, embed, stage and verify. *)

\* prepare_for_publication itself looks at no status; the review page offers the
\* button only in these two.
PrepareOffered(v) == PrepareByPage => versions[v].status \in {"ready_for_indexing", "failed"}

Documents(v) == {s \in versions[v].source_document_ids : Extracted(s)}

\* One approved document standing for all.
AnyApproved(v) == \E s \in Documents(v) : canonicals[s].approved
AllApproved(v) == Documents(v) # {} /\ \A s \in Documents(v) : canonicals[s].approved

ChunksOf(ids, status) ==
  {c \in Chunk : /\ c.source \in ids
                 /\ c.unit \in canonicals[c.source].units
                 /\ c.access = canonicals[c.source].access
                 /\ c.publication_status = status}

\* The handlers that move every ingestion job of a version.
JobsTransition(v, state) ==
  jobs' = [s \in Sources |-> IF sources[s].version_id = v THEN state ELSE jobs[s]]

PrepareBegins(v) ==
  /\ Idle /\ Exists(v) /\ PrepareOffered(v)
  /\ AllApproved(v)
  /\ versions' = [versions EXCEPT ![v].status = "indexing"]
  /\ JobsTransition(v, "indexing")
  /\ call' = [op |-> "embedding", version |-> v, batch |-> ChunksOf(Documents(v), "staged")]
  /\ UNCHANGED <<policies, sources, canonicals, chunks, index>>

StageVectors ==
  /\ call.op = "embedding"
  /\ index' = [id \in VectorId |->
        IF \E c \in call.batch : VectorOf(c) = id THEN "staged" ELSE index[id]]
  /\ call' = [call EXCEPT !.op = "verifying"]
  /\ UNCHANGED store

PrepareSucceeds ==
  LET v == call.version
  IN  /\ call.op = "verifying"
      /\ \A c \in call.batch : index[VectorOf(c)] = "staged"
      /\ versions' = [versions EXCEPT ![v].index_revision = TRUE,
                                      ![v].status = "ready_to_publish"]
      /\ chunks' = [chunks EXCEPT ![v] = call.batch]
      /\ JobsTransition(v, "ready_for_review")
      /\ call' = NoCall
      /\ UNCHANGED <<policies, sources, canonicals, index>>

\* An exception from embedding, staging, verifying or activating, or a verification
\* that does not find the staged vectors.
IndexingFails ==
  LET v == call.version
  IN  /\ ~Idle
      /\ versions' = [versions EXCEPT ![v].status = "failed"]
      /\ JobsTransition(v, "failed")
      /\ call' = NoCall
      /\ UNCHANGED <<policies, sources, canonicals, chunks, index>>

\* The write lease is lost while a version is prepared or published: the handler is
\* cancelled at its await and no failure is recorded.
RequestCancelled ==
  /\ ~Idle
  /\ call' = NoCall
  /\ UNCHANGED <<store, index>>

-----------------------------------------------------------------------------
(* Publishing, rolling back, deactivating. *)

\* Activating only what is already marked published.
PublishBeginsMarkedOnly(v) ==
  /\ Idle
  /\ versions[v].status = "ready_to_publish" /\ versions[v].index_revision
  /\ call' = [op |-> "activating", version |-> v,
              batch |-> {c \in chunks[v] : c.publication_status = "published"}]
  /\ UNCHANGED <<store, index>>

\* Superseding the active version before the new one is activated.
PublishBeginsSuperseding(v) ==
  /\ Idle
  /\ versions[v].status = "ready_to_publish" /\ versions[v].index_revision
  /\ call' = [op |-> "activating", version |-> v, batch |-> chunks[v]]
  /\ versions' = [w \in Versions |-> IF w = policies[PolicyOf[v]].active_version_id
                     THEN [versions[w] EXCEPT !.status = "superseded"] ELSE versions[w]]
  /\ UNCHANGED <<policies, sources, canonicals, jobs, chunks, index>>

PublishBegins(v) ==
  /\ Idle
  /\ versions[v].status = "ready_to_publish" /\ versions[v].index_revision
  /\ call' = [op |-> "activating", version |-> v, batch |-> chunks[v]]
  /\ UNCHANGED <<store, index>>

\* PineconeRetrievalIndex.activate updates one vector at a time.
ActivateVector(c) ==
  /\ call.op = "activating"
  /\ c \in call.batch /\ index[VectorOf(c)] = "staged"
  /\ index' = [index EXCEPT ![VectorOf(c)] = "published"]
  /\ UNCHANGED <<store, call>>

\* The version that was active is left published.
ActivatedAlone(p, v) ==
  /\ versions' = [versions EXCEPT ![v].status = "published"]
  /\ policies' = [policies EXCEPT ![p] = [status |-> "active", active_version_id |-> v]]

\* The version that was active is queued for publication again.
ActivatedRequeuing(p, v) ==
  /\ versions' = [w \in Versions |->
        IF w = v THEN [versions[w] EXCEPT !.status = "published"]
        ELSE IF w = policies[p].active_version_id
             THEN [versions[w] EXCEPT !.status = "ready_to_publish"]
        ELSE versions[w]]
  /\ policies' = [policies EXCEPT ![p] = [status |-> "active", active_version_id |-> v]]

\* The version that was active becomes superseded, `v` published and active.
Activated(p, v) ==
  LET previous == policies[p].active_version_id
  IN  /\ versions' = [w \in Versions |->
            IF w = v THEN [versions[w] EXCEPT !.status = "published"]
            ELSE IF w = previous THEN [versions[w] EXCEPT !.status = "superseded"]
            ELSE versions[w]]
      /\ policies' = [policies EXCEPT ![p] = [status |-> "active", active_version_id |-> v]]

LeaveChunksStaged(v) == UNCHANGED chunks
MarkChunksPublished(v) ==
  chunks' = [chunks EXCEPT ![v] =
    {[c EXCEPT !.publication_status = "published"] : c \in chunks[v]}]

PublishSucceeds ==
  LET v == call.version
  IN  /\ call.op = "activating"
      /\ \A c \in call.batch : index[VectorOf(c)] = "published"
      /\ Activated(PolicyOf[v], v)
      /\ MarkChunksPublished(v)
      /\ JobsTransition(v, "published")
      /\ call' = NoCall
      /\ UNCHANGED <<sources, canonicals, index>>

\* rollback itself only asks for an index revision; the workflow offers it for
\* versions that were published before.
RollbackOffered(v) == RollbackByPage => versions[v].status \in Frozen

Rollback(v) ==
  /\ Idle
  /\ Exists(v) /\ RollbackOffered(v)
  /\ versions[v].index_revision
  /\ Activated(PolicyOf[v], v)
  /\ UNCHANGED <<sources, canonicals, jobs, chunks, index, call>>

Deactivate(p) ==
  /\ Idle
  /\ policies[p].status # "absent"
  /\ policies' = [policies EXCEPT ![p].status = "inactive"]
  /\ UNCHANGED <<versions, sources, canonicals, jobs, chunks, index, call>>

-----------------------------------------------------------------------------
Next ==
  \/ \E p \in Policies, v \in Versions, scope \in Scopes : CreatePolicy(p, v, scope)
  \/ \E p \in Policies, v \in Versions, scope \in Scopes, clone \in [Sources -> Sources] :
        CreateCorrectedAccessVersion(p, v, scope, clone)
  \/ \E v \in Versions, scope \in Scopes : SetAccess(v, scope)
  \/ \E v \in Versions, s \in Sources, units \in SUBSET Units, markdown \in BOOLEAN :
        UploadSource(v, s, units, markdown)
  \/ \E v \in Versions, s \in Sources, units \in SUBSET Units : ImportUnattached(v, s, units)
  \/ \E v \in Versions, s \in Sources : IngestCancelled(v, s)
  \/ \E s \in Sources, units \in SUBSET Units : RetrySource(s, units)
  \/ \E s \in Sources : RetryCancelled(s)
  \/ \E s \in Sources, units \in (SUBSET Units) \ {{}}, scope \in Scopes :
        UpdateReview(s, units, scope)
  \/ \E s \in Sources : AttachOriginalPdf(s)
  \/ \E s \in Sources : ApproveStructure(s)
  \/ \E v \in Versions : PrepareBegins(v)
  \/ StageVectors
  \/ PrepareSucceeds
  \/ IndexingFails
  \/ RequestCancelled
  \/ \E v \in Versions : PublishBegins(v)
  \/ \E c \in Chunk : ActivateVector(c)
  \/ PublishSucceeds
  \/ \E v \in Versions : Rollback(v)
  \/ \E p \in Policies : Deactivate(p)

Spec == Init /\ [][Next]_vars

-----------------------------------------------------------------------------
(* What employees are shown. *)

\* AuthorizationFilter.eligible_chunks before the access test: the only chunks that
\* search and the assistant may use.  It asks for no version status.
EligibleChunks(p) ==
  {c \in chunks[policies[p].active_version_id] : c.publication_status = "published"}

Served(p) == IF policies[p].status = "active" THEN EligibleChunks(p) ELSE {}

\* PolicyReaderService.read_policy before the access test: the reviewed sections of the
\* active version, whose status must be published.
ReaderOpens(p) == /\ policies[p].status = "active"
                  /\ versions[policies[p].active_version_id].status = "published"
ReaderSections(p) ==
  IF ReaderOpens(p)
  THEN ChunksOf(Documents(policies[p].active_version_id), "published")
  ELSE {}

-----------------------------------------------------------------------------
\* The identifiers that records hold name records that exist.
References ==
  /\ \A v \in Versions : Exists(v) => versions[v].access \in Scopes
  /\ \A s \in Sources : sources[s].status # "absent" => sources[s].version_id \in Versions
  /\ \A p \in Policies : policies[p].active_version_id # None =>
        Exists(policies[p].active_version_id)
  /\ ~Idle => call.version \in Versions /\ Exists(call.version)

TypeOK ==
  /\ policies \in [Policies -> Policy]
  /\ versions \in [Versions -> Version]
  /\ sources \in [Sources -> Source]
  /\ canonicals \in [Sources -> Canonical \union {None}]
  /\ jobs \in [Sources -> JobState]
  /\ chunks \in [Versions -> SUBSET Chunk]
  /\ index \in [VectorId -> {"absent", "staged", "published"}]
  /\ call \in Call
  /\ References

\* A policy has at most one published version and it is the one the policy points to,
\* whatever order of publishing, re-preparing and rolling back led here
\* (PolicyService.publish and rollback).
PublishedIsActive ==
  \A v \in Versions :
    versions[v].status = "published" => policies[PolicyOf[v]].active_version_id = v

\* While a version is indexed or activated nothing about it moves: what was embedded, or is
\* being activated, is still its whole content (the write guard around the awaits of
\* prepare_for_publication and publish).
IndexedContentIsCurrent ==
  /\ call.op \in {"embedding", "verifying"} =>
       /\ versions[call.version].status = "indexing"
       /\ AllApproved(call.version)
       /\ call.batch = ChunksOf(Documents(call.version), "staged")
  /\ call.op = "activating" =>
       /\ versions[call.version].status = "ready_to_publish"
       /\ call.batch = chunks[call.version]

\* A document belongs to one version, even when its content was cloned into a corrected
\* version: editing, retrying or approving it can touch no other version.
DocumentsAreOwned ==
  \A v \in Versions : \A s \in versions[v].source_document_ids :
    sources[s].status # "absent" /\ sources[s].version_id = v

\* Content of a published or superseded version: its sources, their reviewed structure
\* and its access.
ContentOf(v) == [s \in versions[v].source_document_ids |-> canonicals[s]]

\* No step edits the sources, the reviewed structure or the access of a version that
\* is published or superseded (the immutability guards of the seven editing handlers).
FrozenContent ==
  [][\A v \in Versions :
       versions[v].status \in Frozen =>
         ContentOf(v)' = ContentOf(v) /\ versions'[v].access = versions[v].access]_vars

\* A version that is ready to publish has all its documents approved and its staged
\* chunks are exactly theirs: nothing changed since the index was verified.
ReadyIsFresh ==
  \A v \in Versions :
    versions[v].status = "ready_to_publish" =>
      /\ \A s \in Documents(v) : canonicals[s].approved
      /\ chunks[v] = ChunksOf(Documents(v), "staged")

\* Every chunk that lexical search may return has a vector that semantic search may
\* return: the two channels agree on what is published.
ServedIsSearchable ==
  \A p \in Policies : \A c \in Served(p) : index[VectorOf(c)] = "published"

\* The version employees are shown is a published one, whatever indexing request is
\* running or has failed (the messages of prepare_for_publication and publish).
ActiveVersionIsPublished ==
  \A p \in Policies :
    policies[p].active_version_id # None =>
      versions[policies[p].active_version_id].status = "published"

\* Search and the policy reader show the same content under the same access.
ReaderAgreesWithSearch == \A p \in Policies : ReaderSections(p) = Served(p)

\* What is shown to employees was approved by a reviewer.
ShownIsApproved ==
  \A p \in Policies : ReaderOpens(p) =>
    \A s \in Documents(policies[p].active_version_id) : canonicals[s].approved

\* The lifecycle implements PublishedKnowledge: search shows, in one step, the whole
\* approved content of one version or nothing, and what was released never changes.
ApprovedContent(v) ==
  IF \A s \in Documents(v) : canonicals[s].approved
  THEN ChunksOf(Documents(v), "published") ELSE {}
Knowledge == INSTANCE PublishedKnowledge WITH
  live <- [p \in Policies |-> Served(p)],
  approved <- [v \in Versions |-> ApprovedContent(v)],
  released <- {v \in Versions : versions[v].status \in Frozen}
ImplementsPublishedKnowledge == Knowledge!Spec
=============================================================================
