# AJG-SOP: a verification project

AJG-SOP publishes an organization's standard operating procedures. Administrators upload
source documents, review their extracted structure, index and publish versions of policies;
employees read the active version, search it and ask an assistant about it. This directory
holds TLA+ models of the service, TLC runs that check them on small instances, and TLAPS
proofs of what holds for every size. Paths below are relative to `src/`.

## 1. Inventory

The API is a FastAPI process. Its state is an in-memory `FoundationStore`, loaded from Mongo
at start-up and written back by a middleware; beside it stand Pinecone (a derived index), an
artifact store (R2 or disk), Firebase (identities) and an LLM endpoint. Mutating requests
run one at a time under a write guard (a lock in the process and a lease in Mongo); GET
requests do not take it and see the store at every `await`.

| component | state | operations | talks to |
|---|---|---|---|
| policy and version lifecycle (`policy_service.py`, `admin_policies.py`) | `policies`, `versions`, `jobs`, `chunks` | create, corrected-access version, set access, attach, approve, prepare, publish, rollback, deactivate | index, embeddings, chunker, store |
| ingestion and review (`pipeline.py`, `admin_sources.py`) | `sources`, `canonicals`, `jobs` | upload, paste, import with PDF, retry, review, attach PDF | parser, artifacts, lifecycle |
| derived index (`pinecone_index.py`) | a `publication_status` per vector | stage, verify, activate, purge | Pinecone |
| store and persistence (`foundation_store.py`, `foundation_persistence.py`, `main.py`) | the marked records, Mongo collections | mark, flush, load, shutdown flush | Mongo |
| write guard (`purge_repository.py`) | lease document, renewal task | acquire, renew, lose, release | every mutating request |
| policy purge (`policy_purge_service.py`, `purge_graph.py`) | manifest, stages, tombstone | preview, purge, verify, evict | Pinecone, R2, Mongo, every cache |
| eligibility and reader (`authorization_filter.py`, `policy_reader_service.py`) | none | eligible chunks, revalidate, read policy | store |
| retrieval (`retriever.py`, `semantic_search.py`, `fusion.py`) | local embedding batches | retrieve, context, revalidate | eligibility, embeddings |
| assistant (`assistant_service.py`, `grounding.py`, `answerability.py`) | the running answer | answer, verify, release | retrieval, LLM |
| LLM transport (`chat_transport.py`) | attempt, deadline | complete | LLM endpoint |
| user administration (`user_admin_service.py`, `dependencies.py`) | profiles, idempotency keys, identities | create, update, disable, reactivate, activate | Mongo, Firebase |
| organization catalog (`organization_service.py`) | catalog items | create, update, archive | profiles, versions |
| chunking and structure (`semantic_chunker.py`, `canonical_document.py`) | none (pure) | chunk, canonicalize | |
| storage, authentication, evaluation, scripts, speech, web | I/O, offline or presentation | | |

What makes the hard ones hard, and what makes each correct:

- **Lifecycle.** Preparing and publishing wait on the embedding provider and Pinecone with the
  version half done while readers look; each wait can fail or be cancelled. Correct: one
  published version per policy, the active one; released content never changes; what is shown
  was approved, indexed and verified as it is; search and the reader agree.
- **Persistence.** Handlers change records and mark some of them; the flush comes later,
  writes record by record and can fail; a restart loads what was written. Correct: nothing
  acknowledged that employees see is lost; no half publication is loaded.
- **Write guard.** Leases expire, renewals are late, several workers hold caches of one
  Mongo. Correct: no two writers; a lost lease stops the writer before it writes.
- **Purge.** A saga over three services with retries and restarts. Correct: "complete" only
  when nothing is left; one tombstone for ever; no worker serves a purged chunk.
- **User administration.** A saga over Mongo and Firebase with compensations. Correct: a
  profile and its identity agree when nothing runs; at least one system administrator.
- **Retrieval, assistant, transport.** State read before a wait and used after it. Correct:
  nothing is released that the employee may not see at the time of release; at most two
  attempts within one deadline.
- **Catalog.** A usage check over versions that change status later.

`PROJECT.json` lists every hazard at its line, with the property that catches it or the
reason none does yet.

## 2. Plan

Most important first; each module is written with its parameters as CONSTANTS and without
RECURSIVE operators, so that all of them can be proved about. All of it is modelled:

1. `PublishedKnowledge`, `PolicyLifecycle`; `LifecycleProofs`.
2. `DurableLifecycle`: the same actions composed with marks, flush and restart; proved in
   `LifecycleProofs`, too.
3. `WriteLease`: several workers, their locks, the lease, and their stores over one Mongo;
   `WriteLeaseProofs`.
4. `PolicyPurge` and its abstract `PurgePromise`; `PolicyPurgeProofs`.
5. `UserAdmin`: users, identities, the catalog, activation, the version backfill;
   `UserAdminProofs`.
6. `AnswerRelease` and its abstract `AnswerPromise`; `ChatTransport`, whose deadline
   bounds each call to a model; `AssistantProofs`.
7. `DocumentOutline` and `Chunking`, composed in `DocumentPreparation`;
   `DocumentPreparationProofs`.
8. `Retrieval`; `RetrievalProofs`. `FoldTheorems` has the induction and the folds that the last
   two proofs share.

All safety properties of these modules that hold are proved (section 5); liveness is checked
by TLC alone.

## 3. The modules

### PolicyLifecycle

One variable per collection of the store (`policies`, `versions`, `sources`, `canonicals`,
`jobs`, `chunks`), `index` for Pinecone, and `call` for the one request that is waiting on an
external service. One action per endpoint that changes state:

| code | action |
|---|---|
| `POST /admin/policies` | `CreatePolicy` |
| `create_corrected_access_version` | `CreateCorrectedAccessVersion` (clones, unapproved) |
| `set_access` | `SetAccess` |
| upload, paste, import | `UploadSource`; `ImportUnattached` when the PDF cannot be stored; `IngestCancelled` |
| retry | `RetrySource`, `RetryCancelled` |
| review, late PDF, approval | `UpdateReview`, `AttachOriginalPdf`, `ApproveStructure` |
| `prepare_for_publication` | `PrepareBegins`, `StageVectors`, `PrepareSucceeds`, `IndexingFails`, `RequestCancelled` |
| `publish` | `PublishBegins`, `ActivateVector` (each), `PublishSucceeds`, `IndexingFails`, `RequestCancelled` |
| `rollback`, `deactivate` | `Rollback`, `Deactivate` |

`Idle` is the write guard: a mutating request starts only when none waits. Requests that wait
only on the parser or on the artifact store are one step, since what they hold back is not
read by any property in between. Two constants say what clients do: with `PrepareByPage` a
version is prepared only when the review page offers it, with `RollbackByPage` only a version
that was published is rolled back to. FALSE means any call the endpoints accept.

Abstractions: one organization; administrators who manage every scope; a scope is one value
and a document has one access; a document's content is a set of `Units`, each of which becomes
one chunk with an identifier of its own (the code draws section identifiers at random); a
review never deletes every section; a refused duplicate upload changes nothing and is left
out; Pinecone applies an upsert as a whole; vectors are activated in any order; `VersionStatus`
has "absent" for identifiers not used yet.

`Served` is what search and the assistant may use (`eligible_chunks` before the access test),
`ReaderSections` what the policy reader shows.

### PublishedKnowledge

The promise, with nothing of the mechanism: the content live for a policy is nothing or the
whole approved content of one version, changes in one step, and a released version's content
is settled. `PolicyLifecycle` implements it with `live <- Served`, `approved <-` the approved
documents of each version, `released <-` the published and superseded versions.

### DurableLifecycle

Extends `PolicyLifecycle`: every action is taken together with the marks its handler makes,
in the handler's order. `pending` and `order` are `store._mutations`: the marked records, and
which were marked before which; records that one loop over a dictionary marks are in no order.
`rows` are the chunks among them. `Flush` writes all marked records; `FlushFails` stops after
some, a set that `FlushedBefore` allows (`Interrupted`). `reply` says that a flush is due before the request is answered (success, or
a conflict in prepare and publish, which `_persist_failed_publication` flushes too). `Crash`
and `Shutdown` restart from Mongo. `AtomicFlush` says that a flush writes everything or nothing,
which the code does not guarantee; the run with FALSE shows what that costs.

Abstractions: the retrieval chunks of a flush are written as one record; audit events, raw
results and chat records are left out; identifiers a restart forgot are never drawn again
(`lost`), so a small instance can run out of identifiers, which is why deadlock is not checked
there; lost leases are not composed with restarts.

### WriteLease

`PurgeRepository.write_guard` for any number of workers. `Arrive` queues a request at the lock
of its worker, `Acquire` and `TryInVain` are the upsert that asks for the lease, `Refuse` the
error after the last try; `Handle` and `Flush` are the handler and the middleware's flush;
`Renew` and `RenewalFails` the renewing task, whose failure cancels the handler; `Leave` the
shielded delete, which may fail; `Crash` a worker that is killed and reads Mongo again. Time is
discrete and read from the slowest clock; each worker's clock is ahead by its `Skew`. `since` is
the time since a request last renewed. `Tick` is not held back by anything: an event loop
may stall for any time, which is what makes two writers possible at all.
`cache` and `mongo` hold one record as the set of the requests whose changes it contains.

### PolicyPurge and PurgePromise

`PolicyPurgeService.purge` as a saga: `BeginPurge` (from a preview or from the saved manifest),
`SyncOwnCache`, then each stage with its checkpoint (`DeleteVectors`, `Poll`, `DeleteObjects`,
`DeleteGraph`, `SkipStage` for a stage that an earlier attempt completed), `Verify` or
`VerifyFinds`, `WriteTombstone`, `Finish`. `Fails` is a call that failed after any part of its
effect, or a cancelled request; `GivesUp` is twelve inventories without two empty ones in a row. An
`Inventory` of Pinecone may show the index as it was when last shown. Every worker has a cache
and recorded mutations; `Write` is any mutating request of the policy, under the guard;
`BeginSearch`, `ReadManifests`, `ReadTombstones`, `SearchReturns`, `Answered` are
`retrieve` with its two cache refreshes, each of two reads. `Crash` kills a worker, which comes
up through the same two reads. The graph is `discover` over the identifiers that records mention:
`Identifiers` is the least set of identifiers, with the policy's, that the policy's own rows do not
extend, which is where the loop of the code ends. `OwnershipAssumption` says that the records of
the model are those of the policy, found from its own rows.
`PurgePromise` says what this is for: kept, purging, gone; nothing is added once it purges; gone
only when nothing is held. `left` is everything Mongo, R2 and Pinecone hold.

### UserAdmin

Users, Firebase identities, idempotency keys and the organization catalog. `req` is the one
request under the write guard, at the call it makes next; `Call` lets any call fail before or
after its effect, `CutOff` ends a request anywhere. Create: `CreateIdentity`, `InsertProfile`,
`InsertKey`, `Answer`, and the compensation `UndoKey`, `UndoProfile`, `UndoIdentity`,
`LockIdentity`. Update, disable, reactivate: `ChangeIdentity`, `WriteProfile` (by id and version),
`Restore`. `SeePending` and `Activate` are the two halves of `current_profile`, `BackfillRead` and
`BackfillWrite` those of the bootstrap script; neither takes the guard. The catalog's actions are
one step each. `FromPage` says that only active users are disabled and only inactive ones
reactivated. `PolicyUse` stands for the policy lifecycle.

### AnswerRelease and AnswerPromise

One question. `stage` is where `answer_with_context` is: `Plan`, `Search`, `Rank` (the
eligible chunks before and after the wait), `ReadContext`, `Reread`, `Gate`, `Generate`, `Verify`,
`CheckMember` and `CheckEvidence` (`assert_release_authorized` reads the profile, waits, then asks
the store). `sender` is where the event stream is: every part is sent after a check of its own.
`Publish`, `Withdraw`, `Disable`, `Reactivate` and `Rescope` are other requests, at any point. What
plans, gates, models and verifiers answer is nondeterministic. `late` counts the parts sent since
the profile stopped allowing the asker to read the evidence. `AnswerPromise` says that no text goes
out before it is settled what it rests on, none after an error, and that "done" means all.

### ChatTransport

`complete` and `_attempt`: `Complete`, `Connect` (the pool of connections), `Respond` with every
combination of status, top-level error, choices, refusals and content that the classifier tells
apart, `NoResponse`, `Resume` after the back-off, `Expire`, `Cancel`. A tick of time waits for
whoever is due: the properties are about deadlines, which a blocked event loop misses in any case.

### DocumentOutline, Chunking, DocumentPreparation

`canonicalize` block by block: `ReadHeading` with the heading stack, `ReadBlock`, `Finish`; `Nest`
is the nesting of list items in `_blocks`. `Popped` is what the loop `while stack and stack[-1].level
>= level: stack.pop()` leaves: the longest prefix whose last element is above the level. `TitleNumber`
is the number the title of the document carries. `_chunk_section` line by line: `AddLine`, `OpenTable`,
`AddRow`, `CloseTable`, `EndSection`, with `Fragments` for `_text_fragments` and `SplitRow`
for `_split_oversized_table_row`. A text is the sizes of its words, in tokens; a whole is as large
as its parts together, where the tokenizer may be off by a token at each joint. A table so wide
that its separators exceed the margin is excluded by `ChunkingAssumption`, which otherwise says what
the code guarantees: sizes are natural numbers, the heading and the repeated list context are
cut to lengths below the target, the margin (20) is no more than a chunk's words (350), a row has at least one
cell, and each word of a cell counts at least one token (both ways of counting see to that). The last three keep a header
from being lost: the parts of a row with nothing to show would not repeat it. `DocumentPreparation`
composes the two: each section that is no marginal note is chunked.

### Retrieval

One search: `Pack` (batches of identifiers for the index's filter), `Embed`, `QueryBatch` with any
choice among equal similarities, `RankSemantic`, `SearchLexical`, `FuseAndRerank`, `Select` (with
the second access test), `Expand` (the shares of the context). `Ranking` is the sort by `(-score, id)` of
each channel, of the fusion and of the reranker, as the order it defines: as many are `Ahead` of the k-th as come
before it. The fused scores are fractions of the rank; here they are
whole numbers over a common multiple, without floating point's rounding. `Cut` is a round of the loop in
`assistant_context`, with its `break` at the first text for which nothing is left; texts are not empty,
since the code leaves empty ones out before it counts them. The lexical and the semantic channel run
in one `gather` on the same snapshot and touch nothing they share, so that one goes first.

### MC modules

The `MC` modules fix the instances and the symmetry. No definition compares or orders what is
permuted, so permuting it is sound. `Bound` in `MCDurableLifecycle` is a state constraint.

## 4. The runs

| run | question | result |
|---|---|---|
| `LifecycleAnyClient` | what holds for any client: `TypeOK`, `PublishedIsActive`, `IndexedContentIsCurrent`, `DocumentsAreOwned`, `FrozenContent` | holds, 395,023 states |
| `LifecycleReviewPage` | clients that follow the pages: `ReadyIsFresh`, `ServedIsSearchable`, `ActiveVersionIsPublished`, `ReaderAgreesWithSearch`, `ShownIsApproved`, `ImplementsPublishedKnowledge` | holds, 110,235 |
| `Durable` | crashes, shutdowns, failed flushes, with an atomic flush: `DurableTypeOK`, `PersistedActiveIsPublished`, `RestartKeepsServed` | holds, 472,275 |
| `PartialFlush` | `PersistedActiveIsPublished` with the flush as it is | violated |
| `Lease` | two workers, one lease: `LeaseTypeOK`, `OneWriter`, `LostLeaseIsFinal`, `EveryRequestIsSettled` | holds, 62,996 |
| `MultiWorker` | `NoLostUpdate` with two workers over one Mongo | violated |
| `Purge` | `PurgeTypeOK`, `NotServedOncePurging`, `ImplementsPurgePromise`, `PurgeCompletes` | holds, 199,879 |
| `Users` | `UserTypeOK`, `AdminRemains`, `KeyHasItsUser`, `AgreesAtRest`, `FailedCreateIsUndone`, `ActiveUsersUseActiveItems`, `StatusFollowsActive` | holds, 703,884 |
| `Release` | `LateIsBounded`, `EveryQuestionEnds`, `ImplementsAnswerPromise` | holds, 478,048 |
| `Chat` | `WithinDeadline`, `FallbackIsDue` | holds, 286,076 |
| `Documents` | `OutlineIsSound`, `BlocksKeepTheirPlace`, `NothingIsLost`, `SoftTargetIsKept` | holds, 180,729 |
| `Search` | `BatchesSearchAll`, `EveryResultHasItsShare` | holds, 14,176 |

What some of them say needs a word:

- `OneWriter`: two requests are inside only when one of them has not renewed for as long as a
  lease lasts, less the difference of the clocks. With a prompt event loop a renewal comes every
  15 of 90 seconds, so nobody is ever overdue; after a stall the old writer runs on until its
  renewal fails.
- `ImplementsPurgePromise` is the safety of the purge through every failure; `PurgeCompletes` its
  liveness when an administrator repeats it. The second read of a refresh must be of
  the tombstones, and the first of the manifests: the mutant that swaps them serves a purged chunk.
- `AgreesAtRest` and `FailedCreateIsUndone` state the faults they allow: none, and one that the
  code notices. A second fault, in the compensation, leaves the records as they are.
- `LateIsBounded` is 1 and not 0: the store is asked after the profile was read, so a profile
  that changes between the two lets one part through. It counts what the profile forbids, not
  what was withdrawn: a profile that is disabled while a chunk is withdrawn, and given back
  while it is published again, can let a part through each time.
- `AdminRemains` counts as the code does: an administrator who never signed in counts, and one
  whose account a failed call disabled.

### Bounds

*Lifecycle.* Two versions of one policy let a publication supersede, a rollback return, and a
corrected version clone; every property quantifies over one policy and at most two of its
versions. Two sources give a version with an approved and a failed document, and a clone beside
its original. One unit: two documents already give two vectors to activate one after the other.
Two scopes only where access matters (the page run). *Durable*: one restart and one failed flush:
every action can precede and follow each, and a second restart starts from a Mongo state the first
already allows; `AtomicFlush` = TRUE there is an assumption the code does not guarantee. *PartialFlush*
drops it and needs no restart: Mongo holds the wrong version once the flush is cut short.
*Lease*: a lease of 3 ticks, renewed after 1, two tries, clocks one tick apart (90 s,
15 s, 50 tries): a renewal can be early, late or too late, and a contender can be refused or
succeed; two requests share a worker and the third has the other. *Purge*: two workers, of which
one also searches, one failure, one crash, two polls (12), three old inventories in a row: enough
for the deletion and both empty polls to be wrong, so that only `Verify` finds the vectors, and as
many as the code survives (were the inventory of `Verify` old as well, "complete" would be
recorded too early; the code has no more checks than these); one record of each kind, of which the parser result is linked to the policy only through its source, and an
event that writes may add later. *Users*: two users, one of them there from the start with a
profile that may have no version, two addresses to swap, one key to repeat, one item; three
versions; two failures, so that a compensation can fail too. *Release*: two chunks, so that one of
two can be withdrawn; four parts; five changes, enough to take access away, give it back and take
it again while a chunk is withdrawn and published. *Chat*: three operations over one connection (20), a deadline of 4 ticks with one of
pool wait and one of back-off (45 s, 2 s, 2 s): both requests and the pause can just fit or just
not. *Documents*: every document of four blocks over eleven kinds, and every section of four
lines, with limits scaled to 8, 9 and 3 (480, 507, 350), such that single words, lines,
cells, keys and headers fall below, at and above each. *Search*: five chunks in batches of at
most two by number and by size, three results, and texts below and above their share.

### Fairness

The code justifies fairness in three modules, always weak. *WriteLease*: the event loop
runs a task that is ready, handlers end because the services they call have timeouts, and time
passes; no request has to arrive and no worker has to crash. *PolicyPurge*: a purge goes on
while its worker runs, a worker that starts comes up, and an administrator repeats a purge that
was reported failed (the result asks for it: "Retry this purge"). *AnswerRelease*: the work and
the stream go on, since each call to a model has a deadline (`ChatTransport`). The other
specifications state none: nothing in that code retries by itself.

### What the violated runs show

- *PartialFlush.* `flush` (`foundation_persistence.py:102`) writes the superseded version
  first and the policy last, in separate writes: a process that stops in between restarts with an
  active version that is not published, against `docs/PRD.md:1291`.
- *MultiWorker.* A worker loads its store once. With two workers (`Dockerfile:34` allows it) the
  second writes its old copy of a record over what the first had acknowledged, each inside
  a lease of its own, against `foundation_persistence.py:41`.

### Known divergences without a run of their own

They were found with these models; each is reproduced by the change in parentheses.

- `prepare_for_publication` (`policy_service.py:332`) tests no status: preparing the published
  version again and failing marks the active version failed, against
  `docs/architecture/INGESTION_PIPELINE.md:13` (`ActiveVersionIsPublished`, `PrepareByPage` FALSE).
- `rollback` (465) tests the index revision alone, which `attach_source` (280) does not clear: an
  unapproved document can be shown, against `docs/FOUNDATION_PLAN.md:99`
  (`ShownIsApproved`, `RollbackByPage` FALSE).
- Preparing moves every job of a version (344), the failed one included, and `retry` refuses it.
- A lost lease cancels a preparation without a trace (362): the version stays indexing.
- `approve_structure` (`policy_service.py:301`) approves the document and marks only the version:
  after a restart the version is ready to publish, its document is not approved, and `publish` does
  not ask again, against `docs/PRD.md:774` (`ShownIsApproved` as an invariant of `Durable`).
- `invalidate_after_review` (276) drops the chunks of the version from the store, but no flush
  deletes their rows in Mongo (`foundation_persistence.py:103`). If the version is indexed again and
  the process restarts before it is published, `load` brings the removed pieces back and publishing
  activates them with the others, against `docs/architecture/INGESTION_PIPELINE.md:11` (`Durable`
  with two units: a chunk of an active policy whose unit its document does not have any more).
- `attach_source`, `set_access` and the job transitions, too, change records they do not mark: a
  restart undoes them, and a job that had failed can then be retried under a version that is ready.
- Disabling or reactivating a user whose profile has no stored version always answers that the
  user changed (`user_admin_service.py:517`, `:559`); reactivating an active user whose version
  was taken meanwhile disables the account (`AgreesAtRest`, `FromPage` FALSE).
- `last_rejection_reason` (`grounding.py:189`) is shared by all requests of a worker: the feedback
  of a second draft may be about somebody else's answer.
- An error of a choice that asks to wait is retried without its Retry-After
  (`chat_transport.py:182`), against `docs/operations/openrouter.md:68`.

## 5. What is proved

`LifecycleProofs` proves of `PolicyLifecycle`, for every choice of the constants, finite or infinite, under
`PolicyOfAssumption`, `ClientAssumption` and `NoneAssumption`:

| theorem | property |
|---|---|
| `TypeCorrect` | `TypeOK` |
| `DocumentOwnership` | `DocumentsAreOwned` |
| `IndexingIsStable` | `IndexedContentIsCurrent` |
| `OnePublishedVersion` | `PublishedIsActive` |
| `ReleasedContentIsFrozen` | `FrozenContent` |
| `ActiveStaysPublished` | `ActiveVersionIsPublished`, assuming `PrepareByPage` and `RollbackByPage` |

The argument. `AnyClientInv` is the conjunction of the four any-client invariants. They are
proved together because they lean on each other: `TypeOK` says that the identifiers records
hold name records that exist, so that a new version or document is referred to by nobody;
with it `DocumentsAreOwned` is kept; and only with `DocumentsAreOwned` does an edit of one
version leave the documents of every other alone, which is what keeps
`IndexedContentIsCurrent` through the waits of a request. The drafting and sourcing handlers
share the lemma `EditingEffect` (they change one version that is not released, its own
documents and nothing else); `StepKinds` splits every step into such an edit or a step of
publication, and `NextAnyClient` goes through them. `ReleasedContentIsFrozen` follows from the same
invariant: an edit touches no frozen version, and any other step leaves content as it is
(`OtherStepsKeepContent`). `PageInv` adds `ActiveVersionIsPublished` and `ActiveBelongs` (the
active version of a policy is one of that policy's): without the latter, publishing in one
policy could supersede the active version of another.

`LifecycleProofs` proves of `DurableLifecycle`, for any policies, versions, sources and units, any number of
restarts and of failed flushes:

| theorem | property |
|---|---|
| `DurableTypes` | `DurableTypeOK` |
| `PersistedStaysPublished` | `PersistedActiveIsPublished` |
| `RestartKeepsWhatIsServed` | `RestartKeepsServed` |

Each assumes clients that follow the pages (`PrepareByPage`, `RollbackByPage`) and
`FlushesAreWhole`: no flush is cut short (`MaxFlushFailures` = 0), which covers the flush as it is, or one
that is cut short has written nothing (`AtomicFlush`). The code does not guarantee it, and it
cannot be dropped: `PartialFlush` is the counterexample. What the theorems establish is that the
marks are enough: every handler marks what a restart needs, a process may stop anywhere but inside
a flush, and one transaction around `flush` would make the promise true there too.

The argument. A restart replaces memory by Mongo, so an invariant of memory has to hold of what
Mongo holds as well. `DurableInv` is `PageInv` with `PersistedInv`: `Loadable` (the collections in
Mongo refer to each other as those of a store do, and only versions that were published have published
chunks there), `MongoKeepsUp` (what differs from memory in a way that matters is marked, and Mongo is never
ahead), `ChunksFit` (chunks in memory, and those that wait for a flush, are of known documents of their
versions) and `PublishedIsKept` (what was published of a version is exactly what Mongo together with the
waiting chunks has published of it, and is in Mongo already once the policy is not marked). Not
everything that differs is marked: not the status of a version that is not released, nor
approvals, nor the list of a version's documents. `MongoKeepsUp` therefore says of a version only whether it is published or
superseded, and the old rows that corrections leave in Mongo are harmless to a released version because
they were staged, or have been written over (`OverwriteOwn`, `OverwriteApart`). Handlers that do not
release anything go through `EditPersists` and `StatusPersists`; `PublishPersists` and `RollbackPersists` need that
the version that was active is marked too (`ReleaseMarks`). A whole flush makes Mongo agree with memory
(`WrittenAgrees`), so it is loadable (`WrittenLoadable`), which is the case of `Shutdown` too.
`PublishedIsKept` looks at chunks that are served; nothing is claimed of a version that is
ready to publish, whose chunks a restart may indeed change (section 4, known divergences).

`WriteLeaseProofs` proves, under `LeaseAssumption` (whole times, and no clock more than `MaxSkew`
ahead of the slowest), for any workers, requests, lease, renewal time and bounds:

| theorem | property |
|---|---|
| `LeaseTypeCorrect` | `LeaseTypeOK` |
| `WritersExclude` | `OneWriter` |
| `TokenIsFinal` | `LostLeaseIsFinal` |

The argument. `OneWriter` is not inductive: it does not say that the lease document belongs to the
request inside. `LeaseInv` adds `OwnsUntilOverdue` (a request inside that is not overdue owns the
document, and what the document has left is at least what the age of its last renewal leaves of
the lease) and `AgeOnlyInside` (who is let in starts at age 0). Then nobody can acquire while
such a request is inside, since a clock at most `MaxSkew` ahead does not see its lease expired;
a renewal and a removal ask for the token, so that they touch only their own; and the passing of
time moves the age and the time left together. `AdmittedHoldLock` (who was let in is at the head
of its worker's queue until it has left) is what the types need: the head that a leaving request
removes is there, and is its own.

Of `PolicyLifecycle` `LifecycleProofs` also proves, from `PageInv`, for clients that follow the
pages (each theorem assumes `PrepareByPage` and `RollbackByPage`):

| theorem | property |
|---|---|
| `ReadyStaysFresh` | `ReadyIsFresh` |
| `ServedStaysSearchable` | `ServedIsSearchable` |
| `ReaderAndSearchAgree` | `ReaderAgreesWithSearch` |
| `ShownStaysApproved` | `ShownIsApproved` |
| `LifecycleKeepsPromise` | `ImplementsPublishedKnowledge` |

The argument. `ContentInv` adds to `PageInv` what the content of a version is, by its status:
`ReadyArePrepared` (a version ready to publish is approved, has exactly the staged chunks of its
documents, and none of its jobs is failed) and `FrozenAreReleased` (a version that was published
has exactly the published chunks, and their vectors are published). The clause about jobs is
what makes it inductive: a failed job can be retried, which extracts a document again behind the back
of a version that is ready. `Rollback` needs `FrozenAreReleased` for every superseded version, not
just for the active one. The vectors of two versions are different ones because no document
belongs to both (`VectorsAreOwned`, from `DocumentsAreOwned`); with that, staging one version cannot
unpublish a vector of another. `EditingLeaves` says what an edit does not touch besides.
The refinement maps each step to one of `PublishedKnowledge`: an edit settles or changes what is
not released, `PublishSucceeds`, `Rollback` and `Deactivate` change what is live in one step.

`AssistantProofs` proves of `AnswerRelease`, for any chunks, answers of any length and any number of changes:

| theorem | property |
|---|---|
| `AtMostOneLatePart` | `LateIsBounded` |
| `ReleaseKeepsPromise` | `ImplementsAnswerPromise` |

`ReleaseInv` relates the stage of the work to what the answer rests on (`BasisFollowsStage`), the
sender to the work (`ResponseFollowsWork`), and says why a second late part cannot follow a first:
the next check reads a profile that still forbids the evidence, or one that allows it, which
resets the count (`LateIsNoticed`).

`AssistantProofs` proves of `ChatTransport`, for any operations, connections and times:

| theorem | property |
|---|---|
| `DeadlineHolds` | `WithinDeadline` |
| `FallbackWaits` | `FallbackIsDue` |

`TimeAddsUp` (used and left make up the deadline) gives the first. For the second,
`AvailabilityRejectsNothing` goes through every place of a response: one that counts as an
availability failure rejects nothing at any of them; `PauseIsDue` says that the timer of a pause
covers the rest of the time the answer asked for.

`UserAdminProofs` proves, for any finite set of users and any keys, items, versions and bounds:

| theorem | property |
|---|---|
| `UserTypes` | `UserTypeOK` |
| `KeysKeepTheirUser` | `KeyHasItsUser` |
| `ItemsStayActive` | `ActiveUsersUseActiveItems` |
| `DisabledStaysDisabled` | `StatusFollowsActive` |
| `OneFailureIsUndone` | `FailedCreateIsUndone` |
| `AccountsAgree` | `AgreesAtRest`, assuming `FromPage` |
| `OneAdminRemains` | `AdminRemains`, assuming `FromPage` |
| `AnAdminStays` | an active administrator remains, for any client |

The argument. None of these is inductive, because a request is a saga of calls that may each
fail before or after their effect. `UserInv` says what each step of the running request has
already done (`CreateFits`, `ChangeFits`), what an activation that was read before and is written
after it may still do (`ActivationsFit`: the write asks for a pending profile of the version read,
and `UnversionedAreOld` says that no new profile is without a version), which key a
compensation is still taking back (`KeysFit`), and that an account without a profile belongs
to a create that is being undone (`AccountsAreUndone`). The last administrator is a matter of
counting: `AdminCount > 1` gives another one (finiteness of `Users` is needed for
that), and `AdminStays` says that there is one whom the running request does not take
away; requests exclude each other, so nobody takes away the other. `AccountsFit` (account and
profile differ by exactly what the request has done, as long as nothing failed) needs `FromPage`:
without it a reactivation may disable the account of an active user (section 4).

`PolicyPurgeProofs` proves, under the assumptions of `PolicyPurge`, for any workers, records and
bounds:

| theorem | property |
|---|---|
| `PurgeTypes` | `PurgeTypeOK` |
| `PurgedIsNotServed` | `NotServedOncePurging` |
| `PurgeKeepsItsPromise` | `ImplementsPurgePromise`, assuming `MaxStale <= 3` |

The argument. `IdentifiersAreClosed` says what the graph is; from it and `OwnershipAssumption`, every
store that has the policy's own rows is emptied by an eviction, and the manifest names every
record. `RowsStay` (those rows are there until a purge begins, and in every worker that has
something to flush) is why no worker is left with a part of the policy that eviction would
not find. `ReadersFit` is the order of the two reads of a refresh: a purge that ended between them
is seen by its tombstone. `HiddenWhileStale` counts: vectors that Pinecone holds and does not list were
hidden in the inventory of the deletion, in each empty poll and then in that of the verification, four
in a row. With `MaxStale <= 3` the fourth shows them. The hypothesis is about Pinecone and
not guaranteed by this code; it cannot be dropped: with `MaxStale = 4` TLC finds a
purge that is recorded complete and leaves its vectors behind.

`DocumentPreparationProofs` proves, under `OutlineAssumption` and `ChunkingAssumption`, for documents and
sections of any length, any headings, blocks, lines, rows and limits:

| theorem | property |
|---|---|
| `TheOutlineIsAlwaysSound` | `OutlineIsSound` |
| `BlocksAlwaysKeepTheirPlace` | `BlocksKeepTheirPlace` |
| `EveryChunkKeepsToTheTarget` | `SoftTargetIsKept` |
| `NothingIsEverLost` | `NothingIsLost` |

The argument. These properties are about what folds over blocks and words compute. `FoldTheorems` makes
that provable. `SetInduction` is induction over the naturals for a set, from the library's theorem that
they are well-founded (the theorems that take an operator cannot be used). `FoldExists` shows with it that the
recursion on subsets of the domain by which the community modules define `FoldLeft` has a value, and `FoldRuns`
that this value is reached in rounds, one for each element: what holds at the start and is kept by each round
holds of the result. `TotalOfAppend` is what that says of sums. `PoppedLeaves` says what the closed form of the
popping loop leaves.

`OutlineInv`: the path of the current heading is the chain of headings above it (`HeadingIsPushed`: reading a
heading keeps the ancestors that stay above, and nothing between them and the new heading is as high), the
sections made are sound, and nothing read later makes them unsound (`ChainsStay`). `DocumentInv` adds
`SectionsHaveBlocks` (the blocks of a section are exactly those between its heading and the next one, in order) and
`BlocksAreCovered` (each block read is in a section or still in hand). `ListsAreSound`
is an induction over the items of a section: the stack of a list holds exactly the items that no later item of the list has
hidden, so that what popping leaves ends with the nearest item further out (`ParentIsNearest`).

`ChunkInv`: `WithinTarget` (a chunk fits, or is nothing but the header of a table that no row can follow,
`LoneHeader`) holds of every chunk that was flushed and of the text that is held; it is kept because of `RowsFit`
(the rows that wait fit with their header and with what is held). `FailedForHeader`: a section fails only for such a
header. `TableIsLast` says that the last thing read belongs to the table in hand. That the parts of
a split line or row fit is `FragmentsFit`, an induction over words with the size of the fragment being
filled in 0 to the room, and `SplitRowFits` over the cells; both need the assumption that heading
and repeated context leave room.

`NothingIsLost` is about sums of fragments at the end; `KeptInv` says it of every moment: what was flushed,
then what is held, then the header and the rows that wait, one after the other, show everything that was
read, in its order, except a header whose first row has not been read (`Waits`). Each step replaces what was held and adds new parts
at the end, so that it is enough to look at those: `FlushSays` says that flushing moves parts without changing their
sequence (`Flat`, by `FlatOfConcat`), `GivenGrows` that the parts of what is read next, numbered with
its line, come after all others and lose nothing before them (`KeptGrows`). What the new parts show is
an induction for each level at which the code cuts: words into fragments (`FragmentsHaveAll`: they are together at least as
long as the text), fragments into parts (`SpreadShows`), cells into the parts of a row, each with
its key or under its coordinates (`CellsAreShown`, `ByKeyShows`, `SplitRowShows`). No part shows two sizes of one
piece (`ClearPart`), without which the sum over a set of sizes would not be the sum of what is shown.
`EndedIsAll`: nothing is held any more when a section has ended.

`RetrievalProofs` proves, under `RetrievalAssumption`, for any number of chunks, batches, similarities,
texts and limits:

| theorem | property |
|---|---|
| `BatchesAlwaysSearchAll` | `BatchesSearchAll` |
| `NoResultIsLeftOut` | `EveryResultHasItsShare` |

The argument. Neither is inductive. `RetrievalInv` adds `NothingOverlooked`: while batches are queried, each
eligible chunk has been found, is in a batch that remains, or is `Beaten` by `Wide` chunks that were found and
score at least as much. An answer for a batch beats whatever it leaves out, because the
index returns `Wide` of a larger batch, and a chunk stays beaten when more are found. `RankingIsOrder` says
that a ranking is a permutation in order: the number of those ahead tells the ranked apart, and by counting
takes each place once. So the first `Wide` of the ranking score at least as much as what is left, and a
beaten chunk cannot be above them. For the context, `SharesLast` says that an even share of what is left is
at least an even share of the whole, and that taking no more leaves as much for each that waits;
`SharesSuffice` is the induction over the rounds. So the `break` never leaves a result out, which needs
that texts are not empty and that no more results are asked for than there are characters
(`Limit <= Budget`: 8 and 16,000 for a question).

Model-checked only: the liveness properties `EveryRequestIsSettled`, `PurgeCompletes` and
`EveryQuestionEnds` (under fairness), and ENABLED, which are beyond the proof system.

## 6. Not modelled

- Markdown and PDF parsing, tokenization, stemming, embeddings, token estimates and linguistic
  verdicts: arithmetic over text. Where they matter their result is an input of a model.
- References of follow-up questions (`conversation.py`) and the wording of answers.
- `put`, `get` and presigned links of the artifact store, token verification, password reset links,
  audit records: library calls and logging.
- The web frontend beyond what its pages offer; evaluation, scripts other than the backfill,
  configuration and speech: offline or stateless.
- Renaming catalog items, listing and previewing: they change no state a property reads.
- The runs of the lifecycle and the purge have one policy, since no action reads a record
  of another; the theorems hold for any number. Lost leases are composed with the lifecycle and with
  users as a cancelled request, not as the protocol of `WriteLease`. Several workers over one Mongo
  are in `WriteLease` and `PolicyPurge` only: `MultiWorker` shows that the store is not made for it.
