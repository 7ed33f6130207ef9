---------------------------- MODULE LifecycleProofs ----------------------------
(***************************************************************************)
(* Proofs about the lifecycle of policies, for every set of policies,      *)
(* versions, sources, units and scopes.  First PolicyLifecycle: what any   *)
(* client finds, and what employees are shown when clients follow the      *)
(* pages.  Then DurableLifecycle: what a restart finds in Mongo, for any   *)
(* number of restarts and failed flushes, when clients follow the pages    *)
(* and a flush is either never cut short or writes nothing when it is.     *)
(***************************************************************************)
EXTENDS DurableLifecycle, TLAPS

-----------------------------------------------------------------------------
(* Type correctness. *)

\* The empty store is well typed.
LEMMA InitTypeOK == Init => TypeOK
  BY NoneAssumption
  DEF Init, TypeOK, References, Policy, Version, Source, Call, VersionStatus, JobState,
      NewVersion, NoCall, Exists, Idle, VectorId

\* Recording an extraction keeps the types: the version whose access it copies exists.
LEMMA ProcessType ==
  ASSUME TypeOK, NEW s \in Sources, NEW v \in Versions, NEW units \in SUBSET Units,
         NEW markdown \in BOOLEAN, Exists(v), Process(s, v, units, markdown)
  PROVE  /\ sources' \in [Sources -> Source]
         /\ canonicals' \in [Sources -> Canonical \union {None}]
         /\ jobs' \in [Sources -> JobState]
         /\ \A r \in Sources : sources'[r].status # "absent" => sources'[r].version_id \in Versions
  BY DEF TypeOK, References, Process, Source, Canonical, JobState, Draft

\* Every action leads from a well-typed state to a well-typed state.
LEMMA NextTypeOK == TypeOK /\ [Next]_vars => TypeOK'
<1> SUFFICES ASSUME TypeOK, [Next]_vars PROVE TypeOK'
  OBVIOUS
<1>a. /\ policies \in [Policies -> Policy]
      /\ versions \in [Versions -> Version]
      /\ sources \in [Sources -> Source]
      /\ canonicals \in [Sources -> Canonical \union {None}]
      /\ jobs \in [Sources -> JobState]
      /\ chunks \in [Versions -> SUBSET Chunk]
      /\ index \in [VectorId -> {"absent", "staged", "published"}]
      /\ call \in Call
      /\ References
  BY DEF TypeOK
<1>1. ASSUME NEW p \in Policies, NEW v \in Versions, NEW scope \in Scopes,
             CreatePolicy(p, v, scope)
      PROVE  TypeOK'
  <2>1. versions' \in [Versions -> Version]
    BY <1>1, <1>a DEF CreatePolicy, NewVersion, Version, VersionStatus
  <2>2. policies' \in [Policies -> Policy]
    BY <1>1, <1>a DEF CreatePolicy, Policy
  <2>3. References'
    BY <1>1, <1>a DEF CreatePolicy, NewVersion, References, Exists, Idle, Policy
  <2>4. QED
    BY <1>1, <1>a, <2>1, <2>2, <2>3 DEF CreatePolicy, TypeOK
<1>2. ASSUME NEW p \in Policies, NEW v \in Versions, NEW scope \in Scopes,
             NEW clone \in [Sources -> Sources],
             CreateCorrectedAccessVersion(p, v, scope, clone)
      PROVE  TypeOK'
  <2> DEFINE originals == versions[policies[p].active_version_id].source_document_ids
             copies == {clone[s] : s \in originals}
             OriginalOf(n) == CHOOSE s \in originals : clone[s] = n
  <2>1. policies[p].active_version_id \in Versions
    BY <1>2, <1>a DEF CreateCorrectedAccessVersion, Policy
  <2>2. originals \subseteq Sources /\ copies \subseteq Sources
    BY <2>1, <1>a DEF Version
  <2>3. \A n \in copies : OriginalOf(n) \in originals
    OBVIOUS
  <2>4. versions' = [versions EXCEPT ![v] = NewVersion("extraction_review", scope, copies)]
    BY <1>2 DEF CreateCorrectedAccessVersion
  <2>5. versions' \in [Versions -> Version]
    BY <2>4, <2>2, <1>a DEF NewVersion, Version, VersionStatus
  <2>6. sources' \in [Sources -> Source]
    <3>1. sources' = [n \in Sources |->
            IF n \in copies
            THEN [status |-> "review_required", version_id |-> v,
                  markdown_only |-> sources[OriginalOf(n)].markdown_only]
            ELSE sources[n]]
      BY <1>2 DEF CreateCorrectedAccessVersion
    <3>2. \A n \in copies : sources[OriginalOf(n)].markdown_only \in BOOLEAN
      BY <2>2, <2>3, <1>a DEF Source
    <3>3. QED
      BY <3>1, <3>2, <1>a DEF Source
  <2>7. canonicals' \in [Sources -> Canonical \union {None}]
    <3>1. canonicals' = [n \in Sources |->
            IF n \in copies THEN Draft(canonicals[OriginalOf(n)].units, scope)
                            ELSE canonicals[n]]
      BY <1>2 DEF CreateCorrectedAccessVersion
    <3>2. \A n \in copies : canonicals[OriginalOf(n)] \in Canonical
      BY <1>2, <2>2, <2>3, <1>a DEF CreateCorrectedAccessVersion, Extracted
    <3>3. QED
      BY <3>1, <3>2, <1>a DEF Canonical, Draft
  <2>8. jobs' \in [Sources -> JobState]
    BY <1>2, <1>a DEF CreateCorrectedAccessVersion, JobState
  <2>9. References'
    <3>1. \A w \in Versions : versions'[w].status # "absent" => versions'[w].access \in Scopes
      BY <2>4, <1>a DEF NewVersion, References, Exists
    <3>2. \A s \in Sources : sources'[s].status # "absent" => sources'[s].version_id \in Versions
      BY <1>2, <1>a DEF CreateCorrectedAccessVersion, References
    <3>3. \A w \in Versions : Exists(w) => versions'[w].status # "absent"
      BY <2>4, <1>a DEF NewVersion, Exists
    <3>4. \A q \in Policies : policies[q].active_version_id # None =>
            versions'[policies[q].active_version_id].status # "absent"
      BY <3>3, <1>a DEF References, Policy, Exists
    <3>5. QED
      BY <1>2, <3>1, <3>2, <3>4 DEF CreateCorrectedAccessVersion, References, Exists, Idle
  <2>10. QED
    BY <1>2, <1>a, <2>5, <2>6, <2>7, <2>8, <2>9 DEF CreateCorrectedAccessVersion, TypeOK
<1>3. ASSUME NEW v \in Versions, NEW scope \in Scopes, SetAccess(v, scope)
      PROVE  TypeOK'
  <2>1. versions[v] \in Version
    BY <1>a
  <2>2. versions' \in [Versions -> Version]
    BY <1>3, <1>a, <2>1 DEF SetAccess, Version, VersionStatus
  <2>3. canonicals' \in [Sources -> Canonical \union {None}]
    BY <1>3, <1>a DEF SetAccess, Canonical, Extracted
  <2>4. References'
    BY <1>3, <1>a, <2>1 DEF SetAccess, References, Exists, Idle, Version, Policy
  <2>5. QED
    BY <1>3, <1>a, <2>2, <2>3, <2>4 DEF SetAccess, TypeOK
<1>4. ASSUME NEW v \in Versions, NEW s \in Sources, NEW units \in SUBSET Units,
             NEW markdown \in BOOLEAN, UploadSource(v, s, units, markdown)
      PROVE  TypeOK'
  <2>1. versions[v] \in Version /\ Exists(v)
    BY <1>4, <1>a DEF UploadSource, Ingest, Editable
  <2>2. versions' \in [Versions -> Version]
    BY <1>4, <1>a, <2>1 DEF UploadSource, AttachSource, Version, VersionStatus
  <2>3. /\ sources' \in [Sources -> Source]
        /\ canonicals' \in [Sources -> Canonical \union {None}]
        /\ jobs' \in [Sources -> JobState]
        /\ \A r \in Sources : sources'[r].status # "absent" => sources'[r].version_id \in Versions
    BY <1>4, <2>1, ProcessType DEF UploadSource, Ingest
  <2>4. References'
    BY <1>4, <1>a, <2>1, <2>3
    DEF UploadSource, Ingest, AttachSource, References, Exists, Idle, Version, Policy
  <2>5. QED
    BY <1>4, <1>a, <2>2, <2>3, <2>4 DEF UploadSource, TypeOK
<1>5. ASSUME NEW v \in Versions, NEW s \in Sources, NEW units \in SUBSET Units,
             ImportUnattached(v, s, units)
      PROVE  TypeOK'
  <2>1. PICK markdown \in BOOLEAN : Ingest(v, s, units, markdown)
    BY <1>5 DEF ImportUnattached
  <2>2. /\ sources' \in [Sources -> Source]
        /\ canonicals' \in [Sources -> Canonical \union {None}]
        /\ jobs' \in [Sources -> JobState]
        /\ \A r \in Sources : sources'[r].status # "absent" => sources'[r].version_id \in Versions
    BY <2>1, ProcessType DEF Ingest, Editable
  <2>3. QED
    BY <1>5, <1>a, <2>2 DEF ImportUnattached, TypeOK, References, Exists, Idle
<1>6. ASSUME NEW s \in Sources, NEW units \in SUBSET Units, RetrySource(s, units)
      PROVE  TypeOK'
  <2>1. sources[s].version_id \in Versions /\ sources[s].markdown_only \in BOOLEAN
    BY <1>6, <1>a DEF RetrySource, References, Source
  <2>2. /\ sources' \in [Sources -> Source]
        /\ canonicals' \in [Sources -> Canonical \union {None}]
        /\ jobs' \in [Sources -> JobState]
        /\ \A r \in Sources : sources'[r].status # "absent" => sources'[r].version_id \in Versions
    BY <1>6, <2>1, ProcessType DEF RetrySource, Editable
  <2>3. QED
    BY <1>6, <1>a, <2>2 DEF RetrySource, TypeOK, References, Exists, Idle
<1>7. ASSUME NEW s \in Sources, NEW units \in (SUBSET Units) \ {{}}, NEW scope \in Scopes,
             UpdateReview(s, units, scope)
      PROVE  TypeOK'
  <2> DEFINE v == sources[s].version_id
  <2>1. v \in Versions /\ versions[v] \in Version /\ Exists(v)
    BY <1>7, <1>a DEF UpdateReview, Editable, References
  <2>2. versions' \in [Versions -> Version] /\ chunks' \in [Versions -> SUBSET Chunk]
    BY <1>7, <1>a, <2>1 DEF UpdateReview, InvalidateAfterReview, Version, VersionStatus
  <2>3. canonicals' \in [Sources -> Canonical \union {None}]
    BY <1>7, <1>a DEF UpdateReview, Canonical, Draft
  <2>4. sources' \in [Sources -> Source]
    BY <1>7, <1>a DEF UpdateReview, Source
  <2>5. References'
    BY <1>7, <1>a, <2>1
    DEF UpdateReview, InvalidateAfterReview, References, Exists, Idle, Version, Policy, Source
  <2>6. QED
    BY <1>7, <1>a, <2>2, <2>3, <2>4, <2>5 DEF UpdateReview, TypeOK
<1>8. ASSUME NEW s \in Sources, AttachOriginalPdf(s)
      PROVE  TypeOK'
  <2> DEFINE v == sources[s].version_id
  <2>1. v \in Versions /\ versions[v] \in Version /\ Exists(v)
    BY <1>8, <1>a DEF AttachOriginalPdf, Editable, References
  <2>2. versions' \in [Versions -> Version] /\ chunks' \in [Versions -> SUBSET Chunk]
    BY <1>8, <1>a, <2>1 DEF AttachOriginalPdf, InvalidateAfterReview, Version, VersionStatus
  <2>3. canonicals' \in [Sources -> Canonical \union {None}]
    BY <1>8, <1>a DEF AttachOriginalPdf, Canonical, Extracted
  <2>4. sources' \in [Sources -> Source]
    BY <1>8, <1>a DEF AttachOriginalPdf, Source
  <2>5. References'
    BY <1>8, <1>a, <2>1
    DEF AttachOriginalPdf, InvalidateAfterReview, References, Exists, Idle, Version, Policy,
        Source
  <2>6. QED
    BY <1>8, <1>a, <2>2, <2>3, <2>4, <2>5 DEF AttachOriginalPdf, TypeOK
<1>9. ASSUME NEW s \in Sources, ApproveStructure(s)
      PROVE  TypeOK'
  <2> DEFINE v == sources[s].version_id
  <2>1. v \in Versions /\ versions[v] \in Version /\ Exists(v)
    BY <1>9, <1>a DEF ApproveStructure, Editable, References
  <2>2. versions' \in [Versions -> Version]
    BY <1>9, <1>a, <2>1 DEF ApproveStructure, AttachSource, Version, VersionStatus
  <2>3. canonicals' \in [Sources -> Canonical \union {None}]
    BY <1>9, <1>a DEF ApproveStructure, Canonical, Extracted
  <2>4. sources' \in [Sources -> Source] /\ jobs' \in [Sources -> JobState]
    BY <1>9, <1>a DEF ApproveStructure, Source, JobState
  <2>5. References'
    BY <1>9, <1>a, <2>1
    DEF ApproveStructure, AttachSource, References, Exists, Idle, Version, Policy, Source
  <2>6. QED
    BY <1>9, <1>a, <2>2, <2>3, <2>4, <2>5 DEF ApproveStructure, TypeOK
<1>10. ASSUME NEW v \in Versions, PrepareBegins(v)
       PROVE  TypeOK'
  <2>1. versions[v] \in Version /\ Exists(v)
    BY <1>10, <1>a DEF PrepareBegins
  <2>2. versions' \in [Versions -> Version]
    BY <1>10, <1>a, <2>1 DEF PrepareBegins, Version, VersionStatus
  <2>3. jobs' \in [Sources -> JobState] /\ call' \in Call
    BY <1>10, <1>a DEF PrepareBegins, JobsTransition, JobState, Call, ChunksOf
  <2>4. References'
    BY <1>10, <1>a, <2>1 DEF PrepareBegins, References, Exists, Version, Policy
  <2>5. QED
    BY <1>10, <1>a, <2>2, <2>3, <2>4 DEF PrepareBegins, TypeOK
<1>11. CASE StageVectors
  BY <1>11, <1>a DEF StageVectors, store, Call, TypeOK, References, Exists, Idle
<1>12. CASE PrepareSucceeds
  <2>1. /\ call.version \in Versions /\ versions[call.version] \in Version
        /\ Exists(call.version)
    BY <1>12, <1>a DEF PrepareSucceeds, Idle, References
  <2>2. versions' \in [Versions -> Version]
    BY <1>12, <1>a, <2>1 DEF PrepareSucceeds, Version, VersionStatus
  <2>3. chunks' \in [Versions -> SUBSET Chunk] /\ jobs' \in [Sources -> JobState]
    BY <1>12, <1>a DEF PrepareSucceeds, JobsTransition, JobState, Call
  <2>4. call' \in Call
    BY <1>12 DEF PrepareSucceeds, NoCall, Call
  <2>5. References'
    BY <1>12, <1>a, <2>1 DEF PrepareSucceeds, NoCall, References, Exists, Idle, Version, Policy
  <2>6. QED
    BY <1>12, <1>a, <2>2, <2>3, <2>4, <2>5 DEF PrepareSucceeds, TypeOK
<1>13. CASE IndexingFails
  <2>1. /\ call.version \in Versions /\ versions[call.version] \in Version
        /\ Exists(call.version)
    BY <1>13, <1>a DEF IndexingFails, References
  <2>2. versions' \in [Versions -> Version]
    BY <1>13, <1>a, <2>1 DEF IndexingFails, Version, VersionStatus
  <2>3. jobs' \in [Sources -> JobState] /\ call' \in Call
    BY <1>13, <1>a DEF IndexingFails, JobsTransition, JobState, NoCall, Call
  <2>4. References'
    BY <1>13, <1>a, <2>1 DEF IndexingFails, NoCall, References, Exists, Idle, Version, Policy
  <2>5. QED
    BY <1>13, <1>a, <2>2, <2>3, <2>4 DEF IndexingFails, TypeOK
<1>14. ASSUME NEW v \in Versions, PublishBegins(v)
       PROVE  TypeOK'
  BY <1>14, <1>a DEF PublishBegins, store, Call, TypeOK, References, Exists, Idle
<1>15. ASSUME NEW c \in Chunk, ActivateVector(c)
       PROVE  TypeOK'
  BY <1>15, <1>a DEF ActivateVector, store, TypeOK, References, Exists, Idle
<1>16. ASSUME NEW v \in Versions, Exists(v), Activated(PolicyOf[v], v)
       PROVE  /\ policies' \in [Policies -> Policy]
              /\ versions' \in [Versions -> Version]
              /\ \A w \in Versions : versions'[w].status # "absent" => versions'[w].access \in Scopes
              /\ \A q \in Policies : policies'[q].active_version_id # None =>
                   versions'[policies'[q].active_version_id].status # "absent"
  <2> DEFINE p == PolicyOf[v]
             previous == policies[p].active_version_id
  <2>1. p \in Policies
    BY PolicyOfAssumption
  <2>2. policies' \in [Policies -> Policy]
    BY <1>16, <1>a, <2>1 DEF Activated, Policy
  <2>3. versions' \in [Versions -> Version]
    BY <1>16, <1>a DEF Activated, Version, VersionStatus
  <2>4. \A w \in Versions : Exists(w) => versions'[w].status # "absent"
    BY <1>16, <1>a DEF Activated, Exists, Version
  <2>5. \A w \in Versions : versions'[w].status # "absent" => Exists(w) /\ versions'[w].access = versions[w].access
    BY <1>16, <1>a, <2>1, NoneAssumption DEF Activated, Exists, Version, References, Policy
  <2>6. \A q \in Policies : policies'[q].active_version_id # None =>
          versions'[policies'[q].active_version_id].status # "absent"
    <3>1. policies' = [policies EXCEPT ![p] = [status |-> "active", active_version_id |-> v]]
      BY <1>16 DEF Activated
    <3>2. \A q \in Policies : policies[q].active_version_id # None =>
            versions'[policies[q].active_version_id].status # "absent"
      BY <2>4, <1>a DEF References, Policy, Exists
    <3>3. versions'[v].status # "absent"
      BY <1>16, <2>4 DEF Exists
    <3>4. TAKE q \in Policies
    <3>5. CASE q = p
      BY <3>1, <3>3, <3>5, <1>a
    <3>6. CASE q # p
      BY <3>1, <3>2, <3>6, <1>a
    <3>7. QED
      BY <3>5, <3>6
  <2>7. QED
    BY <1>a, <2>2, <2>3, <2>5, <2>6 DEF References
<1>17. CASE PublishSucceeds
  <2>1. call.version \in Versions /\ Exists(call.version)
    BY <1>17, <1>a DEF PublishSucceeds, Idle, References
  <2>2. Activated(PolicyOf[call.version], call.version)
    BY <1>17 DEF PublishSucceeds
  <2>3. chunks' \in [Versions -> SUBSET Chunk]
    BY <1>17, <1>a, <2>1 DEF PublishSucceeds, MarkChunksPublished, Chunk
  <2>4. jobs' \in [Sources -> JobState] /\ call' \in Call
    BY <1>17, <1>a DEF PublishSucceeds, JobsTransition, JobState, NoCall, Call
  <2>5. /\ policies' \in [Policies -> Policy]
        /\ versions' \in [Versions -> Version]
        /\ \A w \in Versions : versions'[w].status # "absent" => versions'[w].access \in Scopes
        /\ \A q \in Policies : policies'[q].active_version_id # None =>
             versions'[policies'[q].active_version_id].status # "absent"
    BY <1>16, <2>1, <2>2
  <2>6. References'
    BY <1>17, <1>a, <2>5 DEF PublishSucceeds, References, Exists, NoCall, Idle
  <2>7. QED
    BY <1>17, <1>a, <2>3, <2>4, <2>5, <2>6 DEF PublishSucceeds, TypeOK
<1>18. ASSUME NEW v \in Versions, Rollback(v)
       PROVE  TypeOK'
  <2>1. /\ policies' \in [Policies -> Policy]
        /\ versions' \in [Versions -> Version]
        /\ \A w \in Versions : versions'[w].status # "absent" => versions'[w].access \in Scopes
        /\ \A q \in Policies : policies'[q].active_version_id # None =>
             versions'[policies'[q].active_version_id].status # "absent"
    BY <1>16, <1>18 DEF Rollback
  <2>2. References'
    BY <1>18, <1>a, <2>1 DEF Rollback, References, Exists, Idle
  <2>3. QED
    BY <1>18, <1>a, <2>1, <2>2 DEF Rollback, TypeOK
<1>19. ASSUME NEW p \in Policies, Deactivate(p)
       PROVE  TypeOK'
  BY <1>19, <1>a DEF Deactivate, Policy, TypeOK, References, Exists, Idle
<1>20. CASE UNCHANGED vars
  BY <1>20, <1>a DEF vars, TypeOK, References, Exists, Idle
<1>21. ASSUME NEW v \in Versions, NEW s \in Sources, Exists(v),
              NEW markdown \in BOOLEAN, AbandonProcessing(s, v, markdown)
       PROVE  TypeOK'
  <2>1. sources' \in [Sources -> Source] /\ jobs' \in [Sources -> JobState]
    BY <1>21, <1>a DEF AbandonProcessing, Source, JobState
  <2>2. References'
    BY <1>21, <1>a DEF AbandonProcessing, References, Exists, Idle
  <2>3. QED
    BY <1>21, <1>a, <2>1, <2>2 DEF AbandonProcessing, TypeOK
<1>22. CASE \E v \in Versions, s \in Sources : IngestCancelled(v, s)
  BY <1>21, <1>22 DEF IngestCancelled, Editable
<1>23. CASE \E s \in Sources : RetryCancelled(s)
  <2>1. PICK s \in Sources : RetryCancelled(s)
    BY <1>23
  <2>2. sources[s].version_id \in Versions /\ sources[s].markdown_only \in BOOLEAN
    BY <2>1, <1>a DEF RetryCancelled, References, Source
  <2>3. QED
    BY <1>21, <2>1, <2>2 DEF RetryCancelled, Editable
<1>24. CASE RequestCancelled
  BY <1>24, <1>a DEF RequestCancelled, store, NoCall, Call, TypeOK, References, Exists, Idle
<1>25. QED
  BY <1>1, <1>2, <1>3, <1>4, <1>5, <1>6, <1>7, <1>8, <1>9, <1>10, <1>11, <1>12, <1>13,
     <1>14, <1>15, <1>17, <1>18, <1>19, <1>20, <1>22, <1>23, <1>24 DEF Next

\* Whatever an administrator's client sends and however the index answers, every record
\* keeps its shape and no identifier dangles.
THEOREM TypeCorrect == Spec => []TypeOK
<1>1. Init => TypeOK
  BY InitTypeOK
<1>2. TypeOK /\ [Next]_vars => TypeOK'
  BY NextTypeOK
<1>3. QED
  BY <1>1, <1>2, PTL DEF Spec

-----------------------------------------------------------------------------
(* What the administrators' edits leave alone. *)

\* The effect common to the editing handlers: on one version, which is neither
\* published nor superseded, and on documents that are new or belong to it.
Edits(v) ==
  /\ Idle /\ call' = call
  /\ versions[v].status \notin Frozen
  /\ versions'[v].status \in {versions[v].status, "draft", "extraction_review",
                              "ready_for_indexing"}
  /\ \A w \in Versions \ {v} : versions'[w] = versions[w]
  /\ \A p \in Policies : policies'[p].active_version_id = policies[p].active_version_id
  /\ \A s \in Sources : sources[s].status # "absent" =>
        /\ sources'[s].status # "absent"
        /\ sources'[s].version_id = sources[s].version_id
        /\ sources[s].version_id # v => canonicals'[s] = canonicals[s]
  /\ \A s \in versions'[v].source_document_ids :
        sources'[s].status # "absent" /\ sources'[s].version_id = v

\* An extraction writes one document, which is new or belongs to the version it is for.
LEMMA ProcessEdits ==
  ASSUME TypeOK, NEW s \in Sources, NEW v \in Versions, NEW units, NEW markdown,
         sources[s].status = "absent" \/ sources[s].version_id = v,
         Process(s, v, units, markdown)
  PROVE  /\ sources'[s].status # "absent" /\ sources'[s].version_id = v
         /\ \A r \in Sources \ {s} : sources'[r] = sources[r] /\ canonicals'[r] = canonicals[r]
  BY DEF TypeOK, Process

\* Each of the drafting and sourcing handlers edits one version, in the sense of Edits.
LEMMA EditingEffect ==
  ASSUME TypeOK, DocumentsAreOwned
  PROVE  /\ \A p \in Policies, v \in Versions, scope \in Scopes :
              CreatePolicy(p, v, scope) => Edits(v)
         /\ \A p \in Policies, v \in Versions, scope \in Scopes, clone \in [Sources -> Sources] :
              CreateCorrectedAccessVersion(p, v, scope, clone) => Edits(v)
         /\ \A v \in Versions, scope \in Scopes : SetAccess(v, scope) => Edits(v)
         /\ \A v \in Versions, s \in Sources, units \in SUBSET Units, markdown \in BOOLEAN :
              UploadSource(v, s, units, markdown) => Edits(v)
         /\ \A v \in Versions, s \in Sources, units \in SUBSET Units :
              ImportUnattached(v, s, units) => Edits(v)
         /\ \A v \in Versions, s \in Sources : IngestCancelled(v, s) => Edits(v)
         /\ \A s \in Sources, units \in SUBSET Units :
              RetrySource(s, units) => Edits(sources[s].version_id)
         /\ \A s \in Sources : RetryCancelled(s) => Edits(sources[s].version_id)
         /\ \A s \in Sources, units \in (SUBSET Units) \ {{}}, scope \in Scopes :
              UpdateReview(s, units, scope) => Edits(sources[s].version_id)
         /\ \A s \in Sources : AttachOriginalPdf(s) => Edits(sources[s].version_id)
         /\ \A s \in Sources : ApproveStructure(s) => Edits(sources[s].version_id)
<1>a. /\ policies \in [Policies -> Policy]
      /\ versions \in [Versions -> Version]
      /\ sources \in [Sources -> Source]
      /\ canonicals \in [Sources -> Canonical \union {None}]
      /\ \A v \in Versions : versions[v].source_document_ids \subseteq Sources
      /\ \A s \in Sources : sources[s].status # "absent" => sources[s].version_id \in Versions
  BY DEF TypeOK, References, Version
<1>b. \A v \in Versions : \A s \in versions[v].source_document_ids :
        sources[s].status # "absent" /\ sources[s].version_id = v
  BY DEF DocumentsAreOwned
<1>1. ASSUME NEW p \in Policies, NEW v \in Versions, NEW scope \in Scopes,
             CreatePolicy(p, v, scope)
      PROVE  Edits(v)
  BY <1>1, <1>a DEF CreatePolicy, Edits, NewVersion, Exists, Frozen, Policy
<1>2. ASSUME NEW p \in Policies, NEW v \in Versions, NEW scope \in Scopes,
             NEW clone \in [Sources -> Sources],
             CreateCorrectedAccessVersion(p, v, scope, clone)
      PROVE  Edits(v)
  <2> DEFINE originals == versions[policies[p].active_version_id].source_document_ids
             copies == {clone[s] : s \in originals}
  <2>1. originals \subseteq Sources
    BY <1>2, <1>a DEF CreateCorrectedAccessVersion, Policy
  <2>2. copies \subseteq Sources /\ \A n \in copies : sources[n].status = "absent"
    BY <1>2, <2>1 DEF CreateCorrectedAccessVersion
  <2>3. versions' = [versions EXCEPT ![v] = NewVersion("extraction_review", scope, copies)]
    BY <1>2 DEF CreateCorrectedAccessVersion
  <2>4. \A n \in copies : sources'[n].status # "absent" /\ sources'[n].version_id = v
    BY <1>2, <2>2 DEF CreateCorrectedAccessVersion
  <2>5. \A n \in Sources \ copies : sources'[n] = sources[n] /\ canonicals'[n] = canonicals[n]
    BY <1>2 DEF CreateCorrectedAccessVersion
  <2>6. UNCHANGED policies /\ UNCHANGED call /\ Idle /\ versions[v].status = "absent"
    BY <1>2 DEF CreateCorrectedAccessVersion, Exists
  <2>7. QED
    BY <1>a, <2>2, <2>3, <2>4, <2>5, <2>6 DEF Edits, NewVersion, Frozen
<1>3. ASSUME NEW v \in Versions, NEW scope \in Scopes, SetAccess(v, scope)
      PROVE  Edits(v)
  <2>1. versions[v] \in Version
    BY <1>a
  <2>2. /\ versions'[v].status = "extraction_review"
        /\ versions'[v].source_document_ids = versions[v].source_document_ids
        /\ \A w \in Versions \ {v} : versions'[w] = versions[w]
    BY <1>3, <1>a, <2>1 DEF SetAccess, Version
  <2>3. \A s \in Sources : sources[s].version_id # v => canonicals'[s] = canonicals[s]
    BY <1>3, <1>a, <1>b DEF SetAccess
  <2>4. QED
    BY <1>3, <1>a, <1>b, <2>2, <2>3 DEF SetAccess, Edits, Editable
<1>4. ASSUME NEW v \in Versions, NEW s \in Sources, NEW units \in SUBSET Units,
             NEW markdown \in BOOLEAN, UploadSource(v, s, units, markdown)
      PROVE  Edits(v)
  <2>1. versions[v] \in Version
    BY <1>a
  <2>2. /\ versions'[v].status = "extraction_review"
        /\ versions'[v].source_document_ids = versions[v].source_document_ids \union {s}
        /\ \A w \in Versions \ {v} : versions'[w] = versions[w]
    BY <1>4, <1>a, <2>1 DEF UploadSource, AttachSource, Version
  <2>3. /\ sources'[s].status # "absent" /\ sources'[s].version_id = v
        /\ \A r \in Sources \ {s} : sources'[r] = sources[r] /\ canonicals'[r] = canonicals[r]
    BY <1>4, ProcessEdits DEF UploadSource, Ingest
  <2>4. sources[s].status = "absent" /\ Idle /\ Editable(v)
    BY <1>4 DEF UploadSource, Ingest
  <2>5. QED
    BY <1>4, <1>a, <1>b, <2>2, <2>3, <2>4 DEF UploadSource, Edits, Editable
<1>5. ASSUME NEW v \in Versions, NEW s \in Sources, NEW units \in SUBSET Units,
             ImportUnattached(v, s, units)
      PROVE  Edits(v)
  <2>1. PICK markdown \in BOOLEAN : Ingest(v, s, units, markdown)
    BY <1>5 DEF ImportUnattached
  <2>2. /\ sources'[s].status # "absent" /\ sources'[s].version_id = v
        /\ \A r \in Sources \ {s} : sources'[r] = sources[r] /\ canonicals'[r] = canonicals[r]
    BY <2>1, ProcessEdits DEF Ingest
  <2>3. sources[s].status = "absent" /\ Idle /\ Editable(v)
    BY <2>1 DEF Ingest
  <2>4. QED
    BY <1>5, <1>a, <1>b, <2>2, <2>3 DEF ImportUnattached, Edits, Editable
<1>6. ASSUME NEW s \in Sources, NEW units \in SUBSET Units, RetrySource(s, units)
      PROVE  Edits(sources[s].version_id)
  <2>1. sources[s].version_id \in Versions
    BY <1>6, <1>a DEF RetrySource
  <2>2. /\ sources'[s].status # "absent" /\ sources'[s].version_id = sources[s].version_id
        /\ \A r \in Sources \ {s} : sources'[r] = sources[r] /\ canonicals'[r] = canonicals[r]
    BY <1>6, <2>1, ProcessEdits DEF RetrySource
  <2>3. QED
    BY <1>6, <1>a, <1>b, <2>1, <2>2 DEF RetrySource, Edits, Editable
<1>7. ASSUME NEW s \in Sources, Idle, sources[s].status # "absent",
             Editable(sources[s].version_id), InvalidateAfterReview(sources[s].version_id),
             UNCHANGED <<policies, call>>,
             \A r \in Sources : sources'[r].status # "absent" <=> sources[r].status # "absent",
             \A r \in Sources : sources'[r].version_id = sources[r].version_id,
             \A r \in Sources \ {s} : canonicals'[r] = canonicals[r]
      PROVE  Edits(sources[s].version_id)
  <2> DEFINE v == sources[s].version_id
  <2>1. v \in Versions /\ versions[v] \in Version
    BY <1>7, <1>a
  <2>2. /\ versions'[v].status = "extraction_review"
        /\ versions'[v].source_document_ids = versions[v].source_document_ids
        /\ \A w \in Versions \ {v} : versions'[w] = versions[w]
    BY <1>7, <1>a, <2>1 DEF InvalidateAfterReview, Version
  <2>3. QED
    BY <1>7, <1>a, <1>b, <2>1, <2>2 DEF Edits, Editable
<1>8. ASSUME NEW s \in Sources, NEW units \in (SUBSET Units) \ {{}}, NEW scope \in Scopes,
             UpdateReview(s, units, scope)
      PROVE  Edits(sources[s].version_id)
  <2>1. /\ \A r \in Sources : sources'[r].status # "absent" <=> sources[r].status # "absent"
        /\ \A r \in Sources : sources'[r].version_id = sources[r].version_id
        /\ \A r \in Sources \ {s} : canonicals'[r] = canonicals[r]
    BY <1>8, <1>a DEF UpdateReview, Source
  <2>2. QED
    BY <1>7, <1>8, <2>1 DEF UpdateReview
<1>9. ASSUME NEW s \in Sources, AttachOriginalPdf(s)
      PROVE  Edits(sources[s].version_id)
  <2>1. /\ \A r \in Sources : sources'[r].status # "absent" <=> sources[r].status # "absent"
        /\ \A r \in Sources : sources'[r].version_id = sources[r].version_id
        /\ \A r \in Sources \ {s} : canonicals'[r] = canonicals[r]
    BY <1>9, <1>a DEF AttachOriginalPdf, Source
  <2>2. QED
    BY <1>7, <1>9, <2>1 DEF AttachOriginalPdf
<1>10. ASSUME NEW s \in Sources, ApproveStructure(s)
       PROVE  Edits(sources[s].version_id)
  <2> DEFINE v == sources[s].version_id
  <2>1. v \in Versions /\ versions[v] \in Version
    BY <1>10, <1>a DEF ApproveStructure
  <2>2. /\ versions'[v].status = "ready_for_indexing"
        /\ versions'[v].source_document_ids = versions[v].source_document_ids \union {s}
        /\ \A w \in Versions \ {v} : versions'[w] = versions[w]
    BY <1>10, <1>a, <2>1 DEF ApproveStructure, AttachSource, Version
  <2>3. /\ \A r \in Sources : sources'[r].status # "absent" <=> sources[r].status # "absent"
        /\ \A r \in Sources : sources'[r].version_id = sources[r].version_id
        /\ \A r \in Sources \ {s} : canonicals'[r] = canonicals[r]
    BY <1>10, <1>a DEF ApproveStructure, Source
  <2>4. QED
    BY <1>10, <1>a, <1>b, <2>1, <2>2, <2>3 DEF ApproveStructure, Edits, Editable
<1>11. ASSUME NEW v \in Versions, NEW s \in Sources, NEW markdown, Idle, Editable(v),
              sources[s].status = "absent" \/ sources[s].version_id = v,
              AbandonProcessing(s, v, markdown)
       PROVE  Edits(v)
  <2>1. /\ sources'[s].status # "absent" /\ sources'[s].version_id = v
        /\ \A r \in Sources \ {s} : sources'[r] = sources[r]
    BY <1>11, <1>a DEF AbandonProcessing
  <2>2. QED
    BY <1>11, <1>a, <1>b, <2>1 DEF AbandonProcessing, Edits, Editable
<1>12. ASSUME NEW v \in Versions, NEW s \in Sources, IngestCancelled(v, s)
       PROVE  Edits(v)
  BY <1>11, <1>12 DEF IngestCancelled
<1>13. ASSUME NEW s \in Sources, RetryCancelled(s)
       PROVE  Edits(sources[s].version_id)
  BY <1>11, <1>13, <1>a DEF RetryCancelled
<1>14. QED
  BY <1>1, <1>2, <1>3, <1>4, <1>5, <1>6, <1>8, <1>9, <1>10, <1>12, <1>13

\* Every step edits one version, is a step of preparing or publishing, moves the
\* active version, withdraws a policy, or changes nothing.
LEMMA StepKinds ==
  ASSUME TypeOK, DocumentsAreOwned, [Next]_vars
  PROVE  \/ \E v \in Versions : Edits(v)
         \/ \E v \in Versions : PrepareBegins(v)
         \/ StageVectors
         \/ PrepareSucceeds
         \/ IndexingFails
         \/ RequestCancelled
         \/ \E v \in Versions : PublishBegins(v)
         \/ \E c \in Chunk : ActivateVector(c)
         \/ PublishSucceeds
         \/ \E v \in Versions : Rollback(v)
         \/ \E p \in Policies : Deactivate(p)
         \/ UNCHANGED vars
<1>a. \A s \in Sources : sources[s].status # "absent" => sources[s].version_id \in Versions
  BY DEF TypeOK, References
<1>1. \A s \in Sources, units \in SUBSET Units :
        RetrySource(s, units) \/ RetryCancelled(s) => sources[s].version_id \in Versions
  BY <1>a DEF RetrySource, RetryCancelled
<1>2. \A s \in Sources, units \in (SUBSET Units) \ {{}}, scope \in Scopes :
        UpdateReview(s, units, scope) => sources[s].version_id \in Versions
  BY <1>a DEF UpdateReview
<1>3. \A s \in Sources : AttachOriginalPdf(s) \/ ApproveStructure(s) =>
        sources[s].version_id \in Versions
  BY <1>a DEF AttachOriginalPdf, ApproveStructure
<1>4. QED
  BY EditingEffect, <1>1, <1>2, <1>3 DEF Next

-----------------------------------------------------------------------------
(* Any client: ownership, progress of indexing, and the published version. *)

AnyClientInv ==
  /\ TypeOK
  /\ DocumentsAreOwned
  /\ IndexedContentIsCurrent
  /\ PublishedIsActive

\* The empty store satisfies the inductive invariant.
LEMMA InitAnyClient == Init => AnyClientInv
<1> SUFFICES ASSUME Init PROVE AnyClientInv
  OBVIOUS
<1>1. TypeOK
  BY InitTypeOK
<1>2. DocumentsAreOwned /\ IndexedContentIsCurrent /\ PublishedIsActive
  BY DEF Init, DocumentsAreOwned, IndexedContentIsCurrent, PublishedIsActive, NewVersion, NoCall
<1>3. QED
  BY <1>1, <1>2 DEF AnyClientInv

\* A step that touches no document and attaches none keeps every document with its owner.
LEMMA StatusStep ==
  ASSUME TypeOK, DocumentsAreOwned, UNCHANGED sources,
         \A w \in Versions : versions'[w].source_document_ids = versions[w].source_document_ids
  PROVE  DocumentsAreOwned'
  BY DEF DocumentsAreOwned, TypeOK, Version

\* Every action preserves the inductive invariant, whatever the client asks for.
LEMMA NextAnyClient == AnyClientInv /\ [Next]_vars => AnyClientInv'
<1> SUFFICES ASSUME AnyClientInv, [Next]_vars PROVE AnyClientInv'
  OBVIOUS
<1>a. TypeOK /\ DocumentsAreOwned /\ IndexedContentIsCurrent /\ PublishedIsActive
  BY DEF AnyClientInv
<1>b. /\ policies \in [Policies -> Policy]
      /\ versions \in [Versions -> Version]
      /\ \A v \in Versions : versions[v] \in Version
      /\ \A v \in Versions : versions[v].source_document_ids \subseteq Sources
      /\ ~Idle => call.version \in Versions
      /\ PolicyOf \in [Versions -> Policies]
      /\ call \in Call
  BY <1>a, PolicyOfAssumption DEF TypeOK, References, Version
<1>c. TypeOK'
  BY <1>a, NextTypeOK
<1> DEFINE Rest == DocumentsAreOwned' /\ IndexedContentIsCurrent' /\ PublishedIsActive'
<1> SUFFICES Rest
  BY <1>c DEF AnyClientInv
<1>1. ASSUME NEW v \in Versions, Edits(v)
      PROVE  Rest
  <2>1. DocumentsAreOwned'
    <3>1. \A s \in versions'[v].source_document_ids :
            sources'[s].status # "absent" /\ sources'[s].version_id = v
      BY <1>1 DEF Edits
    <3>2. \A w \in Versions \ {v} : \A s \in versions'[w].source_document_ids :
            sources'[s].status # "absent" /\ sources'[s].version_id = w
      BY <1>1, <1>a, <1>b DEF Edits, DocumentsAreOwned
    <3>3. QED
      BY <3>1, <3>2 DEF DocumentsAreOwned
  <2>2. IndexedContentIsCurrent'
    BY <1>1 DEF Edits, IndexedContentIsCurrent, Idle
  <2>3. PublishedIsActive'
    BY <1>1, <1>a, <1>b DEF Edits, PublishedIsActive, Frozen
  <2>4. QED
    BY <2>1, <2>2, <2>3
<1>2. ASSUME NEW v \in Versions, PrepareBegins(v)
      PROVE  Rest
  <2>1. /\ versions'[v].status = "indexing"
        /\ versions'[v].source_document_ids = versions[v].source_document_ids
        /\ \A w \in Versions \ {v} : versions'[w] = versions[w]
    BY <1>2, <1>b DEF PrepareBegins, Version
  <2>2. DocumentsAreOwned'
    BY <1>2, <1>a, <2>1, StatusStep DEF PrepareBegins
  <2>3. IndexedContentIsCurrent'
    BY <1>2, <2>1
    DEF PrepareBegins, IndexedContentIsCurrent, AllApproved, Documents, Extracted, ChunksOf
  <2>4. PublishedIsActive'
    BY <1>2, <1>a, <2>1 DEF PrepareBegins, PublishedIsActive
  <2>5. QED
    BY <2>2, <2>3, <2>4
<1>3. CASE StageVectors
  <2>1. DocumentsAreOwned' /\ PublishedIsActive'
    BY <1>3, <1>a DEF StageVectors, store, DocumentsAreOwned, PublishedIsActive
  <2>2. /\ call.op = "embedding" /\ call'.op = "verifying"
        /\ call'.version = call.version /\ call'.batch = call.batch
    BY <1>3, <1>b DEF StageVectors, Call
  <2>3. IndexedContentIsCurrent'
    BY <1>3, <1>a, <2>2
    DEF StageVectors, store, IndexedContentIsCurrent, AllApproved, Documents, Extracted, ChunksOf
  <2>4. QED
    BY <2>1, <2>3
<1>4. ASSUME ~Idle, call' = NoCall, UNCHANGED <<policies, sources>>,
             versions'[call.version].status \in {"ready_to_publish", "failed"},
             versions'[call.version].source_document_ids
               = versions[call.version].source_document_ids,
             \A w \in Versions \ {call.version} : versions'[w] = versions[w]
      PROVE  Rest
  <2>1. DocumentsAreOwned'
    <3>1. \A w \in Versions : versions'[w].source_document_ids = versions[w].source_document_ids
      BY <1>4
    <3>2. QED
      BY <1>4, <1>a, <3>1, StatusStep
  <2>2. IndexedContentIsCurrent'
    <3>1. call'.op = "none"
      BY <1>4 DEF NoCall
    <3>2. QED
      BY <3>1 DEF IndexedContentIsCurrent
  <2>3. PublishedIsActive'
    BY <1>4, <1>a DEF PublishedIsActive
  <2>4. QED
    BY <2>1, <2>2, <2>3
<1>5. CASE PrepareSucceeds
  <2>1. ~Idle
    BY <1>5 DEF PrepareSucceeds, Idle
  <2>2. /\ versions'[call.version].status = "ready_to_publish"
        /\ versions'[call.version].source_document_ids
             = versions[call.version].source_document_ids
        /\ \A w \in Versions \ {call.version} : versions'[w] = versions[w]
    BY <1>5, <1>b, <2>1 DEF PrepareSucceeds, Version
  <2>3. QED
    BY <1>4, <1>5, <2>1, <2>2 DEF PrepareSucceeds
<1>6. CASE IndexingFails
  <2>1. ~Idle
    BY <1>6 DEF IndexingFails
  <2>2. /\ versions'[call.version].status = "failed"
        /\ versions'[call.version].source_document_ids
             = versions[call.version].source_document_ids
        /\ \A w \in Versions \ {call.version} : versions'[w] = versions[w]
    BY <1>6, <1>b, <2>1 DEF IndexingFails, Version
  <2>3. QED
    BY <1>4, <1>6, <2>1, <2>2 DEF IndexingFails
<1>7. ASSUME NEW v \in Versions, PublishBegins(v)
      PROVE  Rest
  BY <1>7, <1>a
  DEF PublishBegins, store, Idle, DocumentsAreOwned, IndexedContentIsCurrent, PublishedIsActive
<1>8. ASSUME NEW c \in Chunk, ActivateVector(c)
      PROVE  Rest
  BY <1>8, <1>a
  DEF ActivateVector, store, DocumentsAreOwned, IndexedContentIsCurrent, PublishedIsActive
<1>9. ASSUME NEW v \in Versions, Activated(PolicyOf[v], v), UNCHANGED sources,
             call'.op = "none"
      PROVE  Rest
  <2> DEFINE previous == policies[PolicyOf[v]].active_version_id
  <2>1. /\ versions'[v].status = "published"
        /\ \A w \in Versions \ {v} :
             versions'[w].status = IF w = previous THEN "superseded" ELSE versions[w].status
        /\ \A w \in Versions :
             versions'[w].source_document_ids = versions[w].source_document_ids
    BY <1>9, <1>b DEF Activated, Version
  <2>2. /\ policies'[PolicyOf[v]].active_version_id = v
        /\ \A q \in Policies \ {PolicyOf[v]} : policies'[q] = policies[q]
    BY <1>9, <1>b DEF Activated
  <2>3. DocumentsAreOwned'
    BY <1>9, <1>a, <2>1, StatusStep
  <2>4. IndexedContentIsCurrent'
    BY <1>9 DEF IndexedContentIsCurrent
  <2>5. PublishedIsActive'
    BY <1>a, <1>b, <2>1, <2>2 DEF PublishedIsActive
  <2>6. QED
    BY <2>3, <2>4, <2>5
<1>10. CASE PublishSucceeds
  <2>1. call.version \in Versions /\ call.op = "activating"
    BY <1>10, <1>b DEF PublishSucceeds, Idle
  <2>2. Activated(PolicyOf[call.version], call.version) /\ UNCHANGED sources /\ call'.op = "none"
    BY <1>10 DEF PublishSucceeds, NoCall
  <2>3. QED
    BY <1>9, <2>1, <2>2
<1>11. ASSUME NEW v \in Versions, Rollback(v)
       PROVE  Rest
  BY <1>9, <1>11 DEF Rollback, Idle
<1>12. ASSUME NEW p \in Policies, Deactivate(p)
       PROVE  Rest
  BY <1>12, <1>a, <1>b
  DEF Deactivate, Idle, DocumentsAreOwned, IndexedContentIsCurrent, PublishedIsActive, Policy
<1>13. CASE UNCHANGED vars
  <2>1. DocumentsAreOwned' /\ PublishedIsActive'
    BY <1>13, <1>a DEF vars, DocumentsAreOwned, PublishedIsActive
  <2>2. IndexedContentIsCurrent'
    BY <1>13, <1>a
    DEF vars, IndexedContentIsCurrent, AllApproved, Documents, Extracted, ChunksOf
  <2>3. QED
    BY <2>1, <2>2
<1>14. CASE RequestCancelled
  BY <1>14, <1>a
  DEF RequestCancelled, store, NoCall, DocumentsAreOwned, IndexedContentIsCurrent,
      PublishedIsActive
<1> HIDE DEF Rest
<1>15. QED
  BY <1>1, <1>2, <1>3, <1>5, <1>6, <1>7, <1>8, <1>10, <1>11, <1>12, <1>13, <1>14, <1>a,
     StepKinds

\* The inductive invariant holds throughout.
LEMMA AnyClientInvariant == Spec => []AnyClientInv
  BY InitAnyClient, NextAnyClient, PTL DEF Spec

\* No document is ever shared by two versions.
THEOREM DocumentOwnership == Spec => []DocumentsAreOwned
<1>1. AnyClientInv => DocumentsAreOwned
  BY DEF AnyClientInv
<1>2. QED
  BY <1>1, AnyClientInvariant, PTL

\* Nothing about a version moves while it is being indexed or activated.
THEOREM IndexingIsStable == Spec => []IndexedContentIsCurrent
<1>1. AnyClientInv => IndexedContentIsCurrent
  BY DEF AnyClientInv
<1>2. QED
  BY <1>1, AnyClientInvariant, PTL

\* A policy never has two published versions.
THEOREM OnePublishedVersion == Spec => []PublishedIsActive
<1>1. AnyClientInv => PublishedIsActive
  BY DEF AnyClientInv
<1>2. QED
  BY <1>1, AnyClientInvariant, PTL

-----------------------------------------------------------------------------
(* Any client: the content of released versions is settled. *)

\* Steps other than edits change no document and, of a version, only its status and its
\* index revision.
LEMMA OtherStepsKeepContent ==
  ASSUME TypeOK,
         \/ \E v \in Versions : PrepareBegins(v)
         \/ StageVectors
         \/ PrepareSucceeds
         \/ IndexingFails
         \/ RequestCancelled
         \/ \E v \in Versions : PublishBegins(v)
         \/ \E c \in Chunk : ActivateVector(c)
         \/ PublishSucceeds
         \/ \E v \in Versions : Rollback(v)
         \/ \E p \in Policies : Deactivate(p)
         \/ UNCHANGED vars
  PROVE  /\ UNCHANGED canonicals
         /\ \A w \in Versions :
              /\ versions'[w].source_document_ids = versions[w].source_document_ids
              /\ versions'[w].access = versions[w].access
<1> DEFINE Kept == /\ UNCHANGED canonicals
                   /\ \A w \in Versions :
                        /\ versions'[w].source_document_ids = versions[w].source_document_ids
                        /\ versions'[w].access = versions[w].access
<1> SUFFICES Kept
  OBVIOUS
<1>a. \A v \in Versions : versions[v] \in Version
  BY DEF TypeOK
<1>b. versions \in [Versions -> Version]
  BY DEF TypeOK
<1>1. ASSUME NEW v \in Versions, PrepareBegins(v)
      PROVE  Kept
  BY <1>1, <1>a, <1>b DEF PrepareBegins, Version
<1>2. ASSUME NEW v, Activated(PolicyOf[v], v), UNCHANGED canonicals
      PROVE  Kept
  BY <1>2, <1>a, <1>b DEF Activated, Version
<1>3. CASE StageVectors \/ RequestCancelled \/ UNCHANGED vars
  BY <1>3 DEF StageVectors, RequestCancelled, store, vars
<1>4. CASE PrepareSucceeds
  BY <1>4, <1>a, <1>b DEF PrepareSucceeds, Version
<1>5. CASE IndexingFails
  BY <1>5, <1>a, <1>b DEF IndexingFails, Version
<1>6. CASE \E v \in Versions : PublishBegins(v)
  BY <1>6 DEF PublishBegins, store
<1>7. CASE \E c \in Chunk : ActivateVector(c)
  BY <1>7 DEF ActivateVector, store
<1>8. CASE PublishSucceeds
  BY <1>2, <1>8 DEF PublishSucceeds
<1>9. CASE \E v \in Versions : Rollback(v)
  BY <1>2, <1>9 DEF Rollback
<1>10. CASE \E p \in Policies : Deactivate(p)
  BY <1>10 DEF Deactivate
<1> HIDE DEF Kept
<1>11. QED
  BY <1>1, <1>3, <1>4, <1>5, <1>6, <1>7, <1>8, <1>9, <1>10

\* What employees were once shown under a version identifier is never edited: corrections
\* need a new version.
THEOREM ReleasedContentIsFrozen == Spec => FrozenContent
<1> DEFINE Settled ==
      \A v \in Versions :
        versions[v].status \in Frozen =>
          ContentOf(v)' = ContentOf(v) /\ versions'[v].access = versions[v].access
<1>1. ASSUME AnyClientInv, [Next]_vars
      PROVE  Settled
  <2>a. TypeOK /\ DocumentsAreOwned
    BY <1>1 DEF AnyClientInv
  <2>b. \A w \in Versions : versions[w].source_document_ids \subseteq Sources
    BY <2>a DEF TypeOK, Version
  <2>1. ASSUME NEW v \in Versions, Edits(v)
        PROVE  Settled
    <3>1. ASSUME NEW w \in Versions, versions[w].status \in Frozen
          PROVE  ContentOf(w)' = ContentOf(w) /\ versions'[w].access = versions[w].access
      <4>1. w # v /\ versions'[w] = versions[w]
        BY <2>1, <3>1 DEF Edits
      <4>2. \A s \in versions[w].source_document_ids : canonicals'[s] = canonicals[s]
        BY <2>1, <2>a, <2>b, <4>1 DEF Edits, DocumentsAreOwned
      <4>3. QED
        BY <4>1, <4>2 DEF ContentOf
    <3>2. QED
      BY <3>1
  <2>2. CASE ~ \E v \in Versions : Edits(v)
    <3>1. /\ UNCHANGED canonicals
          /\ \A w \in Versions :
               /\ versions'[w].source_document_ids = versions[w].source_document_ids
               /\ versions'[w].access = versions[w].access
      BY <1>1, <2>a, <2>2, StepKinds, OtherStepsKeepContent
    <3>2. QED
      BY <3>1 DEF ContentOf
  <2>3. QED
    BY <2>1, <2>2
<1>2. AnyClientInv /\ [Next]_vars => [Settled]_vars
  BY <1>1
<1>3. QED
  BY <1>2, AnyClientInvariant, PTL DEF Spec, FrozenContent

-----------------------------------------------------------------------------
(* A client that follows the review page: what employees are shown stays published. *)

PageAssumption == PrepareByPage /\ RollbackByPage

\* The active version belongs to its policy.
ActiveBelongs ==
  \A p \in Policies :
    policies[p].active_version_id # None => PolicyOf[policies[p].active_version_id] = p

PageInv == AnyClientInv /\ ActiveVersionIsPublished /\ ActiveBelongs

\* The steps of a client that follows the review page keep each active version published.
LEMMA NextPage ==
  ASSUME PageAssumption, PageInv, [Next]_vars
  PROVE  ActiveVersionIsPublished' /\ ActiveBelongs'
<1> DEFINE Goal ==
      \A p \in Policies :
        policies'[p].active_version_id # None =>
          /\ versions'[policies'[p].active_version_id].status = "published"
          /\ PolicyOf[policies'[p].active_version_id] = p
<1> SUFFICES Goal
  BY DEF ActiveVersionIsPublished, ActiveBelongs
<1>a. /\ TypeOK /\ DocumentsAreOwned /\ IndexedContentIsCurrent
      /\ PrepareByPage = TRUE /\ RollbackByPage = TRUE
  BY DEF PageInv, AnyClientInv, PageAssumption
<1>b. /\ policies \in [Policies -> Policy]
      /\ versions \in [Versions -> Version]
      /\ \A v \in Versions : versions[v] \in Version
      /\ ~Idle => call.version \in Versions
      /\ PolicyOf \in [Versions -> Policies]
      /\ call \in Call
  BY <1>a, PolicyOfAssumption DEF TypeOK, References
<1>c. \A p \in Policies : policies[p].active_version_id # None =>
        /\ policies[p].active_version_id \in Versions
        /\ versions[policies[p].active_version_id].status = "published"
        /\ PolicyOf[policies[p].active_version_id] = p
  BY <1>b DEF PageInv, ActiveVersionIsPublished, ActiveBelongs, Policy
<1>1. ASSUME NEW v \in Versions, versions[v].status # "published",
             \A w \in Versions \ {v} : versions'[w] = versions[w],
             \A p \in Policies : policies'[p].active_version_id = policies[p].active_version_id
      PROVE  Goal
  BY <1>1, <1>c
<1>2. ASSUME NEW v \in Versions, Edits(v)
      PROVE  Goal
  BY <1>1, <1>2 DEF Edits, Frozen
<1>3. ASSUME NEW v \in Versions, PrepareBegins(v)
      PROVE  Goal
  BY <1>1, <1>3, <1>a, <1>b DEF PrepareBegins, PrepareOffered
<1>4. CASE PrepareSucceeds \/ IndexingFails
  <2>1. call.version \in Versions
    BY <1>4, <1>b DEF PrepareSucceeds, IndexingFails, Idle
  <2>2. versions[call.version].status # "published"
    BY <1>4, <1>a, <1>b
    DEF PrepareSucceeds, IndexingFails, IndexedContentIsCurrent, Idle, Call
  <2>3. /\ \A w \in Versions \ {call.version} : versions'[w] = versions[w]
        /\ policies' = policies
    BY <1>4, <1>b, <2>1 DEF PrepareSucceeds, IndexingFails
  <2>4. QED
    BY <1>1, <2>1, <2>2, <2>3
<1>5. CASE StageVectors \/ RequestCancelled
  BY <1>5, <1>c DEF StageVectors, RequestCancelled, store
<1>6. ASSUME NEW v \in Versions, PublishBegins(v)
      PROVE  Goal
  BY <1>6, <1>c DEF PublishBegins, store
<1>7. ASSUME NEW c \in Chunk, ActivateVector(c)
      PROVE  Goal
  BY <1>7, <1>c DEF ActivateVector, store
<1>8. ASSUME NEW v \in Versions, Activated(PolicyOf[v], v)
      PROVE  Goal
  <2> DEFINE previous == policies[PolicyOf[v]].active_version_id
  <2>1. /\ versions'[v].status = "published"
        /\ \A w \in Versions \ {v} : w # previous => versions'[w].status = versions[w].status
    BY <1>8, <1>b DEF Activated, Version
  <2>2. /\ policies'[PolicyOf[v]].active_version_id = v
        /\ \A q \in Policies \ {PolicyOf[v]} : policies'[q] = policies[q]
    BY <1>8, <1>b DEF Activated
  <2>3. QED
    BY <1>b, <1>c, <1>8, <2>1, <2>2
<1>9. CASE PublishSucceeds
  <2>1. call.version \in Versions
    BY <1>9, <1>b DEF PublishSucceeds, Idle
  <2>2. Activated(PolicyOf[call.version], call.version)
    BY <1>9 DEF PublishSucceeds
  <2>3. QED
    BY <1>8, <2>1, <2>2
<1>10. ASSUME NEW v \in Versions, Rollback(v)
       PROVE  Goal
  BY <1>8, <1>10 DEF Rollback
<1>11. ASSUME NEW p \in Policies, Deactivate(p)
       PROVE  Goal
  <2>1. \A q \in Policies : policies'[q].active_version_id = policies[q].active_version_id
    BY <1>11, <1>b DEF Deactivate, Policy
  <2>2. UNCHANGED versions
    BY <1>11 DEF Deactivate
  <2>3. QED
    BY <1>c, <2>1, <2>2
<1>12. CASE UNCHANGED vars
  BY <1>12, <1>c DEF vars
<1> HIDE DEF Goal
<1>13. QED
  BY <1>2, <1>3, <1>4, <1>5, <1>6, <1>7, <1>9, <1>10, <1>11, <1>12, <1>a, StepKinds

\* With a client that follows the review page, the version employees are shown is
\* published at every moment, whatever indexing is running or has failed.
THEOREM ActiveStaysPublished ==
  ASSUME PrepareByPage, RollbackByPage
  PROVE  Spec => []ActiveVersionIsPublished
<1>a. PageAssumption
  BY DEF PageAssumption
<1>1. Init => ActiveVersionIsPublished /\ ActiveBelongs
  BY DEF Init, ActiveVersionIsPublished, ActiveBelongs
<1>2. Init => PageInv
  BY <1>1, InitAnyClient DEF PageInv
<1>3. PageInv /\ [Next]_vars => PageInv'
  BY <1>a, NextPage, NextAnyClient DEF PageInv
<1>4. PageInv => ActiveVersionIsPublished
  BY DEF PageInv
<1>5. QED
  BY <1>2, <1>3, <1>4, PTL DEF Spec

-----------------------------------------------------------------------------
(* What employees are shown, with clients that follow the pages: the     *)
(* inductive invariant.                                                  *)

\* The content of a version that waits for its publication.  No job of its documents is
\* failed, so that none of them can be extracted again behind its back.
Prepared(v) ==
  /\ AllApproved(v)
  /\ chunks[v] = ChunksOf(Documents(v), "staged")
  /\ \A s \in versions[v].source_document_ids : jobs[s] # "failed"

\* The content of a version that was published at some time.
Released(v) ==
  /\ AllApproved(v)
  /\ chunks[v] = ChunksOf(Documents(v), "published")
  /\ \A c \in chunks[v] : index[VectorOf(c)] = "published"

ReadyArePrepared ==
  \A v \in Versions : versions[v].status = "ready_to_publish" => Prepared(v)
FrozenAreReleased ==
  \A v \in Versions : versions[v].status \in Frozen => Released(v)
ActiveHasVersion ==
  \A p \in Policies : policies[p].status = "active" => policies[p].active_version_id # None
ExtractionsHaveUnits ==
  \A s \in Sources : Extracted(s) => canonicals[s].units # {}

ContentInv ==
  /\ PageInv
  /\ ReadyArePrepared /\ FrozenAreReleased /\ ActiveHasVersion /\ ExtractionsHaveUnits

\* The invariant holds of the empty store.
LEMMA InitContent == Init => ContentInv
<1> SUFFICES ASSUME Init PROVE ContentInv
  OBVIOUS
<1>1. ActiveVersionIsPublished /\ ActiveBelongs
  BY DEF Init, ActiveVersionIsPublished, ActiveBelongs
<1>2. ReadyArePrepared /\ FrozenAreReleased /\ ActiveHasVersion /\ ExtractionsHaveUnits
  BY DEF Init, NewVersion, Frozen, Extracted, ReadyArePrepared, FrozenAreReleased,
         ActiveHasVersion, ExtractionsHaveUnits
<1> QED
  BY <1>1, <1>2, InitAnyClient DEF ContentInv, PageInv

-----------------------------------------------------------------------------
(* Content. *)

\* A version whose documents and their structure stay has the content it had.
LEMMA ContentStays ==
  ASSUME NEW v \in Versions,
         versions'[v].source_document_ids = versions[v].source_document_ids,
         \A s \in versions[v].source_document_ids : canonicals'[s] = canonicals[s]
  PROVE  /\ Documents(v)' = Documents(v)
         /\ AllApproved(v)' = AllApproved(v)
         /\ ChunksOf(Documents(v), "staged")' = ChunksOf(Documents(v), "staged")
         /\ ChunksOf(Documents(v), "published")' = ChunksOf(Documents(v), "published")
         /\ ApprovedContent(v)' = ApprovedContent(v)
<1>1. Documents(v)' = Documents(v)
  BY DEF Documents, Extracted
<1>2. \A s \in Documents(v) : canonicals'[s] = canonicals[s]
  BY DEF Documents
<1>3. AllApproved(v)' = AllApproved(v)
  BY <1>1, <1>2 DEF AllApproved
<1>4. /\ ChunksOf(Documents(v), "staged")' = ChunksOf(Documents(v), "staged")
      /\ ChunksOf(Documents(v), "published")' = ChunksOf(Documents(v), "published")
  BY <1>1, <1>2 DEF ChunksOf
<1>5. (\A s \in Documents(v) : canonicals[s].approved)'
        = (\A s \in Documents(v) : canonicals[s].approved)
  BY <1>1, <1>2
<1> QED
  BY <1>1, <1>3, <1>4, <1>5 DEF ApprovedContent

\* Marking the staged chunks of documents published gives their published chunks.
LEMMA MarkedChunks ==
  ASSUME NEW ids
  PROVE  {[c EXCEPT !.publication_status = "published"] : c \in ChunksOf(ids, "staged")}
           = ChunksOf(ids, "published")
<1> DEFINE Marked(c) == [c EXCEPT !.publication_status = "published"]
           Unmarked(c) == [c EXCEPT !.publication_status = "staged"]
<1>1. ASSUME NEW c \in ChunksOf(ids, "staged")
      PROVE  Marked(c) \in ChunksOf(ids, "published")
  BY <1>1 DEF ChunksOf, Chunk
<1>2. ASSUME NEW c \in ChunksOf(ids, "published")
      PROVE  Unmarked(c) \in ChunksOf(ids, "staged") /\ Marked(Unmarked(c)) = c
  BY <1>2 DEF ChunksOf, Chunk
<1> QED
  BY <1>1, <1>2

\* The vectors of two versions are different ones, since no document belongs to both.
LEMMA VectorsAreOwned ==
  ASSUME DocumentsAreOwned, NEW v \in Versions, NEW w \in Versions, v # w,
         NEW c \in ChunksOf(Documents(v), "staged"), NEW d \in ChunksOf(Documents(w), "published")
  PROVE  VectorOf(c) # VectorOf(d)
  BY DEF DocumentsAreOwned, ChunksOf, Documents, VectorOf

\* An approved version has content: an extraction found at least one unit.
LEMMA ApprovedHasContent ==
  ASSUME TypeOK, ExtractionsHaveUnits, NEW v \in Versions, AllApproved(v)
  PROVE  ApprovedContent(v) # {}
<1>1. PICK s \in Documents(v) : canonicals[s].approved
  BY DEF AllApproved
<1>2. s \in Sources /\ canonicals[s] \in Canonical /\ canonicals[s].units # {}
  BY <1>1 DEF Documents, Extracted, TypeOK, Version, ExtractionsHaveUnits
<1>3. PICK u \in canonicals[s].units : TRUE
  BY <1>2
<1> DEFINE c == [source |-> s, unit |-> u, access |-> canonicals[s].access,
                 publication_status |-> "published"]
<1>4. c \in Chunk
  BY <1>2, <1>3 DEF Canonical, Chunk
<1>5. c \in ChunksOf(Documents(v), "published")
  BY <1>1, <1>3, <1>4 DEF ChunksOf
<1> QED
  BY <1>5 DEF ApprovedContent, AllApproved

-----------------------------------------------------------------------------
(* What an edit of one version leaves alone besides. *)

\* The index, the chunks and the jobs of other versions, and what is shown; and all of the
\* version's own content when it stays ready to publish.
Leaves(v) ==
  /\ UNCHANGED index
  /\ \A w \in Versions \ {v} : chunks'[w] = chunks[w]
  /\ \A p \in Policies :
        \/ policies'[p] = policies[p]
        \/ policies[p].status # "active" /\ policies'[p].status # "active"
  /\ \A s \in Sources :
        sources[s].status # "absent" /\ sources[s].version_id # v => jobs'[s] = jobs[s]
  /\ \A s \in Sources : canonicals'[s] # None => canonicals'[s].units # {}
  /\ versions'[v].status = "ready_to_publish" =>
        /\ versions'[v].source_document_ids = versions[v].source_document_ids
        /\ chunks'[v] = chunks[v]
        /\ \A s \in versions[v].source_document_ids :
              canonicals'[s] = canonicals[s] /\ jobs'[s] = jobs[s]

\* Each of the drafting and sourcing handlers leaves alone what Leaves says.
LEMMA EditingLeaves ==
  ASSUME ContentInv
  PROVE  /\ \A p \in Policies, v \in Versions, scope \in Scopes :
              CreatePolicy(p, v, scope) => Leaves(v)
         /\ \A p \in Policies, v \in Versions, scope \in Scopes, clone \in [Sources -> Sources] :
              CreateCorrectedAccessVersion(p, v, scope, clone) => Leaves(v)
         /\ \A v \in Versions, scope \in Scopes : SetAccess(v, scope) => Leaves(v)
         /\ \A v \in Versions, s \in Sources, units \in SUBSET Units, markdown \in BOOLEAN :
              UploadSource(v, s, units, markdown) => Leaves(v)
         /\ \A v \in Versions, s \in Sources, units \in SUBSET Units :
              ImportUnattached(v, s, units) => Leaves(v)
         /\ \A v \in Versions, s \in Sources : IngestCancelled(v, s) => Leaves(v)
         /\ \A s \in Sources, units \in SUBSET Units :
              RetrySource(s, units) => Leaves(sources[s].version_id)
         /\ \A s \in Sources : RetryCancelled(s) => Leaves(sources[s].version_id)
         /\ \A s \in Sources, units \in (SUBSET Units) \ {{}}, scope \in Scopes :
              UpdateReview(s, units, scope) => Leaves(sources[s].version_id)
         /\ \A s \in Sources : AttachOriginalPdf(s) => Leaves(sources[s].version_id)
         /\ \A s \in Sources : ApproveStructure(s) => Leaves(sources[s].version_id)
<1>a. TypeOK /\ DocumentsAreOwned /\ ReadyArePrepared /\ ExtractionsHaveUnits
  BY DEF ContentInv, PageInv, AnyClientInv
<1>b. /\ policies \in [Policies -> Policy]
      /\ versions \in [Versions -> Version]
      /\ \A v \in Versions : versions[v] \in Version /\ versions[v].source_document_ids \subseteq Sources
      /\ sources \in [Sources -> Source]
      /\ canonicals \in [Sources -> Canonical \union {None}]
      /\ jobs \in [Sources -> JobState]
      /\ chunks \in [Versions -> SUBSET Chunk]
      /\ \A s \in Sources : sources[s].status # "absent" => sources[s].version_id \in Versions
      /\ \A s \in Sources : canonicals[s] # None => canonicals[s].units # {}
  BY <1>a DEF TypeOK, References, Version, ExtractionsHaveUnits, Extracted
<1>c. \A v \in Versions : \A s \in versions[v].source_document_ids :
        /\ sources[s].status # "absent" /\ sources[s].version_id = v
        /\ versions[v].status = "ready_to_publish" => jobs[s] # "failed"
  BY <1>a DEF DocumentsAreOwned, ReadyArePrepared, Prepared
<1>1. ASSUME NEW p \in Policies, NEW v \in Versions, NEW scope \in Scopes,
             CreatePolicy(p, v, scope)
      PROVE  Leaves(v)
  <2>1. policies[p].status = "absent" /\ policies'[p].status = "draft"
    BY <1>1, <1>b DEF CreatePolicy, Policy
  <2> QED
    BY <1>1, <1>b, <2>1 DEF CreatePolicy, Leaves, NewVersion
<1>2. ASSUME NEW p \in Policies, NEW v \in Versions, NEW scope \in Scopes,
             NEW clone \in [Sources -> Sources],
             CreateCorrectedAccessVersion(p, v, scope, clone)
      PROVE  Leaves(v)
  <2> DEFINE originals == versions[policies[p].active_version_id].source_document_ids
             copies == {clone[s] : s \in originals}
             OriginalOf(n) == CHOOSE s \in originals : clone[s] = n
  <2>1. originals \subseteq Sources
    BY <1>2, <1>b DEF CreateCorrectedAccessVersion, Policy
  <2>2. copies \subseteq Sources /\ \A n \in copies : sources[n].status = "absent"
    BY <1>2, <2>1 DEF CreateCorrectedAccessVersion
  <2>3. versions'[v].status = "extraction_review"
    BY <1>2, <1>b DEF CreateCorrectedAccessVersion, NewVersion
  <2>4. \A n \in copies : OriginalOf(n) \in originals
    OBVIOUS
  <2>5. \A n \in copies : canonicals'[n].units = canonicals[OriginalOf(n)].units
                          /\ canonicals[OriginalOf(n)] # None
    BY <1>2, <2>2, <2>4 DEF CreateCorrectedAccessVersion, Draft, Extracted
  <2>6. \A n \in Sources \ copies : canonicals'[n] = canonicals[n] /\ jobs'[n] = jobs[n]
    BY <1>2 DEF CreateCorrectedAccessVersion
  <2>7. UNCHANGED <<policies, chunks, index>>
    BY <1>2 DEF CreateCorrectedAccessVersion
  <2>8. \A s \in Sources : canonicals'[s] # None => canonicals'[s].units # {}
    BY <1>b, <2>1, <2>4, <2>5, <2>6
  <2> QED
    BY <2>2, <2>3, <2>6, <2>7, <2>8 DEF Leaves
<1>3. ASSUME NEW v \in Versions, NEW scope \in Scopes, SetAccess(v, scope)
      PROVE  Leaves(v)
  <2>1. versions'[v].status = "extraction_review"
    BY <1>3, <1>b DEF SetAccess, Version
  <2>2. \A s \in Sources : canonicals'[s] # None => canonicals'[s].units # {}
    BY <1>3, <1>b DEF SetAccess, Extracted, Canonical
  <2> QED
    BY <1>3, <1>b, <2>1, <2>2 DEF SetAccess, Leaves
\* An extraction leaves a structure with units, or the structure there was.
<1>4. ASSUME NEW v \in Versions, NEW s \in Sources, NEW units \in SUBSET Units, NEW markdown,
             Process(s, v, units, markdown)
      PROVE  /\ \A r \in Sources \ {s} : canonicals'[r] = canonicals[r] /\ jobs'[r] = jobs[r]
             /\ \A r \in Sources : canonicals'[r] # None => canonicals'[r].units # {}
  BY <1>4, <1>b DEF Process, Draft
<1>5. ASSUME NEW v \in Versions, NEW s \in Sources, NEW units \in SUBSET Units,
             NEW markdown \in BOOLEAN, UploadSource(v, s, units, markdown)
      PROVE  Leaves(v)
  <2>1. versions'[v].status = "extraction_review"
    BY <1>5, <1>b DEF UploadSource, AttachSource, Version
  <2>2. sources[s].status = "absent" /\ Process(s, v, units, markdown)
    BY <1>5 DEF UploadSource, Ingest
  <2> QED
    BY <1>4, <1>5, <2>1, <2>2 DEF UploadSource, Leaves
\* A document that is not attached to the version, or whose job is failed, is none of a
\* version that is ready to publish.
<1>6. ASSUME NEW v \in Versions, NEW s \in Sources,
             UNCHANGED <<policies, versions, chunks, index>>,
             sources[s].status = "absent" \/ (sources[s].version_id = v /\ jobs[s] = "failed"),
             \A r \in Sources \ {s} : canonicals'[r] = canonicals[r] /\ jobs'[r] = jobs[r],
             \A r \in Sources : canonicals'[r] # None => canonicals'[r].units # {}
      PROVE  Leaves(v)
  BY <1>6, <1>b, <1>c DEF Leaves
<1>7. ASSUME NEW v \in Versions, NEW s \in Sources, NEW units \in SUBSET Units,
             ImportUnattached(v, s, units)
      PROVE  Leaves(v)
  <2>1. PICK markdown \in BOOLEAN : Ingest(v, s, units, markdown)
    BY <1>7 DEF ImportUnattached
  <2>2. sources[s].status = "absent" /\ Process(s, v, units, markdown)
    BY <2>1 DEF Ingest
  <2> QED
    BY <1>4, <1>6, <1>7, <2>2 DEF ImportUnattached
<1>8. ASSUME NEW v \in Versions, NEW s \in Sources, NEW markdown,
             sources[s].status = "absent" \/ (sources[s].version_id = v /\ jobs[s] = "failed"),
             AbandonProcessing(s, v, markdown)
      PROVE  Leaves(v)
  BY <1>6, <1>8, <1>b DEF AbandonProcessing
<1>9. ASSUME NEW v \in Versions, NEW s \in Sources, IngestCancelled(v, s)
      PROVE  Leaves(v)
  BY <1>8, <1>9 DEF IngestCancelled
<1>10. ASSUME NEW s \in Sources, NEW units \in SUBSET Units, RetrySource(s, units)
       PROVE  Leaves(sources[s].version_id)
  <2>1. sources[s].version_id \in Versions /\ jobs[s] = "failed"
    BY <1>10, <1>b DEF RetrySource
  <2>2. Process(s, sources[s].version_id, units, sources[s].markdown_only)
    BY <1>10 DEF RetrySource
  <2> QED
    BY <1>4, <1>6, <1>10, <2>1, <2>2 DEF RetrySource
<1>11. ASSUME NEW s \in Sources, RetryCancelled(s)
       PROVE  Leaves(sources[s].version_id)
  BY <1>8, <1>11, <1>b DEF RetryCancelled
<1>12. ASSUME NEW s \in Sources, sources[s].version_id \in Versions,
              InvalidateAfterReview(sources[s].version_id),
              UNCHANGED <<policies, jobs, index>>,
              \A r \in Sources : canonicals'[r] # None => canonicals'[r].units # {}
       PROVE  Leaves(sources[s].version_id)
  BY <1>12, <1>b DEF InvalidateAfterReview, Leaves, Version
<1>13. ASSUME NEW s \in Sources, NEW units \in (SUBSET Units) \ {{}}, NEW scope \in Scopes,
              UpdateReview(s, units, scope)
       PROVE  Leaves(sources[s].version_id)
  <2>1. \A r \in Sources : canonicals'[r] # None => canonicals'[r].units # {}
    BY <1>13, <1>b DEF UpdateReview, Draft
  <2> QED
    BY <1>12, <1>13, <1>b, <2>1 DEF UpdateReview
<1>14. ASSUME NEW s \in Sources, AttachOriginalPdf(s)
       PROVE  Leaves(sources[s].version_id)
  <2>1. \A r \in Sources : canonicals'[r] # None => canonicals'[r].units # {}
    BY <1>14, <1>b DEF AttachOriginalPdf, Extracted, Canonical
  <2> QED
    BY <1>12, <1>14, <1>b, <2>1 DEF AttachOriginalPdf
<1>15. ASSUME NEW s \in Sources, ApproveStructure(s)
       PROVE  Leaves(sources[s].version_id)
  <2> DEFINE v == sources[s].version_id
  <2>1. v \in Versions /\ versions'[v].status = "ready_for_indexing"
    BY <1>15, <1>b DEF ApproveStructure, AttachSource, Version
  <2>2. \A r \in Sources : canonicals'[r] # None => canonicals'[r].units # {}
    BY <1>15, <1>b DEF ApproveStructure, Extracted, Canonical
  <2> QED
    BY <1>15, <1>b, <2>1, <2>2 DEF ApproveStructure, Leaves
<1> QED
  BY <1>1, <1>2, <1>3, <1>5, <1>7, <1>9, <1>10, <1>11, <1>13, <1>14, <1>15

\* The steps of StepKinds, with what an edit leaves alone besides.
LEMMA LeavingSteps ==
  ASSUME ContentInv, [Next]_vars
  PROVE  \/ \E v \in Versions : Edits(v) /\ Leaves(v)
         \/ \E v \in Versions : PrepareBegins(v)
         \/ StageVectors
         \/ PrepareSucceeds
         \/ IndexingFails
         \/ RequestCancelled
         \/ \E v \in Versions : PublishBegins(v)
         \/ \E c \in Chunk : ActivateVector(c)
         \/ PublishSucceeds
         \/ \E v \in Versions : Rollback(v)
         \/ \E p \in Policies : Deactivate(p)
         \/ UNCHANGED vars
<1>a. TypeOK /\ DocumentsAreOwned
  BY DEF ContentInv, PageInv, AnyClientInv
<1>b. \A s \in Sources : sources[s].status # "absent" => sources[s].version_id \in Versions
  BY <1>a DEF TypeOK, References
<1>1. \A s \in Sources, units \in SUBSET Units :
        RetrySource(s, units) \/ RetryCancelled(s) => sources[s].version_id \in Versions
  BY <1>b DEF RetrySource, RetryCancelled
<1>2. \A s \in Sources, units \in (SUBSET Units) \ {{}}, scope \in Scopes :
        UpdateReview(s, units, scope) => sources[s].version_id \in Versions
  BY <1>b DEF UpdateReview
<1>3. \A s \in Sources : AttachOriginalPdf(s) \/ ApproveStructure(s) =>
        sources[s].version_id \in Versions
  BY <1>b DEF AttachOriginalPdf, ApproveStructure
<1> QED
  BY <1>a, EditingEffect, EditingLeaves, <1>1, <1>2, <1>3 DEF Next

-----------------------------------------------------------------------------
(* The invariant is kept. *)

\* A version whose documents, structure, chunks and jobs stay is prepared as it was.
LEMMA PreparedStays ==
  ASSUME NEW v \in Versions, Prepared(v),
         versions'[v].source_document_ids = versions[v].source_document_ids,
         chunks'[v] = chunks[v],
         \A s \in versions[v].source_document_ids :
            canonicals'[s] = canonicals[s] /\ jobs'[s] = jobs[s]
  PROVE  Prepared(v)'
  BY ContentStays DEF Prepared

\* A version whose documents, structure, chunks and vectors stay is released as it was.
LEMMA ReleasedStays ==
  ASSUME NEW v \in Versions, Released(v),
         versions'[v].source_document_ids = versions[v].source_document_ids,
         chunks'[v] = chunks[v],
         \A s \in versions[v].source_document_ids : canonicals'[s] = canonicals[s],
         \A c \in chunks[v] : index[VectorOf(c)] = "published" => index'[VectorOf(c)] = "published"
  PROVE  Released(v)'
  BY ContentStays DEF Released

\* Every step of a client that follows the pages keeps the content of each version in step
\* with its status.
LEMMA NextContent ==
  ASSUME PageAssumption, ContentInv, [Next]_vars
  PROVE  ReadyArePrepared' /\ FrozenAreReleased' /\ ActiveHasVersion' /\ ExtractionsHaveUnits'
<1> DEFINE Goal == ReadyArePrepared' /\ FrozenAreReleased' /\ ActiveHasVersion'
                     /\ ExtractionsHaveUnits'
<1> SUFFICES Goal
  OBVIOUS
<1>a. /\ TypeOK /\ DocumentsAreOwned /\ IndexedContentIsCurrent /\ ActiveVersionIsPublished
      /\ ReadyArePrepared /\ FrozenAreReleased /\ ActiveHasVersion /\ ExtractionsHaveUnits
      /\ PrepareByPage = TRUE /\ RollbackByPage = TRUE
  BY DEF ContentInv, PageInv, AnyClientInv, PageAssumption
<1>b. /\ policies \in [Policies -> Policy]
      /\ versions \in [Versions -> Version]
      /\ \A v \in Versions : versions[v] \in Version /\ versions[v].source_document_ids \subseteq Sources
      /\ jobs \in [Sources -> JobState]
      /\ chunks \in [Versions -> SUBSET Chunk]
      /\ index \in [VectorId -> {"absent", "staged", "published"}]
      /\ ~Idle => call.version \in Versions
      /\ PolicyOf \in [Versions -> Policies]
  BY <1>a, PolicyOfAssumption DEF TypeOK, References, Version
<1>c. \A v \in Versions : \A s \in versions[v].source_document_ids :
        sources[s].status # "absent" /\ sources[s].version_id = v
  BY <1>a DEF DocumentsAreOwned
<1>d. \A v \in Versions :
        /\ versions[v].status = "ready_to_publish" => Prepared(v)
        /\ versions[v].status \in Frozen => Released(v)
  BY <1>a DEF ReadyArePrepared, FrozenAreReleased
<1>e. \A p \in Policies : policies[p].active_version_id # None =>
        /\ policies[p].active_version_id \in Versions
        /\ versions[policies[p].active_version_id].status = "published"
  BY <1>a, <1>b DEF ActiveVersionIsPublished, Policy
\* One version moves and no structure does.
<1>1. ASSUME NEW v \in Versions, UNCHANGED <<policies, canonicals, index>>,
             \A w \in Versions \ {v} : versions'[w] = versions[w] /\ chunks'[w] = chunks[w],
             \A s \in Sources : sources[s].version_id # v => jobs'[s] = jobs[s],
             versions'[v].status \notin Frozen,
             versions'[v].status = "ready_to_publish" => Prepared(v)'
      PROVE  Goal
  <2>1. ASSUME NEW w \in Versions \ {v}
        PROVE  /\ versions'[w].status = "ready_to_publish" => Prepared(w)'
               /\ versions'[w].status \in Frozen => Released(w)'
    BY <1>1, <1>b, <1>c, <1>d, <2>1, PreparedStays, ReleasedStays
  <2>2. ActiveHasVersion' /\ ExtractionsHaveUnits'
    BY <1>1, <1>a DEF ActiveHasVersion, ExtractionsHaveUnits, Extracted
  <2> QED
    BY <1>1, <2>1, <2>2 DEF ReadyArePrepared, FrozenAreReleased
\* The store stays and the vectors of released versions stay published.
<1>2. ASSUME UNCHANGED store,
             \A w \in Versions : versions[w].status \in Frozen =>
               \A c \in chunks[w] :
                 index[VectorOf(c)] = "published" => index'[VectorOf(c)] = "published"
      PROVE  Goal
  <2>1. ASSUME NEW w \in Versions
        PROVE  /\ versions'[w].status = "ready_to_publish" => Prepared(w)'
               /\ versions'[w].status \in Frozen => Released(w)'
    BY <1>2, <1>d, PreparedStays, ReleasedStays DEF store
  <2>2. ActiveHasVersion' /\ ExtractionsHaveUnits'
    BY <1>2, <1>a DEF store, ActiveHasVersion, ExtractionsHaveUnits, Extracted
  <2> QED
    BY <2>1, <2>2 DEF ReadyArePrepared, FrozenAreReleased
<1>3. ASSUME NEW v \in Versions, Edits(v), Leaves(v)
      PROVE  Goal
  <2>1. ASSUME NEW w \in Versions \ {v}
        PROVE  /\ versions'[w].status = "ready_to_publish" => Prepared(w)'
               /\ versions'[w].status \in Frozen => Released(w)'
    <3>1. /\ versions'[w] = versions[w] /\ chunks'[w] = chunks[w] /\ UNCHANGED index
          /\ \A s \in versions[w].source_document_ids :
                canonicals'[s] = canonicals[s] /\ jobs'[s] = jobs[s]
      BY <1>3, <1>b, <1>c, <2>1 DEF Edits, Leaves
    <3> QED
      BY <1>d, <2>1, <3>1, PreparedStays, ReleasedStays
  <2>2. versions'[v].status \notin Frozen
    BY <1>3 DEF Edits, Frozen
  <2>3. versions'[v].status = "ready_to_publish" => Prepared(v)'
    BY <1>3, <1>d, PreparedStays DEF Edits, Leaves
  <2>4. ActiveHasVersion' /\ ExtractionsHaveUnits'
    BY <1>3, <1>a DEF Leaves, ActiveHasVersion, ExtractionsHaveUnits, Extracted
  <2> QED
    BY <2>1, <2>2, <2>3, <2>4 DEF ReadyArePrepared, FrozenAreReleased
<1>4. ASSUME NEW v \in Versions, PrepareBegins(v)
      PROVE  Goal
  <2>1. versions'[v].status = "indexing" /\ \A w \in Versions \ {v} : versions'[w] = versions[w]
    BY <1>4, <1>b DEF PrepareBegins, Version
  <2>2. /\ UNCHANGED <<policies, canonicals, index, chunks>>
        /\ \A s \in Sources : sources[s].version_id # v => jobs'[s] = jobs[s]
    BY <1>4 DEF PrepareBegins, JobsTransition
  <2> QED
    BY <1>1, <2>1, <2>2 DEF Frozen
<1>5. CASE StageVectors
  <2>1. /\ call.version \in Versions /\ versions[call.version].status = "indexing"
        /\ call.batch = ChunksOf(Documents(call.version), "staged")
    BY <1>5, <1>a, <1>b DEF StageVectors, IndexedContentIsCurrent, Idle
  <2>2. ASSUME NEW w \in Versions, versions[w].status \in Frozen, NEW c \in chunks[w],
               index[VectorOf(c)] = "published"
        PROVE  index'[VectorOf(c)] = "published"
    <3>1. w # call.version
      BY <2>1, <2>2 DEF Frozen
    <3>2. c \in ChunksOf(Documents(w), "published")
      BY <1>d, <2>2 DEF Released
    <3>3. \A b \in call.batch : VectorOf(b) # VectorOf(c)
      BY <1>a, <2>1, <2>2, <3>1, <3>2, VectorsAreOwned
    <3>4. VectorOf(c) \in VectorId
      BY <3>2 DEF ChunksOf, Chunk, VectorOf, VectorId
    <3> QED
      BY <1>5, <2>2, <3>3, <3>4 DEF StageVectors
  <2>3. UNCHANGED store
    BY <1>5 DEF StageVectors
  <2> QED
    BY <1>2, <2>2, <2>3
<1>6. CASE PrepareSucceeds
  <2>0. PICK v \in Versions : v = call.version
    BY <1>6, <1>b DEF PrepareSucceeds, Idle
  <2>1. AllApproved(v) /\ call.batch = ChunksOf(Documents(v), "staged")
    BY <1>6, <1>a, <2>0 DEF PrepareSucceeds, IndexedContentIsCurrent
  <2>2. /\ versions'[v].status = "ready_to_publish"
        /\ versions'[v].source_document_ids = versions[v].source_document_ids
        /\ \A w \in Versions \ {v} : versions'[w] = versions[w] /\ chunks'[w] = chunks[w]
        /\ chunks'[v] = call.batch
    BY <1>6, <1>b, <2>0 DEF PrepareSucceeds, Version
  <2>3. /\ UNCHANGED <<policies, canonicals, index>>
        /\ \A s \in Sources :
             jobs'[s] = IF sources[s].version_id = v THEN "ready_for_review" ELSE jobs[s]
    BY <1>6, <2>0 DEF PrepareSucceeds, JobsTransition
  <2>4. Prepared(v)'
    <3>1. AllApproved(v)' /\ chunks'[v] = ChunksOf(Documents(v), "staged")'
      BY <2>1, <2>2, <2>3, ContentStays
    <3>2. \A s \in versions'[v].source_document_ids : jobs'[s] # "failed"
      BY <1>b, <1>c, <2>1, <2>2, <2>3
    <3> QED
      BY <3>1, <3>2 DEF Prepared
  <2> QED
    BY <1>1, <2>1, <2>2, <2>3, <2>4 DEF Frozen
<1>7. CASE IndexingFails
  <2> DEFINE v == call.version
  <2>1. v \in Versions
    BY <1>7, <1>b DEF IndexingFails
  <2>2. versions'[v].status = "failed" /\ \A w \in Versions \ {v} : versions'[w] = versions[w]
    BY <1>7, <1>b, <2>1 DEF IndexingFails, Version
  <2>3. /\ UNCHANGED <<policies, canonicals, index, chunks>>
        /\ \A s \in Sources : sources[s].version_id # v => jobs'[s] = jobs[s]
    BY <1>7 DEF IndexingFails, JobsTransition
  <2> QED
    BY <1>1, <2>1, <2>2, <2>3 DEF Frozen
<1>8. CASE RequestCancelled \/ \E v \in Versions : PublishBegins(v)
  BY <1>2, <1>8 DEF RequestCancelled, PublishBegins
<1>9. ASSUME NEW c \in Chunk, ActivateVector(c)
      PROVE  Goal
  <2>1. \A id \in VectorId : index[id] = "published" => index'[id] = "published"
    BY <1>9, <1>b DEF ActivateVector
  <2>2. \A w \in Versions : \A d \in chunks[w] : VectorOf(d) \in VectorId
    BY <1>b DEF Chunk, VectorOf, VectorId
  <2>3. UNCHANGED store
    BY <1>9 DEF ActivateVector
  <2> QED
    BY <1>2, <2>1, <2>2, <2>3
\* A version with content to show becomes the active one.
<1>10. ASSUME NEW v \in Versions, Activated(PolicyOf[v], v), Released(v)', UNCHANGED <<canonicals, index>>,
              \A w \in Versions \ {v} : chunks'[w] = chunks[w],
              \A s \in Sources : sources[s].version_id # v => jobs'[s] = jobs[s]
       PROVE  Goal
  <2> DEFINE previous == policies[PolicyOf[v]].active_version_id
  <2>1. /\ versions'[v].status = "published"
        /\ \A w \in Versions \ {v} :
             versions'[w].status = IF w = previous THEN "superseded" ELSE versions[w].status
        /\ \A w \in Versions :
             versions'[w].source_document_ids = versions[w].source_document_ids
    BY <1>10, <1>b DEF Activated, Version
  <2>2. previous \in Versions => versions[previous].status \in Frozen
    BY <1>b, <1>e, NoneAssumption DEF Frozen
  <2>3. ASSUME NEW w \in Versions \ {v}
        PROVE  /\ versions'[w].status = "ready_to_publish" => Prepared(w)'
               /\ versions'[w].status \in Frozen => Released(w)'
    <3>1. /\ versions'[w].status = "ready_to_publish" => Prepared(w)
          /\ versions'[w].status \in Frozen => Released(w)
      BY <1>d, <2>1, <2>2, <2>3
    <3> QED
      BY <1>10, <1>b, <1>c, <2>1, <2>3, <3>1, PreparedStays, ReleasedStays
  <2>4. ActiveHasVersion'
    <3>1. policies' = [policies EXCEPT ![PolicyOf[v]] = [status |-> "active", active_version_id |-> v]]
      BY <1>10 DEF Activated
    <3> QED
      BY <1>a, <1>b, <3>1, NoneAssumption DEF ActiveHasVersion
  <2>5. ExtractionsHaveUnits'
    BY <1>10, <1>a DEF ExtractionsHaveUnits, Extracted
  <2> QED
    BY <1>10, <2>1, <2>3, <2>4, <2>5 DEF ReadyArePrepared, FrozenAreReleased
<1>11. CASE PublishSucceeds
  <2>0. PICK v \in Versions : v = call.version
    BY <1>11, <1>b DEF PublishSucceeds, Idle
  <2>1. versions[v].status = "ready_to_publish" /\ call.batch = chunks[v]
    BY <1>11, <1>a, <2>0 DEF PublishSucceeds, IndexedContentIsCurrent
  <2>2. AllApproved(v) /\ chunks[v] = ChunksOf(Documents(v), "staged")
    BY <1>d, <2>1 DEF Prepared
  <2>3. /\ chunks'[v] = {[c EXCEPT !.publication_status = "published"] : c \in chunks[v]}
        /\ \A w \in Versions \ {v} : chunks'[w] = chunks[w]
    BY <1>11, <1>b, <2>0 DEF PublishSucceeds, MarkChunksPublished
  <2>4. /\ Activated(PolicyOf[v], v) /\ UNCHANGED <<canonicals, index>>
        /\ \A c \in call.batch : index[VectorOf(c)] = "published"
        /\ \A s \in Sources : sources[s].version_id # v => jobs'[s] = jobs[s]
    BY <1>11, <2>0 DEF PublishSucceeds, JobsTransition
  <2>5. Released(v)'
    <3>1. versions'[v].source_document_ids = versions[v].source_document_ids
      BY <1>b, <2>1, <2>4 DEF Activated, Version
    <3>2. AllApproved(v)' /\ chunks'[v] = ChunksOf(Documents(v), "published")'
      BY <2>1, <2>2, <2>3, <2>4, <3>1, ContentStays, MarkedChunks
    <3>3. ASSUME NEW c \in chunks'[v]
          PROVE  index'[VectorOf(c)] = "published"
      <4>1. PICK d \in chunks[v] : c = [d EXCEPT !.publication_status = "published"]
        BY <2>3, <3>3
      <4>2. VectorOf(c) = VectorOf(d)
        BY <1>b, <2>1, <4>1 DEF VectorOf, Chunk
      <4> QED
        BY <2>1, <2>4, <4>2
    <3> QED
      BY <3>2, <3>3 DEF Released, VectorOf
  <2> QED
    BY <1>10, <2>1, <2>3, <2>4, <2>5
<1>12. ASSUME NEW v \in Versions, Rollback(v)
       PROVE  Goal
  <2>1. /\ Released(v) /\ Activated(PolicyOf[v], v)
        /\ UNCHANGED <<canonicals, jobs, chunks, index>>
    BY <1>12, <1>a, <1>d DEF Rollback, RollbackOffered
  <2>2. versions'[v].source_document_ids = versions[v].source_document_ids
    BY <1>b, <2>1 DEF Activated, Version
  <2>3. Released(v)'
    BY <2>1, <2>2, ReleasedStays
  <2> QED
    BY <1>10, <2>1, <2>3
<1>13. ASSUME NEW p \in Policies, Deactivate(p)
       PROVE  Goal
  <2>1. /\ policies' = [policies EXCEPT ![p].status = "inactive"]
        /\ UNCHANGED <<versions, sources, canonicals, jobs, chunks, index>>
    BY <1>13 DEF Deactivate
  <2>2. ReadyArePrepared' /\ FrozenAreReleased' /\ ExtractionsHaveUnits'
    BY <1>a, <1>d, <2>1, PreparedStays, ReleasedStays
    DEF ReadyArePrepared, FrozenAreReleased, ExtractionsHaveUnits, Extracted
  <2>3. ActiveHasVersion'
    BY <1>a, <1>b, <2>1 DEF ActiveHasVersion, Policy
  <2> QED
    BY <2>2, <2>3
<1>14. CASE UNCHANGED vars
  BY <1>2, <1>14 DEF vars, store
<1> HIDE DEF Goal
<1> QED
  BY <1>3, <1>4, <1>5, <1>6, <1>7, <1>8, <1>9, <1>11, <1>12, <1>13, <1>14, LeavingSteps

-----------------------------------------------------------------------------
(* Theorems. *)

\* The invariant holds in every reachable state.
LEMMA ContentInvariant ==
  ASSUME PrepareByPage, RollbackByPage
  PROVE  Spec => []ContentInv
<1>a. PageAssumption
  BY DEF PageAssumption
<1>1. ContentInv /\ [Next]_vars => ContentInv'
  BY <1>a, NextContent, NextPage, NextAnyClient DEF ContentInv, PageInv
<1> QED
  BY <1>1, InitContent, PTL DEF Spec

\* What is about to be published is what a reviewer approved and what was indexed.
THEOREM ReadyStaysFresh ==
  ASSUME PrepareByPage, RollbackByPage
  PROVE  Spec => []ReadyIsFresh
<1>1. ContentInv => ReadyIsFresh
  BY DEF ContentInv, ReadyArePrepared, Prepared, AllApproved, ReadyIsFresh
<1> QED
  BY <1>1, ContentInvariant, PTL

\* The active version of an active policy is one that was released.
LEMMA ActiveIsReleased ==
  ASSUME ContentInv, NEW p \in Policies, policies[p].status = "active"
  PROVE  /\ policies[p].active_version_id \in Versions
         /\ versions[policies[p].active_version_id].status = "published"
         /\ Released(policies[p].active_version_id)
<1>1. policies[p].active_version_id # None /\ policies[p].active_version_id \in Versions
  BY DEF ContentInv, PageInv, AnyClientInv, TypeOK, Policy, ActiveHasVersion
<1>2. versions[policies[p].active_version_id].status = "published"
  BY <1>1 DEF ContentInv, PageInv, ActiveVersionIsPublished
<1> QED
  BY <1>1, <1>2 DEF ContentInv, FrozenAreReleased, Frozen

\* All of the approved content of the active version is served, and nothing else.
LEMMA ServedIsApproved ==
  ASSUME ContentInv, NEW p \in Policies, policies[p].status = "active"
  PROVE  /\ Served(p) = chunks[policies[p].active_version_id]
         /\ Served(p) = ChunksOf(Documents(policies[p].active_version_id), "published")
         /\ Served(p) = ApprovedContent(policies[p].active_version_id)
<1>1. Released(policies[p].active_version_id)
  BY ActiveIsReleased
<1>2. Served(p) = chunks[policies[p].active_version_id]
  BY <1>1 DEF Released, ChunksOf, Served, EligibleChunks
<1> QED
  BY <1>1, <1>2 DEF Released, AllApproved, ApprovedContent

\* What lexical search may return, semantic search may return too, also while another
\* version of the policy is staged or activated.
THEOREM ServedStaysSearchable ==
  ASSUME PrepareByPage, RollbackByPage
  PROVE  Spec => []ServedIsSearchable
<1>1. ContentInv => ServedIsSearchable
  BY ActiveIsReleased, ServedIsApproved DEF Released, Served, ServedIsSearchable
<1> QED
  BY <1>1, ContentInvariant, PTL

\* Search and the reader never disagree, not even between two steps of a publication.
THEOREM ReaderAndSearchAgree ==
  ASSUME PrepareByPage, RollbackByPage
  PROVE  Spec => []ReaderAgreesWithSearch
<1>1. ContentInv => ReaderAgreesWithSearch
  BY ActiveIsReleased, ServedIsApproved
  DEF ReaderAgreesWithSearch, ReaderSections, ReaderOpens, Served
<1> QED
  BY <1>1, ContentInvariant, PTL

\* Nothing is shown that a reviewer did not approve.
THEOREM ShownStaysApproved ==
  ASSUME PrepareByPage, RollbackByPage
  PROVE  Spec => []ShownIsApproved
<1>1. ContentInv => ShownIsApproved
  BY ActiveIsReleased DEF ShownIsApproved, ReaderOpens, Released, AllApproved
<1> QED
  BY <1>1, ContentInvariant, PTL

-----------------------------------------------------------------------------
(* PolicyLifecycle implements PublishedKnowledge. *)

\* What PublishedKnowledge sees.
Shown == [p \in Policies |-> Served(p)]
Approved == [v \in Versions |-> ApprovedContent(v)]
ReleasedVersions == {v \in Versions : versions[v].status \in Frozen}
PromiseStep == UNCHANGED <<Shown, Approved, ReleasedVersions>> \/ Knowledge!Next

\* The content that is served stays when neither the policy nor the chunks of its active
\* version move, whatever happens to others.
LEMMA ServedStays ==
  ASSUME ContentInv, NEW p \in Policies,
         \/ /\ policies'[p] = policies[p]
            /\ policies[p].status = "active" =>
                 chunks'[policies[p].active_version_id] = chunks[policies[p].active_version_id]
         \/ policies[p].status # "active" /\ policies'[p].status # "active"
  PROVE  Served(p)' = Served(p)
  BY DEF Served, EligibleChunks

\* An edit changes the approved content of one version that was never released.
LEMMA EditPromise ==
  ASSUME ContentInv, NEW v \in Versions, Edits(v), Leaves(v)
  PROVE  PromiseStep
<1>a. TypeOK /\ DocumentsAreOwned
  BY DEF ContentInv, PageInv, AnyClientInv
<1>1. \A w \in Versions \ {v} : ApprovedContent(w)' = ApprovedContent(w)
  <2> TAKE w \in Versions \ {v}
  <2>1. versions'[w] = versions[w]
    BY DEF Edits
  <2>2. \A s \in versions[w].source_document_ids : canonicals'[s] = canonicals[s]
    BY <1>a DEF Edits, DocumentsAreOwned, TypeOK, Version
  <2> QED
    BY <2>1, <2>2, ContentStays
<1>2. Approved' = [Approved EXCEPT ![v] = ApprovedContent(v)']
  BY <1>1 DEF Approved
<1>3. ApprovedContent(v)' \in SUBSET Chunk
  BY DEF ApprovedContent, ChunksOf
<1>4. UNCHANGED Shown
  <2> SUFFICES ASSUME NEW p \in Policies PROVE Served(p)' = Served(p)
    BY DEF Shown
  <2>1. policies[p].status = "active" => policies[p].active_version_id \in Versions \ {v}
    BY ActiveIsReleased DEF Edits, Frozen
  <2> QED
    BY <2>1, ServedStays DEF Leaves
<1>5. UNCHANGED ReleasedVersions /\ v \notin ReleasedVersions
  BY DEF Edits, ReleasedVersions, Frozen
<1>6. Knowledge!Edit(v)
  BY <1>2, <1>3, <1>4, <1>5 DEF Knowledge!Edit, Shown, Approved, ReleasedVersions
<1> QED
  BY <1>6 DEF PromiseStep, Knowledge!Next

\* A step that moves no content and no active version, and no version into or out of the
\* released ones, is nothing that employees see.
LEMMA QuietPromise ==
  ASSUME ContentInv, UNCHANGED <<policies, canonicals>>,
         \A w \in Versions :
            /\ versions'[w].source_document_ids = versions[w].source_document_ids
            /\ versions'[w].status \in Frozen <=> versions[w].status \in Frozen
            /\ versions[w].status \in Frozen => chunks'[w] = chunks[w]
  PROVE  PromiseStep
<1>1. \A w \in Versions : ApprovedContent(w)' = ApprovedContent(w)
  BY ContentStays
<1>2. \A p \in Policies : Served(p)' = Served(p)
  BY ServedStays, ActiveIsReleased DEF Frozen
<1> QED
  BY <1>1, <1>2 DEF PromiseStep, Shown, Approved, ReleasedVersions

\* Making a version with all of its content to show the active one shows it in one step.
LEMMA ActivationPromise ==
  ASSUME ContentInv, ContentInv', UNCHANGED canonicals, NEW v \in Versions,
         Activated(PolicyOf[v], v), \A w \in Versions \ {v} : chunks'[w] = chunks[w]
  PROVE  /\ Shown' = [Shown EXCEPT ![PolicyOf[v]] = Approved[v]]
         /\ UNCHANGED Approved
         /\ ReleasedVersions' = ReleasedVersions \union {v}
<1>a. /\ versions \in [Versions -> Version] /\ policies \in [Policies -> Policy]
      /\ PolicyOf \in [Versions -> Policies]
  BY PolicyOfAssumption DEF ContentInv, PageInv, AnyClientInv, TypeOK
<1>b. \A p \in Policies : policies[p].active_version_id # None =>
        /\ policies[p].active_version_id \in Versions
        /\ versions[policies[p].active_version_id].status = "published"
        /\ PolicyOf[policies[p].active_version_id] = p
  BY <1>a DEF ContentInv, PageInv, ActiveVersionIsPublished, ActiveBelongs, Policy
<1>1. \A w \in Versions : ApprovedContent(w)' = ApprovedContent(w)
  <2>1. \A w \in Versions : versions'[w].source_document_ids = versions[w].source_document_ids
    BY <1>a DEF Activated, Version
  <2> QED
    BY <2>1, ContentStays
<1>2. policies' = [policies EXCEPT ![PolicyOf[v]] = [status |-> "active", active_version_id |-> v]]
  BY DEF Activated
<1>3. Served(PolicyOf[v])' = ApprovedContent(v)'
  <2>1. policies'[PolicyOf[v]].status = "active" /\ policies'[PolicyOf[v]].active_version_id = v
    BY <1>a, <1>2
  <2>2. Released(v)'
    <3>1. versions'[v].status \in Frozen
      BY <1>a DEF Activated, Version, Frozen
    <3> QED
      BY <3>1 DEF ContentInv, FrozenAreReleased
  <2>3. Served(PolicyOf[v])' = chunks'[v]
    BY <2>1, <2>2 DEF Released, ChunksOf, Served, EligibleChunks
  <2> QED
    BY <2>2, <2>3 DEF Released, AllApproved, ApprovedContent
<1>4. ASSUME NEW q \in Policies \ {PolicyOf[v]}
      PROVE  Served(q)' = Served(q)
  <2>1. policies'[q] = policies[q]
    BY <1>a, <1>2
  <2>2. policies[q].status = "active" => policies[q].active_version_id \in Versions \ {v}
    BY <1>b, ActiveIsReleased, NoneAssumption
  <2> QED
    BY <2>1, <2>2, ServedStays
<1>5. ReleasedVersions' = ReleasedVersions \union {v}
  <2> DEFINE previous == policies[PolicyOf[v]].active_version_id
  <2>1. /\ versions'[v].status = "published"
        /\ \A w \in Versions \ {v} :
             versions'[w].status = IF w = previous THEN "superseded" ELSE versions[w].status
    BY <1>a DEF Activated, Version
  <2>2. previous \in Versions => versions[previous].status = "published"
    BY <1>a, <1>b, NoneAssumption
  <2> QED
    BY <2>1, <2>2 DEF ReleasedVersions, Frozen
<1> QED
  BY <1>a, <1>1, <1>3, <1>4, <1>5 DEF Shown, Approved

\* Every step of a client that follows the pages is one that PublishedKnowledge allows.
LEMMA NextPromise ==
  ASSUME PageAssumption, ContentInv, ContentInv', [Next]_vars
  PROVE  PromiseStep
<1>a. /\ TypeOK /\ IndexedContentIsCurrent
      /\ PrepareByPage = TRUE /\ RollbackByPage = TRUE
  BY DEF ContentInv, PageInv, AnyClientInv, PageAssumption
<1>b. /\ versions \in [Versions -> Version]
      /\ chunks \in [Versions -> SUBSET Chunk]
      /\ ~Idle => call.version \in Versions
      /\ policies \in [Policies -> Policy]
      /\ call.op \in {"none", "embedding", "verifying", "activating"}
  BY <1>a DEF TypeOK, References, Call
<1>1. ASSUME NEW v \in Versions, PrepareBegins(v)
      PROVE  PromiseStep
  <2>1. versions[v].status \notin Frozen
    BY <1>1, <1>a DEF PrepareBegins, PrepareOffered, Frozen
  <2>2. \A w \in Versions :
          /\ versions'[w].source_document_ids = versions[w].source_document_ids
          /\ versions'[w].status \in Frozen <=> versions[w].status \in Frozen
    BY <1>1, <1>b, <2>1 DEF PrepareBegins, Version, Frozen
  <2> QED
    BY <1>1, <2>2, QuietPromise DEF PrepareBegins
<1>2. CASE StageVectors \/ RequestCancelled \/ UNCHANGED vars
           \/ (\E v \in Versions : PublishBegins(v)) \/ \E c \in Chunk : ActivateVector(c)
  BY <1>2, QuietPromise
  DEF StageVectors, RequestCancelled, PublishBegins, ActivateVector, store, vars
<1>3. CASE PrepareSucceeds \/ IndexingFails
  <2>1. call.version \in Versions /\ versions[call.version].status \notin Frozen
    BY <1>3, <1>a, <1>b DEF PrepareSucceeds, IndexingFails, IndexedContentIsCurrent, Idle, Frozen
  <2>2. \A w \in Versions :
          /\ versions'[w].source_document_ids = versions[w].source_document_ids
          /\ versions'[w].status \in Frozen <=> versions[w].status \in Frozen
          /\ w # call.version => chunks'[w] = chunks[w]
    BY <1>3, <1>b, <2>1 DEF PrepareSucceeds, IndexingFails, Version, Frozen
  <2> QED
    BY <1>3, <2>1, <2>2, QuietPromise DEF PrepareSucceeds, IndexingFails
<1>4. CASE PublishSucceeds
  <2>0. PICK v \in Versions : v = call.version
    BY <1>4, <1>b DEF PublishSucceeds, Idle
  <2>1. versions[v].status = "ready_to_publish"
    BY <1>4, <1>a, <2>0 DEF PublishSucceeds, IndexedContentIsCurrent
  <2>2. v \notin ReleasedVersions /\ ApprovedContent(v) # {}
    BY <1>a, <2>1, ApprovedHasContent
    DEF ContentInv, ReadyArePrepared, Prepared, ReleasedVersions, Frozen
  <2>3. /\ UNCHANGED canonicals /\ Activated(PolicyOf[v], v)
        /\ \A w \in Versions \ {v} : chunks'[w] = chunks[w]
    BY <1>4, <1>b, <2>0 DEF PublishSucceeds, MarkChunksPublished
  <2>4. Knowledge!Release(v)
    BY <2>2, <2>3, ActivationPromise
    DEF Knowledge!Release, Knowledge!Show, Shown, Approved, ReleasedVersions
  <2> QED
    BY <2>4 DEF PromiseStep, Knowledge!Next
<1>5. ASSUME NEW v \in Versions, Rollback(v)
      PROVE  PromiseStep
  <2>1. v \in ReleasedVersions
    BY <1>5, <1>a DEF Rollback, RollbackOffered, ReleasedVersions
  <2>2. UNCHANGED <<canonicals, chunks>> /\ Activated(PolicyOf[v], v)
    BY <1>5 DEF Rollback
  <2>3. Knowledge!Restore(v)
    BY <2>1, <2>2, ActivationPromise
    DEF Knowledge!Restore, Knowledge!Show, Shown, Approved, ReleasedVersions
  <2> QED
    BY <2>3 DEF PromiseStep, Knowledge!Next
<1>6. ASSUME NEW p \in Policies, Deactivate(p)
      PROVE  PromiseStep
  <2>1. /\ policies' = [policies EXCEPT ![p].status = "inactive"]
        /\ UNCHANGED <<versions, canonicals, chunks>>
    BY <1>6 DEF Deactivate
  <2>2. Served(p)' = {}
    BY <1>b, <2>1 DEF Served, Policy
  <2>3. \A q \in Policies \ {p} : Served(q)' = Served(q)
    BY <1>b, <2>1, ServedStays
  <2>4. \A w \in Versions : ApprovedContent(w)' = ApprovedContent(w)
    BY <2>1, ContentStays
  <2>5. UNCHANGED ReleasedVersions
    BY <2>1 DEF ReleasedVersions
  <2>6. Knowledge!Withdraw(p)
    BY <2>2, <2>3, <2>4, <2>5 DEF Knowledge!Withdraw, ReleasedVersions
  <2> QED
    BY <2>6 DEF PromiseStep, Knowledge!Next
<1> QED
  BY <1>1, <1>2, <1>3, <1>4, <1>5, <1>6, EditPromise, LeavingSteps

\* With clients that follow the pages, employees see at every moment nothing or the whole
\* approved content of one version, however many requests are made, fail or are cancelled.
THEOREM LifecycleKeepsPromise ==
  ASSUME PrepareByPage, RollbackByPage
  PROVE  Spec => ImplementsPublishedKnowledge
<1>a. PageAssumption
  BY DEF PageAssumption
<1>1. Init => Knowledge!Init
  BY DEF Init, Knowledge!Init, Served, ApprovedContent, ChunksOf, Documents, NewVersion, Frozen
<1>2. ContentInv /\ ContentInv' /\ [Next]_vars
        => [Knowledge!Next]_<<Shown, Approved, ReleasedVersions>>
  BY <1>a, NextPromise DEF PromiseStep
<1> QED
  BY <1>1, <1>2, ContentInvariant, PTL
  DEF Spec, ImplementsPublishedKnowledge, Knowledge!Spec, Knowledge!vars, Shown, Approved,
      ReleasedVersions

-----------------------------------------------------------------------------
(* DurableLifecycle: what is assumed. *)

FlushesAreWhole == AtomicFlush \/ MaxFlushFailures = 0

DurableAssumption == PageAssumption /\ FlushesAreWhole

-----------------------------------------------------------------------------
(* DurableLifecycle: the inductive invariant. *)

Known(s) == sources[s].status # "absent"
Marked(collection, id) == Key(collection, id) \in pending

PublishedRows(set, owner, v) ==
  {c \in set : owner[c.source].version_id = v /\ c.publication_status = "published"}

\* What a load needs of persisted collections: they refer to each other as those of a store do,
\* every chunk has its document, and only versions that were published have published chunks.
Loadable(m) ==
  /\ \A v \in Versions : m.versions[v].status # "absent" => m.versions[v].access \in Scopes
  /\ \A s \in Sources : m.sources[s].status # "absent" => m.sources[s].version_id \in Versions
  /\ \A v \in Versions : \A s \in m.versions[v].source_document_ids :
       m.sources[s].status # "absent" /\ m.sources[s].version_id = v
  /\ \A v \in Versions : m.versions[v].status = "published" =>
       m.policies[PolicyOf[v]].active_version_id = v
  /\ \A p \in Policies :
       LET v == m.policies[p].active_version_id
       IN  /\ v # None => m.versions[v].status = "published" /\ PolicyOf[v] = p
           /\ m.policies[p].status = "active" => v # None
  /\ \A c \in m.chunks : m.sources[c.source].status # "absent"
  /\ \A v \in Versions : m.versions[v].status \notin Frozen =>
       PublishedRows(m.chunks, m.sources, v) = {}

\* What is not marked is in Mongo as far as it matters, and Mongo is never ahead.
MongoKeepsUp ==
  /\ \A p \in Policies : mongo.policies[p] = policies[p] \/ Marked("policies", p)
  /\ \A v \in Versions :
       \/ \A status \in Frozen : mongo.versions[v].status = status <=> versions[v].status = status
       \/ Marked("policy_versions", v)
  /\ \A v \in Versions : mongo.versions[v].status \in Frozen => versions[v].status \in Frozen
  /\ \A s \in Sources :
       IF mongo.sources[s].status = "absent" THEN Known(s) => Marked("source_documents", s)
       ELSE Known(s) /\ sources[s].version_id = mongo.sources[s].version_id

\* Chunks in memory, and those that wait for a flush, are of documents of their versions.
ChunksFit ==
  /\ \A p \in Policies : policies[p].status = "active" => policies[p].active_version_id # None
  /\ \A v \in Versions : \A c \in chunks[v] : Known(c.source) /\ sources[c.source].version_id = v
  /\ \A c \in rows :
       /\ Known(c.source)
       /\ c.publication_status = "published" =>
            versions[sources[c.source].version_id].status \in Frozen

\* What was published of a version is in Mongo or waits for a flush, with nothing besides; and
\* it is in Mongo when the policy does not wait for one.
Published(v) == {c \in chunks[v] : c.publication_status = "published"}
PublishedIsKept ==
  \A v \in Versions :
    /\ versions[v].status \in Frozen =>
         PublishedRows(Overwrite(mongo.chunks, rows), sources, v) = Published(v)
    /\ versions[v].status = "published" /\ ~Marked("policies", PolicyOf[v]) =>
         PublishedRows(mongo.chunks, sources, v) = Published(v)

PersistedInv ==
  DurableTypeOK /\ Loadable(mongo) /\ MongoKeepsUp /\ ChunksFit /\ PublishedIsKept
DurableInv == PageInv /\ PersistedInv

-----------------------------------------------------------------------------
(* Marks. *)

Marks == Seq(SUBSET Keys)

\* One handler marks these records after those.
LEMMA MarksFollow ==
  ASSUME NEW a \in Marks, NEW b \in Marks
  PROVE  a \o b \in Marks /\ MadeIn(a \o b) = MadeIn(a) \union MadeIn(b)
<1>1. /\ a \o b \in Marks /\ Len(a \o b) = Len(a) + Len(b)
      /\ Len(a) \in Nat /\ Len(b) \in Nat
      /\ DOMAIN a = 1 .. Len(a) /\ DOMAIN b = 1 .. Len(b)
      /\ DOMAIN (a \o b) = 1 .. Len(a) + Len(b)
  BY DEF Marks
<1>2. \A i \in DOMAIN a : i \in DOMAIN (a \o b) /\ (a \o b)[i] = a[i]
  BY <1>1 DEF Marks
<1>3. \A i \in DOMAIN b : Len(a) + i \in DOMAIN (a \o b) /\ (a \o b)[Len(a) + i] = b[i]
  BY <1>1 DEF Marks
<1>4. ASSUME NEW i \in DOMAIN (a \o b), i \notin DOMAIN a
      PROVE  i - Len(a) \in DOMAIN b /\ (a \o b)[i] = b[i - Len(a)]
  BY <1>1, <1>4 DEF Marks
<1> QED
  BY <1>1, <1>2, <1>3, <1>4 DEF MadeIn

\* Records that are marked in one loop.
LEMMA MarksTogether ==
  ASSUME NEW keys \in SUBSET Keys
  PROVE  <<keys>> \in Marks /\ MadeIn(<<keys>>) = keys
  BY DEF Marks, MadeIn

\* A record or some records of a collection.
LEMMA MarksOfCollections ==
  /\ \A p \in Policies :
       One("policies", p) \in Marks /\ MadeIn(One("policies", p)) = {Key("policies", p)}
  /\ \A ids \in SUBSET Versions :
       /\ Several("policy_versions", ids) \in Marks
       /\ MadeIn(Several("policy_versions", ids)) = {Key("policy_versions", v) : v \in ids}
  /\ \A v \in Versions :
       /\ One("policy_versions", v) \in Marks
       /\ MadeIn(One("policy_versions", v)) = {Key("policy_versions", v)}
  /\ \A collection \in {"source_documents", "canonical_sops", "ingestion_jobs"} :
       /\ \A s \in Sources : /\ One(collection, s) \in Marks
                              /\ MadeIn(One(collection, s)) = {Key(collection, s)}
       /\ \A ids \in SUBSET Sources :
            /\ Several(collection, ids) \in Marks
            /\ MadeIn(Several(collection, ids)) = {Key(collection, s) : s \in ids}
  /\ <<{ChunkKey}>> \in Marks /\ MadeIn(<<{ChunkKey}>>) = {ChunkKey}
<1>1. /\ \A p \in Policies : Key("policies", p) \in Keys
      /\ \A v \in Versions : Key("policy_versions", v) \in Keys
      /\ \A collection \in {"source_documents", "canonical_sops", "ingestion_jobs"} :
           \A s \in Sources : Key(collection, s) \in Keys
      /\ ChunkKey \in Keys
  BY DEF Keys, PolicyKeys, VersionKeys, SourceKeys, Key
<1> QED
  BY <1>1, MarksTogether DEF One, Several

\* Marking records keeps the marks well formed and the order of the marks strict.
LEMMA MarkingKeeps ==
  ASSUME DurableTypeOK, NEW marks \in Marks, MarkModified(marks)
  PROVE  /\ pending' = pending \union MadeIn(marks)
         /\ pending' \subseteq Keys
         /\ order' \subseteq pending' \X pending'
         /\ \A k, l \in pending' : <<k, l>> \in order' => <<l, k>> \notin order'
<1> DEFINE new == MadeIn(marks) \ pending
           within == {pair \in new \X new : MadeBefore(marks, pair[1], pair[2])}
<1>1. /\ pending' = pending \union new
      /\ order' = order \union (pending \X new) \union within
  BY DEF MarkModified
<1>2. /\ pending \subseteq Keys /\ order \subseteq pending \X pending
      /\ \A k, l \in pending : <<k, l>> \in order => <<l, k>> \notin order
  BY DEF DurableTypeOK
<1>3. MadeIn(marks) \subseteq Keys /\ DOMAIN marks \subseteq Nat
  BY DEF Marks, MadeIn
<1>4. ASSUME NEW k \in new, NEW l \in new, MadeBefore(marks, k, l), MadeBefore(marks, l, k)
      PROVE  FALSE
  <2>1. PICK i \in DOMAIN marks : k \in marks[i] /\ \A j \in 1 .. i : l \notin marks[j]
    BY <1>4 DEF MadeBefore
  <2>2. PICK i2 \in DOMAIN marks : l \in marks[i2] /\ \A j \in 1 .. i2 : k \notin marks[j]
    BY <1>4 DEF MadeBefore
  <2>3. i \in 1 .. i2 \/ i2 \in 1 .. i
    BY DEF Marks
  <2> QED
    BY <2>1, <2>2, <2>3
<1>5. ASSUME NEW k \in pending', NEW l \in pending', <<k, l>> \in order', <<l, k>> \in order'
      PROVE  FALSE
  <2> HIDE DEF new
  <2>1. \A x, y : <<x, y>> \in order' =>
          \/ x \in pending /\ y \in pending /\ <<x, y>> \in order
          \/ x \in pending /\ y \in new
          \/ x \in new /\ y \in new /\ MadeBefore(marks, x, y)
    BY <1>1, <1>2
  <2>2. pending \intersect new = {}
    BY DEF new
  <2> QED
    BY <1>2, <1>4, <1>5, <2>1, <2>2
<1> QED
  BY <1>1, <1>2, <1>3, <1>5

-----------------------------------------------------------------------------
(* What the invariant says of the shapes of things. *)

LEMMA DurableShapes ==
  ASSUME DurableInv
  PROVE  /\ policies \in [Policies -> Policy] /\ versions \in [Versions -> Version]
         /\ sources \in [Sources -> Source] /\ chunks \in [Versions -> SUBSET Chunk]
         /\ mongo.policies \in [Policies -> Policy] /\ mongo.versions \in [Versions -> Version]
         /\ mongo.sources \in [Sources -> Source] /\ mongo.chunks \subseteq Chunk
         /\ rows \subseteq Chunk /\ pending \subseteq Keys
         /\ PolicyOf \in [Versions -> Policies]
         /\ \A c \in Chunk : c.source \in Sources
  BY PolicyOfAssumption
  DEF DurableInv, PersistedInv, DurableTypeOK, PageInv, AnyClientInv, TypeOK, Chunk

\* Every chunk in Mongo, and every one that waits for it, is of a document that is known under
\* the same owner in memory.
LEMMA ChunksAreOfKnown ==
  ASSUME DurableInv
  PROVE  /\ \A c \in mongo.chunks :
              /\ mongo.sources[c.source].status # "absent" /\ Known(c.source)
              /\ mongo.sources[c.source].version_id = sources[c.source].version_id
         /\ \A c \in rows : Known(c.source)
         /\ \A c \in Overwrite(mongo.chunks, rows) :
              /\ c \in Chunk /\ Known(c.source) /\ sources[c.source].version_id \in Versions
         /\ \A s \in Sources : Known(s) => sources[s].version_id \in Versions
<1>1. \A s \in Sources : Known(s) => sources[s].version_id \in Versions
  BY DEF DurableInv, PersistedInv, PageInv, AnyClientInv, TypeOK, References, Known
<1>2. \A c \in mongo.chunks :
        /\ mongo.sources[c.source].status # "absent" /\ Known(c.source)
        /\ mongo.sources[c.source].version_id = sources[c.source].version_id
  BY DurableShapes DEF DurableInv, PersistedInv, Loadable, MongoKeepsUp
<1>3. \A c \in rows : Known(c.source)
  BY DEF DurableInv, PersistedInv, ChunksFit
<1> QED
  BY <1>1, <1>2, <1>3, DurableShapes DEF Overwrite

\* Writing nothing over chunks keeps them.
LEMMA OverwriteNothing == \A set : Overwrite(set, {}) = set
  BY DEF Overwrite

\* Chunks of other versions, written or waiting, leave the published chunks of a version alone.
LEMMA OverwriteApart ==
  ASSUME NEW M \in SUBSET Chunk, NEW R \in SUBSET Chunk, NEW B \in SUBSET Chunk, NEW owner,
         NEW w, \A c \in B : owner[c.source].version_id # w
  PROVE  PublishedRows(Overwrite(M, Overwrite(R, B)), owner, w)
           = PublishedRows(Overwrite(M, R), owner, w)
<1>1. \A c, d : VectorOf(c) = VectorOf(d) => c.source = d.source
  BY DEF VectorOf
<1>2. ASSUME NEW c, owner[c.source].version_id = w
      PROVE  c \in Overwrite(R, B) <=> c \in R
  BY <1>1, <1>2 DEF Overwrite
<1>3. ASSUME NEW c \in M, owner[c.source].version_id = w
      PROVE  (\A d \in Overwrite(R, B) : VectorOf(c) # VectorOf(d))
               <=> \A d \in R : VectorOf(c) # VectorOf(d)
  <2>1. ASSUME NEW d, VectorOf(c) = VectorOf(d)
        PROVE  d \in Overwrite(R, B) <=> d \in R
    BY <1>1, <1>2, <1>3, <2>1
  <2> QED
    BY <2>1
<1>4. ASSUME NEW c, owner[c.source].version_id = w
      PROVE  c \in Overwrite(M, Overwrite(R, B)) <=> c \in Overwrite(M, R)
  <2>1. \A S : c \in Overwrite(M, S) <=>
               (c \in M /\ \A d \in S : VectorOf(c) # VectorOf(d)) \/ c \in S
    BY DEF Overwrite
  <2> QED
    BY <1>2, <1>3, <1>4, <2>1
<1> QED
  BY <1>4 DEF PublishedRows

\* Of a version with no published chunks yet, exactly those written now are.
LEMMA OverwriteOwn ==
  ASSUME NEW M \in SUBSET Chunk, NEW R \in SUBSET Chunk, NEW B \in SUBSET Chunk, NEW owner,
         NEW v, PublishedRows(M, owner, v) = {}, PublishedRows(R, owner, v) = {},
         \A c \in B : owner[c.source].version_id = v /\ c.publication_status = "published"
  PROVE  PublishedRows(Overwrite(M, Overwrite(R, B)), owner, v) = B
  BY DEF PublishedRows, Overwrite

-----------------------------------------------------------------------------
(* What the handlers record. *)

\* Memory moved on, and everything that matters to a restart is marked.
Recorded ==
  /\ UNCHANGED mongo /\ pending \subseteq pending'
  /\ \A p \in Policies :
       /\ policies'[p] = policies[p] \/ Marked("policies", p)'
       /\ policies'[p].status = "active" => policies'[p].active_version_id # None
  /\ \A v \in Versions :
       /\ \/ \A status \in Frozen : versions'[v].status = status <=> versions[v].status = status
          \/ Marked("policy_versions", v)'
       /\ versions[v].status \in Frozen => versions'[v].status \in Frozen
  /\ \A s \in Sources :
       IF Known(s) THEN Known(s)' /\ sources'[s].version_id = sources[s].version_id
       ELSE Known(s)' => Marked("source_documents", s)'

\* Recorded steps keep up the relation of Mongo to memory.
LEMMA RecordedKeepsUp == ASSUME DurableInv, Recorded PROVE MongoKeepsUp'
<1>1. \A collection, id : Marked(collection, id) => Marked(collection, id)'
  BY DEF Recorded, Marked
<1>2. \A p \in Policies : mongo'.policies[p] = policies'[p] \/ Marked("policies", p)'
  BY <1>1 DEF Recorded, DurableInv, PersistedInv, MongoKeepsUp
<1>3. \A v \in Versions :
        \/ \A status \in Frozen :
             mongo'.versions[v].status = status <=> versions'[v].status = status
        \/ Marked("policy_versions", v)'
  BY <1>1 DEF Recorded, DurableInv, PersistedInv, MongoKeepsUp
<1>4. \A v \in Versions : mongo'.versions[v].status \in Frozen => versions'[v].status \in Frozen
  BY DEF Recorded, DurableInv, PersistedInv, MongoKeepsUp
<1>5. ASSUME NEW s \in Sources
      PROVE  IF mongo'.sources[s].status = "absent"
             THEN Known(s)' => Marked("source_documents", s)'
             ELSE Known(s)' /\ sources'[s].version_id = mongo'.sources[s].version_id
  <2>1. mongo' = mongo
    BY DEF Recorded
  <2>2. CASE mongo.sources[s].status = "absent"
    BY <1>1, <2>1, <2>2 DEF Recorded, DurableInv, PersistedInv, MongoKeepsUp
  <2>3. CASE mongo.sources[s].status # "absent"
    BY <2>1, <2>3 DEF Recorded, DurableInv, PersistedInv, MongoKeepsUp
  <2> QED
    BY <2>2, <2>3
<1> QED
  BY <1>2, <1>3, <1>4, <1>5 DEF MongoKeepsUp

\* A recorded step leaves the owners of the chunks that Mongo has or waits for.
LEMMA RecordedOwners ==
  ASSUME DurableInv, Recorded,
         NEW set \in SUBSET Chunk, \A c \in set : Known(c.source), NEW v
  PROVE  PublishedRows(set, sources', v) = PublishedRows(set, sources, v)
<1>1. \A c \in set : sources'[c.source].version_id = sources[c.source].version_id
  BY DurableShapes DEF Recorded
<1> QED
  BY <1>1 DEF PublishedRows

\* A recorded step that marks no chunks, releases no version and drops no chunk of a released
\* one.
LEMMA RecordedContent ==
  ASSUME DurableInv, Recorded, rows' = rows,
         \A v \in Versions : chunks'[v] \subseteq chunks[v],
         \A v \in Versions : versions'[v].status \in Frozen =>
           versions[v].status \in Frozen /\ chunks'[v] = chunks[v],
         \A v \in Versions : versions'[v].status = "published" =>
           versions[v].status = "published" \/ Marked("policies", PolicyOf[v])'
  PROVE  ChunksFit' /\ PublishedIsKept'
<1>a. /\ mongo' = mongo
      /\ \A collection, id : Marked(collection, id) => Marked(collection, id)'
  BY DEF Recorded, Marked
<1>b. \A c \in rows : Known(c.source) /\ c.source \in Sources
  BY ChunksAreOfKnown, DurableShapes
<1>1. ChunksFit'
  <2>1. \A p \in Policies : policies'[p].status = "active" => policies'[p].active_version_id # None
    BY DEF Recorded
  <2>2. \A v \in Versions : \A c \in chunks'[v] :
          Known(c.source)' /\ sources'[c.source].version_id = v
    BY DurableShapes DEF Recorded, DurableInv, PersistedInv, ChunksFit
  <2>3. ASSUME NEW c \in rows'
        PROVE  /\ Known(c.source)'
               /\ c.publication_status = "published" =>
                    versions'[sources'[c.source].version_id].status \in Frozen
    <3>1. /\ Known(c.source)' /\ sources'[c.source].version_id = sources[c.source].version_id
          /\ sources[c.source].version_id \in Versions
      BY <1>b, ChunksAreOfKnown DEF Recorded
    <3> QED
      BY <3>1 DEF DurableInv, PersistedInv, ChunksFit, Recorded
  <2> QED
    BY <2>1, <2>2, <2>3 DEF ChunksFit
<1>2. \A v \in Versions : versions'[v].status \in Frozen => Published(v)' = Published(v)
  BY DEF Published
<1>3. ASSUME NEW v \in Versions
      PROVE  /\ PublishedRows(Overwrite(mongo.chunks, rows), sources', v)
                  = PublishedRows(Overwrite(mongo.chunks, rows), sources, v)
             /\ PublishedRows(mongo.chunks, sources', v) = PublishedRows(mongo.chunks, sources, v)
  <2>1. Overwrite(mongo.chunks, rows) \subseteq Chunk /\ mongo.chunks \subseteq Chunk
    BY ChunksAreOfKnown, DurableShapes
  <2> QED
    BY <2>1, ChunksAreOfKnown, RecordedOwners
<1>4. ASSUME NEW v \in Versions, versions'[v].status \in Frozen
      PROVE  PublishedRows(Overwrite(mongo'.chunks, rows'), sources', v) = Published(v)'
  BY <1>a, <1>2, <1>3, <1>4 DEF DurableInv, PersistedInv, PublishedIsKept
<1>5. ASSUME NEW v \in Versions, versions'[v].status = "published",
             ~Marked("policies", PolicyOf[v])'
      PROVE  PublishedRows(mongo'.chunks, sources', v) = Published(v)'
  <2>1. versions[v].status = "published" /\ ~Marked("policies", PolicyOf[v])
    BY <1>a, <1>5
  <2> QED
    BY <1>a, <1>2, <1>3, <1>5, <2>1 DEF DurableInv, PersistedInv, PublishedIsKept, Frozen
<1> QED
  BY <1>1, <1>4, <1>5 DEF PublishedIsKept
\* The marks of the handlers are marks of records; those that matter are among them.
LEMMA HandlerMarks ==
  ASSUME DurableInv
  PROVE  /\ \A s \in Sources, v \in Versions, units \in SUBSET Units, dated \in BOOLEAN :
              /\ ProcessMarks(s, v, units, dated) \in Marks
              /\ IngestMarks(s, v, units, dated) \in Marks
              /\ Key("source_documents", s) \in MadeIn(IngestMarks(s, v, units, dated))
         /\ \A v \in Versions, copies \in SUBSET Sources :
              /\ CloneMarks(v, copies) \in Marks
              /\ \A s \in copies : Key("source_documents", s) \in MadeIn(CloneMarks(v, copies))
         /\ \A s \in Sources : sources[s].version_id \in Versions =>
              ReviewMarks(s) \in Marks /\ PdfMarks(s) \in Marks
<1>1. ASSUME NEW s \in Sources, NEW v \in Versions, NEW units \in SUBSET Units,
             NEW dated \in BOOLEAN
      PROVE  /\ ProcessMarks(s, v, units, dated) \in Marks
             /\ IngestMarks(s, v, units, dated) \in Marks
             /\ Key("source_documents", s) \in MadeIn(IngestMarks(s, v, units, dated))
  <2>1. (IF dated THEN {v} ELSE {}) \in SUBSET Versions
    OBVIOUS
  <2>2. ProcessMarks(s, v, units, dated) \in Marks
    BY <2>1, MarksOfCollections, MarksFollow DEF ProcessMarks
  <2>3. /\ One("source_documents", s) \in Marks /\ One("ingestion_jobs", s) \in Marks
        /\ MadeIn(One("source_documents", s)) = {Key("source_documents", s)}
    BY MarksOfCollections
  <2>4. /\ One("source_documents", s) \o One("ingestion_jobs", s) \in Marks
        /\ Key("source_documents", s)
             \in MadeIn(One("source_documents", s) \o One("ingestion_jobs", s))
    BY <2>3, MarksFollow
  <2> QED
    BY <2>2, <2>4, MarksFollow DEF IngestMarks
<1>2. ASSUME NEW v \in Versions, NEW copies \in SUBSET Sources
      PROVE  /\ CloneMarks(v, copies) \in Marks
             /\ \A s \in copies : Key("source_documents", s) \in MadeIn(CloneMarks(v, copies))
  <2> DEFINE a == Several("source_documents", copies)
             b == Several("canonical_sops", copies)
             c == Several("ingestion_jobs", copies)
             d == One("policy_versions", v)
  <2>1. /\ a \in Marks /\ b \in Marks /\ c \in Marks /\ d \in Marks
        /\ MadeIn(a) = {Key("source_documents", s) : s \in copies}
    BY MarksOfCollections
  <2> HIDE DEF a, b, c, d
  <2>2. a \o b \in Marks /\ MadeIn(a \o b) = MadeIn(a) \union MadeIn(b)
    BY <2>1, MarksFollow
  <2>3. a \o b \o c \in Marks /\ MadeIn(a \o b \o c) = MadeIn(a \o b) \union MadeIn(c)
    BY <2>1, <2>2, MarksFollow
  <2>4. /\ a \o b \o c \o d \in Marks
        /\ MadeIn(a \o b \o c \o d) = MadeIn(a \o b \o c) \union MadeIn(d)
    BY <2>1, <2>3, MarksFollow
  <2>5. CloneMarks(v, copies) = a \o b \o c \o d
    BY DEF CloneMarks, a, b, c, d
  <2> QED
    BY <2>1, <2>2, <2>3, <2>4, <2>5
<1>3. ASSUME NEW s \in Sources, sources[s].version_id \in Versions
      PROVE  ReviewMarks(s) \in Marks /\ PdfMarks(s) \in Marks
  <2>1. (IF Extracted(s) /\ canonicals[s].approved THEN {s} ELSE {}) \in SUBSET Sources
    OBVIOUS
  <2>2. ReviewMarks(s) \in Marks
    BY <1>3, MarksOfCollections, MarksFollow DEF ReviewMarks
  <2>3. PdfMarks(s) \in Marks
    BY <1>3, <2>1, MarksOfCollections, MarksFollow DEF PdfMarks
  <2> QED
    BY <2>2, <2>3
<1> QED
  BY <1>1, <1>2, <1>3

\* The marks of publishing and rolling back name the versions and the policy that they change.
LEMMA ReleaseMarks ==
  ASSUME DurableInv, NEW v \in Versions
  PROVE  /\ RollbackMarks(v) \in Marks /\ PublishMarks(v) \in Marks
         /\ {Key("policy_versions", v), Key("policies", PolicyOf[v])} \subseteq
              MadeIn(RollbackMarks(v)) \intersect MadeIn(PublishMarks(v))
         /\ ChunkKey \in MadeIn(PublishMarks(v))
         /\ \A w \in Versions : w = policies[PolicyOf[v]].active_version_id =>
              Key("policy_versions", w)
                \in MadeIn(RollbackMarks(v)) \intersect MadeIn(PublishMarks(v))
<1> DEFINE a == PreviousMarks(PolicyOf[v])
           b == <<{ChunkKey}>>
           c == One("policy_versions", v)
           d == One("policies", PolicyOf[v])
<1>1. ({policies[PolicyOf[v]].active_version_id} \ {None}) \in SUBSET Versions
  BY DurableShapes DEF Policy
<1>2. /\ a \in Marks /\ b \in Marks /\ c \in Marks /\ d \in Marks
      /\ MadeIn(a) = {Key("policy_versions", w) :
                        w \in {policies[PolicyOf[v]].active_version_id} \ {None}}
      /\ MadeIn(b) = {ChunkKey} /\ MadeIn(c) = {Key("policy_versions", v)}
      /\ MadeIn(d) = {Key("policies", PolicyOf[v])}
  BY <1>1, MarksOfCollections, DurableShapes DEF PreviousMarks
<1>3. /\ PublishMarks(v) = a \o b \o c \o d
      /\ RollbackMarks(v) = a \o c \o d
  BY DEF PublishMarks, RollbackMarks
<1> HIDE DEF a, b, c, d
<1>4. /\ a \o b \in Marks /\ MadeIn(a \o b) = MadeIn(a) \union MadeIn(b)
      /\ a \o c \in Marks /\ MadeIn(a \o c) = MadeIn(a) \union MadeIn(c)
  BY <1>2, MarksFollow
<1>5. /\ a \o b \o c \in Marks /\ MadeIn(a \o b \o c) = MadeIn(a \o b) \union MadeIn(c)
      /\ a \o c \o d \in Marks /\ MadeIn(a \o c \o d) = MadeIn(a \o c) \union MadeIn(d)
  BY <1>2, <1>4, MarksFollow
<1>6. a \o b \o c \o d \in Marks /\ MadeIn(a \o b \o c \o d) = MadeIn(a \o b \o c) \union MadeIn(d)
  BY <1>2, <1>5, MarksFollow
<1> QED
  BY <1>2, <1>3, <1>4, <1>5, <1>6, NoneAssumption

\* Recording marks keeps the shapes.
LEMMA MarkShapes ==
  ASSUME DurableInv, NEW marks \in Marks, NEW chunkRows \in SUBSET Chunk,
         Mark(marks, chunkRows), reply' \in BOOLEAN,
         chunkRows # {} => ChunkKey \in MadeIn(marks)
  PROVE  /\ DurableTypeOK' /\ mongo' = mongo
         /\ pending' = pending \union MadeIn(marks)
         /\ \A collection, id : Marked(collection, id)' <=>
              Marked(collection, id) \/ Key(collection, id) \in MadeIn(marks)
<1>1. DurableTypeOK
  BY DEF DurableInv, PersistedInv
<1>2. /\ pending' = pending \union MadeIn(marks)
      /\ pending' \subseteq Keys
      /\ order' \subseteq pending' \X pending'
      /\ \A k, l \in pending' : <<k, l>> \in order' => <<l, k>> \notin order'
  BY <1>1, MarkingKeeps DEF Mark
<1>3. rows' \subseteq Chunk /\ (rows' # {} => ChunkKey \in pending')
  BY <1>1, <1>2 DEF Mark, DurableTypeOK, Overwrite
<1>4. UNCHANGED <<mongo, lost, restarts, flushFailures>>
  BY DEF Mark
<1>5. DurableTypeOK'
  BY <1>1, <1>2, <1>3, <1>4 DEF DurableTypeOK
<1> QED
  BY <1>2, <1>4, <1>5 DEF Marked
-----------------------------------------------------------------------------
(* The handlers keep the persisted part of the invariant. *)

\* A step that keeps Mongo keeps it loadable.
LEMMA MongoKept == ASSUME DurableInv, mongo' = mongo PROVE Loadable(mongo)'
  BY DEF DurableInv, PersistedInv, Loadable, PublishedRows

\* An edit marks the documents it creates and the policy it creates, and drops the chunks of
\* the edited version at most.
LEMMA EditPersists ==
  ASSUME DurableInv, NEW v \in Versions, Edits(v),
         NEW marks \in Marks, Mark(marks, {}), reply' \in BOOLEAN,
         \A p \in Policies :
           \/ policies'[p] = policies[p]
           \/ policies'[p].status # "active" /\ Key("policies", p) \in MadeIn(marks),
         \A s \in Sources : Known(s)' => Known(s) \/ Key("source_documents", s) \in MadeIn(marks),
         \A w \in Versions : chunks'[w] = chunks[w] \/ (w = v /\ chunks'[w] = {})
  PROVE  PersistedInv'
<1>1. /\ DurableTypeOK' /\ mongo' = mongo
      /\ pending' = pending \union MadeIn(marks)
      /\ \A collection, id : Marked(collection, id)' <=>
           Marked(collection, id) \/ Key(collection, id) \in MadeIn(marks)
  BY MarkShapes
<1>2. rows' = rows
  BY OverwriteNothing DEF Mark
<1>3. \A w \in Versions :
        \/ w # v /\ versions'[w] = versions[w]
        \/ w = v /\ versions[w].status \notin Frozen /\ versions'[w].status \notin Frozen
  BY DEF Edits, Frozen
<1>4. Recorded
  <2>1. \A p \in Policies :
          /\ policies'[p] = policies[p] \/ Marked("policies", p)'
          /\ policies'[p].status = "active" => policies'[p].active_version_id # None
    BY <1>1 DEF DurableInv, PersistedInv, ChunksFit
  <2>2. \A s \in Sources :
          IF Known(s) THEN Known(s)' /\ sources'[s].version_id = sources[s].version_id
          ELSE Known(s)' => Marked("source_documents", s)'
    BY <1>1 DEF Edits, Known
  <2> QED
    BY <1>1, <1>3, <2>1, <2>2 DEF Recorded
<1>5. ChunksFit' /\ PublishedIsKept'
  BY <1>2, <1>3, <1>4, RecordedContent DEF Frozen
<1> QED
  BY <1>1, <1>4, <1>5, RecordedKeepsUp, MongoKept DEF PersistedInv

\* Drafting a version and setting its access.
LEMMA DraftingPersists == ASSUME DurableInv, Drafting PROVE PersistedInv'
<1>a. TypeOK /\ DocumentsAreOwned
  BY DEF DurableInv, PageInv, AnyClientInv
<1>b. chunks \in [Versions -> SUBSET Chunk]
  BY DurableShapes
<1>1. ASSUME NEW p \in Policies, NEW v \in Versions, NEW scope \in Scopes,
             CreatePolicy(p, v, scope),
             FlushDue(One("policies", p) \o One("policy_versions", v), {})
      PROVE  PersistedInv'
  <2> DEFINE marks == One("policies", p) \o One("policy_versions", v)
  <2>1. marks \in Marks /\ Key("policies", p) \in MadeIn(marks)
    BY MarksOfCollections, MarksFollow
  <2>2. /\ \A q \in Policies : q # p => policies'[q] = policies[q]
        /\ policies'[p].status = "draft"
    BY <1>1, DurableShapes DEF CreatePolicy, Policy
  <2>3. Edits(v) /\ UNCHANGED <<sources, chunks>>
    BY <1>1, <1>a, EditingEffect DEF CreatePolicy
  <2> HIDE DEF marks
  <2>4. Mark(marks, {}) /\ reply' = TRUE
    BY <1>1 DEF FlushDue, marks
  <2>5. \A q \in Policies :
          \/ policies'[q] = policies[q]
          \/ policies'[q].status # "active" /\ Key("policies", q) \in MadeIn(marks)
    BY <2>1, <2>2
  <2>6. \A s \in Sources : Known(s)' => Known(s)
    BY <2>3 DEF Known
  <2> QED
    BY <2>1, <2>3, <2>4, <2>5, <2>6, EditPersists
<1>2. ASSUME NEW p \in Policies, NEW v \in Versions, NEW scope \in Scopes,
             NEW clone \in [Sources -> Sources],
             CreateCorrectedAccessVersion(p, v, scope, clone),
             FlushDue(CloneMarks(v, versions'[v].source_document_ids), {})
      PROVE  PersistedInv'
  <2> DEFINE originals == versions[policies[p].active_version_id].source_document_ids
             copies == {clone[s] : s \in originals}
             marks == CloneMarks(v, copies)
  <2>1. originals \subseteq Sources
    BY <1>2, DurableShapes DEF CreateCorrectedAccessVersion, Policy, Version
  <2>2. copies \in SUBSET Sources
    BY <2>1
  <2>3. versions'[v].source_document_ids = copies
    BY <1>2, DurableShapes DEF CreateCorrectedAccessVersion, NewVersion
  <2>4. \A n \in Sources \ copies : sources'[n] = sources[n]
    BY <1>2 DEF CreateCorrectedAccessVersion
  <2>5. Edits(v) /\ UNCHANGED <<policies, chunks>>
    BY <1>2, <1>a, EditingEffect DEF CreateCorrectedAccessVersion
  <2> HIDE DEF originals, copies
  <2>6. /\ marks \in Marks
        /\ \A s \in copies : Key("source_documents", s) \in MadeIn(marks)
    BY <2>2, HandlerMarks
  <2>7. Mark(marks, {}) /\ reply' = TRUE
    BY <1>2, <2>3 DEF FlushDue
  <2>8. \A s \in Sources : Known(s)' => Known(s) \/ Key("source_documents", s) \in MadeIn(marks)
    BY <2>4, <2>6 DEF Known
  <2> HIDE DEF marks
  <2> QED
    BY <2>5, <2>6, <2>7, <2>8, EditPersists
<1>3. ASSUME NEW v \in Versions, NEW scope \in Scopes,
             SetAccess(v, scope), FlushDue(One("policy_versions", v), {})
      PROVE  PersistedInv'
  <2>1. Edits(v) /\ UNCHANGED <<policies, sources>>
    BY <1>3, <1>a, EditingEffect DEF SetAccess
  <2>2. \A w \in Versions : chunks'[w] = chunks[w] \/ (w = v /\ chunks'[w] = {})
    BY <1>3, <1>b DEF SetAccess
  <2>3. One("policy_versions", v) \in Marks
    BY MarksOfCollections
  <2>4. Mark(One("policy_versions", v), {}) /\ reply' = TRUE
    BY <1>3 DEF FlushDue
  <2> QED
    BY <2>1, <2>2, <2>3, <2>4, EditPersists DEF Known
<1> QED
  BY <1>1, <1>2, <1>3 DEF Drafting
\* Uploading, importing, retrying, reviewing and approving documents.
LEMMA SourcingPersists == ASSUME DurableInv, Sourcing PROVE PersistedInv'
<1>a. TypeOK /\ DocumentsAreOwned /\ reply \in BOOLEAN
  BY DEF DurableInv, PageInv, AnyClientInv, PersistedInv, DurableTypeOK
<1>b. /\ chunks \in [Versions -> SUBSET Chunk] /\ sources \in [Sources -> Source]
      /\ \A s \in Sources : Known(s) => sources[s].version_id \in Versions
  BY DurableShapes, ChunksAreOfKnown
<1>1. ASSUME NEW v \in Versions, Edits(v), UNCHANGED policies,
             NEW marks \in Marks, Mark(marks, {}), reply' \in BOOLEAN,
             \A s \in Sources :
               Known(s)' => Known(s) \/ Key("source_documents", s) \in MadeIn(marks),
             UNCHANGED chunks \/ chunks' = [chunks EXCEPT ![v] = {}]
      PROVE  PersistedInv'
  <2>1. \A w \in Versions : chunks'[w] = chunks[w] \/ (w = v /\ chunks'[w] = {})
    BY <1>1, <1>b
  <2> QED
    BY <1>1, <2>1, EditPersists
<1>2. ASSUME NEW v \in Versions, NEW s \in Sources, NEW units \in SUBSET Units,
             NEW markdown \in BOOLEAN, NEW dated \in BOOLEAN,
             Ingest(v, s, units, markdown), Edits(v), UNCHANGED <<policies, chunks>>,
             Mark(IngestMarks(s, v, units, dated), {}), reply' \in BOOLEAN
      PROVE  PersistedInv'
  <2>1. \A r \in Sources : r # s => sources'[r] = sources[r]
    BY <1>2 DEF Ingest, Process
  <2>2. /\ IngestMarks(s, v, units, dated) \in Marks
        /\ Key("source_documents", s) \in MadeIn(IngestMarks(s, v, units, dated))
    BY HandlerMarks
  <2>3. \A r \in Sources : Known(r)' =>
          Known(r) \/ Key("source_documents", r) \in MadeIn(IngestMarks(s, v, units, dated))
    BY <2>1, <2>2 DEF Known
  <2> QED
    BY <1>1, <1>2, <2>2, <2>3
<1>3. ASSUME NEW v \in Versions, NEW s \in Sources, NEW units \in SUBSET Units,
             NEW markdown \in BOOLEAN, NEW dated \in BOOLEAN,
             UploadSource(v, s, units, markdown), FlushDue(IngestMarks(s, v, units, dated), {})
      PROVE  PersistedInv'
  <2>1. Edits(v) /\ Ingest(v, s, units, markdown) /\ UNCHANGED <<policies, chunks>>
    BY <1>3, <1>a, EditingEffect DEF UploadSource
  <2> QED
    BY <1>2, <1>3, <2>1 DEF FlushDue
<1>4. ASSUME NEW v \in Versions, NEW s \in Sources, NEW units \in SUBSET Units,
             NEW dated \in BOOLEAN,
             ImportUnattached(v, s, units), Failed(IngestMarks(s, v, units, dated))
      PROVE  PersistedInv'
  <2>1. Edits(v) /\ UNCHANGED <<policies, chunks>>
    BY <1>4, <1>a, EditingEffect DEF ImportUnattached
  <2>2. PICK markdown \in BOOLEAN : Ingest(v, s, units, markdown)
    BY <1>4 DEF ImportUnattached
  <2>3. Mark(IngestMarks(s, v, units, dated), {}) /\ reply' \in BOOLEAN
    BY <1>4, <1>a DEF Failed
  <2> QED
    BY <1>2, <2>1, <2>2, <2>3
<1>5. ASSUME NEW s \in Sources, NEW units \in SUBSET Units, NEW dated \in BOOLEAN,
             RetrySource(s, units),
             FlushDue(ProcessMarks(s, sources[s].version_id, units, dated), {})
      PROVE  PersistedInv'
  <2> DEFINE v == sources[s].version_id
  <2>1. Edits(v) /\ UNCHANGED <<policies, chunks>> /\ Known(s)
    BY <1>5, <1>a, EditingEffect DEF RetrySource, Known
  <2>2. v \in Versions
    BY <1>b, <2>1
  <2>3. ProcessMarks(s, v, units, dated) \in Marks
    BY <2>2, HandlerMarks
  <2>4. \A r \in Sources : Known(r)' => Known(r)
    BY <1>5, <2>1 DEF RetrySource, Process, Known
  <2>5. Mark(ProcessMarks(s, v, units, dated), {}) /\ reply' = TRUE
    BY <1>5 DEF FlushDue
  <2> QED
    BY <1>1, <2>1, <2>2, <2>3, <2>4, <2>5
<1>6. ASSUME NEW s \in Sources, NEW units \in (SUBSET Units) \ {{}}, NEW scope \in Scopes,
             UpdateReview(s, units, scope), FlushDue(ReviewMarks(s), {})
      PROVE  PersistedInv'
  <2> DEFINE v == sources[s].version_id
  <2>1. Edits(v) /\ UNCHANGED policies /\ Known(s)
    BY <1>6, <1>a, EditingEffect DEF UpdateReview, Known
  <2>2. v \in Versions /\ ReviewMarks(s) \in Marks
    BY <1>b, <2>1, HandlerMarks
  <2>3. /\ \A r \in Sources : Known(r)' => Known(r)
        /\ chunks' = [chunks EXCEPT ![v] = {}]
    BY <1>6, <1>b, <2>1 DEF UpdateReview, InvalidateAfterReview, Known
  <2>4. Mark(ReviewMarks(s), {}) /\ reply' = TRUE
    BY <1>6 DEF FlushDue
  <2> QED
    BY <1>1, <2>1, <2>2, <2>3, <2>4
<1>7. ASSUME NEW s \in Sources, AttachOriginalPdf(s), FlushDue(PdfMarks(s), {})
      PROVE  PersistedInv'
  <2> DEFINE v == sources[s].version_id
  <2>1. Edits(v) /\ UNCHANGED policies /\ Known(s)
    BY <1>7, <1>a, EditingEffect DEF AttachOriginalPdf, Known
  <2>2. v \in Versions /\ PdfMarks(s) \in Marks
    BY <1>b, <2>1, HandlerMarks
  <2>3. /\ \A r \in Sources : Known(r)' => Known(r)
        /\ chunks' = [chunks EXCEPT ![v] = {}]
    BY <1>7, <1>b, <2>1 DEF AttachOriginalPdf, InvalidateAfterReview, Known
  <2>4. Mark(PdfMarks(s), {}) /\ reply' = TRUE
    BY <1>7 DEF FlushDue
  <2> QED
    BY <1>1, <2>1, <2>2, <2>3, <2>4
<1>8. ASSUME NEW s \in Sources, ApproveStructure(s),
             FlushDue(One("policy_versions", sources[s].version_id), {})
      PROVE  PersistedInv'
  <2> DEFINE v == sources[s].version_id
  <2>1. Edits(v) /\ UNCHANGED <<policies, chunks>> /\ Known(s)
    BY <1>8, <1>a, EditingEffect DEF ApproveStructure, Known
  <2>2. v \in Versions /\ One("policy_versions", v) \in Marks
    BY <1>b, <2>1, MarksOfCollections
  <2>3. \A r \in Sources : Known(r)' => Known(r)
    BY <1>8, <1>b, <2>1 DEF ApproveStructure, Known
  <2>4. Mark(One("policy_versions", v), {}) /\ reply' = TRUE
    BY <1>8 DEF FlushDue
  <2> QED
    BY <1>1, <2>1, <2>2, <2>3, <2>4
<1> QED
  BY <1>3, <1>4, <1>5, <1>6, <1>7, <1>8 DEF Sourcing
\* A step that neither writes documents or chunks nor releases or withdraws a version.
LEMMA StatusPersists ==
  ASSUME DurableInv, DurableTypeOK', UNCHANGED <<mongo, rows, sources, chunks>>,
         pending \subseteq pending',
         \A p \in Policies :
           \/ policies'[p] = policies[p]
           \/ policies'[p].status # "active" /\ Marked("policies", p)',
         \A v \in Versions :
           \/ versions'[v].status = versions[v].status
           \/ versions[v].status \notin Frozen /\ versions'[v].status \notin Frozen
  PROVE  PersistedInv'
<1>1. \A p \in Policies : policies'[p].status = "active" => policies'[p].active_version_id # None
  BY DEF DurableInv, PersistedInv, ChunksFit
<1>2. Recorded
  BY <1>1 DEF Recorded, Known
<1>3. ChunksFit' /\ PublishedIsKept'
  BY <1>2, RecordedContent DEF Frozen
<1> QED
  BY <1>2, <1>3, RecordedKeepsUp, MongoKept DEF PersistedInv

\* Moving the active version: it, the one before and the policy are marked.
LEMMA ActivationRecorded ==
  ASSUME DurableInv, NEW v \in Versions, Activated(PolicyOf[v], v),
         UNCHANGED <<mongo, sources>>, pending \subseteq pending',
         Marked("policy_versions", v)', Marked("policies", PolicyOf[v])',
         \A w \in Versions : w = policies[PolicyOf[v]].active_version_id =>
           Marked("policy_versions", w)'
  PROVE  /\ Recorded
         /\ versions'[v].status = "published"
         /\ \A w \in Versions \ {v} :
              \/ versions'[w].status = versions[w].status
              \/ versions[w].status = "published" /\ versions'[w].status = "superseded"
<1>a. /\ policies \in [Policies -> Policy] /\ versions \in [Versions -> Version]
      /\ PolicyOf[v] \in Policies
      /\ \A w \in Versions : versions[w] \in Version
  BY DurableShapes
<1> DEFINE previous == policies[PolicyOf[v]].active_version_id
<1>1. /\ versions'[v].status = "published"
      /\ \A w \in Versions \ {v} :
           versions'[w].status = IF w = previous THEN "superseded" ELSE versions[w].status
  BY <1>a DEF Activated, Version
<1>2. /\ policies'[PolicyOf[v]] = [status |-> "active", active_version_id |-> v]
      /\ \A q \in Policies : q # PolicyOf[v] => policies'[q] = policies[q]
  BY <1>a DEF Activated
<1>3. \A w \in Versions : w = previous => versions[w].status = "published"
  BY <1>a, NoneAssumption DEF DurableInv, PageInv, ActiveVersionIsPublished
<1> HIDE DEF previous
<1>4. \A p \in Policies :
        /\ policies'[p] = policies[p] \/ Marked("policies", p)'
        /\ policies'[p].status = "active" => policies'[p].active_version_id # None
  BY <1>2, NoneAssumption DEF DurableInv, PersistedInv, ChunksFit
<1>5. \A w \in Versions :
        /\ \/ \A status \in Frozen : versions'[w].status = status <=> versions[w].status = status
           \/ Marked("policy_versions", w)'
        /\ versions[w].status \in Frozen => versions'[w].status \in Frozen
  BY <1>1 DEF Frozen, previous
<1>6. Recorded
  BY <1>4, <1>5 DEF Recorded, Known
<1> QED
  BY <1>1, <1>3, <1>6

\* Staged chunks of a version that is not released are recorded.
LEMMA PreparePersists ==
  ASSUME DurableInv, PrepareSucceeds,
         FlushDue(<<{ChunkKey}>> \o One("policy_versions", call.version), call.batch)
  PROVE  PersistedInv'
<1>1. PICK v \in Versions :
        /\ v = call.version /\ versions[v].status = "indexing"
        /\ call.batch = ChunksOf(Documents(v), "staged")
        /\ call.batch \in SUBSET Chunk
  BY DEF PrepareSucceeds, DurableInv, PageInv, AnyClientInv, TypeOK, References, Idle,
         IndexedContentIsCurrent, Call
<1> DEFINE marks == <<{ChunkKey}>> \o One("policy_versions", v)
<1>2. /\ \A c \in call.batch :
           /\ c \in Chunk /\ c.publication_status = "staged"
           /\ Known(c.source) /\ sources[c.source].version_id = v
  BY <1>1 DEF ChunksOf, Documents, DurableInv, PageInv, AnyClientInv, DocumentsAreOwned, Known
<1>3. marks \in Marks /\ ChunkKey \in MadeIn(marks)
  <2>1. /\ <<{ChunkKey}>> \in Marks /\ MadeIn(<<{ChunkKey}>>) = {ChunkKey}
        /\ One("policy_versions", v) \in Marks
    BY <1>1, MarksOfCollections
  <2> QED
    BY <2>1, MarksFollow
<1>4. Mark(marks, call.batch) /\ reply' = TRUE
  BY <1>1 DEF FlushDue
<1> HIDE DEF marks
<1>5. /\ DurableTypeOK' /\ mongo' = mongo
      /\ pending' = pending \union MadeIn(marks)
      /\ \A collection, id : Marked(collection, id)' <=>
           Marked(collection, id) \/ Key(collection, id) \in MadeIn(marks)
  BY <1>1, <1>3, <1>4, MarkShapes
<1>6. /\ UNCHANGED <<policies, sources>> /\ chunks' = [chunks EXCEPT ![v] = call.batch]
      /\ versions'[v].status = "ready_to_publish"
      /\ \A w \in Versions : w # v => versions'[w] = versions[w] /\ chunks'[w] = chunks[w]
      /\ chunks'[v] = call.batch
  BY <1>1, DurableShapes DEF PrepareSucceeds, Version
<1>7. \A w \in Versions :
        \/ w # v /\ versions'[w] = versions[w] /\ chunks'[w] = chunks[w]
        \/ w = v /\ versions[w].status \notin Frozen /\ versions'[w].status \notin Frozen
  BY <1>1, <1>6 DEF Frozen
<1>8. Recorded
  BY <1>5, <1>6, <1>7 DEF Recorded, Known, DurableInv, PersistedInv, ChunksFit
<1>9. rows' = Overwrite(rows, call.batch)
  BY <1>4 DEF Mark
<1>10. ChunksFit'
  <2>1. \A w \in Versions : \A c \in chunks'[w] :
          Known(c.source)' /\ sources'[c.source].version_id = w
    <3>1. \A c \in chunks'[v] : Known(c.source) /\ sources[c.source].version_id = v
      BY <1>2, <1>6
    <3>2. \A w \in Versions : w # v =>
            \A c \in chunks'[w] : Known(c.source) /\ sources[c.source].version_id = w
      BY <1>6 DEF DurableInv, PersistedInv, ChunksFit
    <3> QED
      BY <3>1, <3>2, <1>6 DEF Known
  <2>2. ASSUME NEW c \in rows'
        PROVE  /\ Known(c.source)'
               /\ c.publication_status = "published" =>
                    versions'[sources'[c.source].version_id].status \in Frozen
    <3>1. CASE c \in call.batch
      BY <1>2, <1>6, <3>1 DEF Known
    <3>2. CASE c \in rows
      <4>1. Known(c.source) /\ sources[c.source].version_id \in Versions
        BY <3>2, ChunksAreOfKnown, DurableShapes
      <4> QED
        BY <1>6, <1>7, <3>2, <4>1 DEF Known, DurableInv, PersistedInv, ChunksFit
    <3> QED
      BY <1>9, <3>1, <3>2 DEF Overwrite
  <2> QED
    BY <1>6, <2>1, <2>2 DEF ChunksFit, DurableInv, PersistedInv
<1>11. PublishedIsKept'
  <2>1. ASSUME NEW w \in Versions, versions'[w].status \in Frozen
        PROVE  /\ w # v /\ versions[w].status = versions'[w].status /\ Published(w)' = Published(w)
               /\ PublishedRows(Overwrite(mongo'.chunks, rows'), sources', w)
                    = PublishedRows(Overwrite(mongo.chunks, rows), sources, w)
    <3>1. w # v /\ versions'[w] = versions[w] /\ chunks'[w] = chunks[w]
      BY <1>7, <2>1
    <3>2. /\ mongo.chunks \in SUBSET Chunk /\ rows \in SUBSET Chunk
          /\ call.batch \in SUBSET Chunk
          /\ \A c \in call.batch : sources[c.source].version_id # w
      BY <1>1, <1>2, <3>1, DurableShapes
    <3>3. PublishedRows(Overwrite(mongo.chunks, Overwrite(rows, call.batch)), sources, w)
            = PublishedRows(Overwrite(mongo.chunks, rows), sources, w)
      BY <3>2, OverwriteApart
    <3> QED
      BY <1>5, <1>6, <1>9, <3>1, <3>3 DEF Published
  <2>2. \A w \in Versions : Marked("policies", PolicyOf[w]) => Marked("policies", PolicyOf[w])'
    BY <1>5
  <2> QED
    BY <1>5, <1>6, <2>1, <2>2 DEF PublishedIsKept, DurableInv, PersistedInv, Frozen
<1> QED
  BY <1>5, <1>8, <1>10, <1>11, RecordedKeepsUp, MongoKept DEF PersistedInv
\* Published chunks are recorded with the version and the policy that release them.
LEMMA PublishPersists ==
  ASSUME DurableInv, PublishSucceeds,
         FlushDue(PublishMarks(call.version), chunks'[call.version])
  PROVE  PersistedInv'
<1>1. PICK v \in Versions : v = call.version /\ versions[v].status = "ready_to_publish"
  BY DEF PublishSucceeds, DurableInv, PageInv, AnyClientInv, TypeOK, References, Idle,
         IndexedContentIsCurrent, Call
<1> DEFINE new == chunks'[v]
           marks == PublishMarks(v)
<1>2. /\ Activated(PolicyOf[v], v) /\ UNCHANGED sources
      /\ new = {[c EXCEPT !.publication_status = "published"] : c \in chunks[v]}
      /\ \A w \in Versions : w # v => chunks'[w] = chunks[w]
  <2>1. /\ Activated(PolicyOf[v], v) /\ UNCHANGED sources
        /\ chunks' = [chunks EXCEPT ![v] =
             {[c EXCEPT !.publication_status = "published"] : c \in chunks[v]}]
    BY <1>1 DEF PublishSucceeds, MarkChunksPublished
  <2> QED
    BY <1>1, <2>1, DurableShapes
<1>3. /\ new \in SUBSET Chunk
      /\ \A c \in new :
           /\ c.publication_status = "published"
           /\ Known(c.source) /\ sources[c.source].version_id = v
  <2>1. \A c \in chunks[v] : c \in Chunk /\ Known(c.source) /\ sources[c.source].version_id = v
    BY <1>1, DurableShapes DEF DurableInv, PersistedInv, ChunksFit
  <2>2. ASSUME NEW d \in new
        PROVE  /\ d \in Chunk /\ d.publication_status = "published"
               /\ Known(d.source) /\ sources[d.source].version_id = v
    <3>1. PICK c \in chunks[v] : d = [c EXCEPT !.publication_status = "published"]
      BY <1>2, <2>2
    <3>2. d.source = c.source /\ d \in Chunk /\ d.publication_status = "published"
      BY <2>1, <3>1 DEF Chunk
    <3> QED
      BY <2>1, <3>1, <3>2
  <2> QED
    BY <2>2
<1>4. /\ marks \in Marks /\ ChunkKey \in MadeIn(marks)
      /\ Key("policy_versions", v) \in MadeIn(marks)
      /\ Key("policies", PolicyOf[v]) \in MadeIn(marks)
      /\ \A w \in Versions : w = policies[PolicyOf[v]].active_version_id =>
           Key("policy_versions", w) \in MadeIn(marks)
  BY <1>1, ReleaseMarks
<1>5. Mark(marks, new) /\ reply' = TRUE
  BY <1>1 DEF FlushDue
<1> HIDE DEF marks, new
<1>6. /\ DurableTypeOK' /\ mongo' = mongo
      /\ pending' = pending \union MadeIn(marks)
      /\ \A collection, id : Marked(collection, id)' <=>
           Marked(collection, id) \/ Key(collection, id) \in MadeIn(marks)
  BY <1>3, <1>4, <1>5, MarkShapes
<1>7. /\ Recorded
      /\ versions'[v].status = "published"
      /\ \A w \in Versions \ {v} :
           \/ versions'[w].status = versions[w].status
           \/ versions[w].status = "published" /\ versions'[w].status = "superseded"
  BY <1>1, <1>2, <1>4, <1>6, ActivationRecorded
<1>8. rows' = Overwrite(rows, new) /\ chunks'[v] = new
  BY <1>5 DEF Mark, new
<1>9. ChunksFit'
  <2>1. \A w \in Versions : \A c \in chunks'[w] :
          Known(c.source)' /\ sources'[c.source].version_id = w
    <3>1. \A w \in Versions : w # v =>
            \A c \in chunks'[w] : Known(c.source) /\ sources[c.source].version_id = w
      BY <1>2 DEF DurableInv, PersistedInv, ChunksFit
    <3> QED
      BY <1>2, <1>3, <1>8, <3>1 DEF Known
  <2>2. ASSUME NEW c \in rows'
        PROVE  /\ Known(c.source)'
               /\ c.publication_status = "published" =>
                    versions'[sources'[c.source].version_id].status \in Frozen
    <3>1. CASE c \in new
      BY <1>2, <1>3, <1>7, <3>1 DEF Known, Frozen
    <3>2. CASE c \in rows
      <4>1. Known(c.source) /\ sources[c.source].version_id \in Versions
        BY <3>2, ChunksAreOfKnown, DurableShapes
      <4> QED
        BY <1>2, <1>7, <3>2, <4>1 DEF Known, Recorded, DurableInv, PersistedInv, ChunksFit
    <3> QED
      BY <1>8, <3>1, <3>2 DEF Overwrite
  <2> QED
    BY <1>7, <2>1, <2>2 DEF ChunksFit, Recorded
<1>10. PublishedRows(Overwrite(mongo.chunks, rows'), sources, v) = new
  <2>1. versions[v].status \notin Frozen /\ mongo.versions[v].status \notin Frozen
    BY <1>1 DEF DurableInv, PersistedInv, MongoKeepsUp, Frozen
  <2>2. PublishedRows(mongo.chunks, sources, v) = {}
    BY <1>1, <2>1, ChunksAreOfKnown DEF DurableInv, PersistedInv, Loadable, PublishedRows
  <2>3. PublishedRows(rows, sources, v) = {}
    BY <2>1 DEF DurableInv, PersistedInv, ChunksFit, PublishedRows
  <2>4. mongo.chunks \in SUBSET Chunk /\ rows \in SUBSET Chunk
    BY DurableShapes
  <2> QED
    BY <1>3, <1>8, <2>2, <2>3, <2>4, OverwriteOwn
<1>11. PublishedIsKept'
  <2>1. ASSUME NEW w \in Versions, versions'[w].status \in Frozen, w # v
        PROVE  /\ versions[w].status \in Frozen
               /\ versions'[w].status = "published" => versions[w].status = "published"
               /\ Published(w)' = Published(w)
               /\ PublishedRows(Overwrite(mongo'.chunks, rows'), sources', w)
                    = PublishedRows(Overwrite(mongo.chunks, rows), sources, w)
    <3>1. /\ versions[w].status \in Frozen /\ chunks'[w] = chunks[w]
          /\ versions'[w].status = "published" => versions[w].status = "published"
      BY <1>2, <1>7, <2>1 DEF Frozen
    <3>2. /\ mongo.chunks \in SUBSET Chunk /\ rows \in SUBSET Chunk
          /\ \A c \in new : sources[c.source].version_id # w
      BY <1>3, <2>1, DurableShapes
    <3>3. PublishedRows(Overwrite(mongo.chunks, Overwrite(rows, new)), sources, w)
            = PublishedRows(Overwrite(mongo.chunks, rows), sources, w)
      BY <1>3, <3>2, OverwriteApart
    <3> QED
      BY <1>2, <1>6, <1>8, <3>1, <3>3 DEF Published
  <2>2. Published(v)' = new
    BY <1>3, <1>8 DEF Published
  <2>3. Marked("policies", PolicyOf[v])'
    BY <1>4, <1>6
  <2>4. \A w \in Versions : Marked("policies", PolicyOf[w]) => Marked("policies", PolicyOf[w])'
    BY <1>6
  <2> QED
    BY <1>2, <1>6, <1>10, <2>1, <2>2, <2>3, <2>4
    DEF PublishedIsKept, DurableInv, PersistedInv, Frozen
<1> QED
  BY <1>6, <1>7, <1>9, <1>11, RecordedKeepsUp, MongoKept DEF PersistedInv
\* Only a version that was released is rolled back to; nothing is written but statuses.
LEMMA RollbackPersists ==
  ASSUME DurableInv, RollbackByPage, NEW v \in Versions, Rollback(v), FlushDue(RollbackMarks(v), {})
  PROVE  PersistedInv'
<1>1. /\ Activated(PolicyOf[v], v) /\ UNCHANGED <<sources, chunks>> /\ versions[v].status \in Frozen
  BY DEF Rollback, RollbackOffered
<1>2. /\ RollbackMarks(v) \in Marks
      /\ Key("policy_versions", v) \in MadeIn(RollbackMarks(v))
      /\ Key("policies", PolicyOf[v]) \in MadeIn(RollbackMarks(v))
      /\ \A w \in Versions : w = policies[PolicyOf[v]].active_version_id =>
           Key("policy_versions", w) \in MadeIn(RollbackMarks(v))
  BY ReleaseMarks
<1>3. Mark(RollbackMarks(v), {}) /\ reply' = TRUE
  BY DEF FlushDue
<1>4. /\ DurableTypeOK' /\ mongo' = mongo
      /\ pending' = pending \union MadeIn(RollbackMarks(v))
      /\ \A collection, id : Marked(collection, id)' <=>
           Marked(collection, id) \/ Key(collection, id) \in MadeIn(RollbackMarks(v))
  BY <1>2, <1>3, MarkShapes
<1>5. /\ Recorded
      /\ versions'[v].status = "published"
      /\ \A w \in Versions \ {v} :
           \/ versions'[w].status = versions[w].status
           \/ versions[w].status = "published" /\ versions'[w].status = "superseded"
  BY <1>1, <1>2, <1>4, ActivationRecorded
<1>6. rows' = rows
  BY <1>3, OverwriteNothing DEF Mark
<1>7. \A w \in Versions :
        /\ versions'[w].status \in Frozen => versions[w].status \in Frozen
        /\ versions'[w].status = "published" =>
             versions[w].status = "published" \/ Marked("policies", PolicyOf[w])'
  BY <1>1, <1>2, <1>4, <1>5 DEF Frozen
<1>8. ChunksFit' /\ PublishedIsKept'
  BY <1>1, <1>5, <1>6, <1>7, RecordedContent
<1> QED
  BY <1>4, <1>5, <1>8, RecordedKeepsUp, MongoKept DEF PersistedInv

\* Preparing, publishing, rolling back and withdrawing.
LEMMA PublishingPersists ==
  ASSUME DurableInv, PageAssumption, Publishing PROVE PersistedInv'
<1>a. /\ DurableTypeOK /\ policies \in [Policies -> Policy] /\ versions \in [Versions -> Version]
      /\ ~Idle => call.version \in Versions /\ versions[call.version].status \notin Frozen
  BY DurableShapes
  DEF DurableInv, PersistedInv, PageInv, AnyClientInv, TypeOK, References, Idle,
      IndexedContentIsCurrent, Call, Frozen
<1>1. ASSUME UNCHANGED <<durable, policies, sources, chunks>>,
             \A v \in Versions :
               \/ versions'[v].status = versions[v].status
               \/ versions[v].status \notin Frozen /\ versions'[v].status \notin Frozen
      PROVE  PersistedInv'
  <2>1. DurableTypeOK'
    BY <1>1, <1>a DEF DurableTypeOK, durable
  <2> QED
    BY <1>1, <2>1, StatusPersists DEF durable
<1>2. ASSUME NEW marks \in Marks, FlushDue(marks, {}), UNCHANGED <<sources, chunks>>,
             \A p \in Policies :
               \/ policies'[p] = policies[p]
               \/ policies'[p].status # "active" /\ Key("policies", p) \in MadeIn(marks),
             \A v \in Versions :
               \/ versions'[v].status = versions[v].status
               \/ versions[v].status \notin Frozen /\ versions'[v].status \notin Frozen
      PROVE  PersistedInv'
  <2>1. Mark(marks, {}) /\ reply' = TRUE
    BY <1>2 DEF FlushDue
  <2>2. /\ DurableTypeOK' /\ mongo' = mongo
        /\ pending' = pending \union MadeIn(marks)
        /\ \A collection, id : Marked(collection, id)' <=>
             Marked(collection, id) \/ Key(collection, id) \in MadeIn(marks)
    BY <2>1, MarkShapes
  <2>3. rows' = rows
    BY <2>1, OverwriteNothing DEF Mark
  <2> QED
    BY <1>2, <2>2, <2>3, StatusPersists
<1>3. ASSUME NEW v \in Versions, PrepareBegins(v), Waits
      PROVE  PersistedInv'
  <2>1. versions[v].status \notin Frozen
    BY <1>3 DEF PrepareBegins, PrepareOffered, PageAssumption, Frozen
  <2>2. /\ versions'[v].status = "indexing"
        /\ \A w \in Versions : w # v => versions'[w] = versions[w]
    BY <1>3, <1>a DEF PrepareBegins, Version
  <2> QED
    BY <1>1, <1>3, <2>1, <2>2 DEF PrepareBegins, Waits, Frozen
<1>4. CASE StageVectors /\ Waits
  BY <1>1, <1>4 DEF StageVectors, store, Waits
<1>5. CASE IndexingFails
           /\ FlushDue(One("policy_versions", call.version)
                         \o Several("ingestion_jobs", JobsOf(call.version)), {})
  <2> DEFINE marks == One("policy_versions", call.version)
                        \o Several("ingestion_jobs", JobsOf(call.version))
  <2>1. call.version \in Versions /\ versions[call.version].status \notin Frozen
    BY <1>5, <1>a DEF IndexingFails
  <2>2. marks \in Marks
    BY <2>1, MarksOfCollections, MarksFollow DEF JobsOf
  <2> HIDE DEF marks
  <2>3. /\ versions'[call.version].status = "failed"
        /\ \A w \in Versions : w # call.version => versions'[w] = versions[w]
        /\ UNCHANGED <<policies, sources, chunks>>
    BY <1>5, <1>a, <2>1 DEF IndexingFails, Version
  <2>4. \A w \in Versions :
          \/ versions'[w].status = versions[w].status
          \/ versions[w].status \notin Frozen /\ versions'[w].status \notin Frozen
    BY <2>1, <2>3 DEF Frozen
  <2>5. FlushDue(marks, {})
    BY <1>5 DEF marks
  <2> QED
    BY <1>2, <2>2, <2>3, <2>4, <2>5
<1>6. ASSUME NEW v \in Versions, RefusePublication(v)
      PROVE  PersistedInv'
  <2>1. <<>> \in Marks
    BY DEF Marks
  <2> QED
    BY <1>2, <1>6, <2>1 DEF RefusePublication, vars
<1>7. ASSUME NEW v \in Versions, PublishBegins(v), Waits
      PROVE  PersistedInv'
  BY <1>1, <1>7 DEF PublishBegins, store, Waits
<1>8. ASSUME NEW c \in Chunk, ActivateVector(c), Waits
      PROVE  PersistedInv'
  BY <1>1, <1>8 DEF ActivateVector, store, Waits
<1>9. ASSUME NEW v \in Versions, Rollback(v), FlushDue(RollbackMarks(v), {})
      PROVE  PersistedInv'
  BY <1>9, RollbackPersists DEF PageAssumption
<1>10. ASSUME NEW p \in Policies, Deactivate(p), FlushDue(One("policies", p), {})
       PROVE  PersistedInv'
  <2>1. One("policies", p) \in Marks /\ Key("policies", p) \in MadeIn(One("policies", p))
    BY MarksOfCollections
  <2>2. /\ policies'[p].status = "inactive"
        /\ \A q \in Policies : q # p => policies'[q] = policies[q]
        /\ UNCHANGED <<versions, sources, chunks>>
    BY <1>10, <1>a DEF Deactivate, Policy
  <2>3. \A q \in Policies :
          \/ policies'[q] = policies[q]
          \/ policies'[q].status # "active" /\ Key("policies", q) \in MadeIn(One("policies", p))
    BY <2>1, <2>2
  <2> QED
    BY <1>2, <1>10, <2>1, <2>2, <2>3
<1> QED
  BY <1>3, <1>4, <1>5, <1>6, <1>7, <1>8, <1>9, <1>10, PreparePersists, PublishPersists
  DEF Publishing

\* In memory, the steps of the composed system are steps of the lifecycle.
LEMMA HandlersAreSteps == Drafting \/ Sourcing \/ Publishing => [Next]_vars
<1>1. Drafting => Next
  BY DEF Drafting, Next
<1>2. Sourcing => Next
  BY DEF Sourcing, Next
<1>3. Publishing => Next \/ UNCHANGED vars
  BY DEF Publishing, Next, RefusePublication
<1> QED
  BY <1>1, <1>2, <1>3
-----------------------------------------------------------------------------
(* Flushes and restarts. *)

\* Collections of the shapes that Mongo holds.
Collections ==
  [policies : [Policies -> Policy], versions : [Versions -> Version],
   sources : [Sources -> Source], canonicals : [Sources -> Canonical \union {None}],
   jobs : [Sources -> JobState], chunks : SUBSET Chunk]

\* What any flush writes has the shapes of the collections.
LEMMA WrittenShapes ==
  ASSUME DurableInv, NEW keys
  PROVE  Written(keys) \in Collections /\ mongo \in Collections
<1>1. mongo \in Collections /\ rows \subseteq Chunk
  BY DEF DurableInv, PersistedInv, DurableTypeOK, Collections
<1>2. TypeOK
  BY DEF DurableInv, PageInv, AnyClientInv
<1>3. Overwrite(mongo.chunks, rows) \subseteq Chunk
  BY <1>1 DEF Overwrite, Collections
<1> QED
  BY <1>1, <1>2, <1>3 DEF Written, Collections, TypeOK

\* Writing no record leaves Mongo as it is.
LEMMA WrittenNothing == ASSUME DurableInv PROVE Written({}) = mongo
<1>1. mongo \in Collections
  BY WrittenShapes
<1>2. /\ mongo.policies = [p \in Policies |-> mongo.policies[p]]
      /\ mongo.versions = [v \in Versions |-> mongo.versions[v]]
      /\ mongo.sources = [s \in Sources |-> mongo.sources[s]]
      /\ mongo.canonicals = [s \in Sources |-> mongo.canonicals[s]]
      /\ mongo.jobs = [s \in Sources |-> mongo.jobs[s]]
  BY <1>1 DEF Collections
<1>3. Written({}) = [policies |-> mongo.policies, versions |-> mongo.versions,
                     sources |-> mongo.sources, canonicals |-> mongo.canonicals,
                     jobs |-> mongo.jobs, chunks |-> mongo.chunks]
  BY <1>2 DEF Written
<1> QED
  BY <1>1, <1>3 DEF Collections

\* A whole flush gives Mongo what memory holds, as far as it matters.
LEMMA WrittenAgrees ==
  ASSUME DurableInv
  PROVE  LET m == Written(pending)
         IN  /\ m.policies = policies
             /\ \A v \in Versions :
                  /\ m.versions[v] = versions[v] \/ m.versions[v] = mongo.versions[v]
                  /\ \A status \in Frozen :
                       m.versions[v].status = status <=> versions[v].status = status
             /\ \A s \in Sources :
                  IF Known(s)
                  THEN /\ m.sources[s].status # "absent"
                       /\ m.sources[s].version_id = sources[s].version_id
                  ELSE m.sources[s].status = "absent"
             /\ m.chunks = Overwrite(mongo.chunks, rows)
<1> DEFINE m == Written(pending)
<1>1. m.policies = policies
  <2>1. m.policies = [p \in Policies |->
          IF Key("policies", p) \in pending THEN policies[p] ELSE mongo.policies[p]]
    BY DEF Written
  <2>2. \A p \in Policies : m.policies[p] = policies[p]
    BY <2>1 DEF DurableInv, PersistedInv, MongoKeepsUp, Marked
  <2> QED
    BY <2>1, <2>2, DurableShapes
<1>2. \A v \in Versions :
        m.versions[v] = IF Marked("policy_versions", v) THEN versions[v] ELSE mongo.versions[v]
  BY DEF Written, Marked
<1>3. \A s \in Sources :
        m.sources[s] = IF Marked("source_documents", s) THEN sources[s] ELSE mongo.sources[s]
  BY DEF Written, Marked
<1>4. m.chunks = Overwrite(mongo.chunks, rows)
  <2>1. ChunkKey \notin pending => rows = {}
    BY DEF DurableInv, PersistedInv, DurableTypeOK
  <2> QED
    BY <2>1, OverwriteNothing DEF Written
<1> HIDE DEF m
<1>5. \A v \in Versions :
        /\ m.versions[v] = versions[v] \/ m.versions[v] = mongo.versions[v]
        /\ \A status \in Frozen :
             m.versions[v].status = status <=> versions[v].status = status
  BY <1>2 DEF DurableInv, PersistedInv, MongoKeepsUp
<1>6. ASSUME NEW s \in Sources
      PROVE  IF Known(s)
             THEN /\ m.sources[s].status # "absent"
                  /\ m.sources[s].version_id = sources[s].version_id
             ELSE m.sources[s].status = "absent"
  BY <1>3 DEF DurableInv, PersistedInv, MongoKeepsUp, Known
<1> QED
  BY <1>1, <1>4, <1>5, <1>6 DEF m

\* After a whole flush Mongo can be loaded.
LEMMA WrittenLoadable == ASSUME DurableInv PROVE Loadable(Written(pending))
<1> DEFINE M == Written(pending)
<1> HIDE DEF M
<1>1. /\ M.policies = policies
      /\ \A v \in Versions :
           /\ M.versions[v] = versions[v] \/ M.versions[v] = mongo.versions[v]
           /\ \A status \in Frozen : M.versions[v].status = status <=> versions[v].status = status
      /\ \A s \in Sources :
           IF Known(s)
           THEN M.sources[s].status # "absent" /\ M.sources[s].version_id = sources[s].version_id
           ELSE M.sources[s].status = "absent"
      /\ M.chunks = Overwrite(mongo.chunks, rows)
  BY WrittenAgrees DEF M
<1>a. TypeOK /\ DocumentsAreOwned /\ PublishedIsActive /\ ActiveVersionIsPublished /\ ActiveBelongs
  BY DEF DurableInv, PageInv, AnyClientInv
<1>2. \A v \in Versions : M.versions[v].status # "absent" => M.versions[v].access \in Scopes
  BY <1>1, <1>a DEF TypeOK, References, Exists, DurableInv, PersistedInv, Loadable
<1>3. \A s \in Sources : M.sources[s].status # "absent" => M.sources[s].version_id \in Versions
  BY <1>1, ChunksAreOfKnown
<1>4. ASSUME NEW v \in Versions, NEW s \in M.versions[v].source_document_ids
      PROVE  M.sources[s].status # "absent" /\ M.sources[s].version_id = v
  <2>1. s \in Sources /\ Known(s) /\ sources[s].version_id = v
    <3>1. CASE M.versions[v] = versions[v]
      BY <1>4, <1>a, <3>1, DurableShapes DEF DocumentsAreOwned, Known, Version
    <3>2. CASE M.versions[v] = mongo.versions[v]
      <4>1. s \in Sources /\ mongo.sources[s].status # "absent" /\ mongo.sources[s].version_id = v
        BY <1>4, <3>2, DurableShapes DEF Version, DurableInv, PersistedInv, Loadable
      <4> QED
        BY <4>1 DEF DurableInv, PersistedInv, MongoKeepsUp
    <3> QED
      BY <1>1, <3>1, <3>2
  <2> QED
    BY <1>1, <2>1
<1>5. \A v \in Versions : M.versions[v].status = "published" =>
        M.policies[PolicyOf[v]].active_version_id = v
  BY <1>1, <1>a DEF PublishedIsActive, Frozen
<1>6. ASSUME NEW p \in Policies
      PROVE  LET v == M.policies[p].active_version_id
             IN  /\ v # None => M.versions[v].status = "published" /\ PolicyOf[v] = p
                 /\ M.policies[p].status = "active" => v # None
  <2>1. policies[p].active_version_id # None => policies[p].active_version_id \in Versions
    BY DurableShapes DEF Policy
  <2> QED
    BY <1>1, <1>a, <2>1
    DEF ActiveVersionIsPublished, ActiveBelongs, DurableInv, PersistedInv, ChunksFit, Frozen
<1>7. \A c \in M.chunks : M.sources[c.source].status # "absent"
  BY <1>1, ChunksAreOfKnown, DurableShapes
<1>8. ASSUME NEW v \in Versions, M.versions[v].status \notin Frozen
      PROVE  PublishedRows(M.chunks, M.sources, v) = {}
  <2>1. versions[v].status \notin Frozen /\ mongo.versions[v].status \notin Frozen
    BY <1>1, <1>8 DEF Frozen, DurableInv, PersistedInv, MongoKeepsUp
  <2>2. ASSUME NEW c \in mongo.chunks, sources[c.source].version_id = v
        PROVE  c.publication_status # "published"
    BY <2>1, <2>2, ChunksAreOfKnown DEF DurableInv, PersistedInv, Loadable, PublishedRows
  <2>3. ASSUME NEW c \in rows, sources[c.source].version_id = v
        PROVE  c.publication_status # "published"
    BY <2>1, <2>3 DEF DurableInv, PersistedInv, ChunksFit
  <2>4. \A c \in M.chunks : M.sources[c.source].version_id = sources[c.source].version_id
    BY <1>1, ChunksAreOfKnown, DurableShapes
  <2> QED
    BY <1>1, <2>2, <2>3, <2>4 DEF PublishedRows, Overwrite
<1> QED
  BY <1>2, <1>3, <1>4, <1>5, <1>6, <1>7, <1>8 DEF Loadable, M
\* The flush before an answer: memory and Mongo agree.
LEMMA FlushPersists == ASSUME DurableInv, Flush PROVE DurableInv'
<1> DEFINE M == Written(pending)
<1>1. /\ mongo' = M /\ pending' = {} /\ order' = {} /\ rows' = {} /\ reply' = FALSE
      /\ UNCHANGED <<vars, lost, restarts, flushFailures>>
  BY DEF Flush
<1>2. /\ M \in Collections /\ Loadable(M)
      /\ M.policies = policies
      /\ \A v \in Versions :
           \A status \in Frozen : M.versions[v].status = status <=> versions[v].status = status
      /\ \A s \in Sources :
           IF Known(s)
           THEN M.sources[s].status # "absent" /\ M.sources[s].version_id = sources[s].version_id
           ELSE M.sources[s].status = "absent"
      /\ M.chunks = Overwrite(mongo.chunks, rows)
  BY WrittenAgrees, WrittenLoadable, WrittenShapes
<1> HIDE DEF M
<1>3. PageInv'
  <2>1. UNCHANGED vars /\ PageInv
    BY <1>1 DEF DurableInv
  <2>2. AnyClientInv'
    BY <2>1, NextAnyClient DEF PageInv
  <2> QED
    BY <2>1, <2>2 DEF PageInv, vars, ActiveVersionIsPublished, ActiveBelongs
<1>4. DurableTypeOK'
  BY <1>1, <1>2 DEF DurableInv, PersistedInv, DurableTypeOK, Collections
<1>5. Loadable(mongo)'
  BY <1>1, <1>2 DEF Loadable, PublishedRows
<1>6. MongoKeepsUp'
  BY <1>1, <1>2 DEF MongoKeepsUp, Known, vars, Frozen
<1>7. ChunksFit'
  BY <1>1 DEF DurableInv, PersistedInv, ChunksFit, Known, vars
<1>8. PublishedIsKept'
  BY <1>1, <1>2, OverwriteNothing DEF DurableInv, PersistedInv, PublishedIsKept, Published,
     PublishedRows, vars, Frozen
<1> QED
  BY <1>3, <1>4, <1>5, <1>6, <1>7, <1>8 DEF DurableInv, PersistedInv

\* A flush that fails without having written anything.
LEMMA FailedFlushPersists ==
  ASSUME DurableInv, FlushesAreWhole, FlushFails
  PROVE  DurableInv'
<1>a. AtomicFlush
  <2>1. flushFailures \in Nat /\ flushFailures < MaxFlushFailures
    BY FlushAssumption DEF FlushFails, DurableInv, PersistedInv, DurableTypeOK
  <2> QED
    BY <2>1 DEF FlushesAreWhole
<1>1. UNCHANGED <<vars, mongo, pending, order, rows, lost, restarts>> /\ reply' = FALSE
  BY <1>a, WrittenNothing DEF FlushFails, Interrupted
<1>2. PageInv'
  <2>1. UNCHANGED vars /\ PageInv
    BY <1>1 DEF DurableInv
  <2>2. AnyClientInv'
    BY <2>1, NextAnyClient DEF PageInv
  <2> QED
    BY <2>1, <2>2 DEF PageInv, vars, ActiveVersionIsPublished, ActiveBelongs
<1>3. flushFailures' \in 0 .. MaxFlushFailures
  BY FlushAssumption DEF FlushFails, DurableInv, PersistedInv, DurableTypeOK
<1>4. DurableTypeOK'
  BY <1>1, <1>3 DEF DurableInv, PersistedInv, DurableTypeOK
<1>5. Loadable(mongo)' /\ MongoKeepsUp' /\ ChunksFit' /\ PublishedIsKept'
  <2>1. Loadable(mongo)'
    BY <1>1, MongoKept
  <2>2. MongoKeepsUp'
    BY <1>1 DEF DurableInv, PersistedInv, MongoKeepsUp, Known, Marked, vars
  <2>3. ChunksFit'
    BY <1>1 DEF DurableInv, PersistedInv, ChunksFit, Known, vars
  <2>4. PublishedIsKept'
    BY <1>1 DEF DurableInv, PersistedInv, PublishedIsKept, Published, PublishedRows, Marked, vars
  <2> QED
    BY <2>1, <2>2, <2>3, <2>4
<1> QED
  BY <1>2, <1>4, <1>5 DEF DurableInv, PersistedInv

\* A process that starts from loadable collections.
LEMMA RestartPersists ==
  ASSUME DurableInv, NEW from \in Collections, Loadable(from), Restart(from)
  PROVE  DurableInv'
<1>1. /\ mongo' = from /\ pending' = {} /\ order' = {} /\ rows' = {} /\ reply' = FALSE
      /\ call' = NoCall /\ UNCHANGED <<index, flushFailures>>
      /\ policies' = from.policies /\ versions' = from.versions /\ sources' = from.sources
      /\ canonicals' = from.canonicals /\ jobs' = from.jobs
      /\ chunks' = [v \in Versions |->
            {c \in from.chunks : from.sources[c.source].version_id = v}]
  BY DEF Restart, Load
<1>2. /\ from.policies \in [Policies -> Policy] /\ from.versions \in [Versions -> Version]
      /\ from.sources \in [Sources -> Source]
      /\ from.canonicals \in [Sources -> Canonical \union {None}]
      /\ from.jobs \in [Sources -> JobState] /\ from.chunks \subseteq Chunk
  BY DEF Collections
<1>3. TypeOK'
  <2>1. chunks' \in [Versions -> SUBSET Chunk]
    BY <1>1, <1>2
  <2>2. index' \in [VectorId -> {"absent", "staged", "published"}] /\ call' \in Call
    BY <1>1 DEF DurableInv, PageInv, AnyClientInv, TypeOK, NoCall, Call
  <2>3. References'
    <3>1. \A p \in Policies : from.policies[p].active_version_id # None =>
            from.versions[from.policies[p].active_version_id].status # "absent"
      BY DEF Loadable
    <3> QED
      BY <1>1, <3>1 DEF Loadable, References, Exists, Idle, NoCall
  <2> QED
    BY <1>1, <1>2, <2>1, <2>2, <2>3 DEF TypeOK
<1>4. PageInv'
  <2>1. DocumentsAreOwned' /\ PublishedIsActive' /\ ActiveVersionIsPublished' /\ ActiveBelongs'
    BY <1>1
    DEF Loadable, DocumentsAreOwned, PublishedIsActive, ActiveVersionIsPublished, ActiveBelongs
  <2>2. IndexedContentIsCurrent'
    BY <1>1 DEF IndexedContentIsCurrent, NoCall
  <2> QED
    BY <1>3, <2>1, <2>2 DEF PageInv, AnyClientInv
<1>5. DurableTypeOK'
  <2>1. restarts' \in 0 .. MaxRestarts
    BY FlushAssumption DEF Restart, DurableInv, PersistedInv, DurableTypeOK
  <2>2. lost' \subseteq Policies \union Versions \union Sources
    BY DEF Restart, DurableInv, PersistedInv, DurableTypeOK
  <2> QED
    BY <1>1, <2>1, <2>2 DEF DurableInv, PersistedInv, DurableTypeOK, Collections
<1>6. Loadable(mongo)'
  BY <1>1 DEF Loadable, PublishedRows
<1>7. MongoKeepsUp'
  BY <1>1 DEF MongoKeepsUp, Known
<1>8. ChunksFit'
  BY <1>1 DEF ChunksFit, Known, Loadable
<1>9. PublishedIsKept'
  <2>1. ASSUME NEW v \in Versions
        PROVE  PublishedRows(from.chunks, from.sources, v)
                 = {c \in chunks'[v] : c.publication_status = "published"}
    BY <1>1 DEF PublishedRows
  <2> QED
    BY <1>1, <2>1, OverwriteNothing DEF PublishedIsKept, Published
<1> QED
  BY <1>4, <1>5, <1>6, <1>7, <1>8, <1>9 DEF DurableInv, PersistedInv

-----------------------------------------------------------------------------
(* The theorems. *)

\* The empty system satisfies the inductive invariant.
LEMMA InitDurable == DurableInit => DurableInv
<1> SUFFICES ASSUME DurableInit PROVE DurableInv
  OBVIOUS
<1>a. Init /\ TypeOK
  BY InitTypeOK DEF DurableInit
<1>1. PageInv
  BY <1>a, InitAnyClient DEF PageInv, Init, ActiveVersionIsPublished, ActiveBelongs
<1>2. DurableTypeOK
  <2>1. mongo \in Collections
    BY <1>a DEF DurableInit, TypeOK, Collections
  <2>2. restarts \in 0 .. MaxRestarts /\ flushFailures \in 0 .. MaxFlushFailures
    BY FlushAssumption DEF DurableInit
  <2> QED
    BY <2>1, <2>2 DEF DurableInit, DurableTypeOK, Collections
<1>3. Loadable(mongo) /\ MongoKeepsUp /\ ChunksFit /\ PublishedIsKept
  BY <1>a DEF DurableInit, Init, Loadable, MongoKeepsUp, ChunksFit, PublishedIsKept, Published,
     PublishedRows, Overwrite, NewVersion, Known, Frozen
<1> QED
  BY <1>1, <1>2, <1>3 DEF DurableInv, PersistedInv

\* Every step keeps it.
LEMMA NextDurable ==
  ASSUME DurableAssumption, DurableInv, [DurableNext]_allVars
  PROVE  DurableInv'
<1>a. PageAssumption /\ FlushesAreWhole
  BY DEF DurableAssumption
<1>1. CASE Drafting \/ Sourcing \/ Publishing
  <2>1. PersistedInv'
    BY <1>a, <1>1, DraftingPersists, SourcingPersists, PublishingPersists
  <2>2. [Next]_vars
    BY <1>1, HandlersAreSteps
  <2>3. PageInv'
    BY <1>a, <2>2, NextPage, NextAnyClient DEF DurableInv, PageInv
  <2> QED
    BY <2>1, <2>3 DEF DurableInv
<1>2. CASE Flush
  BY <1>2, FlushPersists
<1>3. CASE FlushFails
  BY <1>a, <1>3, FailedFlushPersists
<1>4. CASE Crash
  <2>1. mongo \in Collections /\ Loadable(mongo)
    BY WrittenShapes DEF DurableInv, PersistedInv
  <2> QED
    BY <1>4, <2>1, RestartPersists DEF Crash
<1>5. CASE Shutdown
  BY <1>5, WrittenShapes, WrittenLoadable, RestartPersists DEF Shutdown
<1>6. CASE UNCHANGED allVars
  <2>1. UNCHANGED vars /\ UNCHANGED durable
    BY <1>6 DEF allVars
  <2>2. PageInv'
    BY <1>a, <2>1, NextPage, NextAnyClient DEF DurableInv, PageInv
  <2>3. DurableTypeOK'
    BY <2>1 DEF DurableInv, PersistedInv, DurableTypeOK, durable
  <2>4. PersistedInv'
    BY <2>1, <2>3, StatusPersists DEF durable, vars
  <2> QED
    BY <2>2, <2>4 DEF DurableInv
<1> QED
  BY <1>1, <1>2, <1>3, <1>4, <1>5, <1>6 DEF DurableNext
\* The inductive invariant holds throughout.
LEMMA DurableInvariant == ASSUME DurableAssumption PROVE DurableSpec => []DurableInv
<1>1. DurableInv /\ [DurableNext]_allVars => DurableInv'
  BY NextDurable
<1> QED
  BY <1>1, InitDurable, PTL DEF DurableSpec

\* Marks, waiting chunks and persisted records keep their shapes.
THEOREM DurableTypes ==
  ASSUME PrepareByPage, RollbackByPage, FlushesAreWhole PROVE DurableSpec => []DurableTypeOK
<1>1. DurableAssumption
  BY DEF DurableAssumption, PageAssumption
<1>2. DurableInv => DurableTypeOK
  BY DEF DurableInv, PersistedInv
<1> QED
  BY <1>1, <1>2, DurableInvariant, PTL

\* However often the process stops, and wherever, the active version that Mongo names is a
\* published one.
THEOREM PersistedStaysPublished ==
  ASSUME PrepareByPage, RollbackByPage, FlushesAreWhole
  PROVE  DurableSpec => []PersistedActiveIsPublished
<1>1. DurableAssumption
  BY DEF DurableAssumption, PageAssumption
<1>2. DurableInv => PersistedActiveIsPublished
  BY DEF DurableInv, PersistedInv, Loadable, PersistedActiveIsPublished
<1> QED
  BY <1>1, <1>2, DurableInvariant, PTL

\* What a process serves after it loaded collections that agree with memory.
LEMMA LoadServes ==
  ASSUME DurableInv, NEW from \in Collections, Load(from), NEW p \in Policies,
         from.policies[p] = policies[p],
         \A v \in Versions : v = policies[p].active_version_id =>
           PublishedRows(from.chunks, from.sources, v) = Published(v)
  PROVE  Served(p)' = Served(p)
<1>1. /\ policies' = from.policies
      /\ \A v \in Versions :
           chunks'[v] = {c \in from.chunks : from.sources[c.source].version_id = v}
  BY DEF Load
<1>2. CASE policies[p].status = "active"
  <2>1. PICK v \in Versions : v = policies[p].active_version_id
    BY <1>2, DurableShapes DEF DurableInv, PersistedInv, ChunksFit, Policy
  <2>2. Served(p) = Published(v)
    BY <1>2, <2>1 DEF Served, EligibleChunks, Published
  <2>3. Served(p)' = {c \in chunks'[v] : c.publication_status = "published"}
    BY <1>1, <1>2, <2>1 DEF Served, EligibleChunks
  <2> QED
    BY <1>1, <2>1, <2>2, <2>3 DEF PublishedRows
<1>3. CASE policies[p].status # "active"
  BY <1>1, <1>3 DEF Served
<1> QED
  BY <1>2, <1>3

\* A restart changes what employees are shown for no policy but one whose publication, rollback
\* or withdrawal was not acknowledged: after a crash the marks of that request are lost, and at
\* a shutdown they are written.
THEOREM RestartKeepsWhatIsServed ==
  ASSUME PrepareByPage, RollbackByPage, FlushesAreWhole PROVE DurableSpec => RestartKeepsServed
<1> DEFINE Kept == Crash \/ Shutdown =>
                     \A p \in Policies :
                       Key("policies", p) \notin pending => Served(p)' = Served(p)
<1>1. DurableAssumption
  BY DEF DurableAssumption, PageAssumption
<1>2. ASSUME DurableInv PROVE Kept
  <2>1. ASSUME NEW p \in Policies, NEW v \in Versions, v = policies[p].active_version_id
        PROVE  versions[v].status = "published" /\ PolicyOf[v] = p
    BY <1>2, <2>1, NoneAssumption DEF DurableInv, PageInv, ActiveVersionIsPublished, ActiveBelongs
  <2>2. ASSUME Crash, NEW p \in Policies, Key("policies", p) \notin pending
        PROVE  Served(p)' = Served(p)
    <3>1. mongo \in Collections /\ Load(mongo)
      BY <1>2, <2>2, WrittenShapes DEF Crash, Restart
    <3>2. mongo.policies[p] = policies[p]
      BY <1>2, <2>2 DEF DurableInv, PersistedInv, MongoKeepsUp, Marked
    <3>3. ASSUME NEW v \in Versions, v = policies[p].active_version_id
          PROVE  PublishedRows(mongo.chunks, mongo.sources, v) = Published(v)
      <4>1. PublishedRows(mongo.chunks, sources, v) = Published(v)
        BY <1>2, <2>1, <2>2, <3>3 DEF DurableInv, PersistedInv, PublishedIsKept, Marked
      <4> QED
        BY <1>2, <4>1, ChunksAreOfKnown DEF PublishedRows
    <3> QED
      BY <1>2, <3>1, <3>2, <3>3, LoadServes
  <2>3. ASSUME Shutdown, NEW p \in Policies
        PROVE  Served(p)' = Served(p)
    <3> DEFINE M == Written(pending)
    <3>1. M \in Collections /\ Load(M)
      BY <1>2, <2>3, WrittenShapes DEF Shutdown, Restart
    <3>2. /\ M.policies = policies /\ M.chunks = Overwrite(mongo.chunks, rows)
          /\ \A s \in Sources : Known(s) => M.sources[s].version_id = sources[s].version_id
      BY <1>2, WrittenAgrees
    <3> HIDE DEF M
    <3>3. ASSUME NEW v \in Versions, v = policies[p].active_version_id
          PROVE  PublishedRows(M.chunks, M.sources, v) = Published(v)
      <4>1. PublishedRows(Overwrite(mongo.chunks, rows), sources, v) = Published(v)
        BY <1>2, <2>1, <3>3 DEF DurableInv, PersistedInv, PublishedIsKept, Frozen
      <4>2. \A c \in M.chunks : M.sources[c.source].version_id = sources[c.source].version_id
        BY <1>2, <3>2, ChunksAreOfKnown, DurableShapes
      <4> QED
        BY <3>2, <4>1, <4>2 DEF PublishedRows
    <3> QED
      BY <1>2, <3>1, <3>2, <3>3, LoadServes
  <2> QED
    BY <2>2, <2>3
<1>3. DurableInv /\ [DurableNext]_allVars => [Kept]_allVars
  BY <1>2
<1> HIDE DEF Kept
<1>4. DurableSpec => [][Kept]_allVars
  BY <1>1, <1>3, DurableInvariant, PTL DEF DurableSpec
<1> QED
  BY <1>4 DEF RestartKeepsServed, Kept
=============================================================================
