---------------------- MODULE DocumentLifecycleProofs ----------------------
(* Proofs about DocumentLifecycle for every set of users, any number of    *)
(* concurrent requests, any number of batches and any combination of       *)
(* faults and crashes the constants allow.                                 *)
EXTENDS DocumentLifecycle, TLAPS

-----------------------------------------------------------------------------
(* Type correctness.                                                       *)

(* Types, action by action.                                                *)
LEMMA InitTyped == Init => TypeOK
<1> SUFFICES ASSUME Init PROVE TypeOK
    OBVIOUS
<1> USE DEF Init
<1>1. chunkRows \in BOOLEAN /\ object \in BOOLEAN
    BY Zenon
<1>2. worker \in Worker
    BY DEF Worker, WorkerSteps
<1>3. request \in [Requests -> Request]
    BY OwnerAssumption DEF Request, RequestSteps, Idle
<1>4. upload \in UploadSteps
    BY DEF UploadSteps
<1>5. /\ lifecycle  \in {"absent", "active", "deleting", "deleted"}
    /\ visibility \in {"private", "shared"}
    /\ shares     \in SUBSET Users
    /\ job        \in {"none", "queued", "processing", "completed", "failed"}
    /\ vectors    \in SUBSET Batches
    /\ searchable \in SUBSET vectors
    /\ subjects   \in [Batches -> SUBSET Users]
  OBVIOUS
<1>6. env \in Environment
    BY EnvironmentAssumption
<1> QED BY <1>1, <1>2, <1>3, <1>4, <1>5, <1>6 DEF TypeOK

(* The upload keeps the types.                                             *)
LEMMA UploadTyped == TypeOK /\ UploadStep => TypeOK'
<1> SUFFICES ASSUME TypeOK, UploadStep PROVE TypeOK'
    OBVIOUS
<1> USE DEF TypeOK, Worker, WorkerSteps, UploadSteps, database, collection
<1>1. CASE UploadPut        BY <1>1 DEF UploadPut
<1>2. CASE UploadRecord     BY <1>2 DEF UploadRecord
<1>3. CASE UploadCompensate BY <1>3 DEF UploadCompensate
<1> QED BY <1>1, <1>2, <1>3 DEF UploadStep

(* The Qdrant calls keep the collection well formed.                       *)
CollectionTyped ==
    /\ vectors    \in SUBSET Batches
    /\ searchable \in SUBSET vectors
    /\ subjects   \in [Batches -> SUBSET Users]

(* The calls to Qdrant keep the types of the collection.                   *)
LEMMA CallsTyped ==
    ASSUME CollectionTyped
    PROVE  /\ \A flag \in BOOLEAN : SetSearchable(flag) => CollectionTyped'
           /\ \A ids \in SUBSET Users : UpdateAccess(ids) => CollectionTyped'
           /\ DeletePoints => CollectionTyped'
           /\ \A b \in Batches, ids \in SUBSET Users :
                 UpsertBatch(b, ids) => CollectionTyped'
           /\ UNCHANGED collection => CollectionTyped'
<1> USE DEF CollectionTyped
<1>1. ASSUME NEW flag \in BOOLEAN, SetSearchable(flag) PROVE CollectionTyped'
      BY <1>1 DEF SetSearchable
<1>2. ASSUME NEW ids \in SUBSET Users, UpdateAccess(ids) PROVE CollectionTyped'
      BY <1>2, OwnerAssumption DEF UpdateAccess
<1>3. ASSUME DeletePoints PROVE CollectionTyped'
      BY <1>3 DEF DeletePoints
<1>4. ASSUME NEW b \in Batches, NEW ids \in SUBSET Users, UpsertBatch(b, ids)
      PROVE  CollectionTyped'
      BY <1>4, OwnerAssumption DEF UpsertBatch
<1>5. ASSUME UNCHANGED collection PROVE CollectionTyped'
      BY <1>5 DEF collection
<1> QED BY <1>1, <1>2, <1>3, <1>4, <1>5

(* The ingestion task keeps the types.                                     *)
LEMMA WorkerTyped == TypeOK /\ WorkerStep => TypeOK'
<1> SUFFICES ASSUME TypeOK, WorkerStep PROVE TypeOK'
    OBVIOUS
<1>0. /\ CollectionTyped
      /\ CollectionTyped' <=> /\ vectors'    \in SUBSET Batches
                              /\ searchable' \in SUBSET vectors'
                              /\ subjects'   \in [Batches -> SUBSET Users]
      BY DEF TypeOK, CollectionTyped
<1> USE DEF TypeOK, Worker, WorkerSteps, database
<1>1. CASE WorkerClaim    BY <1>1 DEF WorkerClaim, collection
<1>2. CASE WorkerRefuse   BY <1>2 DEF WorkerRefuse, collection
<1>3. CASE WorkerLoad     BY <1>3 DEF WorkerLoad, collection
<1>4. CASE WorkerUpsert
  <2>1. CollectionTyped'
        BY <1>4, <1>0, CallsTyped DEF WorkerUpsert
  <2>2. worker' \in Worker
        BY <1>4 DEF WorkerUpsert, Batches
  <2> QED BY <1>0, <1>4, <2>1, <2>2 DEF WorkerUpsert
<1>5. CASE WorkerIndexed  BY <1>5 DEF WorkerIndexed, collection
<1>6. CASE WorkerConfirm  BY <1>6 DEF WorkerConfirm, collection
<1>7. CASE WorkerCommit   BY <1>7 DEF WorkerCommit, collection
<1>8. CASE WorkerPublish
  <2>1. CollectionTyped'
        BY <1>8, <1>0, CallsTyped DEF WorkerPublish
  <2> QED BY <1>0, <1>8, <2>1 DEF WorkerPublish
<1>9. CASE WorkerCleanup
  <2>1. CollectionTyped'
        BY <1>9, <1>0, CallsTyped DEF WorkerCleanup
  <2> QED BY <1>0, <1>9, <2>1 DEF WorkerCleanup
<1>10. CASE WorkerRecordFailure BY <1>10 DEF WorkerRecordFailure, collection
<1> QED BY <1>1, <1>2, <1>3, <1>4, <1>5, <1>6, <1>7, <1>8, <1>9, <1>10
        DEF WorkerStep

(* A request that goes on, or ends, stays a request.                       *)
LEMMA ProceedTyped ==
    ASSUME request \in [Requests -> Request], NEW r \in Requests, NEW out,
           NEW pc \in RequestSteps, NEW ids \in SUBSET Users,
           Proceed(r, out, pc, ids)
    PROVE  request' \in [Requests -> Request]
BY OwnerAssumption DEF Proceed, Request, RequestSteps, Idle

(* A request that ends leaves its slot typed.                              *)
LEMMA FinishTyped ==
    ASSUME request \in [Requests -> Request], NEW r \in Requests, Finish(r)
    PROVE  request' \in [Requests -> Request]
BY OwnerAssumption DEF Finish, Request, RequestSteps, Idle

(* The steps of requests keep the types,                                   *)
LEMMA RequestTyped ==
    ASSUME TypeOK, NEW r \in Requests, RequestStep(r)
    PROVE  TypeOK'
<1>0. /\ CollectionTyped
      /\ CollectionTyped' <=> /\ vectors'    \in SUBSET Batches
                              /\ searchable' \in SUBSET vectors'
                              /\ subjects'   \in [Batches -> SUBSET Users]
      BY DEF TypeOK, CollectionTyped
<1>1. /\ request \in [Requests -> Request]
      /\ request[r].user \in Users /\ request[r].ids \in SUBSET Users
      /\ \A pc \in RequestSteps, u \in Users, ids \in SUBSET Users :
            [pc |-> pc, user |-> u, ids |-> ids] \in Request
      BY DEF TypeOK, Request
<1>2. {"idle", "grant", "widen", "survey", "narrow", "revoke", "hide",
       "tombstone", "purge", "erase", "bury"} \subseteq RequestSteps
      BY DEF RequestSteps
<1> USE DEF TypeOK, database
<1>3. CASE ShareGrant(r)
  <2>1. request' \in [Requests -> Request]
        BY <1>1, <1>2, <1>3, ProceedTyped DEF ShareGrant
  <2> QED BY <1>1, <1>3, <2>1 DEF ShareGrant, collection
<1>4. CASE ShareWiden(r)
  <2>1. request' \in [Requests -> Request]
        BY <1>1, <1>4, FinishTyped DEF ShareWiden
  <2>2. CollectionTyped'
        BY <1>0, <1>1, <1>4, CallsTyped DEF ShareWiden
  <2> QED BY <1>0, <1>4, <2>1, <2>2 DEF ShareWiden
<1>5. CASE UnshareSurvey(r)
  <2>0. PICK out \in Outcomes("db") :
           Proceed(r, out, "narrow", shares \ {request[r].user})
        BY <1>5 DEF UnshareSurvey
  <2>1. request' \in [Requests -> Request]
    <3>1. shares \ {request[r].user} \in SUBSET Users
          OBVIOUS
    <3> QED BY <1>1, <1>2, <2>0, <3>1, ProceedTyped
  <2> QED BY <1>5, <2>1 DEF UnshareSurvey, collection
<1>6. CASE UnshareNarrow(r)
  <2>1. request' \in [Requests -> Request]
        BY <1>1, <1>2, <1>6, ProceedTyped DEF UnshareNarrow, Continue
  <2>2. CollectionTyped'
        BY <1>0, <1>1, <1>6, CallsTyped DEF UnshareNarrow
  <2> QED BY <1>0, <1>6, <2>1, <2>2 DEF UnshareNarrow
<1>7. CASE UnshareRevoke(r)
  <2>1. request' \in [Requests -> Request]
        BY <1>1, <1>7, FinishTyped DEF UnshareRevoke
  <2> QED BY <1>7, <2>1 DEF UnshareRevoke, collection
<1>8. CASE DeleteHide(r)
  <2>1. request' \in [Requests -> Request]
        BY <1>1, <1>2, <1>8, ProceedTyped DEF DeleteHide, Continue
  <2>2. CollectionTyped'
        BY <1>0, <1>8, CallsTyped DEF DeleteHide
  <2> QED BY <1>0, <1>8, <2>1, <2>2 DEF DeleteHide
<1>9. CASE DeleteTombstone(r)
  <2>1. request' \in [Requests -> Request]
        BY <1>1, <1>2, <1>9, ProceedTyped DEF DeleteTombstone, Continue
  <2> QED BY <1>9, <2>1 DEF DeleteTombstone, collection
<1>10. CASE DeletePurge(r)
  <2>1. request' \in [Requests -> Request]
        BY <1>1, <1>2, <1>10, ProceedTyped DEF DeletePurge, Continue
  <2>2. CollectionTyped'
        BY <1>0, <1>10, CallsTyped DEF DeletePurge
  <2> QED BY <1>0, <1>10, <2>1, <2>2 DEF DeletePurge
<1>11. CASE DeleteErase(r)
  <2>1. request' \in [Requests -> Request]
        BY <1>1, <1>2, <1>11, ProceedTyped DEF DeleteErase, Continue
  <2> QED BY <1>11, <2>1 DEF DeleteErase, collection
<1>12. CASE DeleteBury(r)
  <2>1. request' \in [Requests -> Request]
        BY <1>1, <1>12, FinishTyped DEF DeleteBury
  <2> QED BY <1>12, <2>1 DEF DeleteBury, collection
<1> QED BY <1>3, <1>4, <1>5, <1>6, <1>7, <1>8, <1>9, <1>10, <1>11, <1>12
           DEF RequestStep

(* so does a request that begins,                                          *)
LEMMA BeginTyped ==
    ASSUME TypeOK, NEW r \in Requests, RequestBegin(r)
    PROVE  TypeOK'
<1>1. PICK pc \in RequestSteps, u \in Users : Begin(r, pc, u)
      BY OwnerAssumption
         DEF RequestBegin, BeginShare, BeginUnshare, BeginDelete, RequestSteps
<1>2. request' \in [Requests -> Request]
      BY <1>1 DEF Begin, TypeOK, Request
<1> QED BY <1>1, <1>2 DEF Begin, TypeOK, database, collection

(* and so does a crash.                                                    *)
LEMMA CrashTyped ==
    /\ TypeOK
    /\ CrashUpload \/ CrashWorker \/ \E r \in Requests : CrashRequest(r)
    => TypeOK'
<1> SUFFICES ASSUME TypeOK,
                    \/ CrashUpload \/ CrashWorker
                    \/ \E r \in Requests : CrashRequest(r)
             PROVE  TypeOK'
    OBVIOUS
<1> USE DEF TypeOK, database, collection
<1>1. CASE CrashUpload BY <1>1 DEF CrashUpload, UploadSteps
<1>2. CASE CrashWorker BY <1>2 DEF CrashWorker, Worker, WorkerSteps
<1>3. CASE \E r \in Requests : CrashRequest(r)
      BY <1>3, OwnerAssumption
         DEF CrashRequest, Finish, Request, RequestSteps, Idle
<1> QED BY <1>1, <1>2, <1>3

(* Every step keeps the types.                                             *)
LEMMA NextTyped == TypeOK /\ [Next]_vars => TypeOK'
<1> SUFFICES ASSUME TypeOK, [Next]_vars PROVE TypeOK'
    OBVIOUS
<1>1. CASE UNCHANGED vars
      BY <1>1 DEF vars, TypeOK, database, collection
<1> QED BY <1>1, UploadTyped, WorkerTyped, RequestTyped, BeginTyped, CrashTyped
           DEF Next

(* Every variable stays in its type, for every instance.                   *)
THEOREM TypeCorrect == Spec => []TypeOK
BY InitTyped, NextTyped, PTL DEF Spec

-----------------------------------------------------------------------------
(* A finalized deletion leaves nothing searchable.                         *)
(*                                                                         *)
(* DeletedNeverSearchable is not inductive: the purge happens two steps    *)
(* before the row says "deleted", and a publish call may still be on its   *)
(* way.  The strengthening speaks of the time since the purge: from then on*)
(* the lifecycle is past "active", no point is searchable, and a task that *)
(* has read the lifecycle as active -- all its upserts are behind it -- has*)
(* no points left to publish.                                              *)

Purged == \/ lifecycle = "deleted"
          \/ \E r \in Requests : request[r].pc \in {"erase", "bury"}

Tombstoned == \A r \in Requests :
    request[r].pc \in {"purge", "erase", "bury"} =>
        lifecycle \in {"deleting", "deleted"}

NothingLeftToPublish ==
    Purged => /\ searchable = {}
              /\ worker.pc \in {"commit", "publish"} => vectors = {}

Recorded == upload \in {"start", "record"} =>
               /\ lifecycle = "absent"
               /\ \A r \in Requests : request[r].pc = "idle"

ErasureInv == TypeOK /\ Recorded /\ Tombstoned /\ NothingLeftToPublish

(* The invariant of erasure holds at the start.                            *)
LEMMA InitErasure == Init => ErasureInv
<1> SUFFICES ASSUME Init PROVE ErasureInv
    OBVIOUS
<1>1. TypeOK
      BY InitTyped
<1> QED BY <1>1 DEF Init, ErasureInv, Recorded, Tombstoned,
                    NothingLeftToPublish, Purged, Idle

(* The upload keeps it.                                                    *)
LEMMA UploadErasure == ErasureInv /\ UploadStep => ErasureInv'
<1> SUFFICES ASSUME ErasureInv, UploadStep PROVE ErasureInv'
    OBVIOUS
<1>0. TypeOK'
      BY UploadTyped DEF ErasureInv
<1> USE DEF ErasureInv, Recorded, Tombstoned, NothingLeftToPublish, Purged,
            database, collection
<1>1. CASE UploadPut        BY <1>0, <1>1 DEF UploadPut
<1>2. CASE UploadRecord     BY <1>0, <1>2 DEF UploadRecord, TypeOK, Worker
<1>3. CASE UploadCompensate BY <1>0, <1>3 DEF UploadCompensate
<1> QED BY <1>1, <1>2, <1>3 DEF UploadStep

(* The ingestion task keeps it: it publishes only what it confirmed.       *)
LEMMA WorkerErasure == ErasureInv /\ WorkerStep => ErasureInv'
<1> SUFFICES ASSUME ErasureInv, WorkerStep PROVE ErasureInv'
    OBVIOUS
<1>0. TypeOK'
      BY WorkerTyped DEF ErasureInv
<1>00. worker \in Worker
      BY DEF ErasureInv, TypeOK
<1> USE DEF ErasureInv, Recorded, Tombstoned, NothingLeftToPublish, Purged,
            database, collection, Worker
<1>1. CASE WorkerClaim   BY <1>0, <1>00, <1>1 DEF WorkerClaim
<1>2. CASE WorkerRefuse  BY <1>0, <1>00, <1>2 DEF WorkerRefuse
<1>3. CASE WorkerLoad    BY <1>0, <1>00, <1>3 DEF WorkerLoad
<1>4. CASE WorkerUpsert  BY <1>0, <1>00, <1>4 DEF WorkerUpsert, UpsertBatch
<1>5. CASE WorkerIndexed BY <1>0, <1>00, <1>5 DEF WorkerIndexed
<1>6. CASE WorkerConfirm BY <1>0, <1>00, <1>6 DEF WorkerConfirm
<1>7. CASE WorkerCommit  BY <1>0, <1>00, <1>7 DEF WorkerCommit
<1>8. CASE WorkerPublish BY <1>0, <1>00, <1>8 DEF WorkerPublish, SetSearchable
<1>9. CASE WorkerCleanup BY <1>0, <1>00, <1>9 DEF WorkerCleanup, DeletePoints
<1>10. CASE WorkerRecordFailure BY <1>0, <1>00, <1>10 DEF WorkerRecordFailure
<1> QED BY <1>1, <1>2, <1>3, <1>4, <1>5, <1>6, <1>7, <1>8, <1>9, <1>10
        DEF WorkerStep

(* The steps of requests keep it.                                          *)
LEMMA RequestErasure ==
    ASSUME ErasureInv, NEW r \in Requests, RequestStep(r)
    PROVE  ErasureInv'
<1>0. TypeOK'
      BY RequestTyped DEF ErasureInv
<1>00. request \in [Requests -> Request]
      BY DEF ErasureInv, TypeOK
<1> USE DEF ErasureInv, Recorded, Tombstoned, NothingLeftToPublish, Purged,
            database, collection, Request, Proceed, Continue, Finish, Idle
<1>1. CASE ShareGrant(r)      BY <1>0, <1>00, <1>1 DEF ShareGrant
<1>2. CASE ShareWiden(r)      BY <1>0, <1>00, <1>2 DEF ShareWiden, UpdateAccess
<1>3. CASE UnshareSurvey(r)   BY <1>0, <1>00, <1>3 DEF UnshareSurvey
<1>4. CASE UnshareNarrow(r)
      BY <1>0, <1>00, <1>4 DEF UnshareNarrow, UpdateAccess
<1>5. CASE UnshareRevoke(r)   BY <1>0, <1>00, <1>5 DEF UnshareRevoke
<1>6. CASE DeleteHide(r)
  <2>1. /\ UNCHANGED <<lifecycle, vectors, upload, worker>>
        /\ searchable = {} => searchable' = {}
        BY <1>6 DEF DeleteHide, SetSearchable
  <2>2. \A q \in Requests : \/ request'[q] = request[q]
                            \/ request'[q].pc \in {"idle", "tombstone"}
        BY <1>00, <1>6 DEF DeleteHide
  <2> QED BY <1>0, <1>00, <1>6, <2>1, <2>2 DEF DeleteHide
<1>7. CASE DeleteTombstone(r)
  <2>1. /\ UNCHANGED <<vectors, searchable, upload, worker>>
        /\ lifecycle' \in {lifecycle, "deleting"}
        BY <1>7 DEF DeleteTombstone
  <2>2. upload \notin {"start", "record"}
        BY <1>7 DEF DeleteTombstone
  <2>3. \A q \in Requests :
           \/ request'[q] = request[q]
           \/ request'[q].pc = "idle"
           \/ request'[q].pc = "purge" /\ lifecycle' = "deleting"
        BY <1>00, <1>7 DEF DeleteTombstone, Outcomes, Applied
  <2> QED BY <1>0, <1>00, <2>1, <2>2, <2>3
<1>8. CASE DeletePurge(r)
  <2>1. PICK out \in Outcomes("qdrant") :
           /\ IF Applied(out) THEN DeletePoints ELSE UNCHANGED collection
           /\ Proceed(r, out, "erase", request[r].ids)
        BY <1>8 DEF DeletePurge
  <2>2. \/ vectors' = {} /\ searchable' = {}
        \/ out # "ok" /\ UNCHANGED <<vectors, searchable>>
        BY <2>1 DEF Applied, DeletePoints
  <2>3. request[r].pc = "purge" /\ UNCHANGED <<lifecycle, upload, worker>>
        BY <1>8 DEF DeletePurge
  <2>4. \A q \in Requests :
           \/ request'[q] = request[q]
           \/ request'[q].pc = "idle"
           \/ out = "ok" /\ q = r /\ request'[q].pc = "erase"
        BY <1>00, <2>1
  <2> QED BY <1>0, <1>00, <2>2, <2>3, <2>4
<1>9. CASE DeleteErase(r)     BY <1>0, <1>00, <1>9 DEF DeleteErase
<1>10. CASE DeleteBury(r)     BY <1>0, <1>00, <1>10 DEF DeleteBury
<1> QED BY <1>1, <1>2, <1>3, <1>4, <1>5, <1>6, <1>7, <1>8, <1>9, <1>10
        DEF RequestStep

(* Every other step keeps it.                                              *)
LEMMA OthersErasure ==
    ErasureInv /\ [Next]_vars /\ ~UploadStep /\ ~WorkerStep
        /\ ~(\E r \in Requests : RequestStep(r))
    => ErasureInv'
<1> SUFFICES ASSUME ErasureInv, [Next]_vars, ~UploadStep, ~WorkerStep,
                    ~(\E r \in Requests : RequestStep(r))
             PROVE  ErasureInv'
    OBVIOUS
<1>0. TypeOK'
      BY NextTyped DEF ErasureInv
<1>00. request \in [Requests -> Request] /\ worker \in Worker
      BY DEF ErasureInv, TypeOK
<1> USE DEF ErasureInv, Recorded, Tombstoned, NothingLeftToPublish, Purged,
            database, collection, Request, Worker, Idle
<1>1. CASE UNCHANGED vars
      BY <1>0, <1>1 DEF vars
<1>2. CASE \E r \in Requests : RequestBegin(r)
  <2>1. PICK r \in Requests, pc \in {"grant", "survey", "hide"}, u \in Users :
           Begin(r, pc, u)
        BY <1>2, OwnerAssumption
           DEF RequestBegin, BeginShare, BeginUnshare, BeginDelete
  <2> QED BY <1>0, <1>00, <2>1 DEF Begin
<1>3. CASE CrashUpload
      BY <1>0, <1>3 DEF CrashUpload
<1>4. CASE CrashWorker
      BY <1>0, <1>00, <1>4 DEF CrashWorker
<1>5. CASE \E r \in Requests : CrashRequest(r)
      BY <1>0, <1>00, <1>5 DEF CrashRequest, Finish
<1> QED BY <1>1, <1>2, <1>3, <1>4, <1>5 DEF Next

(* No vector of a finalized deletion can match a query.                    *)
THEOREM DeletionIsFinal == Spec => []DeletedNeverSearchable
<1>1. ErasureInv /\ [Next]_vars => ErasureInv'
      BY UploadErasure, WorkerErasure, RequestErasure, OthersErasure
<1>2. ErasureInv => DeletedNeverSearchable
      BY DEF ErasureInv, NothingLeftToPublish, Purged, DeletedNeverSearchable
<1> QED BY InitErasure, <1>1, <1>2, PTL DEF Spec

-----------------------------------------------------------------------------
(* The stored object against the document row.                            *)

(* The upload request holds the object until its row is written; requests  *)
(* need a row.  With acknowledged commits the compensating delete runs only*)
(* while there is no row.                                                  *)
UploadHolds ==
    /\ upload = "record" => object
    /\ upload = "start" => ~object
    /\ lifecycle = "absent" => \A r \in Requests : request[r].pc = "idle"
    /\ "db" \notin env.losing /\ upload = "compensate" => lifecycle = "absent"

(* With an object store that answers, the end of the upload and the end of *)
(* an erasure are what they seem.                                          *)
Erased ==
    Reliable({"objects"}) =>
        /\ upload = "over" /\ lifecycle = "absent" => ~object
        /\ lifecycle = "deleted" => ~object
        /\ \A r \in Requests : request[r].pc = "bury" => ~object

StorageInv == ErasureInv /\ UploadHolds /\ Erased /\ ActiveHasObject

(* The invariant of storage holds at the start.                            *)
LEMMA InitStorage == Init => StorageInv
<1> SUFFICES ASSUME Init PROVE StorageInv
    OBVIOUS
<1>1. ErasureInv
      BY InitErasure
<1> QED BY <1>1 DEF Init, StorageInv, UploadHolds, Erased, ActiveHasObject, Idle

(* The upload keeps it,                                                    *)
LEMMA UploadStorage == StorageInv /\ UploadStep => StorageInv'
<1> SUFFICES ASSUME StorageInv, UploadStep PROVE StorageInv'
    OBVIOUS
<1>0. ErasureInv' /\ Recorded
      BY UploadErasure DEF StorageInv, ErasureInv
<1> USE DEF StorageInv, UploadHolds, Erased, ActiveHasObject, Recorded,
            Reliable, Outcomes, Applied, database
<1>1. CASE UploadPut        BY <1>0, <1>1 DEF UploadPut
<1>2. CASE UploadRecord     BY <1>0, <1>2 DEF UploadRecord
<1>3. CASE UploadCompensate BY <1>0, <1>3 DEF UploadCompensate
<1> QED BY <1>1, <1>2, <1>3 DEF UploadStep

(* Ingestion and crashes touch neither the row's lifecycle nor the object. *)
LEMMA WorkerEffect ==
    WorkerStep => UNCHANGED <<env, lifecycle, object, upload, request>>
<1> SUFFICES ASSUME WorkerStep
             PROVE  UNCHANGED <<env, lifecycle, object, upload, request>>
    OBVIOUS
<1> QED BY DEF WorkerStep, WorkerClaim, WorkerRefuse, WorkerLoad, WorkerUpsert,
               WorkerIndexed, WorkerConfirm, WorkerCommit, WorkerPublish,
               WorkerCleanup, WorkerRecordFailure, database

(* the steps of requests keep it,                                          *)
LEMMA RequestStorage ==
    ASSUME StorageInv, NEW r \in Requests, RequestStep(r)
    PROVE  StorageInv'
<1>0. ErasureInv' /\ request \in [Requests -> Request] /\ Tombstoned
      BY RequestErasure DEF StorageInv, ErasureInv, TypeOK
<1>1. /\ lifecycle # "absent" /\ UNCHANGED <<env, upload>>
  <2>1. request[r].pc # "idle" /\ UNCHANGED <<env, upload>>
    <3>1. request[r].pc # "idle"
          BY DEF RequestStep, ShareGrant, ShareWiden, UnshareSurvey,
                 UnshareNarrow, UnshareRevoke, DeleteHide, DeleteTombstone,
                 DeletePurge, DeleteErase, DeleteBury
    <3>2. UNCHANGED <<env, upload>>
          BY DEF RequestStep, ShareGrant, ShareWiden, UnshareSurvey,
                 UnshareNarrow, UnshareRevoke, DeleteHide, DeleteTombstone,
                 DeletePurge, DeleteErase, DeleteBury
    <3> QED BY <3>1, <3>2
  <2> QED BY <2>1 DEF StorageInv, UploadHolds
<1>2. \A q \in Requests : q # r => request'[q] = request[q]
      BY <1>0
      DEF RequestStep, ShareGrant, ShareWiden, UnshareSurvey, UnshareNarrow,
          UnshareRevoke, DeleteHide, DeleteTombstone, DeletePurge,
          DeleteErase, DeleteBury, Proceed, Continue, Finish
<1> USE DEF StorageInv, UploadHolds, Erased, ActiveHasObject
<1>3. CASE DeleteErase(r)
  <2>1. UNCHANGED lifecycle /\ lifecycle # "active" /\ (~object => ~object')
        BY <1>0, <1>3 DEF DeleteErase, Tombstoned, database
  <2>2. Reliable({"objects"}) => ~object'
        BY <1>3 DEF DeleteErase, Reliable, Outcomes, Applied
  <2>3. upload # "record"
        BY <1>1, <1>0 DEF ErasureInv, Recorded
  <2> QED BY <1>0, <1>1, <1>2, <2>1, <2>2, <2>3 DEF Reliable
<1>4. CASE DeleteTombstone(r)
  <2>1. UNCHANGED object /\ lifecycle' \in {lifecycle, "deleting"}
        BY <1>4 DEF DeleteTombstone
  <2>2. request'[r].pc # "bury"
        BY <1>0, <1>4 DEF DeleteTombstone, Continue, Proceed, Idle
  <2>3. "db" \notin env.losing => upload # "compensate"
        BY <1>1
  <2> QED BY <1>0, <1>1, <1>2, <2>1, <2>2, <2>3 DEF Reliable
<1>5. CASE DeleteBury(r)
  <2>1. UNCHANGED object /\ lifecycle' \in {lifecycle, "deleted"}
        BY <1>5 DEF DeleteBury
  <2>2. request[r].pc = "bury" /\ request'[r].pc # "bury"
        BY <1>0, <1>5 DEF DeleteBury, Finish, Idle
  <2>3. "db" \notin env.losing => upload # "compensate"
        BY <1>1
  <2> QED BY <1>0, <1>1, <1>2, <2>1, <2>2, <2>3 DEF Reliable
<1>6. CASE ~DeleteErase(r) /\ ~DeleteTombstone(r) /\ ~DeleteBury(r)
  <2>1. UNCHANGED <<lifecycle, object>>
        BY <1>6 DEF RequestStep, ShareGrant, ShareWiden, UnshareSurvey,
                    UnshareNarrow, UnshareRevoke, DeleteHide, DeletePurge,
                    database
  <2>2. request'[r].pc # "bury"
    <3> USE DEF Proceed, Continue, Finish, Idle
    <3>1. CASE ShareGrant(r)    BY <1>0, <3>1 DEF ShareGrant
    <3>2. CASE ShareWiden(r)    BY <1>0, <3>2 DEF ShareWiden
    <3>3. CASE UnshareSurvey(r) BY <1>0, <3>3 DEF UnshareSurvey
    <3>4. CASE UnshareNarrow(r) BY <1>0, <3>4 DEF UnshareNarrow
    <3>5. CASE UnshareRevoke(r) BY <1>0, <3>5 DEF UnshareRevoke
    <3>6. CASE DeleteHide(r)    BY <1>0, <3>6 DEF DeleteHide
    <3>7. CASE DeletePurge(r)   BY <1>0, <3>7 DEF DeletePurge
    <3> QED BY <1>6, <3>1, <3>2, <3>3, <3>4, <3>5, <3>6, <3>7
            DEF RequestStep
  <2> QED BY <1>0, <1>1, <1>2, <2>1, <2>2 DEF Reliable
<1> QED BY <1>3, <1>4, <1>5, <1>6

(* and every other step does.                                              *)
LEMMA OthersStorage ==
    StorageInv /\ [Next]_vars /\ ~UploadStep
        /\ ~(\E r \in Requests : RequestStep(r))
    => StorageInv'
<1> SUFFICES ASSUME StorageInv, [Next]_vars, ~UploadStep,
                    ~(\E r \in Requests : RequestStep(r))
             PROVE  StorageInv'
    OBVIOUS
<1>0. ErasureInv' /\ request \in [Requests -> Request]
      BY WorkerErasure, OthersErasure DEF StorageInv, ErasureInv, TypeOK
<1> USE DEF StorageInv, UploadHolds, Erased, ActiveHasObject, Reliable
<1>1. CASE UNCHANGED vars
      BY <1>0, <1>1 DEF vars, database
<1>2. CASE WorkerStep
      BY <1>0, <1>2, WorkerEffect
<1>3. CASE \E r \in Requests : RequestBegin(r)
  <2>1. PICK r \in Requests, pc \in {"grant", "survey", "hide"}, u \in Users :
           Begin(r, pc, u)
        BY <1>3, OwnerAssumption
           DEF RequestBegin, BeginShare, BeginUnshare, BeginDelete
  <2> QED BY <1>0, <2>1 DEF Begin, database
<1>4. CASE CrashUpload
      BY <1>0, <1>4 DEF CrashUpload, database
<1>5. CASE CrashWorker
      BY <1>0, <1>5 DEF CrashWorker, database
<1>6. CASE \E r \in Requests : CrashRequest(r)
      BY <1>0, <1>6 DEF CrashRequest, Finish, Idle, database
<1> QED BY <1>1, <1>2, <1>3, <1>4, <1>5, <1>6 DEF Next

(* So it is inductive.                                                     *)
LEMMA StorageInductive == StorageInv /\ [Next]_vars => StorageInv'
BY UploadStorage, RequestStorage, OthersStorage

(* An active row leads to stored bytes, unless a commit goes unacknowledged.*)
THEOREM ActiveRowHasObject == Spec => []ActiveHasObject
<1>1. StorageInv => ActiveHasObject
      BY DEF StorageInv
<1> QED BY InitStorage, StorageInductive, <1>1, PTL DEF Spec

(* No stored object outlives every row that leads to it, if the object     *)
(* store answers.                                                          *)
THEOREM ObjectHasRow == Spec => []NoOrphanObject
<1>1. StorageInv => NoOrphanObject
      BY DEF StorageInv, ErasureInv, TypeOK, Erased, NoOrphanObject
<1> QED BY InitStorage, StorageInductive, <1>1, PTL DEF Spec

-----------------------------------------------------------------------------
(* Publication.  While the row is active nothing deletes points, so the    *)
(* task's counter says exactly which batches are there; once it is not,    *)
(* the confirming read stops the task.  From the commit on, the points are *)
(* all there or a purge has removed them all.                              *)

UpsertedSoFar ==
    /\ worker.next \in 1..(NBatches + 1)
    /\ worker.pc \in {"none", "claim", "load"} => worker.next = 1
    /\ worker.pc = "index" /\ lifecycle = "active"
          => vectors = 1..(worker.next - 1)
    /\ worker.pc = "confirm" /\ lifecycle = "active" => vectors = Batches
    /\ worker.pc \in {"none", "claim", "load"} => vectors = {}

AllOrPurged ==
    /\ worker.pc \in {"commit", "publish"} => vectors \in {{}, Batches}
    /\ worker.pc \in {"commit", "publish"} /\ lifecycle = "active"
          => vectors = Batches
    /\ worker.pc = "publish" => job = "completed"
    /\ worker.pc = "publish" /\ vectors # {} => chunkRows

NothingPublishedYet ==
    /\ worker.pc \notin {"cleanup", "recordFailure", "over"}
          => searchable = {}
    /\ "qdrant" \notin env.losing /\ worker.pc # "over" => searchable = {}

PublicationInv ==
    /\ ErasureInv
    /\ upload \in {"start", "record"} => worker.pc = "none"
    /\ UpsertedSoFar
    /\ AllOrPurged
    /\ NothingPublishedYet
    /\ SearchableIsCompleted

(* The invariant of publication holds at the start.                        *)
LEMMA InitPublication == Init => PublicationInv
<1> SUFFICES ASSUME Init PROVE PublicationInv
    OBVIOUS
<1>1. ErasureInv
      BY InitErasure
<1> QED BY <1>1, BatchAssumption
           DEF Init, PublicationInv, UpsertedSoFar, AllOrPurged,
               NothingPublishedYet, SearchableIsCompleted

(* The upload keeps it,                                                    *)
LEMMA UploadPublication == PublicationInv /\ UploadStep => PublicationInv'
<1> SUFFICES ASSUME PublicationInv, UploadStep PROVE PublicationInv'
    OBVIOUS
<1>0. ErasureInv' /\ worker \in Worker /\ Recorded
      BY UploadErasure DEF PublicationInv, ErasureInv, TypeOK
<1> USE DEF PublicationInv, UpsertedSoFar, AllOrPurged, NothingPublishedYet,
            SearchableIsCompleted, Recorded, Worker, database, collection
<1>1. CASE UploadPut        BY <1>0, <1>1 DEF UploadPut
<1>2. CASE UploadRecord     BY <1>0, <1>2 DEF UploadRecord
<1>3. CASE UploadCompensate BY <1>0, <1>3 DEF UploadCompensate
<1> QED BY <1>1, <1>2, <1>3 DEF UploadStep

(* the ingestion task keeps it,                                            *)
LEMMA WorkerPublication == PublicationInv /\ WorkerStep => PublicationInv'
<1> SUFFICES ASSUME PublicationInv, WorkerStep PROVE PublicationInv'
    OBVIOUS
<1>0. ErasureInv' /\ worker \in Worker /\ vectors \in SUBSET Batches
      BY WorkerErasure DEF PublicationInv, ErasureInv, TypeOK
<1>00. upload \in {"start", "record"} => worker.pc = "none"
      BY DEF PublicationInv
<1> USE DEF PublicationInv, UpsertedSoFar, AllOrPurged, NothingPublishedYet,
            SearchableIsCompleted, Worker, database, collection
<1>1. CASE WorkerClaim   BY <1>0, <1>00, <1>1 DEF WorkerClaim
<1>2. CASE WorkerRefuse  BY <1>0, <1>00, <1>2 DEF WorkerRefuse
<1>3. CASE WorkerLoad
  <2>1. /\ worker.pc = "load" /\ worker.next = 1 /\ vectors = {}
        /\ worker'.next = 1 /\ worker'.pc \in {"index", "cleanup"}
        /\ UNCHANGED <<env, lifecycle, job, upload, vectors, searchable>>
        BY <1>0, <1>3 DEF WorkerLoad
  <2>2. 1..(1 - 1) = {}
        OBVIOUS
  <2> QED BY <1>0, <1>00, <2>1, <2>2
<1>4. CASE WorkerUpsert
  <2>1. PICK out \in Outcomes("qdrant") :
           /\ IF Applied(out) THEN UpsertBatch(worker.next, worker.audience)
                              ELSE UNCHANGED collection
           /\ worker' = IF out = "ok"
                        THEN [worker EXCEPT !.next = @ + 1]
                        ELSE [worker EXCEPT !.pc = "cleanup"]
        BY <1>4 DEF WorkerUpsert
  <2>2. /\ worker.pc = "index" /\ worker.next \in Batches /\ searchable = {}
        /\ UNCHANGED <<env, lifecycle, job, upload>>
        BY <1>4 DEF WorkerUpsert
  <2>3. searchable' = {}
        BY <2>1, <2>2 DEF UpsertBatch
  <2>4. CASE out = "ok"
    <3>1. worker'.pc = "index" /\ worker'.next = worker.next + 1
          BY <1>0, <2>1, <2>2, <2>4
    <3>2. vectors' = vectors \cup {worker.next}
          BY <2>1, <2>4 DEF Applied, UpsertBatch
    <3>3. worker'.next \in 1..(NBatches + 1)
          BY <2>2, <3>1, BatchAssumption DEF Batches
    <3>4. vectors = 1..(worker.next - 1) => vectors' = 1..(worker'.next - 1)
          BY <2>2, <3>1, <3>2, BatchAssumption DEF Batches
    <3> QED BY <1>0, <1>00, <2>2, <2>3, <3>1, <3>3, <3>4
  <2>5. CASE out # "ok"
        BY <1>0, <1>00, <2>1, <2>2, <2>3, <2>5
  <2> QED BY <2>4, <2>5
<1>5. CASE WorkerIndexed
      BY <1>0, <1>00, <1>5, BatchAssumption DEF WorkerIndexed, Batches
<1>6. CASE WorkerConfirm BY <1>0, <1>00, <1>6 DEF WorkerConfirm
<1>7. CASE WorkerCommit
      BY <1>0, <1>00, <1>7 DEF WorkerCommit, Applied
<1>8. CASE WorkerPublish
      BY <1>0, <1>00, <1>8
         DEF WorkerPublish, SetSearchable, Applied, Outcomes
<1>9. CASE WorkerCleanup
      BY <1>0, <1>00, <1>9 DEF WorkerCleanup, DeletePoints
<1>10. CASE WorkerRecordFailure
      BY <1>0, <1>00, <1>10 DEF WorkerRecordFailure
<1> QED BY <1>1, <1>2, <1>3, <1>4, <1>5, <1>6, <1>7, <1>8, <1>9, <1>10
        DEF WorkerStep

(* What the owner's requests may do to the state of the ingestion: they    *)
(* never make a point searchable, and they take points away only from a    *)
(* document that is tombstoned.                                            *)
LEMMA RequestEffect ==
    ASSUME ErasureInv, NEW r \in Requests, RequestStep(r)
    PROVE  /\ UNCHANGED <<env, job, upload, worker>>
           /\ lifecycle' = "active" => lifecycle = "active"
           /\ searchable' \in {searchable, {}}
           /\ vectors' # vectors => vectors' = {} /\ lifecycle' # "active"
           /\ chunkRows' # chunkRows => vectors' = {} \/
                 worker.pc \notin {"commit", "publish"}
<1>0. request \in [Requests -> Request] /\ Tombstoned /\ NothingLeftToPublish
      BY DEF ErasureInv, TypeOK
<1> USE DEF database, collection
<1>1. CASE ShareGrant(r)      BY <1>1 DEF ShareGrant
<1>2. CASE ShareWiden(r)      BY <1>2 DEF ShareWiden, UpdateAccess
<1>3. CASE UnshareSurvey(r)   BY <1>3 DEF UnshareSurvey
<1>4. CASE UnshareNarrow(r)   BY <1>4 DEF UnshareNarrow, UpdateAccess
<1>5. CASE UnshareRevoke(r)   BY <1>5 DEF UnshareRevoke
<1>6. CASE DeleteHide(r)      BY <1>6 DEF DeleteHide, SetSearchable
<1>7. CASE DeleteTombstone(r) BY <1>7 DEF DeleteTombstone
<1>8. CASE DeletePurge(r)
      BY <1>0, <1>8 DEF DeletePurge, DeletePoints, Tombstoned
<1>9. CASE DeleteErase(r)     BY <1>9 DEF DeleteErase
<1>10. CASE DeleteBury(r)
      BY <1>0, <1>10 DEF DeleteBury, NothingLeftToPublish, Purged
<1> QED BY <1>1, <1>2, <1>3, <1>4, <1>5, <1>6, <1>7, <1>8, <1>9, <1>10
        DEF RequestStep

(* the steps of requests keep it,                                          *)
LEMMA RequestPublication ==
    ASSUME PublicationInv, NEW r \in Requests, RequestStep(r)
    PROVE  PublicationInv'
<1>1. ErasureInv /\ ErasureInv'
      BY RequestErasure DEF PublicationInv
<1> QED BY <1>1, RequestEffect
           DEF PublicationInv, UpsertedSoFar, AllOrPurged,
               NothingPublishedYet, SearchableIsCompleted

(* and every other step does.                                              *)
LEMMA OthersPublication ==
    PublicationInv /\ [Next]_vars /\ ~UploadStep /\ ~WorkerStep
        /\ ~(\E r \in Requests : RequestStep(r))
    => PublicationInv'
<1> SUFFICES ASSUME PublicationInv, [Next]_vars, ~UploadStep, ~WorkerStep,
                    ~(\E r \in Requests : RequestStep(r))
             PROVE  PublicationInv'
    OBVIOUS
<1>0. ErasureInv' /\ worker \in Worker
      BY OthersErasure DEF PublicationInv, ErasureInv, TypeOK
<1>1. /\ UNCHANGED <<env, lifecycle, job, chunkRows, vectors, searchable>>
      /\ \/ UNCHANGED <<upload, worker>>
         \/ upload' = "over" /\ UNCHANGED worker
         \/ /\ worker.pc \notin {"none", "over"}
            /\ worker' = [worker EXCEPT !.pc = "over"]
            /\ UNCHANGED upload
  <2> USE DEF database, collection
  <2>1. CASE UNCHANGED vars
        BY <2>1 DEF vars
  <2>2. CASE \E r \in Requests : RequestBegin(r)
        BY <2>2 DEF RequestBegin, BeginShare, BeginUnshare, BeginDelete, Begin
  <2>3. CASE CrashUpload
        BY <2>3 DEF CrashUpload
  <2>4. CASE CrashWorker
        BY <2>4 DEF CrashWorker
  <2>5. CASE \E r \in Requests : CrashRequest(r)
        BY <2>5 DEF CrashRequest
  <2> QED BY <2>1, <2>2, <2>3, <2>4, <2>5 DEF Next
<1> QED BY <1>0, <1>1
           DEF PublicationInv, UpsertedSoFar, AllOrPurged,
               NothingPublishedYet, SearchableIsCompleted, Worker

(* So it is inductive.                                                     *)
LEMMA PublicationInductive == PublicationInv /\ [Next]_vars => PublicationInv'
BY UploadPublication, WorkerPublication, RequestPublication, OthersPublication

(* Only a completed job has searchable points, unless Qdrant loses answers.*)
THEOREM OnlyCompletedIsSearchable == Spec => []SearchableIsCompleted
<1>1. PublicationInv => SearchableIsCompleted
      BY DEF PublicationInv
<1> QED BY InitPublication, PublicationInductive, <1>1, PTL DEF Spec

(* A document appears to search whole, with its job and chunk rows done.   *)
THEOREM AppearsWhole == Spec => PublishedWhole
<1> DEFINE Whole == searchable = {} /\ searchable' # {} =>
                       /\ searchable' = Batches
                       /\ chunkRows' /\ job' = "completed"
<1>1. ASSUME PublicationInv, [Next]_vars PROVE [Whole]_vars
  <2>1. CASE WorkerPublish
    <3>1. searchable' \in {searchable, vectors}
          BY <2>1 DEF WorkerPublish, SetSearchable, collection
    <3>2. worker.pc = "publish" /\ UNCHANGED <<job, chunkRows>>
          BY <2>1 DEF WorkerPublish, database
    <3> QED BY <1>1, <3>1, <3>2 DEF PublicationInv, AllOrPurged
  <2>2. CASE WorkerStep /\ ~WorkerPublish
    <3>1. searchable' \subseteq searchable
          BY <2>2
             DEF WorkerStep, WorkerClaim, WorkerRefuse, WorkerLoad,
                 WorkerUpsert, UpsertBatch, WorkerIndexed, WorkerConfirm,
                 WorkerCommit, WorkerCleanup, DeletePoints,
                 WorkerRecordFailure, collection
    <3> QED BY <3>1
  <2>3. CASE UploadStep
    <3>1. searchable' = searchable
          BY <2>3 DEF UploadStep, UploadPut, UploadRecord, UploadCompensate,
                      collection
    <3> QED BY <3>1
  <2>4. CASE \E r \in Requests : RequestStep(r)
    <3>1. searchable' \in {searchable, {}}
          BY <1>1, <2>4, RequestEffect DEF PublicationInv
    <3> QED BY <3>1
  <2>5. CASE ~UploadStep /\ ~WorkerStep /\ ~\E r \in Requests : RequestStep(r)
    <3>1. searchable' = searchable
          BY <1>1, <2>5
             DEF Next, RequestBegin, BeginShare, BeginUnshare, BeginDelete,
                 Begin, CrashUpload, CrashWorker, CrashRequest, vars,
                 collection
    <3> QED BY <3>1
  <2> QED BY <2>1, <2>2, <2>3, <2>4, <2>5
<1>2. Spec => [][Whole]_vars
      BY InitPublication, PublicationInductive, <1>1, PTL DEF Spec
<1> QED BY <1>2 DEF PublishedWhole

-----------------------------------------------------------------------------
(* A completed document can be found, when PostgreSQL answers, no answer is*)
(* lost and no process stops.  The property is inductive over              *)
(* PublicationInv.                                                         *)

Answering == "db" \notin env.failing /\ env.losing = {} /\ ~env.crashes

(* Completeness is kept by the ingestion task,                             *)
LEMMA WorkerCompletes ==
    PublicationInv /\ CompletedIsSearchable /\ WorkerStep
        => CompletedIsSearchable'
<1> SUFFICES ASSUME PublicationInv, WorkerStep, Answering',
                    worker'.pc = "over", job' = "completed",
                    lifecycle' = "active"
             PROVE  searchable' = Batches
    BY DEF CompletedIsSearchable, Answering
<1>0. worker \in Worker
      BY DEF PublicationInv, ErasureInv, TypeOK
<1> USE DEF Worker, database
<1>1. Outcomes("db") = {"ok"} /\ ~("lost" \in Outcomes("qdrant"))
  <2>1. env' = env
        BY DEF WorkerStep, WorkerClaim, WorkerRefuse, WorkerLoad,
               WorkerUpsert, WorkerIndexed, WorkerConfirm, WorkerCommit,
               WorkerPublish, WorkerCleanup, WorkerRecordFailure
  <2> QED BY <2>1 DEF Answering, Outcomes
<1>2. CASE WorkerPublish
      BY <1>0, <1>1, <1>2
         DEF WorkerPublish, SetSearchable, Applied, Outcomes, PublicationInv,
             AllOrPurged
<1>3. CASE WorkerRefuse
      BY <1>0, <1>1, <1>3 DEF WorkerRefuse, Applied
<1>4. CASE WorkerRecordFailure
      BY <1>0, <1>1, <1>4 DEF WorkerRecordFailure, Applied
<1>5. CASE ~WorkerPublish /\ ~WorkerRefuse /\ ~WorkerRecordFailure
      BY <1>0, <1>5
         DEF WorkerStep, WorkerClaim, WorkerLoad, WorkerUpsert, WorkerIndexed,
             WorkerConfirm, WorkerCommit, WorkerCleanup
<1> QED BY <1>2, <1>3, <1>4, <1>5

(* by the steps of requests,                                               *)
LEMMA RequestCompletes ==
    ASSUME PublicationInv, CompletedIsSearchable, NEW r \in Requests,
           RequestStep(r)
    PROVE  CompletedIsSearchable'
<1> SUFFICES ASSUME Answering', worker'.pc = "over", job' = "completed",
                    lifecycle' = "active",
                    \A q \in Requests : request'[q].pc # "tombstone"
             PROVE  searchable' = Batches
    BY DEF CompletedIsSearchable, Answering
<1>0. /\ request \in [Requests -> Request]
      /\ UNCHANGED <<env, job, worker>> /\ lifecycle = "active"
      BY RequestEffect DEF PublicationInv, ErasureInv, TypeOK
<1>1. Outcomes("db") = {"ok"} /\ ~("lost" \in Outcomes("qdrant"))
      BY <1>0 DEF Answering, Outcomes
<1>2. \A q \in Requests : q # r => request'[q] = request[q]
      BY <1>0
      DEF RequestStep, ShareGrant, ShareWiden, UnshareSurvey, UnshareNarrow,
          UnshareRevoke, DeleteHide, DeleteTombstone, DeletePurge,
          DeleteErase, DeleteBury, Proceed, Continue, Finish
<1>3. request[r].pc # "tombstone" /\ searchable' = searchable
  <2> USE DEF collection
  <2>1. CASE DeleteHide(r)
    <3>1. PICK out \in Outcomes("qdrant") :
             /\ IF Applied(out) THEN SetSearchable(FALSE)
                                ELSE UNCHANGED collection
             /\ Proceed(r, out, "tombstone", request[r].ids)
          BY <2>1 DEF DeleteHide, Continue
    <3>2. out # "ok"
          BY <1>0, <3>1 DEF Proceed
    <3>3. out = "error"
          BY <1>1, <3>2 DEF Outcomes
    <3>4. searchable' = searchable
          BY <3>1, <3>3 DEF Applied
    <3> QED BY <2>1, <3>4 DEF DeleteHide
  <2>2. CASE DeleteTombstone(r)
        BY <1>0, <1>1, <2>2 DEF DeleteTombstone, Applied
  <2>3. CASE DeletePurge(r)
        BY <1>0, <2>3
           DEF DeletePurge, PublicationInv, ErasureInv, Tombstoned
  <2>4. CASE ~DeleteHide(r) /\ ~DeleteTombstone(r) /\ ~DeletePurge(r)
        BY <2>4 DEF RequestStep, ShareGrant, ShareWiden, UpdateAccess,
                    UnshareSurvey, UnshareNarrow, UnshareRevoke, DeleteErase,
                    DeleteBury
  <2> QED BY <2>1, <2>2, <2>3, <2>4
<1>4. \A q \in Requests : request[q].pc # "tombstone"
      BY <1>2, <1>3
<1> QED BY <1>0, <1>3, <1>4 DEF CompletedIsSearchable, Answering

(* and by every other step.                                                *)
LEMMA OthersComplete ==
    PublicationInv /\ CompletedIsSearchable /\ [Next]_vars /\ ~WorkerStep
        /\ ~(\E r \in Requests : RequestStep(r))
    => CompletedIsSearchable'
<1> SUFFICES ASSUME PublicationInv, CompletedIsSearchable, [Next]_vars,
                    ~WorkerStep, ~(\E r \in Requests : RequestStep(r)),
                    Answering', worker'.pc = "over", job' = "completed",
                    lifecycle' = "active",
                    \A q \in Requests : request'[q].pc # "tombstone"
             PROVE  searchable' = Batches
    BY DEF CompletedIsSearchable, Answering
<1>0. request \in [Requests -> Request] /\ worker \in Worker
      BY DEF PublicationInv, ErasureInv, TypeOK
<1> USE DEF database, collection
<1>1. CASE UNCHANGED vars
      BY <1>1 DEF vars, CompletedIsSearchable, Answering
<1>2. CASE UploadStep
      BY <1>0, <1>2
         DEF UploadStep, UploadPut, UploadRecord, UploadCompensate, Worker,
             PublicationInv, CompletedIsSearchable, Answering
<1>3. CASE \E r \in Requests : RequestBegin(r)
  <2>1. PICK r \in Requests, pc \in {"grant", "survey", "hide"}, u \in Users :
           Begin(r, pc, u)
        BY <1>3, OwnerAssumption
           DEF RequestBegin, BeginShare, BeginUnshare, BeginDelete
  <2>2. \A q \in Requests : request[q].pc # "tombstone"
        BY <1>0, <2>1 DEF Begin
  <2> QED BY <2>1, <2>2 DEF Begin, CompletedIsSearchable, Answering
<1>4. ~CrashUpload /\ ~CrashWorker /\ ~\E r \in Requests : CrashRequest(r)
      BY DEF CrashUpload, CrashWorker, CrashRequest, Answering
<1> QED BY <1>1, <1>2, <1>3, <1>4 DEF Next

(* A completed job of an active document means all its points are found.   *)
THEOREM CompletedCanBeFound == Spec => []CompletedIsSearchable
<1>1. Init => CompletedIsSearchable
      BY DEF Init, CompletedIsSearchable
<1>2. PublicationInv /\ CompletedIsSearchable /\ [Next]_vars
         => CompletedIsSearchable'
      BY WorkerCompletes, RequestCompletes, OthersComplete
<1> QED BY InitPublication, PublicationInductive, <1>1, <1>2, PTL DEF Spec
=============================================================================
