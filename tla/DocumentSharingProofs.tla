----------------------- MODULE DocumentSharingProofs -----------------------
(* Grants in PostgreSQL against access_subjects in Qdrant and against the  *)
(* visibility flag, for owner requests handled one at a time: proofs about *)
(* DocumentLifecycle.                                                      *)
EXTENDS DocumentLifecycleProofs, DocumentAccess

Granted(ids) == \A b \in vectors : subjects[b] \subseteq
                                      {Owner} \cup ids \cup worker.audience

OneAtATime == \A q, r \in Requests :
    request[q].pc # "idle" /\ request[r].pc # "idle" => q = r

(* What a request remembers is still so: nobody else writes the grants.    *)
(* Between narrowing and revoking, Qdrant is within what will be left.     *)
Remembered(r) ==
    /\ request[r].pc = "widen" => request[r].ids \subseteq shares
    /\ request[r].pc \in {"narrow", "revoke"} =>
          request[r].ids = shares \ {request[r].user}
    /\ request[r].pc = "revoke" => Granted(request[r].ids)

SharingInv ==
    /\ TypeOK
    /\ upload \in {"start", "record"} => worker.pc = "none"
    /\ env.serial =>
          /\ OneAtATime
          /\ \A r \in Requests : Remembered(r)
          /\ Granted(shares)
          /\ visibility = "private" => shares = {}
          /\ worker.pc \in {"none", "claim", "load"} => vectors = {}

(* The invariant of sharing holds at the start.                            *)
LEMMA InitSharing == Init => SharingInv
<1> SUFFICES ASSUME Init PROVE SharingInv
    OBVIOUS
<1>1. TypeOK
      BY InitTyped
<1> QED BY <1>1 DEF Init, SharingInv, OneAtATime, Remembered, Granted, Idle

(* Steps that keep the collection within what was granted.                 *)
LEMMA WorkerSharing == SharingInv /\ WorkerStep => SharingInv'
<1> SUFFICES ASSUME SharingInv, WorkerStep, env.serial PROVE SharingInv'
  <2>1. SharingInv /\ WorkerStep => TypeOK'
        BY WorkerTyped DEF SharingInv
  <2>2. WorkerStep => /\ env' = env /\ upload' = upload
                      /\ worker.pc # "none"
        BY
        DEF WorkerStep, WorkerClaim, WorkerRefuse, WorkerLoad,
            WorkerUpsert, WorkerIndexed, WorkerConfirm, WorkerCommit,
            WorkerPublish, WorkerCleanup, WorkerRecordFailure
  <2> QED BY <2>1, <2>2 DEF SharingInv
<1>0. /\ TypeOK' /\ worker \in Worker
      /\ vectors \in SUBSET Batches
      /\ subjects \in [Batches -> SUBSET Users]
      BY WorkerTyped DEF SharingInv, TypeOK
<1>1. /\ worker.pc # "none"
      /\ UNCHANGED <<env, visibility, shares, request, upload>>
      BY DEF WorkerStep, WorkerClaim, WorkerRefuse, WorkerLoad, WorkerUpsert,
             WorkerIndexed, WorkerConfirm, WorkerCommit, WorkerPublish,
             WorkerCleanup, WorkerRecordFailure, database
<1>2. worker'.pc \in {"none", "claim", "load"} => vectors' = {}
      BY <1>0 DEF SharingInv, WorkerStep, WorkerClaim, WorkerRefuse,
             WorkerLoad, WorkerUpsert, WorkerIndexed, WorkerConfirm,
             WorkerCommit, WorkerPublish, WorkerCleanup, WorkerRecordFailure,
             Worker, collection
<1>3. ASSUME NEW ids, Granted(ids) PROVE Granted(ids)'
  <2>1. CASE WorkerClaim
        BY <2>1 DEF WorkerClaim, SharingInv, Granted, collection
  <2>2. CASE WorkerUpsert
    <3>1. /\ worker'.audience = worker.audience
          /\ vectors' \subseteq vectors \cup {worker.next}
          /\ \A b \in vectors' : \/ b \in vectors /\ subjects'[b] = subjects[b]
                                 \/ subjects'[b] = {Owner} \cup worker.audience
      <4>1. PICK out \in Outcomes("qdrant") :
               /\ \/ UpsertBatch(worker.next, worker.audience)
                  \/ UNCHANGED collection
               /\ worker' \in {[worker EXCEPT !.next = @ + 1],
                               [worker EXCEPT !.pc = "cleanup"]}
            BY <2>2 DEF WorkerUpsert
      <4>2. worker'.audience = worker.audience
            BY <1>0, <4>1 DEF Worker
      <4>3. CASE UpsertBatch(worker.next, worker.audience)
        <5>1. vectors' = vectors \cup {worker.next}
              BY <4>3 DEF UpsertBatch
        <5>2. \A b \in Batches :
                 subjects'[b] = IF b = worker.next
                                THEN {Owner} \cup worker.audience
                                ELSE subjects[b]
              BY <1>0, <4>3 DEF UpsertBatch
        <5>3. worker.next \in Batches
              BY <2>2 DEF WorkerUpsert
        <5> QED BY <1>0, <4>2, <5>1, <5>2, <5>3
      <4>4. CASE UNCHANGED collection
            BY <4>2, <4>4 DEF collection
      <4> QED BY <4>1, <4>3, <4>4
    <3> QED BY <1>3, <3>1 DEF Granted
  <2>3. CASE ~WorkerClaim /\ ~WorkerUpsert
    <3>1. /\ worker'.audience = worker.audience
          /\ \/ vectors' = {}
             \/ vectors' = vectors /\ subjects' = subjects
          BY <1>0, <2>3
          DEF WorkerStep, WorkerRefuse, WorkerLoad, WorkerIndexed,
              WorkerConfirm, WorkerCommit, WorkerPublish, SetSearchable,
              WorkerCleanup, DeletePoints, WorkerRecordFailure, collection,
              Worker
    <3> QED BY <1>3, <3>1 DEF Granted
  <2> QED BY <2>1, <2>2, <2>3
<1>4. Granted(shares) => Granted(shares)'
      BY <1>1, <1>3
<1>5. \A r \in Requests : Granted(request[r].ids) => Granted(request[r].ids)'
      BY <1>1, <1>3
<1> QED BY <1>0, <1>1, <1>2, <1>4, <1>5 DEF SharingInv, OneAtATime, Remembered

(* The one request at work keeps it.                                       *)
LEMMA RequestSharing ==
    ASSUME SharingInv, NEW r \in Requests, RequestStep(r)
    PROVE  SharingInv'
<1>0. /\ TypeOK' /\ request \in [Requests -> Request]
      /\ vectors \in SUBSET Batches
      /\ subjects \in [Batches -> SUBSET Users]
      BY RequestTyped DEF SharingInv, TypeOK
<1>1. request[r].pc # "idle" /\ UNCHANGED <<env, upload, worker>>
  <2>1. request[r].pc # "idle"
        BY DEF RequestStep, ShareGrant, ShareWiden, UnshareSurvey,
               UnshareNarrow, UnshareRevoke, DeleteHide, DeleteTombstone,
               DeletePurge, DeleteErase, DeleteBury
  <2>2. UNCHANGED <<env, upload, worker>>
        BY DEF RequestStep, ShareGrant, ShareWiden, UnshareSurvey,
               UnshareNarrow, UnshareRevoke, DeleteHide, DeleteTombstone,
               DeletePurge, DeleteErase, DeleteBury
  <2> QED BY <2>1, <2>2
<1>2. \A q \in Requests : q # r => request'[q] = request[q]
      BY <1>0
      DEF RequestStep, ShareGrant, ShareWiden, UnshareSurvey, UnshareNarrow,
          UnshareRevoke, DeleteHide, DeleteTombstone, DeletePurge,
          DeleteErase, DeleteBury, Proceed, Continue, Finish
<1>3. CASE ~env.serial
      BY <1>0, <1>1, <1>3 DEF SharingInv
<1>4. CASE env.serial
  <2>1. \A q \in Requests : q # r => request'[q].pc = "idle"
        BY <1>1, <1>2, <1>4 DEF SharingInv, OneAtATime
  <2>2. OneAtATime'
        BY <2>1 DEF OneAtATime
  <2>3. \A q \in Requests : q # r => Remembered(q)'
        BY <2>1 DEF Remembered
  <2>4. vectors' = vectors \/ vectors' = {}
    <3> USE DEF collection, SetSearchable, UpdateAccess, DeletePoints
    <3>1. CASE ShareGrant(r) \/ ShareWiden(r) \/ UnshareSurvey(r)
          BY <3>1 DEF ShareGrant, ShareWiden, UnshareSurvey
    <3>2. CASE UnshareNarrow(r) \/ UnshareRevoke(r) \/ DeleteHide(r)
          BY <3>2 DEF UnshareNarrow, UnshareRevoke, DeleteHide
    <3>3. CASE DeleteTombstone(r) \/ DeletePurge(r) \/ DeleteErase(r)
                  \/ DeleteBury(r)
          BY <3>3 DEF DeleteTombstone, DeletePurge, DeleteErase, DeleteBury
    <3> QED BY <3>1, <3>2, <3>3 DEF RequestStep
  <2> USE DEF SharingInv, collection
  <2>5. CASE ShareGrant(r)
    <3>1. PICK out \in Outcomes("db") :
             /\ \/ /\ shares' = shares \cup {request[r].user}
                   /\ visibility' = "shared"
                \/ UNCHANGED <<shares, visibility>> /\ out = "error"
             /\ Proceed(r, out, "widen", shares \cup {request[r].user})
          BY <2>5 DEF ShareGrant, Applied
    <3>2. UNCHANGED <<vectors, subjects>>
          BY <2>5 DEF ShareGrant
    <3>3. Remembered(r)'
      <4>1. \/ request'[r] = Idle
            \/ /\ request'[r].pc = "widen"
               /\ request'[r].ids = shares \cup {request[r].user}
               /\ shares' = shares \cup {request[r].user}
            BY <1>0, <3>1 DEF Proceed
      <4> QED BY <4>1 DEF Remembered, Idle
    <3>4. Granted(shares)'
          BY <1>1, <1>4, <3>1, <3>2 DEF Granted
    <3> QED BY <1>0, <1>1, <1>4, <2>2, <2>3, <2>4, <3>1, <3>3, <3>4
  <2>6. CASE ShareWiden(r)
    <3>1. /\ UNCHANGED <<shares, visibility>> /\ Finish(r)
          /\ UpdateAccess(request[r].ids) \/ UNCHANGED collection
          BY <2>6 DEF ShareWiden, database
    <3>2. request[r].ids \subseteq shares
          BY <1>4, <2>6 DEF ShareWiden, Remembered
    <3>3. Remembered(r)'
          BY <1>0, <3>1 DEF Remembered, Finish, Idle
    <3>4. Granted(shares)'
          BY <1>0, <1>1, <1>4, <3>1, <3>2 DEF Granted, UpdateAccess
    <3> QED BY <1>0, <1>1, <1>4, <2>2, <2>3, <2>4, <3>1, <3>3, <3>4
  <2>7. CASE UnshareSurvey(r)
    <3>1. PICK out : Proceed(r, out, "narrow", shares \ {request[r].user})
          BY <2>7 DEF UnshareSurvey
    <3>2. UNCHANGED <<shares, visibility, vectors, subjects>>
          BY <2>7 DEF UnshareSurvey, database
    <3>3. Remembered(r)'
      <4>1. \/ request'[r] = Idle
            \/ request'[r] = [pc |-> "narrow", user |-> request[r].user,
                              ids |-> shares \ {request[r].user}]
            BY <1>0, <3>1 DEF Proceed
      <4> QED BY <3>2, <4>1 DEF Remembered, Idle
    <3>4. Granted(shares)'
          BY <1>1, <1>4, <3>2 DEF Granted
    <3> QED BY <1>0, <1>1, <1>4, <2>2, <2>3, <2>4, <3>2, <3>3, <3>4
  <2>8. CASE UnshareNarrow(r)
    <3>1. PICK out :
             /\ \/ UpdateAccess(request[r].ids)
                \/ UNCHANGED collection /\ out = "error"
             /\ Proceed(r, out, "revoke", request[r].ids)
          BY <2>8 DEF UnshareNarrow, Continue, Applied
    <3>2. UNCHANGED <<shares, visibility>>
          BY <2>8 DEF UnshareNarrow, database
    <3>3. request[r].ids = shares \ {request[r].user}
          BY <1>4, <2>8 DEF UnshareNarrow, Remembered
    <3>4. \/ \A b \in vectors' : subjects'[b] \subseteq
                {Owner} \cup request[r].ids \cup worker'.audience
          \/ out = "error" /\ UNCHANGED <<vectors, subjects>>
      <4>1. CASE UpdateAccess(request[r].ids)
        <5>1. /\ vectors' = vectors
              /\ \A b \in vectors : subjects'[b] = {Owner} \cup request[r].ids
              BY <1>0, <4>1 DEF UpdateAccess
        <5> QED BY <5>1
      <4>2. CASE UNCHANGED collection /\ out = "error"
            BY <4>2
      <4> QED BY <3>1, <4>1, <4>2
    <3>5. Remembered(r)'
      <4>1. \/ request'[r] = Idle
            \/ /\ out = "ok"
               /\ request'[r] = [pc |-> "revoke", user |-> request[r].user,
                                 ids |-> request[r].ids]
            BY <1>0, <3>1 DEF Proceed
      <4>2. CASE request'[r] = Idle
            BY <4>2 DEF Remembered, Idle
      <4>3. CASE /\ out = "ok"
                 /\ request'[r] = [pc |-> "revoke", user |-> request[r].user,
                                   ids |-> request[r].ids]
        <5>1. Granted(request[r].ids)'
              BY <3>4, <4>3 DEF Granted
        <5> QED BY <3>2, <3>3, <4>3, <5>1 DEF Remembered
      <4> QED BY <4>1, <4>2, <4>3
    <3>6. Granted(shares)'
          BY <1>1, <1>4, <3>2, <3>3, <3>4 DEF Granted
    <3> QED BY <1>0, <1>1, <1>4, <2>2, <2>3, <2>4, <3>2, <3>5, <3>6
  <2>9. CASE UnshareRevoke(r)
    <3>1. /\ Finish(r) /\ UNCHANGED <<vectors, subjects>>
          /\ \/ UNCHANGED <<shares, visibility>>
             \/ /\ shares' = shares \ {request[r].user}
                /\ visibility' = IF request[r].ids = {} THEN "private"
                                                        ELSE visibility
          BY <2>9 DEF UnshareRevoke
    <3>2. /\ request[r].ids = shares \ {request[r].user}
          /\ Granted(request[r].ids)
          BY <1>4, <2>9 DEF UnshareRevoke, Remembered
    <3>3. Remembered(r)'
          BY <1>0, <3>1 DEF Remembered, Finish, Idle
    <3>4. Granted(shares)'
          BY <1>1, <1>4, <3>1, <3>2 DEF Granted
    <3>5. visibility' = "private" => shares' = {}
          BY <1>4, <3>1, <3>2
    <3> QED BY <1>0, <1>1, <1>4, <2>2, <2>3, <2>4, <3>3, <3>4, <3>5
  <2>10. CASE \/ DeleteHide(r) \/ DeleteTombstone(r) \/ DeletePurge(r)
              \/ DeleteErase(r) \/ DeleteBury(r)
    <3>1. UNCHANGED <<shares, visibility>>
          BY <2>10 DEF DeleteHide, DeleteTombstone, DeletePurge, DeleteErase,
                       DeleteBury, database
    <3>2. vectors' = {} \/ UNCHANGED <<vectors, subjects>>
          BY <2>10 DEF DeleteHide, SetSearchable, DeleteTombstone,
                       DeletePurge, DeletePoints, DeleteErase, DeleteBury
    <3>3. request'[r].pc \notin {"widen", "narrow", "revoke"}
      <4> USE DEF Proceed, Continue, Finish, Idle
      <4>1. CASE DeleteHide(r)
            BY <1>0, <4>1 DEF DeleteHide
      <4>2. CASE DeleteTombstone(r)
            BY <1>0, <4>2 DEF DeleteTombstone
      <4>3. CASE DeletePurge(r)
            BY <1>0, <4>3 DEF DeletePurge
      <4>4. CASE DeleteErase(r)
            BY <1>0, <4>4 DEF DeleteErase
      <4>5. CASE DeleteBury(r)
            BY <1>0, <4>5 DEF DeleteBury
      <4> QED BY <2>10, <4>1, <4>2, <4>3, <4>4, <4>5
    <3>4. Remembered(r)'
          BY <3>3 DEF Remembered
    <3>5. Granted(shares)'
          BY <1>1, <1>4, <3>1, <3>2 DEF Granted
    <3> QED BY <1>0, <1>1, <1>4, <2>2, <2>3, <2>4, <3>1, <3>4, <3>5
  <2> QED BY <2>5, <2>6, <2>7, <2>8, <2>9, <2>10 DEF RequestStep
<1> QED BY <1>3, <1>4

(* Every other step keeps it.                                              *)
LEMMA OthersSharing ==
    SharingInv /\ [Next]_vars /\ ~WorkerStep
        /\ ~(\E r \in Requests : RequestStep(r))
    => SharingInv'
<1> SUFFICES ASSUME SharingInv, [Next]_vars, ~WorkerStep,
                    ~(\E r \in Requests : RequestStep(r))
             PROVE  SharingInv'
    OBVIOUS
<1>0. /\ TypeOK' /\ request \in [Requests -> Request] /\ worker \in Worker
      BY NextTyped DEF SharingInv, TypeOK
<1> USE DEF SharingInv, OneAtATime, Remembered, Granted, database, collection
<1>1. CASE UNCHANGED vars
      BY <1>0, <1>1 DEF vars
<1>2. CASE UploadStep
  <2>1. /\ UNCHANGED <<env, visibility, shares, vectors, subjects, request>>
        /\ worker' \in {worker, [worker EXCEPT !.pc = "claim"]}
        BY <1>2 DEF UploadStep, UploadPut, UploadRecord, UploadCompensate
  <2>2. /\ worker'.audience = worker.audience
        /\ worker'.pc \in {worker.pc, "claim"}
        BY <1>0, <2>1 DEF Worker
  <2>3. \/ worker' = worker
        \/ worker.pc = "none" /\ upload' = "over"
        BY <1>2 DEF UploadStep, UploadPut, UploadRecord, UploadCompensate
  <2>4. upload' \in {"start", "record"} => worker'.pc = "none"
        BY <1>2, <2>3 DEF UploadStep, UploadPut, UploadRecord, UploadCompensate
  <2> QED BY <1>0, <2>1, <2>2, <2>3, <2>4
<1>3. CASE \E r \in Requests : RequestBegin(r)
  <2>1. PICK r \in Requests, pc \in {"grant", "survey", "hide"}, u \in Users :
           Begin(r, pc, u)
        BY <1>3, OwnerAssumption
           DEF RequestBegin, BeginShare, BeginUnshare, BeginDelete
  <2> QED BY <1>0, <2>1 DEF Begin
<1>4. CASE CrashUpload
      BY <1>0, <1>4 DEF CrashUpload
<1>5. CASE CrashWorker
      BY <1>0, <1>5 DEF CrashWorker, Worker
<1>6. CASE \E r \in Requests : CrashRequest(r)
      BY <1>0, <1>6 DEF CrashRequest, Finish, Idle
<1> QED BY <1>1, <1>2, <1>3, <1>4, <1>5, <1>6 DEF Next

(* So it is inductive.                                                     *)
LEMMA SharingInductive == SharingInv /\ [Next]_vars => SharingInv'
BY WorkerSharing, RequestSharing, OthersSharing

(* Requests handled one at a time: Qdrant names nobody without a grant,    *)
(* but those in the ingestion snapshot.                                    *)
THEOREM SerialAccessIsGranted == Spec => []AccessIsGranted
<1>1. SharingInv => AccessIsGranted
      BY DEF SharingInv, Granted, AccessIsGranted
<1> QED BY InitSharing, SharingInductive, <1>1, PTL DEF Spec

(* Requests handled one at a time: a private document has no shares.       *)
THEOREM SerialVisibility == Spec => []PrivateHasNoShares
<1>1. SharingInv => PrivateHasNoShares
      BY DEF SharingInv, PrivateHasNoShares
<1> QED BY InitSharing, SharingInductive, <1>1, PTL DEF Spec

-----------------------------------------------------------------------------
(* What is found against what may be read.                                 *)

(* Every write of the payload names the owner.                             *)
OwnerNamed == \A b \in vectors : Owner \in subjects[b]

(* So every point names the owner at all times.                            *)
LEMMA OwnerNamedAlways == Spec => [](TypeOK /\ OwnerNamed)
<1>1. Init => TypeOK /\ OwnerNamed
      BY InitTyped DEF Init, OwnerNamed
<1>2. TypeOK /\ OwnerNamed /\ [Next]_vars => (TypeOK /\ OwnerNamed)'
  <2> SUFFICES ASSUME TypeOK, OwnerNamed, [Next]_vars PROVE OwnerNamed'
      BY NextTyped
  <2>1. /\ subjects \in [Batches -> SUBSET Users] /\ vectors \in SUBSET Batches
        /\ Owner \in Users
        BY OwnerAssumption DEF TypeOK
  <2>2. ASSUME UNCHANGED collection
        PROVE  OwnerNamed'
        BY <2>2 DEF collection, OwnerNamed
  <2>3. ASSUME NEW flag \in BOOLEAN, SetSearchable(flag)
        PROVE  OwnerNamed'
        BY <2>3 DEF SetSearchable, OwnerNamed
  <2>4. ASSUME NEW ids, UpdateAccess(ids)
        PROVE  OwnerNamed'
        BY <2>1, <2>4 DEF UpdateAccess, OwnerNamed
  <2>5. ASSUME DeletePoints
        PROVE  OwnerNamed'
        BY <2>5 DEF DeletePoints, OwnerNamed
  <2>6. ASSUME NEW b \in Batches, NEW ids, UpsertBatch(b, ids)
        PROVE  OwnerNamed'
        BY <2>1, <2>6 DEF UpsertBatch, OwnerNamed
  <2>7. CASE UploadStep
        BY <2>2, <2>7 DEF UploadStep, UploadPut, UploadRecord, UploadCompensate
  <2>8. CASE WorkerStep
        BY <2>2, <2>3, <2>5, <2>6, <2>8
        DEF WorkerStep, WorkerClaim, WorkerRefuse, WorkerLoad, WorkerUpsert,
            WorkerIndexed, WorkerConfirm, WorkerCommit, WorkerPublish,
            WorkerCleanup, WorkerRecordFailure
  <2>9. ASSUME NEW r \in Requests, RequestStep(r)
        PROVE  OwnerNamed'
        BY <2>2, <2>3, <2>4, <2>5, <2>9
        DEF RequestStep, ShareGrant, ShareWiden, UnshareSurvey, UnshareNarrow,
            UnshareRevoke, DeleteHide, DeleteTombstone, DeletePurge,
            DeleteErase, DeleteBury
  <2>10. ASSUME NEW r \in Requests, RequestBegin(r)
         PROVE  OwnerNamed'
         BY <2>2, <2>10 DEF RequestBegin, BeginShare, BeginUnshare,
                            BeginDelete, Begin
  <2>11. CASE UNCHANGED vars \/ CrashUpload \/ CrashWorker
              \/ \E r \in Requests : CrashRequest(r)
         BY <2>2, <2>11 DEF vars, collection, CrashUpload, CrashWorker, CrashRequest
  <2> QED BY <2>7, <2>8, <2>9, <2>10, <2>11 DEF Next
<1> QED BY <1>1, <1>2, PTL DEF Spec

(* With requests handled one at a time, what a query finds in an active    *)
(* document is what the endpoints and the row-level policy show the same   *)
(* user.  Code: document_store.py against _authorization_filter.           *)
THEOREM FoundMayBeRead == Spec => []FoundIsReadable
<1>1. TypeOK /\ AccessIsGranted /\ PrivateHasNoShares => FoundIsReadable
  <2> SUFFICES ASSUME TypeOK, AccessIsGranted, PrivateHasNoShares,
                      env.serial, lifecycle = "active",
                      NEW u \in Users \ worker.audience, NEW admin \in BOOLEAN,
                      NEW b \in Batches, Finds(b, u, admin)
               PROVE  MayRead(u, admin)
      BY DEF FoundIsReadable
  <2> USE DEF Finds, AuthorizationFilter, AuthorizationScope, MayRead,
              AccessPredicate, RowPolicy, SharedWith, VisibleShares
  <2>1. b \in vectors /\ visibility \in {"private", "shared"}
        BY DEF TypeOK
  <2>2. CASE admin \/ u = Owner
        BY <2>2
  <2>3. CASE ~admin /\ u # Owner
    <3>1. u \in shares
          BY <2>1, <2>3 DEF AccessIsGranted
    <3>2. visibility = "shared"
          BY <2>1, <3>1 DEF PrivateHasNoShares
    <3> QED BY <3>1, <3>2
  <2> QED BY <2>2, <2>3
<1> QED BY <1>1, TypeCorrect, SerialAccessIsGranted, SerialVisibility, PTL

(* When ingestion has completed undisturbed, whoever may read the document *)
(* finds all of it, however many requests there are at the same time.      *)
THEOREM ReadableCanBeFound == Spec => []ReadableIsFound
<1>1. TypeOK /\ OwnerNamed /\ CompletedIsSearchable => ReadableIsFound
  <2> SUFFICES ASSUME TypeOK, OwnerNamed, CompletedIsSearchable,
                      "db" \notin env.failing, env.losing = {}, ~env.crashes,
                      worker.pc = "over", job = "completed",
                      \A r \in Requests : request[r].pc # "tombstone",
                      NEW u \in Users, NEW admin \in BOOLEAN, MayRead(u, admin),
                      NEW b \in Batches
               PROVE  Finds(b, u, admin)
      BY DEF ReadableIsFound
  <2>1. searchable = Batches
        BY DEF CompletedIsSearchable, MayRead, AccessPredicate
  <2>2. Owner \in subjects[b]
        BY <2>1 DEF TypeOK, OwnerNamed
  <2> QED BY <2>1, <2>2 DEF Finds, AuthorizationFilter, AuthorizationScope,
                            MayRead, AccessPredicate, SharedWith
<1> QED BY <1>1, OwnerNamedAlways, CompletedCanBeFound, PTL
=============================================================================
