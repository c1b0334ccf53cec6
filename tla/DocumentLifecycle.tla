------------------------- MODULE DocumentLifecycle -------------------------
(***************************************************************************)
(* The life of ONE uploaded document, across the three stores that hold    *)
(* it: the PostgreSQL rows, the stored object and the Qdrant vectors.      *)
(* Every operation of the code is keyed on one document_id, a fresh UUID,  *)
(* so documents do not interact and one is enough.                         *)
(*                                                                         *)
(* Processes: the upload request, the ingestion task it starts, and any    *)
(* number of owner requests in flight at once (share, unshare, delete).    *)
(* A step is what happens between two awaits that leave the process: one   *)
(* database transaction, one Qdrant call, one object-store call.           *)
(***************************************************************************)
EXTENDS Naturals

CONSTANTS
    Users,        \* the known identities (active app_user rows)
    Owner,        \* the user who uploads the document
    Requests,     \* slots for owner requests in flight at the same time
    NBatches,     \* how many upsert batches the document's chunks fill
    Environments  \* what may go wrong: a behaviour picks one and keeps it

Stores   == {"db", "qdrant", "objects"}
Services == Stores \cup {"pipeline"}

(* failing: services a call to which may raise without taking effect;      *)
(* losing: services a call to which may take effect and still raise;       *)
(* crashes: whether a process may stop between two steps;                  *)
(* serial: whether owner requests come one at a time.                      *)
Environment == [failing : SUBSET Services, losing : SUBSET Services,
                crashes : BOOLEAN, serial : BOOLEAN]

ASSUME OwnerAssumption       == Owner \in Users
ASSUME BatchAssumption       == NBatches \in Nat
ASSUME EnvironmentAssumption == Environments \subseteq Environment

Batches == 1..NBatches

VARIABLES
    env,         \* the environment of this behaviour
    \* PostgreSQL
    lifecycle,   \* document.lifecycle_state; "absent" before the row exists
    visibility,  \* document.visibility
    shares,      \* user_id of the document_share rows
    job,         \* ingestion_job.status; "none" before the row exists
    chunkRows,   \* whether the document_chunk rows exist
    \* the object store
    object,      \* whether the storage key holds an object
    \* Qdrant
    vectors,     \* batches whose points are in the collection
    searchable,  \* those whose payload says searchable=true
    subjects,    \* batch -> payload access_subjects
    \* the processes
    upload,      \* program counter of the upload request
    worker,      \* the ingestion task: its counter and its local snapshot
    request      \* slot -> the request in it: its counter and its locals

database    == <<lifecycle, visibility, shares, job, chunkRows>>
collection  == <<vectors, searchable, subjects>>
vars == <<env, database, object, collection, upload, worker, request>>

-----------------------------------------------------------------------------

UploadSteps  == {"start", "record", "compensate", "over"}
WorkerSteps  == {"none", "claim", "load", "index", "confirm", "commit",
                 "publish", "cleanup", "recordFailure", "over"}
RequestSteps == {"idle", "grant", "widen", "survey", "narrow", "revoke",
                 "hide", "tombstone", "purge", "erase", "bury"}

Worker  == [pc : WorkerSteps, next : Nat, audience : SUBSET Users]
Request == [pc : RequestSteps, user : Users, ids : SUBSET Users]
Idle    == [pc |-> "idle", user |-> Owner, ids |-> {}]

TypeOK ==
    /\ env        \in Environment
    /\ lifecycle  \in {"absent", "active", "deleting", "deleted"}
    /\ visibility \in {"private", "shared"}
    /\ shares     \in SUBSET Users
    /\ job        \in {"none", "queued", "processing", "completed", "failed"}
    /\ chunkRows  \in BOOLEAN
    /\ object     \in BOOLEAN
    /\ vectors    \in SUBSET Batches
    /\ searchable \in SUBSET vectors
    /\ subjects   \in [Batches -> SUBSET Users]
    /\ upload     \in UploadSteps
    /\ worker     \in Worker
    /\ request    \in [Requests -> Request]

Init ==
    /\ env \in Environments
    /\ lifecycle = "absent" /\ visibility = "private" /\ shares = {}
    /\ job = "none" /\ chunkRows = FALSE
    /\ object = FALSE
    /\ vectors = {} /\ searchable = {} /\ subjects = [b \in Batches |-> {}]
    /\ upload = "start"
    /\ worker = [pc |-> "none", next |-> 1, audience |-> {}]
    /\ request = [r \in Requests |-> Idle]

-----------------------------------------------------------------------------
(* A call to a service returns, raises without effect, or takes effect and *)
(* raises (the response or the commit acknowledgement is lost).            *)

Outcomes(service) ==
    {"ok"} \cup (IF service \in env.failing THEN {"error"} ELSE {})
           \cup (IF service \in env.losing THEN {"lost"} ELSE {})

Applied(out) == out # "error"

(* The Qdrant calls, all of them filtered by document_id: they reach the   *)
(* points that exist at that moment and create none.                       *)

SetSearchable(flag) ==
    /\ searchable' = IF flag THEN vectors ELSE {}
    /\ UNCHANGED <<vectors, subjects>>

UpdateAccess(ids) ==
    /\ subjects' = [b \in Batches |->
                       IF b \in vectors THEN {Owner} \cup ids ELSE subjects[b]]
    /\ UNCHANGED <<vectors, searchable>>

DeletePoints ==
    /\ vectors' = {} /\ searchable' = {}
    /\ subjects' = [b \in Batches |-> {}]

(* Wrong variants of a definition are kept in front of it, marked "Wrong:" *)
(* and used nowhere: each is a bug that one of the properties rules out.   *)

(* Wrong: points are born searchable.                                      *)
UpsertVisible(b, audience) ==
    /\ vectors' = vectors \cup {b}
    /\ searchable' = searchable \cup {b}
    /\ subjects' = [subjects EXCEPT ![b] = {Owner} \cup audience]

(* Wrong: batches are counted from the wrong end.                          *)
UpsertShifted(b, audience) ==
    /\ vectors' = vectors \cup {b + 1}
    /\ searchable' = searchable \ {b + 1}
    /\ subjects' = [subjects EXCEPT ![b + 1] = {Owner} \cup audience]

(* One upsert batch: the points are written whole, never searchable.       *)
UpsertBatch(b, audience) ==
    /\ vectors' = vectors \cup {b}
    /\ searchable' = searchable \ {b}
    /\ subjects' = [subjects EXCEPT ![b] = {Owner} \cup audience]

-----------------------------------------------------------------------------
(* POST /documents.  A rejected file (415, 413, 422) and the identity      *)
(* transaction leave the document's state alone and are not steps.         *)

UploadPut ==
    /\ upload = "start"
    /\ \E out \in Outcomes("objects") :
          /\ object' = IF Applied(out) THEN TRUE ELSE object
          /\ upload' = IF out = "ok" THEN "record" ELSE "over"
    /\ UNCHANGED <<env, database, collection, worker, request>>

(* Wrong: a failed transaction leaves the stored object behind.            *)
UploadRecordNoCompensation ==
    /\ upload = "record" /\ upload' = "over"
    /\ \E out \in Outcomes("db") :
          IF out = "ok"
             THEN /\ lifecycle' = "active" /\ job' = "queued"
                  /\ worker' = [worker EXCEPT !.pc = "claim"]
             ELSE UNCHANGED <<lifecycle, job, worker>>
    /\ UNCHANGED <<env, visibility, shares, chunkRows, object, collection,
                   request>>

(* The document row and the queued job are one transaction; the ingestion  *)
(* task is scheduled only after it committed.                              *)
UploadRecord ==
    /\ upload = "record"
    /\ \E out \in Outcomes("db") :
          /\ IF Applied(out)
                THEN lifecycle' = "active" /\ job' = "queued"
                ELSE UNCHANGED <<lifecycle, job>>
          /\ IF out = "ok"
                THEN /\ upload' = "over"
                     /\ worker' = [worker EXCEPT !.pc = "claim"]
                ELSE upload' = "compensate" /\ UNCHANGED worker
    /\ UNCHANGED <<env, visibility, shares, chunkRows, object, collection,
                   request>>

(* except Exception: await store.delete(storage_key); raise                *)
UploadCompensate ==
    /\ upload = "compensate"
    /\ \E out \in Outcomes("objects") :
          object' = IF Applied(out) THEN FALSE ELSE object
    /\ upload' = "over"
    /\ UNCHANGED <<env, database, collection, worker, request>>

UploadStep == UploadPut \/ UploadRecord \/ UploadCompensate

-----------------------------------------------------------------------------
(* process_ingestion.  `audience` is its snapshot of the share rows (empty *)
(* unless the document was "shared"), `next` the batch to upsert.  The job *)
(* row of a scheduled task is always "queued": only this task writes it.   *)

WorkerClaim ==
    /\ worker.pc = "claim" /\ lifecycle = "active"
    /\ \E out \in Outcomes("db") :
          /\ job' = IF Applied(out) THEN "processing" ELSE job
          /\ worker' = [worker EXCEPT
                !.pc = IF out = "ok" THEN "load" ELSE "cleanup",
                !.audience = IF visibility = "shared" THEN shares ELSE {}]
    /\ UNCHANGED <<env, lifecycle, visibility, shares, chunkRows, object,
                   collection, upload, request>>

(* The document was tombstoned before the task ran: "document_unavailable".*)
WorkerRefuse ==
    /\ worker.pc = "claim" /\ lifecycle # "active"
    /\ \E out \in Outcomes("db") :
          /\ job' = IF Applied(out) THEN "failed" ELSE job
          /\ worker' = [worker EXCEPT
                !.pc = IF out = "ok" THEN "over" ELSE "recordFailure"]
    /\ UNCHANGED <<env, lifecycle, visibility, shares, chunkRows, object,
                   collection, upload, request>>

(* Fetch the bytes, parse, chunk and embed: no stored state changes.       *)
WorkerLoad ==
    /\ worker.pc = "load"
    /\ \E fetched \in Outcomes("objects"), parsed \in Outcomes("pipeline") :
          worker' = [worker EXCEPT
             !.pc = IF object /\ fetched = "ok" /\ parsed = "ok"
                    THEN "index" ELSE "cleanup"]
    /\ UNCHANGED <<env, database, object, collection, upload, request>>

WorkerUpsert ==
    /\ worker.pc = "index" /\ worker.next \in Batches
    /\ \E out \in Outcomes("qdrant") :
          /\ IF Applied(out) THEN UpsertBatch(worker.next, worker.audience)
                             ELSE UNCHANGED collection
          /\ worker' = IF out = "ok"
                       THEN [worker EXCEPT !.next = @ + 1]
                       ELSE [worker EXCEPT !.pc = "cleanup"]
    /\ UNCHANGED <<env, database, object, upload, request>>

WorkerIndexed ==
    /\ worker.pc = "index" /\ worker.next \notin Batches
    /\ worker' = [worker EXCEPT !.pc = "confirm"]
    /\ UNCHANGED <<env, database, object, collection, upload, request>>

(* Wrong: the lifecycle is not read again after indexing.                  *)
WorkerConfirmUnchecked ==
    /\ worker.pc = "confirm"
    /\ \E out \in Outcomes("db") :
          worker' = [worker EXCEPT
             !.pc = IF out = "ok" THEN "commit" ELSE "cleanup"]
    /\ UNCHANGED <<env, database, object, collection, upload, request>>

(* The confirming transaction reads the lifecycle without a lock and       *)
(* commits later: under READ COMMITTED a tombstone can commit in between.  *)
WorkerConfirm ==
    /\ worker.pc = "confirm"
    /\ \E out \in Outcomes("db") :
          worker' = [worker EXCEPT
             !.pc = IF out = "ok" /\ lifecycle = "active"
                    THEN "commit" ELSE "cleanup"]
    /\ UNCHANGED <<env, database, object, collection, upload, request>>

WorkerCommit ==
    /\ worker.pc = "commit"
    /\ \E out \in Outcomes("db") :
          /\ IF Applied(out) THEN job' = "completed" /\ chunkRows' = TRUE
                             ELSE UNCHANGED <<job, chunkRows>>
          /\ worker' = [worker EXCEPT
                !.pc = IF out = "ok" THEN "publish" ELSE "cleanup"]
    /\ UNCHANGED <<env, lifecycle, visibility, shares, object, collection,
                   upload, request>>

(* Wrong: an exception of the publish call is passed over.                 *)
WorkerPublishSwallowed ==
    /\ worker.pc = "publish"
    /\ \E out \in Outcomes("qdrant") :
          IF Applied(out) THEN SetSearchable(TRUE) ELSE UNCHANGED collection
    /\ worker' = [worker EXCEPT !.pc = "over"]
    /\ UNCHANGED <<env, database, object, upload, request>>

WorkerPublish ==
    /\ worker.pc = "publish"
    /\ \E out \in Outcomes("qdrant") :
          /\ IF Applied(out) THEN SetSearchable(TRUE) ELSE UNCHANGED collection
          /\ worker' = [worker EXCEPT
                !.pc = IF out = "ok" THEN "over" ELSE "cleanup"]
    /\ UNCHANGED <<env, database, object, upload, request>>

(* Wrong: a failed cleanup escapes the exception handler.                  *)
WorkerCleanupRaises ==
    /\ worker.pc = "cleanup"
    /\ \E out \in Outcomes("qdrant") :
          /\ IF Applied(out) THEN DeletePoints ELSE UNCHANGED collection
          /\ worker' = [worker EXCEPT
                !.pc = IF out = "ok" THEN "recordFailure" ELSE "over"]
    /\ UNCHANGED <<env, database, object, upload, request>>

(* Wrong: the exception handler leaves partial points in place.            *)
WorkerCleanupSkipped ==
    /\ worker.pc = "cleanup"
    /\ worker' = [worker EXCEPT !.pc = "recordFailure"]
    /\ UNCHANGED <<env, database, object, collection, upload, request>>

(* The exception handler; a failed cleanup is logged and passed over.      *)
WorkerCleanup ==
    /\ worker.pc = "cleanup"
    /\ \E out \in Outcomes("qdrant") :
          IF Applied(out) THEN DeletePoints ELSE UNCHANGED collection
    /\ worker' = [worker EXCEPT !.pc = "recordFailure"]
    /\ UNCHANGED <<env, database, object, upload, request>>

WorkerRecordFailure ==
    /\ worker.pc = "recordFailure"
    /\ \E out \in Outcomes("db") :
          IF Applied(out) THEN job' = "failed" /\ chunkRows' = FALSE
                          ELSE UNCHANGED <<job, chunkRows>>
    /\ worker' = [worker EXCEPT !.pc = "over"]
    /\ UNCHANGED <<env, lifecycle, visibility, shares, object, collection,
                   upload, request>>

WorkerStep ==
    \/ WorkerClaim \/ WorkerRefuse \/ WorkerLoad \/ WorkerUpsert
    \/ WorkerIndexed \/ WorkerConfirm \/ WorkerCommit \/ WorkerPublish
    \/ WorkerCleanup \/ WorkerRecordFailure

-----------------------------------------------------------------------------
(* Owner requests.  Each starts with `_owned`, a read that answers 404     *)
(* unless the document is active; what it read is not read again.          *)

Begin(r, pc, u) ==
    /\ request[r].pc = "idle" /\ lifecycle = "active"
    /\ env.serial => \A q \in Requests : request[q].pc = "idle"
    /\ request' = [request EXCEPT ![r] = [pc |-> pc, user |-> u, ids |-> {}]]
    /\ UNCHANGED <<env, database, object, collection, upload, worker>>

BeginShare(r, u)   == u # Owner /\ Begin(r, "grant", u)
BeginUnshare(r, u) == Begin(r, "survey", u)
BeginDelete(r)     == Begin(r, "hide", Owner)

(* An exception ends the request; otherwise it goes on to its next step,   *)
(* with the share rows it read.                                            *)
Proceed(r, out, pc, ids) ==
    request' = [request EXCEPT ![r] =
       IF out = "ok" THEN [pc |-> pc, user |-> request[r].user, ids |-> ids]
                     ELSE Idle]

Continue(r, out, pc) == Proceed(r, out, pc, request[r].ids)

Finish(r) == request' = [request EXCEPT ![r] = Idle]

(* POST .../shares: the grant commits, then Qdrant is widened.             *)
ShareGrant(r) ==
    /\ request[r].pc = "grant"
    /\ \E out \in Outcomes("db") :
          /\ IF Applied(out)
                THEN /\ shares' = shares \cup {request[r].user}
                     /\ visibility' = "shared"
                ELSE UNCHANGED <<shares, visibility>>
          /\ Proceed(r, out, "widen", shares \cup {request[r].user})
    /\ UNCHANGED <<env, lifecycle, job, chunkRows, object, collection, upload,
                   worker>>

ShareWiden(r) ==
    /\ request[r].pc = "widen"
    /\ \E out \in Outcomes("qdrant") :
          /\ IF Applied(out) THEN UpdateAccess(request[r].ids)
                             ELSE UNCHANGED collection
    /\ Finish(r)
    /\ UNCHANGED <<env, database, object, upload, worker>>

(* Wrong: the grant is removed and Qdrant left as it was.                  *)
UnshareSurveyNoNarrowing(r) ==
    /\ request[r].pc = "survey"
    /\ \E out \in Outcomes("db") :
          Proceed(r, out, "revoke", shares \ {request[r].user})
    /\ UNCHANGED <<env, database, object, collection, upload, worker>>

(* DELETE .../shares/{user}: Qdrant is narrowed, then the grant removed.   *)
UnshareSurvey(r) ==
    /\ request[r].pc = "survey"
    /\ \E out \in Outcomes("db") :
          Proceed(r, out, "narrow", shares \ {request[r].user})
    /\ UNCHANGED <<env, database, object, collection, upload, worker>>

UnshareNarrow(r) ==
    /\ request[r].pc = "narrow"
    /\ \E out \in Outcomes("qdrant") :
          /\ IF Applied(out) THEN UpdateAccess(request[r].ids)
                             ELSE UNCHANGED collection
          /\ Continue(r, out, "revoke")
    /\ UNCHANGED <<env, database, object, upload, worker>>

(* Wrong: the document becomes private whoever else it is shared with.     *)
UnshareRevokeAll(r) ==
    /\ request[r].pc = "revoke"
    /\ \E out \in Outcomes("db") :
          /\ IF Applied(out)
                THEN /\ shares' = shares \ {request[r].user}
                     /\ visibility' = "private"
                ELSE UNCHANGED <<shares, visibility>>
    /\ Finish(r)
    /\ UNCHANGED <<env, lifecycle, job, chunkRows, object, collection, upload,
                   worker>>

UnshareRevoke(r) ==
    /\ request[r].pc = "revoke"
    /\ \E out \in Outcomes("db") :
          /\ IF Applied(out)
                THEN /\ shares' = shares \ {request[r].user}
                     /\ visibility' = IF request[r].ids = {} THEN "private"
                                                             ELSE visibility
                ELSE UNCHANGED <<shares, visibility>>
    /\ Finish(r)
    /\ UNCHANGED <<env, lifecycle, job, chunkRows, object, collection, upload,
                   worker>>

(* DELETE /documents/{id}: hide the vectors, tombstone the row, purge the  *)
(* vectors, erase the object, drop the chunk rows and finalize.            *)
DeleteHide(r) ==
    /\ request[r].pc = "hide"
    /\ \E out \in Outcomes("qdrant") :
          /\ IF Applied(out) THEN SetSearchable(FALSE) ELSE UNCHANGED collection
          /\ Continue(r, out, "tombstone")
    /\ UNCHANGED <<env, database, object, upload, worker>>

(* Wrong: deletion goes on when the tombstone did not commit.              *)
DeleteTombstoneSwallowed(r) ==
    /\ request[r].pc = "tombstone"
    /\ \E out \in Outcomes("db") :
          lifecycle' = IF Applied(out) THEN "deleting" ELSE lifecycle
    /\ Continue(r, "ok", "purge")
    /\ UNCHANGED <<env, visibility, shares, job, chunkRows, object, collection,
                   upload, worker>>

DeleteTombstone(r) ==
    /\ request[r].pc = "tombstone"
    /\ \E out \in Outcomes("db") :
          /\ lifecycle' = IF Applied(out) THEN "deleting" ELSE lifecycle
          /\ Continue(r, out, "purge")
    /\ UNCHANGED <<env, visibility, shares, job, chunkRows, object, collection,
                   upload, worker>>

DeletePurge(r) ==
    /\ request[r].pc = "purge"
    /\ \E out \in Outcomes("qdrant") :
          /\ IF Applied(out) THEN DeletePoints ELSE UNCHANGED collection
          /\ Continue(r, out, "erase")
    /\ UNCHANGED <<env, database, object, upload, worker>>

(* Wrong: erasing an object that is already gone raises.                   *)
DeleteEraseOnce(r) ==
    /\ request[r].pc = "erase"
    /\ object' = FALSE
    /\ Continue(r, IF object THEN "ok" ELSE "error", "bury")
    /\ UNCHANGED <<env, database, collection, upload, worker>>

DeleteErase(r) ==
    /\ request[r].pc = "erase"
    /\ \E out \in Outcomes("objects") :
          /\ object' = IF Applied(out) THEN FALSE ELSE object
          /\ Continue(r, out, "bury")
    /\ UNCHANGED <<env, database, collection, upload, worker>>

DeleteBury(r) ==
    /\ request[r].pc = "bury"
    /\ \E out \in Outcomes("db") :
          /\ IF Applied(out) THEN chunkRows' = FALSE /\ lifecycle' = "deleted"
                             ELSE UNCHANGED <<chunkRows, lifecycle>>
    /\ Finish(r)
    /\ UNCHANGED <<env, visibility, shares, job, object, collection, upload,
                   worker>>

RequestStep(r) ==
    \/ ShareGrant(r) \/ ShareWiden(r)
    \/ UnshareSurvey(r) \/ UnshareNarrow(r) \/ UnshareRevoke(r)
    \/ DeleteHide(r) \/ DeleteTombstone(r) \/ DeletePurge(r)
    \/ DeleteErase(r) \/ DeleteBury(r)

RequestBegin(r) ==
    \/ \E u \in Users : BeginShare(r, u) \/ BeginUnshare(r, u)
    \/ BeginDelete(r)

-----------------------------------------------------------------------------
(* A process stops: its volatile state is lost and nothing resumes it.  No *)
(* code rescans queued or processing jobs or interrupted deletions.        *)

CrashUpload ==
    /\ env.crashes /\ upload # "over"
    /\ upload' = "over"
    /\ UNCHANGED <<env, database, object, collection, worker, request>>

CrashWorker ==
    /\ env.crashes /\ worker.pc \notin {"none", "over"}
    /\ worker' = [worker EXCEPT !.pc = "over"]
    /\ UNCHANGED <<env, database, object, collection, upload, request>>

CrashRequest(r) ==
    /\ env.crashes /\ request[r].pc # "idle"
    /\ Finish(r)
    /\ UNCHANGED <<env, database, object, collection, upload, worker>>

Next ==
    \/ UploadStep
    \/ WorkerStep
    \/ \E r \in Requests : RequestBegin(r) \/ RequestStep(r) \/ CrashRequest(r)
    \/ CrashUpload
    \/ CrashWorker

Spec == Init /\ [][Next]_vars

(* Every started coroutine is scheduled until it ends; clients need not    *)
(* send requests, and processes need not crash.                            *)
Fairness ==
    /\ WF_vars(UploadStep)
    /\ WF_vars(WorkerStep)
    /\ \A r \in Requests : WF_vars(RequestStep(r))

FairSpec == Spec /\ Fairness

-----------------------------------------------------------------------------
(* Properties                                                              *)

(* Once deletion is finalized no vector of the document can match a query, *)
(* whatever the ingestion task or other requests were doing: the confirming*)
(* read of the lifecycle comes after the last upsert and before the publish*)
(* call, so a late publish finds no points (service.py, both methods).     *)
DeletedNeverSearchable == lifecycle = "deleted" => searchable = {}

(* Search exposes the document all at once: when points become searchable  *)
(* every batch is there, the chunk rows exist and the job has completed    *)
(* (service.py process_ingestion: index, confirming transaction, publish). *)
PublishedWhole ==
    [][ searchable = {} /\ searchable' # {} =>
           /\ searchable' = Batches
           /\ chunkRows' /\ job' = "completed" ]_vars

(* Calls to these services neither fail nor lose an answer, and processes  *)
(* do not stop.                                                            *)
Reliable(services) ==
    services \cap (env.failing \cup env.losing) = {} /\ ~env.crashes

(* Searchable vectors belong to a completed job, unless a Qdrant call takes*)
(* effect and raises: every failure path that ends in "failed" runs before *)
(* the points are enabled.                                                 *)
SearchableIsCompleted ==
    "qdrant" \notin env.losing /\ searchable # {} => job = "completed"

(* An active document's bytes are in the object store, unless a commit is  *)
(* not acknowledged: deletion tombstones the row before it erases, upload  *)
(* stores before it records, and the compensating delete runs only when    *)
(* the row was not written.                                                *)
ActiveHasObject == "db" \notin env.losing /\ lifecycle = "active" => object

(* No object is left without a row that leads to it once the upload ended, *)
(* provided the object store answers and processes do not crash.           *)
NoOrphanObject ==
    /\ Reliable({"objects"})
    /\ upload = "over" /\ object
    => lifecycle \in {"active", "deleting"}

(* Requests handled one at a time never leave a user in access_subjects    *)
(* whose grant is gone, except one the ingestion snapshot put there: share *)
(* commits the grant before widening, unshare narrows before revoking, and *)
(* either may fail or crash in between.                                    *)
AccessIsGranted ==
    env.serial => \A b \in vectors :
        subjects[b] \subseteq {Owner} \cup shares \cup worker.audience

(* Requests handled one at a time keep the visibility flag in step with    *)
(* the share rows: a private document has no shares, so no grantee is      *)
(* denied by access_predicate.                                             *)
PrivateHasNoShares ==
    env.serial /\ visibility = "private" => shares = {}

(* When ingestion is over, a completed job of an active document that no   *)
(* delete request is at means all of its points can be found -- unless     *)
(* PostgreSQL fails, an answer is lost or a process crashes.               *)
CompletedIsSearchable ==
    /\ "db" \notin env.failing /\ env.losing = {} /\ ~env.crashes
    /\ worker.pc = "over" /\ job = "completed" /\ lifecycle = "active"
    /\ \A r \in Requests : request[r].pc # "tombstone"
    => searchable = Batches

(* A queued job reaches completed or failed, whatever Qdrant, the object   *)
(* store and the parser do, as long as PostgreSQL answers and the process  *)
(* lives.                                                                  *)
JobEnds == Reliable({"db"}) /\ job = "queued" ~> job \in {"completed", "failed"}

(* A tombstoned document is finalized, if the stores answer.               *)
DeletionEnds ==
    Reliable(Stores) /\ lifecycle = "deleting" ~> lifecycle = "deleted"

(* After finalization every copy is gone for good, if the stores answer:   *)
(* an ingestion that was running through the deletion takes back what it   *)
(* wrote.                                                                  *)
DeletionErases ==
    Reliable(Stores) /\ lifecycle = "deleted" ~> [](vectors = {} /\ ~object)

-----------------------------------------------------------------------------
(* Statements of the documentation that the code does not keep.            *)

(* docs/SECURITY.md: "legacy, queued, failed-partial, deleting, and deleted*)
(* vectors cannot enter candidates or prompts" -- here a deleting document,*)
HiddenWhileDeleting == lifecycle = "deleting" => searchable = {}

(* docs/SECURITY.md: share removal and creation "favor temporary denial    *)
(* over disclosure": Qdrant never names a user without a grant.            *)
DenialOverDisclosure ==
    \A b \in vectors : subjects[b] \subseteq {Owner} \cup shares

(* docs/OPERATIONS.md: "Retry interrupted deletions" -- when no request is *)
(* at work on a tombstoned document, its owner can ask for deletion again. *)
InterruptedDeletionRetriable ==
    lifecycle = "deleting" /\ (\A r \in Requests : request[r].pc = "idle")
    => ENABLED (\E r \in Requests : BeginDelete(r))
=============================================================================
