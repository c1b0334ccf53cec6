-------------------------- MODULE ScopedRetrieval --------------------------
(***************************************************************************)
(* What a query may put in front of the model while documents are          *)
(* published, shared, unshared and deleted.                                *)
(*                                                                         *)
(* The sparse half of retrieval scores an in-process corpus.  Each scope   *)
(* has its own, kept under the scope's fingerprint, built on first use by  *)
(* scrolling Qdrant page by page and dropped, all of them at once, at the  *)
(* end of a document operation.  Here a document is one point, a page is   *)
(* one point and scoring keeps every candidate (top_k only takes fewer).   *)
(* One operation is in flight per document: DocumentLifecycle treats the   *)
(* races within a document, this module those of documents with queries.   *)
(***************************************************************************)
EXTENDS Naturals

CONSTANTS
    NDocs,        \* documents, numbered in the order in which points scroll
    Users,        \* the known identities
    Owner,        \* who uploads the documents
    Queries,      \* slots for queries in flight at the same time
    Settings      \* a behaviour picks one and keeps it

ASSUME DocsAssumption   == NDocs \in Nat
ASSUME UsersAssumption  == Owner \in Users

(* overlap: a corpus may be built while an operation is in flight;         *)
(* raises: the documents with operations in which a step may raise; a query*)
(* may then, too;                                                          *)
(* admins: the users whose token may carry document:content:admin.         *)
Setting == [overlap : BOOLEAN, raises : SUBSET (1..NDocs), admins : SUBSET Users]

ASSUME SettingsAssumption == Settings \subseteq Setting

Docs  == 1..NDocs
Scope == [user : Users, admin : BOOLEAN, shared : SUBSET Docs]
Nobody == [user |-> Owner, admin |-> FALSE, shared |-> {}]

VARIABLES
    setting,   \* the setting of this behaviour
    shares,    \* document -> user_id of its document_share rows
    visible,   \* documents whose points are there with searchable=true
    subjects,  \* document -> payload access_subjects of its points
    operation, \* document -> the operation on it: its counter and grantee
    active,    \* documents whose row is in the lifecycle state "active"
    corpora,   \* the dict of fingerprints to the documents in the corpus
    lingering, \* ghost: documents tombstoned since an operation last ended
    granted,   \* ghost: document -> the users it was ever shared with
    query      \* slot -> a query: its counter, its locals, and two ghosts:
               \* `entitled`, what its user could read at some time since,
               \* and `leftover`, what lingered for its user when it began

vars == <<setting, shares, active, visible, subjects, operation, corpora,
          lingering, granted, query>>

Operations == {"fresh", "idle", "publish", "grant", "widen", "narrow",
               "revoke", "hide", "tombstone", "purge", "over"}
Operation  == [pc : Operations, user : Users]
Stages     == {"idle", "dense", "sparse", "scroll", "answered"}
Query      == [pc : Stages, scope : Scope, page : Nat,
               building : SUBSET Docs, found : SUBSET Docs,
               entitled : SUBSET Docs, leftover : SUBSET Docs]
NoQuery    == [pc |-> "idle", scope |-> Nobody, page |-> 1, building |-> {},
               found |-> {}, entitled |-> {}, leftover |-> {}]

(* Wrong variants of a definition are kept in front of it, marked "Wrong:" *)
(* and used nowhere: each is a bug that one of the properties rules out.   *)

(* Wrong: the shared documents are not part of the fingerprint.            *)
FingerprintOfUser(scope) == [scope EXCEPT !.shared = {}]

(* AuthorizationScope.fingerprint hashes exactly these: the user, the      *)
(* administrator's flag and the shared documents.                          *)
Fingerprint(scope) == scope

TypeOK ==
    /\ setting   \in Setting
    /\ shares    \in [Docs -> SUBSET Users]
    /\ visible   \in SUBSET Docs
    /\ subjects  \in [Docs -> SUBSET Users]
    /\ operation \in [Docs -> Operation]
    /\ active    \in SUBSET Docs
    /\ DOMAIN corpora \subseteq Scope
    /\ \A f \in DOMAIN corpora : corpora[f] \in SUBSET Docs
    /\ lingering \in SUBSET Docs
    /\ granted   \in [Docs -> SUBSET Users]
    /\ query     \in [Queries -> Query]

(* Every document is indexed, its ingestion task about to publish it.      *)
Init ==
    /\ setting \in Settings
    /\ shares    = [d \in Docs |-> {}]
    /\ visible   = {}
    /\ subjects  = [d \in Docs |-> {Owner}]
    /\ operation = [d \in Docs |-> [pc |-> "fresh", user |-> Owner]]
    /\ active    = Docs
    /\ corpora   = [f \in {} |-> {}]
    /\ lingering = {}
    /\ granted   = [d \in Docs |-> {}]
    /\ query     = [q \in Queries |-> NoQuery]

(* Wrong: points that are not searchable pass the filter.                  *)
MatchesUnsearchable(d, scope) ==
    scope.admin \/ scope.user \in subjects[d] \/ d \in scope.shared

(* _authorization_filter, applied by Qdrant to a search and to a scroll.   *)
Matches(d, scope) ==
    /\ d \in visible
    /\ scope.admin \/ scope.user \in subjects[d] \/ d \in scope.shared

(* What the rows give a user: the documents of the owner, those shared     *)
(* with the user -- with one operation at a time on a document, it is      *)
(* "shared" exactly while it has share rows -- and all to an administrator.*)
Given(user, admin) ==
    {d \in Docs : admin \/ user = Owner \/ user \in shares[d]}

(* Of these only the active ones may be read.                              *)
MayRead(user, admin) == active \cap Given(user, admin)

Building(q) == query[q].pc = "scroll"
InFlight(d) == operation[d].pc \notin {"fresh", "idle", "over"}

(* Wrong: the corpora are kept.                                            *)
InvalidateNothing == UNCHANGED corpora

(* invalidate_sparse_indexes: every scope's corpus is dropped.             *)
Invalidate == corpora' = [f \in {} |-> {}]

-----------------------------------------------------------------------------
(* Document operations.  The call to Qdrant takes effect in one step; the  *)
(* coroutine resumes in a later one, and what follows the await up to the  *)
(* next one, the invalidation included, is one step.                       *)

Goto(d, pc) == operation' = [operation EXCEPT ![d].pc = pc]

End(d, pc) == operation' = [operation EXCEPT ![d] = [pc |-> pc, user |-> Owner]]

Start(d, pc, u) ==
    /\ setting.overlap \/ \A q \in Queries : ~Building(q)
    /\ operation' = [operation EXCEPT ![d] = [pc |-> pc, user |-> u]]

(* process_ingestion: set_searchable(True), then the corpora are dropped.  *)
PublishPoints(d) ==
    /\ operation[d].pc = "fresh" /\ Start(d, "publish", Owner)
    /\ visible' = visible \cup {d}
    /\ UNCHANGED <<setting, shares, active, subjects, corpora, lingering,
                   granted, query>>

PublishDone(d) ==
    /\ operation[d].pc = "publish" /\ End(d, "idle")
    /\ Invalidate /\ lingering' = {}
    /\ UNCHANGED <<setting, shares, active, visible, subjects, granted,
                   query>>

(* Queries whose user is given a document can read it from now on.         *)
Entitle(u, d) ==
    query' = [q \in Queries |->
                 IF query[q].pc # "idle" /\ query[q].scope.user = u
                    THEN [query[q] EXCEPT !.entitled = @ \cup {d}]
                    ELSE query[q]]

(* share_document: the row commits, then update_access.                    *)
ShareGrant(d, u) ==
    /\ operation[d].pc = "idle" /\ u # Owner /\ Start(d, "grant", u)
    /\ shares' = [shares EXCEPT ![d] = @ \cup {u}]
    /\ granted' = [granted EXCEPT ![d] = @ \cup {u}]
    /\ Entitle(u, d)
    /\ UNCHANGED <<setting, active, visible, subjects, corpora, lingering>>

ShareWiden(d) ==
    /\ operation[d].pc = "grant" /\ Goto(d, "widen")
    /\ subjects' = [subjects EXCEPT ![d] = {Owner} \cup shares[d]]
    /\ UNCHANGED <<setting, shares, active, visible, corpora, lingering,
                   granted, query>>

ShareDone(d) ==
    /\ operation[d].pc = "widen" /\ End(d, "idle")
    /\ Invalidate /\ lingering' = {}
    /\ UNCHANGED <<setting, shares, active, visible, subjects, granted,
                   query>>

(* unshare_document: update_access, then the row is removed.               *)
UnshareNarrow(d, u) ==
    /\ operation[d].pc = "idle" /\ u # Owner /\ Start(d, "narrow", u)
    /\ subjects' = [subjects EXCEPT ![d] = {Owner} \cup (shares[d] \ {u})]
    /\ UNCHANGED <<setting, shares, active, visible, corpora, lingering,
                   granted, query>>

UnshareNarrowed(d) ==
    /\ operation[d].pc = "narrow" /\ Goto(d, "revoke")
    /\ Invalidate /\ lingering' = {}
    /\ UNCHANGED <<setting, shares, active, visible, subjects, granted,
                   query>>

UnshareRevoke(d) ==
    /\ operation[d].pc = "revoke" /\ End(d, "idle")
    /\ shares' = [shares EXCEPT ![d] = @ \ {operation[d].user}]
    /\ UNCHANGED <<setting, active, visible, subjects, corpora, lingering,
                   granted, query>>

(* delete_document: hide, tombstone, purge, erase, finalize, and only then *)
(* drop the corpora.  Purging leaves nothing visible, as hiding did.       *)
DeleteHide(d) ==
    /\ operation[d].pc = "idle" /\ Start(d, "hide", Owner)
    /\ visible' = visible \ {d}
    /\ UNCHANGED <<setting, shares, active, subjects, corpora, lingering,
                   granted, query>>

Bury(d) == active' = active \ {d} /\ lingering' = lingering \cup {d}

DeleteTombstone(d) ==
    /\ operation[d].pc = "hide" /\ Goto(d, "tombstone")
    /\ Bury(d)
    /\ UNCHANGED <<setting, shares, visible, subjects, corpora, granted,
                   query>>

DeletePurge(d) ==
    /\ operation[d].pc = "tombstone" /\ Goto(d, "purge")
    /\ subjects' = [subjects EXCEPT ![d] = {}]
    /\ UNCHANGED <<setting, shares, active, visible, corpora, lingering,
                   granted, query>>

DeleteDone(d) ==
    /\ operation[d].pc = "purge" /\ End(d, "over")
    /\ Invalidate /\ lingering' = {}
    /\ UNCHANGED <<setting, shares, active, visible, subjects, query,
                   granted>>

(* An exception: what is done stays done, the rest is left out, dropping   *)
(* the corpora too.  A failed ingestion tries to take its points back.     *)
RaiseBefore(d) ==
    /\ operation[d].pc \notin {"tombstone", "purge"} /\ End(d, "idle")
    /\ \/ UNCHANGED visible
       \/ operation[d].pc = "publish" /\ visible' = visible \ {d}
    /\ UNCHANGED <<active, lingering>>

(* A tombstoned document cannot be asked to be deleted again; a commit may *)
(* have taken effect and raise.                                            *)
RaiseDeleting(d) ==
    /\ End(d, "over")
    /\ \/ operation[d].pc = "hide" /\ Bury(d)
       \/ operation[d].pc \in {"tombstone", "purge"}
          /\ UNCHANGED <<active, lingering>>
    /\ UNCHANGED visible

Raise(d) ==
    /\ d \in setting.raises /\ InFlight(d)
    /\ RaiseBefore(d) \/ RaiseDeleting(d)
    /\ UNCHANGED <<setting, shares, subjects, corpora, granted, query>>

OperationStep(d) ==
    \/ PublishPoints(d) \/ PublishDone(d)
    \/ (\E u \in Users : ShareGrant(d, u) \/ UnshareNarrow(d, u))
    \/ ShareWiden(d) \/ ShareDone(d)
    \/ UnshareNarrowed(d) \/ UnshareRevoke(d)
    \/ DeleteHide(d) \/ DeleteTombstone(d) \/ DeletePurge(d) \/ DeleteDone(d)
    \/ Raise(d)

-----------------------------------------------------------------------------
(* A query: the scope is read in one transaction and kept to the end.      *)

ReadScope(q, u, admin) ==
    /\ query[q].pc = "idle" /\ (admin => u \in setting.admins)
    /\ query' = [query EXCEPT ![q] =
          [NoQuery EXCEPT !.pc = "dense",
             !.scope = [user |-> u, admin |-> admin,
                        shared |-> {d \in Docs : u \in shares[d]}],
             !.entitled = MayRead(u, admin),
             !.leftover = lingering \cap Given(u, admin)]]
    /\ UNCHANGED <<setting, shares, active, visible, subjects, operation,
                   corpora, lingering, granted>>

DenseSearch(q) ==
    /\ query[q].pc = "dense"
    /\ query' = [query EXCEPT ![q].pc = "sparse",
                              ![q].found = {d \in Docs :
                                               Matches(d, query[q].scope)}]
    /\ UNCHANGED <<setting, shares, active, visible, subjects, operation,
                   corpora, lingering, granted>>

(* The scope has a corpus: score it.                                       *)
SparseHit(q) ==
    LET f == Fingerprint(query[q].scope) IN
    /\ query[q].pc = "sparse" /\ f \in DOMAIN corpora
    /\ query' = [query EXCEPT ![q].pc = "answered",
                              ![q].found = @ \cup corpora[f]]
    /\ UNCHANGED <<setting, shares, active, visible, subjects, operation,
                   corpora, lingering, granted>>

(* It has none: scroll the collection, a page at a time.                   *)
SparseMiss(q) ==
    /\ query[q].pc = "sparse"
    /\ Fingerprint(query[q].scope) \notin DOMAIN corpora
    /\ setting.overlap \/ \A d \in Docs : ~InFlight(d)
    /\ query' = [query EXCEPT ![q].pc = "scroll"]
    /\ UNCHANGED <<setting, shares, active, visible, subjects, operation,
                   corpora, lingering, granted>>

(* Wrong: a page's point is filed under the next page.                     *)
ScrollPageShifted(q) ==
    LET d == query[q].page IN
    /\ Building(q) /\ d \in Docs
    /\ query' = [query EXCEPT ![q].page = d + 1,
                              ![q].building = IF Matches(d, query[q].scope)
                                              THEN @ \cup {d + 1} ELSE @]
    /\ UNCHANGED <<setting, shares, active, visible, subjects, operation,
                   corpora, lingering, granted>>

ScrollPage(q) ==
    LET d == query[q].page IN
    /\ Building(q) /\ d \in Docs
    /\ query' = [query EXCEPT ![q].page = d + 1,
                              ![q].building = IF Matches(d, query[q].scope)
                                              THEN @ \cup {d} ELSE @]
    /\ UNCHANGED <<setting, shares, active, visible, subjects, operation,
                   corpora, lingering, granted>>

(* The last page is in: the corpus is stored under the fingerprint, over   *)
(* whatever is there, and scored.                                          *)
StoreCorpus(q) ==
    LET f == Fingerprint(query[q].scope) IN
    /\ Building(q) /\ query[q].page \notin Docs
    /\ corpora' = [g \in DOMAIN corpora \cup {f} |->
                      IF g = f THEN query[q].building ELSE corpora[g]]
    /\ query' = [query EXCEPT ![q].pc = "answered",
                              ![q].page = 1, ![q].building = {},
                              ![q].found = @ \cup query[q].building]
    /\ UNCHANGED <<setting, shares, active, visible, subjects, operation,
                   lingering, granted>>

(* The answer has been given, or retrieval raised.                         *)
EndQuery(q) ==
    /\ query[q].pc = "answered" \/ (setting.raises # {} /\ query[q].pc # "idle")
    /\ query' = [query EXCEPT ![q] = NoQuery]
    /\ UNCHANGED <<setting, shares, active, visible, subjects, operation,
                   corpora, lingering, granted>>

QueryStep(q) ==
    \/ \E u \in Users, admin \in BOOLEAN : ReadScope(q, u, admin)
    \/ DenseSearch(q) \/ SparseHit(q) \/ SparseMiss(q)
    \/ ScrollPage(q) \/ StoreCorpus(q) \/ EndQuery(q)

Next ==
    \/ \E d \in Docs : OperationStep(d)
    \/ \E q \in Queries : QueryStep(q)

Spec == Init /\ [][Next]_vars

-----------------------------------------------------------------------------
(* Properties                                                              *)

(* Strangers find nothing: whatever races with whatever, a query without   *)
(* the administrator's flag finds only published documents that its user   *)
(* owns or that were at some time shared with that user -- also by way of  *)
(* a corpus that another query built.                                      *)
StrangersFindNothing ==
    \A q \in Queries : \A d \in query[q].found :
        /\ operation[d].pc # "fresh"
        /\ \/ query[q].scope.admin
           \/ query[q].scope.user \in {Owner} \cup granted[d]

(* Without builds beside operations, an answer holds only what its user    *)
(* could read at some time since the query read its scope -- and, because  *)
(* a deletion drops the corpora last of all, a document of the user's that *)
(* was tombstoned before and no operation has ended since.  The order in   *)
(* which share and unshare write the row and Qdrant, the fingerprint and   *)
(* the invalidations keep withdrawn grants out of every corpus a query can *)
(* reach, and deleted documents as soon as any operation has ended, their  *)
(* own or, where theirs failed, the next.                                  *)
AnswersWithinRights ==
    ~setting.overlap => \A q \in Queries :
        query[q].pc = "answered" =>
            query[q].found \subseteq query[q].entitled \cup query[q].leftover

-----------------------------------------------------------------------------
(* A statement of the documentation that the code does not keep.           *)

(* docs/SECURITY.md: "deleting, and deleted vectors cannot enter candidates*)
(* or prompts": what a query finds is active when it answers, or could be  *)
(* read by its user while it ran.                                          *)
DeletedNeverRetrieved ==
    \A q \in Queries :
        query[q].pc = "answered" =>
            query[q].found \subseteq active \cup query[q].entitled
=============================================================================
