--------------------------- MODULE DocumentAccess ---------------------------
(***************************************************************************)
(* Who may read the document is written down four times: in the SQL of the *)
(* document endpoints, in the row-level policies of the database, in the   *)
(* scope that a query takes from the share rows, and in the filter that    *)
(* Qdrant applies to the payload.  This module translates the four over    *)
(* the rows and the payload that DocumentLifecycle produces; it has no     *)
(* state of its own.  A token's roles come down to `admin`: whether they   *)
(* include document:content:admin.                                         *)
(***************************************************************************)
EXTENDS DocumentLifecycle

(* document_share_access: the rows of a transaction with this identity are *)
(* those granted to it and those it granted; the owner grants them all.    *)
VisibleShares(u) == {v \in shares : u \in {v, Owner}}

SharedWith(u) == u \in VisibleShares(u)

(* get_accessible and list_accessible: what the endpoints ask for.         *)
AccessPredicate(u, admin) ==
    /\ lifecycle = "active"
    /\ \/ admin
       \/ u = Owner
       \/ visibility = "shared" /\ SharedWith(u)

(* Wrong: the policy of the first migration, which knows neither the       *)
(* administrator nor the lifecycle.                                        *)
RowPolicyOfFirstMigration(u, admin) ==
    u = Owner \/ (visibility = "shared" /\ SharedWith(u))

(* document_access: what the database shows to a role it applies to.       *)
RowPolicy(u, admin) ==
    /\ lifecycle = "active"
    /\ \/ admin
       \/ u = Owner
       \/ visibility = "shared" /\ SharedWith(u)

MayRead(u, admin) == AccessPredicate(u, admin) /\ RowPolicy(u, admin)

(* Wrong: the scope of the token alone, as the document endpoints use it.  *)
AuthorizationScopeOfToken(u, admin) ==
    [user |-> u, admin |-> admin, shared |-> FALSE]

(* authorization_scope: `shared` says whether this document is among the   *)
(* shared_document_ids.  It is asked of the rows, not of the visibility.   *)
AuthorizationScope(u, admin) ==
    [user |-> u, admin |-> admin, shared |-> SharedWith(u)]

(* _authorization_filter, applied to the points of a batch.                *)
AuthorizationFilter(b, scope) ==
    /\ b \in searchable
    /\ scope.admin \/ scope.user \in subjects[b] \/ scope.shared

Finds(b, u, admin) == AuthorizationFilter(b, AuthorizationScope(u, admin))

-----------------------------------------------------------------------------
(* Properties                                                              *)

(* What a query finds in an active document, the document endpoints would  *)
(* show to the same user, through both the predicate and the policy --     *)
(* unless the ingestion snapshot named a user whose grant has gone since.  *)
(* With requests handled one at a time and whatever fails in them: share   *)
(* and unshare write the rows, the visibility and the payload in an order  *)
(* that never lets the payload run ahead of the rows.                      *)
FoundIsReadable ==
    env.serial /\ lifecycle = "active" =>
        \A u \in Users \ worker.audience, admin \in BOOLEAN, b \in Batches :
            Finds(b, u, admin) => MayRead(u, admin)

(* The other way round, and with requests at the same time: when ingestion *)
(* is over and its job completed, whoever may read the document finds all  *)
(* of it, also a grantee whom the payload does not name, or no longer --   *)
(* unless PostgreSQL fails, an answer is lost, a process crashes or a      *)
(* delete request has hidden the points.                                   *)
ReadableIsFound ==
    /\ "db" \notin env.failing /\ env.losing = {} /\ ~env.crashes
    /\ worker.pc = "over" /\ job = "completed"
    /\ \A r \in Requests : request[r].pc # "tombstone"
    => \A u \in Users, admin \in BOOLEAN :
           MayRead(u, admin) => \A b \in Batches : Finds(b, u, admin)
=============================================================================
