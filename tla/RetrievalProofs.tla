-------------------------- MODULE RetrievalProofs --------------------------
(* Proofs about ScopedRetrieval, for any documents, users and queries.     *)
EXTENDS ScopedRetrieval, TLAPS

(* Documents that a scope may know of: published, and owned by its user or *)
(* shared with that user at some time.                                     *)
Fair(scope, S) ==
    \A d \in S : /\ operation[d].pc # "fresh"
                 /\ \/ scope.admin
                    \/ scope.user \in {Owner} \cup granted[d]

(* Nothing is searchable before it is published, and neither the rows nor  *)
(* the payload name a user that the document was never shared with.        *)
RowsFair ==
    /\ \A d \in visible : operation[d].pc # "fresh"
    /\ \A d \in Docs : /\ shares[d] \subseteq granted[d]
                       /\ subjects[d] \subseteq {Owner} \cup granted[d]

(* What a query holds, and what it may take over from another one.         *)
QueryFair(q) ==
    /\ \A d \in query[q].scope.shared : query[q].scope.user \in granted[d]
    /\ Fair(query[q].scope, query[q].building)
    /\ Fair(query[q].scope, query[q].found)

CorporaFair == \A f \in DOMAIN corpora : Fair(f, corpora[f])

RetrievalInv ==
    TypeOK /\ RowsFair /\ CorporaFair /\ \A q \in Queries : QueryFair(q)

-----------------------------------------------------------------------------
(* What an operation on one document may do, whichever it is.              *)
Operates ==
    /\ TypeOK' /\ RowsFair'
    /\ \A d \in Docs : /\ granted[d] \subseteq granted'[d]
                       /\ operation[d].pc # "fresh" => operation'[d].pc # "fresh"
    /\ UNCHANGED corpora \/ DOMAIN corpora' = {}
    /\ \A q \in Queries : /\ query'[q].scope = query[q].scope
                          /\ query'[q].building = query[q].building
                          /\ query'[q].found = query[q].found

(* Then whatever was fair stays so.                                        *)
LEMMA OperatesFair ==
    ASSUME RetrievalInv, Operates
    PROVE  RetrievalInv'
<1>1. ASSUME NEW scope, NEW S \in SUBSET Docs, Fair(scope, S)
      PROVE  Fair(scope, S)'
      BY <1>1 DEF Operates, Fair
<1>2. ASSUME NEW q \in Queries
      PROVE  QueryFair(q)'
  <2>1. /\ query[q].building \in SUBSET Docs /\ query[q].found \in SUBSET Docs
        /\ query[q].scope.shared \in SUBSET Docs
        BY DEF RetrievalInv, TypeOK, Query, Scope
  <2>2. /\ Fair(query[q].scope, query[q].building)'
        /\ Fair(query[q].scope, query[q].found)'
    <3>1. /\ Fair(query[q].scope, query[q].building)
          /\ Fair(query[q].scope, query[q].found)
          BY DEF RetrievalInv, QueryFair
    <3> QED BY <1>1, <2>1, <3>1 DEF Operates, Fair
  <2>3. \A d \in query'[q].scope.shared : query'[q].scope.user \in granted'[d]
        BY <2>1 DEF RetrievalInv, QueryFair, Operates
  <2> QED BY <2>2, <2>3 DEF QueryFair
<1>3. CorporaFair'
  <2>1. CASE UNCHANGED corpora
    <3>1. ASSUME NEW f \in DOMAIN corpora
          PROVE  Fair(f, corpora[f])'
      <4>1. corpora[f] \in SUBSET Docs /\ Fair(f, corpora[f])
            BY DEF RetrievalInv, TypeOK, CorporaFair
      <4> QED BY <1>1, <2>1, <4>1 DEF Operates, Fair
    <3> QED BY <2>1, <3>1 DEF CorporaFair
  <2>2. CASE DOMAIN corpora' = {}
        BY <2>2 DEF CorporaFair
  <2> QED BY <2>1, <2>2 DEF Operates
<1> QED BY <1>2, <1>3 DEF RetrievalInv, Operates

(* An operation moves on, starts or ends: only its own counter changes.    *)
Counts(d, pc) ==
    /\ operation' \in [Docs -> Operation] /\ operation'[d].pc = pc
    /\ \A e \in Docs \ {d} : operation'[e] = operation[e]

(* Starting, going on and ending move one counter only.                    *)
LEMMA OperationCounts ==
    ASSUME TypeOK, NEW d \in Docs, NEW pc \in Operations, NEW u \in Users,
           Start(d, pc, u) \/ Goto(d, pc) \/ End(d, pc)
    PROVE  Counts(d, pc)
<1>1. operation \in [Docs -> Operation]
      BY DEF TypeOK
<1>2. CASE Goto(d, pc)
      BY <1>1, <1>2 DEF Goto, Counts, Operation
<1>3. CASE \E v \in Users : operation' = [operation EXCEPT ![d] = [pc |-> pc, user |-> v]]
      BY <1>1, <1>3 DEF Counts, Operation
<1> QED BY <1>2, <1>3, UsersAssumption DEF Start, End

(* Steps of an operation that leave rows and payload as they are.          *)
LEMMA QuietStep ==
    ASSUME RetrievalInv, NEW d \in Docs, NEW pc \in Operations \ {"fresh"},
           Counts(d, pc),
           UNCHANGED <<setting, shares, subjects, granted, query>>,
           visible' \subseteq visible \cup {d}, active' \subseteq active,
           lingering' \subseteq lingering \cup {d},
           UNCHANGED corpora \/ Invalidate
    PROVE  Operates
<1>1. /\ DOMAIN corpora' \subseteq Scope
      /\ \A f \in DOMAIN corpora' : corpora'[f] \in SUBSET Docs
  <2>1. CASE UNCHANGED corpora
        BY <2>1 DEF RetrievalInv, TypeOK
  <2>2. CASE Invalidate
        BY <2>2 DEF Invalidate
  <2> QED BY <2>1, <2>2
<1>2. /\ visible' \in SUBSET Docs /\ active' \in SUBSET Docs
      /\ lingering' \in SUBSET Docs
      BY DEF RetrievalInv, TypeOK
<1>3. TypeOK'
      BY <1>1, <1>2 DEF RetrievalInv, TypeOK, Counts
<1>4. ASSUME NEW e \in Docs
      PROVE  operation[e].pc # "fresh" => operation'[e].pc # "fresh"
      BY DEF Counts
<1>5. \A e \in visible' : operation'[e].pc # "fresh"
      BY <1>2, <1>4 DEF RetrievalInv, RowsFair, Counts
<1>6. RowsFair'
      BY <1>5 DEF RetrievalInv, RowsFair
<1>7. UNCHANGED corpora \/ DOMAIN corpora' = {}
      BY DEF Invalidate
<1> QED BY <1>3, <1>4, <1>6, <1>7 DEF Operates

(* Steps that write the share rows or the payload.                         *)
LEMMA ShareStep ==
    ASSUME RetrievalInv, NEW d \in Docs, NEW pc \in Operations \ {"fresh"},
           Counts(d, pc),
           UNCHANGED <<setting, active, visible, corpora, lingering>>,
           shares' \in [Docs -> SUBSET Users], subjects' \in [Docs -> SUBSET Users],
           granted' \in [Docs -> SUBSET Users], query' \in [Queries -> Query],
           \A e \in Docs : /\ granted[e] \subseteq granted'[e]
                          /\ shares'[e] \subseteq granted'[e]
                          /\ subjects'[e] \subseteq {Owner} \cup granted'[e],
           \A q \in Queries : /\ query'[q].scope = query[q].scope
                             /\ query'[q].building = query[q].building
                             /\ query'[q].found = query[q].found
    PROVE  Operates
<1>1. TypeOK'
      BY DEF RetrievalInv, TypeOK, Counts
<1>2. ASSUME NEW e \in Docs
      PROVE  operation[e].pc # "fresh" => operation'[e].pc # "fresh"
      BY DEF Counts
<1>3. \A e \in visible' : operation'[e].pc # "fresh"
      BY <1>2 DEF RetrievalInv, RowsFair, TypeOK
<1> QED BY <1>1, <1>2, <1>3 DEF Operates, RowsFair

(* What a query was entitled to is not what it holds.                      *)
LEMMA EntitleHolds ==
    ASSUME TypeOK, NEW u \in Users, NEW d \in Docs, Entitle(u, d)
    PROVE  /\ query' \in [Queries -> Query]
           /\ \A q \in Queries : /\ query'[q].scope = query[q].scope
                                /\ query'[q].building = query[q].building
                                /\ query'[q].found = query[q].found
<1>1. ASSUME NEW q \in Queries
      PROVE  /\ query'[q] \in Query
             /\ query'[q].scope = query[q].scope
             /\ query'[q].building = query[q].building
             /\ query'[q].found = query[q].found
  <2>1. query[q] \in Query
        BY DEF TypeOK
  <2>2. CASE query'[q] = query[q]
        BY <2>1, <2>2
  <2>3. CASE query'[q] = [query[q] EXCEPT !.entitled = @ \cup {d}]
        BY <2>1, <2>3 DEF Query
  <2> QED BY <2>2, <2>3 DEF Entitle
<1> QED BY <1>1 DEF Entitle

(* Every operation is one of these.                                        *)
LEMMA OperationOperates ==
    ASSUME RetrievalInv, NEW d \in Docs, OperationStep(d)
    PROVE  Operates
<1>0. TypeOK /\ Owner \in Users /\ operation[d] \in Operation
      BY UsersAssumption DEF RetrievalInv, TypeOK
<1>1. CASE PublishPoints(d)
  <2>1. Counts(d, "publish")
        BY <1>0, <1>1, OperationCounts DEF PublishPoints, Operations
  <2> QED BY <1>1, <2>1, QuietStep DEF PublishPoints, Operations
<1>2. CASE PublishDone(d)
  <2>1. Counts(d, "idle")
        BY <1>0, <1>2, OperationCounts DEF PublishDone, Operations
  <2> QED BY <1>2, <2>1, QuietStep DEF PublishDone, Operations
<1>3. ASSUME NEW u \in Users, ShareGrant(d, u)
      PROVE  Operates
  <2>1. Counts(d, "grant")
        BY <1>0, <1>3, OperationCounts DEF ShareGrant, Operations
  <2>2. /\ shares' \in [Docs -> SUBSET Users] /\ granted' \in [Docs -> SUBSET Users]
        /\ subjects' \in [Docs -> SUBSET Users]
        /\ \A e \in Docs : /\ granted[e] \subseteq granted'[e]
                          /\ shares'[e] \subseteq granted'[e]
                          /\ subjects'[e] \subseteq {Owner} \cup granted'[e]
        BY <1>0, <1>3 DEF ShareGrant, RetrievalInv, RowsFair, TypeOK
  <2>3. /\ query' \in [Queries -> Query]
        /\ \A q \in Queries : /\ query'[q].scope = query[q].scope
                             /\ query'[q].building = query[q].building
                             /\ query'[q].found = query[q].found
        BY <1>0, <1>3, EntitleHolds DEF ShareGrant
  <2>4. UNCHANGED <<setting, active, visible, corpora, lingering>>
        BY <1>3 DEF ShareGrant
  <2> QED BY <2>1, <2>2, <2>3, <2>4, ShareStep DEF Operations
<1>4. CASE ShareWiden(d)
  <2>1. Counts(d, "widen")
        BY <1>0, <1>4, OperationCounts DEF ShareWiden, Operations
  <2>2. UNCHANGED <<setting, shares, active, visible, corpora, lingering, granted,
                    query>>
        BY <1>4 DEF ShareWiden
  <2>3. /\ subjects' \in [Docs -> SUBSET Users]
        /\ \A e \in Docs : subjects'[e] \subseteq {Owner} \cup granted[e]
        BY <1>0, <1>4 DEF ShareWiden, RetrievalInv, RowsFair, TypeOK
  <2> QED BY <1>0, <2>1, <2>2, <2>3, ShareStep
          DEF Operations, RetrievalInv, RowsFair, TypeOK
<1>5. CASE ShareDone(d)
  <2>1. Counts(d, "idle")
        BY <1>0, <1>5, OperationCounts DEF ShareDone, Operations
  <2> QED BY <1>5, <2>1, QuietStep DEF ShareDone, Operations
<1>6. ASSUME NEW u \in Users, UnshareNarrow(d, u)
      PROVE  Operates
  <2>1. Counts(d, "narrow")
        BY <1>0, <1>6, OperationCounts DEF UnshareNarrow, Operations
  <2>2. UNCHANGED <<setting, shares, active, visible, corpora, lingering, granted,
                    query>>
        BY <1>6 DEF UnshareNarrow
  <2>3. /\ subjects' \in [Docs -> SUBSET Users]
        /\ \A e \in Docs : subjects'[e] \subseteq {Owner} \cup granted[e]
        BY <1>0, <1>6 DEF UnshareNarrow, RetrievalInv, RowsFair, TypeOK
  <2> QED BY <1>0, <2>1, <2>2, <2>3, ShareStep
          DEF Operations, RetrievalInv, RowsFair, TypeOK
<1>7. CASE UnshareNarrowed(d)
  <2>1. Counts(d, "revoke")
        BY <1>0, <1>7, OperationCounts DEF UnshareNarrowed, Operations
  <2> QED BY <1>7, <2>1, QuietStep DEF UnshareNarrowed, Operations
<1>8. CASE UnshareRevoke(d)
  <2>1. Counts(d, "idle")
        BY <1>0, <1>8, OperationCounts DEF UnshareRevoke, Operations
  <2>2. UNCHANGED <<setting, active, subjects, visible, corpora, lingering, granted,
                    query>>
        BY <1>8 DEF UnshareRevoke
  <2>3. /\ shares' \in [Docs -> SUBSET Users]
        /\ \A e \in Docs : shares'[e] \subseteq granted[e]
        BY <1>0, <1>8 DEF UnshareRevoke, RetrievalInv, RowsFair, TypeOK
  <2> QED BY <1>0, <2>1, <2>2, <2>3, ShareStep
          DEF Operations, RetrievalInv, RowsFair, TypeOK
<1>9. CASE DeleteHide(d)
  <2>1. Counts(d, "hide")
        BY <1>0, <1>9, OperationCounts DEF DeleteHide, Operations
  <2> QED BY <1>9, <2>1, QuietStep DEF DeleteHide, Operations
<1>10. CASE DeleteTombstone(d)
  <2>1. Counts(d, "tombstone")
        BY <1>0, <1>10, OperationCounts DEF DeleteTombstone, Operations
  <2> QED BY <1>10, <2>1, QuietStep DEF DeleteTombstone, Bury, Operations
<1>11. CASE DeletePurge(d)
  <2>1. Counts(d, "purge")
        BY <1>0, <1>11, OperationCounts DEF DeletePurge, Operations
  <2>2. UNCHANGED <<setting, shares, active, visible, corpora, lingering, granted,
                    query>>
        BY <1>11 DEF DeletePurge
  <2>3. /\ subjects' \in [Docs -> SUBSET Users]
        /\ \A e \in Docs : subjects'[e] \subseteq {Owner} \cup granted[e]
        BY <1>0, <1>11 DEF DeletePurge, RetrievalInv, RowsFair, TypeOK
  <2> QED BY <1>0, <2>1, <2>2, <2>3, ShareStep
          DEF Operations, RetrievalInv, RowsFair, TypeOK
<1>12. CASE DeleteDone(d)
  <2>1. Counts(d, "over")
        BY <1>0, <1>12, OperationCounts DEF DeleteDone, Operations
  <2> QED BY <1>12, <2>1, QuietStep DEF DeleteDone, Operations
<1>13. CASE Raise(d)
  <2>1. \E pc \in {"idle", "over"} : Counts(d, pc)
        BY <1>0, <1>13, OperationCounts
           DEF Raise, RaiseBefore, RaiseDeleting, Operations
  <2> QED BY <1>13, <2>1, QuietStep
          DEF Raise, RaiseBefore, RaiseDeleting, Bury, Operations
<1> QED BY <1>1, <1>2, <1>3, <1>4, <1>5, <1>6, <1>7, <1>8, <1>9, <1>10, <1>11,
           <1>12, <1>13 DEF OperationStep

-----------------------------------------------------------------------------
(* Queries.                                                                *)

(* A query's step leaves the documents alone.                              *)
Asks ==
    /\ UNCHANGED <<setting, shares, active, visible, subjects, operation,
                   lingering, granted>>
    /\ query' \in [Queries -> Query]
    /\ \A q \in Queries : QueryFair(q)'
    /\ DOMAIN corpora' \subseteq Scope
    /\ \A f \in DOMAIN corpora' : corpora'[f] \in SUBSET Docs
    /\ CorporaFair'

(* Then whatever was fair stays so.                                        *)
LEMMA AsksFair ==
    ASSUME RetrievalInv, Asks
    PROVE  RetrievalInv'
BY DEF RetrievalInv, Asks, TypeOK, RowsFair

(* What the filter lets through is fair, however old the scope is.         *)
LEMMA MatchesFair ==
    ASSUME RetrievalInv, NEW q \in Queries, NEW d \in Docs,
           Matches(d, query[q].scope)
    PROVE  /\ operation[d].pc # "fresh"
           /\ \/ query[q].scope.admin
              \/ query[q].scope.user \in {Owner} \cup granted[d]
BY DEF RetrievalInv, RowsFair, QueryFair, Matches

(* The query changes, the corpora stay.                                    *)
LEMMA AsksQuietly ==
    ASSUME RetrievalInv, NEW q \in Queries, NEW state \in Query,
           query' = [query EXCEPT ![q] = state],
           UNCHANGED <<setting, shares, active, visible, subjects, operation,
                       corpora, lingering, granted>>,
           \A d \in state.scope.shared : state.scope.user \in granted[d],
           Fair(state.scope, state.building), Fair(state.scope, state.found)
    PROVE  Asks
<1>1. query' \in [Queries -> Query] /\ query'[q] = state
      BY DEF RetrievalInv, TypeOK
<1>2. ASSUME NEW p \in Queries
      PROVE  QueryFair(p)'
      BY <1>1 DEF RetrievalInv, QueryFair, Fair
<1>3. CorporaFair'
      BY DEF RetrievalInv, CorporaFair, Fair
<1> QED BY <1>1, <1>2, <1>3 DEF Asks, RetrievalInv, TypeOK

(* Every step of a query is one of these.                                  *)
LEMMA QueryAsks ==
    ASSUME RetrievalInv, NEW q \in Queries, QueryStep(q)
    PROVE  Asks
<1> DEFINE scope == query[q].scope
<1>0. /\ query[q] \in Query /\ query \in [Queries -> Query] /\ scope \in Scope
      /\ query[q].found \in SUBSET Docs /\ query[q].building \in SUBSET Docs
      /\ query[q].page \in Nat
      /\ \A d \in scope.shared : scope.user \in granted[d]
      /\ Fair(scope, query[q].building) /\ Fair(scope, query[q].found)
      BY DEF RetrievalInv, TypeOK, Query, QueryFair
<1>1. ASSUME NEW u \in Users, NEW admin \in BOOLEAN, ReadScope(q, u, admin)
      PROVE  Asks
  <2> DEFINE state == [NoQuery EXCEPT !.pc = "dense",
                         !.scope = [user |-> u, admin |-> admin,
                                    shared |-> {d \in Docs : u \in shares[d]}],
                         !.entitled = MayRead(u, admin),
                         !.leftover = lingering \cap Given(u, admin)]
  <2>1. state \in Query
        BY DEF Query, NoQuery, Stages, Scope, MayRead, Given
  <2>2. /\ \A d \in state.scope.shared : state.scope.user \in granted[d]
        /\ Fair(state.scope, state.building) /\ Fair(state.scope, state.found)
        BY DEF NoQuery, Fair, RetrievalInv, RowsFair
  <2>3. /\ query' = [query EXCEPT ![q] = state]
        /\ UNCHANGED <<setting, shares, active, visible, subjects, operation,
                       corpora, lingering, granted>>
        BY <1>1 DEF ReadScope
  <2> HIDE DEF state
  <2> QED BY <2>1, <2>2, <2>3, AsksQuietly
<1>2. CASE DenseSearch(q)
  <2> DEFINE state == [query[q] EXCEPT !.pc = "sparse",
                         !.found = {d \in Docs : Matches(d, scope)}]
  <2>1. /\ state \in Query /\ state.scope = scope
        /\ state.building = query[q].building
        /\ state.found = {d \in Docs : Matches(d, scope)}
        BY <1>0 DEF Query, Stages
  <2>2. Fair(scope, {d \in Docs : Matches(d, scope)})
        BY MatchesFair DEF Fair
  <2>3. /\ query' = [query EXCEPT ![q] = state]
        /\ UNCHANGED <<setting, shares, active, visible, subjects, operation,
                       corpora, lingering, granted>>
        BY <1>0, <1>2 DEF DenseSearch
  <2> HIDE DEF state
  <2> QED BY <1>0, <2>1, <2>2, <2>3, AsksQuietly
<1>3. CASE SparseHit(q)
  <2> DEFINE state == [query[q] EXCEPT !.pc = "answered",
                         !.found = @ \cup corpora[scope]]
  <2>1. /\ scope \in DOMAIN corpora /\ query' = [query EXCEPT ![q] = state]
        /\ UNCHANGED <<setting, shares, active, visible, subjects, operation,
                       corpora, lingering, granted>>
        BY <1>0, <1>3 DEF SparseHit, Fingerprint
  <2>2. corpora[scope] \in SUBSET Docs /\ Fair(scope, corpora[scope])
        BY <2>1 DEF RetrievalInv, TypeOK, CorporaFair
  <2>3. /\ state \in Query /\ state.scope = scope
        /\ state.building = query[q].building
        /\ state.found = query[q].found \cup corpora[scope]
        BY <1>0, <2>2 DEF Query, Stages
  <2>4. Fair(scope, query[q].found \cup corpora[scope])
        BY <1>0, <2>2 DEF Fair
  <2> HIDE DEF state
  <2> QED BY <1>0, <2>1, <2>3, <2>4, AsksQuietly
<1>4. CASE SparseMiss(q)
  <2> DEFINE state == [query[q] EXCEPT !.pc = "scroll"]
  <2>1. /\ state \in Query /\ state.scope = scope
        /\ state.building = query[q].building /\ state.found = query[q].found
        BY <1>0 DEF Query, Stages
  <2>2. /\ query' = [query EXCEPT ![q] = state]
        /\ UNCHANGED <<setting, shares, active, visible, subjects, operation,
                       corpora, lingering, granted>>
        BY <1>0, <1>4 DEF SparseMiss
  <2> HIDE DEF state
  <2> QED BY <1>0, <2>1, <2>2, AsksQuietly
<1>5. CASE ScrollPage(q)
  <2> DEFINE d == query[q].page
             more == IF Matches(d, scope) THEN query[q].building \cup {d}
                                          ELSE query[q].building
             state == [query[q] EXCEPT !.page = d + 1, !.building = more]
  <2>1. /\ d \in Docs /\ query' = [query EXCEPT ![q] = state]
        /\ UNCHANGED <<setting, shares, active, visible, subjects, operation,
                       corpora, lingering, granted>>
        BY <1>0, <1>5 DEF ScrollPage
  <2>2. more \in SUBSET Docs /\ Fair(scope, more)
        BY <1>0, <2>1, MatchesFair DEF Fair
  <2>3. /\ state \in Query /\ state.scope = scope
        /\ state.building = more /\ state.found = query[q].found
    <3> DEFINE next == d + 1
    <3>1. next \in Nat
          BY <1>0
    <3> HIDE DEF more, next
    <3>2. state = [query[q] EXCEPT !.page = next, !.building = more]
          BY DEF next
    <3> HIDE DEF state
    <3> QED BY <1>0, <2>2, <3>1, <3>2 DEF Query, Stages
  <2> HIDE DEF state, more
  <2> QED BY <1>0, <2>1, <2>2, <2>3, AsksQuietly
<1>6. CASE StoreCorpus(q)
  <2> DEFINE state == [query[q] EXCEPT !.pc = "answered", !.page = 1,
                         !.building = {},
                         !.found = query[q].found \cup query[q].building]
  <2>1. /\ query' = [query EXCEPT ![q] = state]
        /\ corpora' = [g \in DOMAIN corpora \cup {scope} |->
                         IF g = scope THEN query[q].building ELSE corpora[g]]
        /\ UNCHANGED <<setting, shares, active, visible, subjects, operation,
                       lingering, granted>>
        BY <1>0, <1>6 DEF StoreCorpus, Fingerprint
  <2>2. /\ state \in Query /\ state.scope = scope /\ state.building = {}
        /\ state.found = query[q].found \cup query[q].building
        BY <1>0 DEF Query, Stages
  <2> HIDE DEF state
  <2>3. query' \in [Queries -> Query] /\ query'[q] = state
        BY <1>0, <2>1, <2>2
  <2>4. ASSUME NEW p \in Queries
        PROVE  QueryFair(p)'
        BY <1>0, <2>1, <2>2, <2>3 DEF RetrievalInv, QueryFair, Fair
  <2>5. ASSUME NEW f \in DOMAIN corpora'
        PROVE  f \in Scope /\ corpora'[f] \in SUBSET Docs /\ Fair(f, corpora[f])'
    <3>1. CASE f = scope
      <4>1. corpora'[f] = query[q].building
            BY <2>1, <3>1
      <4>2. Fair(f, query[q].building) /\ query[q].building \in SUBSET Docs
            BY <1>0, <3>1
      <4> QED BY <1>0, <2>1, <3>1, <4>1, <4>2 DEF Fair
    <3>2. CASE f # scope
      <4>1. f \in DOMAIN corpora /\ corpora'[f] = corpora[f]
            BY <2>1, <2>5, <3>2
      <4>2. Fair(f, corpora[f]) /\ corpora[f] \in SUBSET Docs /\ f \in Scope
            BY <4>1 DEF RetrievalInv, TypeOK, CorporaFair
      <4> QED BY <2>1, <4>1, <4>2 DEF Fair
    <3> QED BY <3>1, <3>2
  <2> QED BY <2>1, <2>3, <2>4, <2>5 DEF Asks, CorporaFair
<1>7. CASE EndQuery(q)
  <2>1. /\ NoQuery \in Query /\ NoQuery.building = {} /\ NoQuery.found = {}
        /\ NoQuery.scope.shared = {}
        BY UsersAssumption DEF NoQuery, Nobody, Query, Scope, Stages
  <2>2. /\ query' = [query EXCEPT ![q] = NoQuery]
        /\ UNCHANGED <<setting, shares, active, visible, subjects, operation,
                       corpora, lingering, granted>>
        BY <1>7 DEF EndQuery
  <2>3. Fair(NoQuery.scope, {})
        BY DEF Fair
  <2> QED BY <2>1, <2>2, <2>3, AsksQuietly
<1> QED BY <1>1, <1>2, <1>3, <1>4, <1>5, <1>6, <1>7 DEF QueryStep

-----------------------------------------------------------------------------
(* The invariant holds at the start and is kept by every step.             *)
LEMMA RetrievalAlways == Spec => []RetrievalInv
<1>1. Init => RetrievalInv
  <2> SUFFICES ASSUME Init PROVE RetrievalInv
      OBVIOUS
  <2>1. NoQuery \in Query /\ NoQuery.scope.shared = {}
        /\ NoQuery.building = {} /\ NoQuery.found = {}
        BY UsersAssumption DEF NoQuery, Nobody, Query, Scope, Stages
  <2>2. TypeOK
        BY <2>1, UsersAssumption, SettingsAssumption
           DEF Init, TypeOK, Operation, Operations
  <2> QED BY <2>1, <2>2 DEF Init, RetrievalInv, RowsFair, CorporaFair, QueryFair, Fair
<1>2. RetrievalInv /\ [Next]_vars => RetrievalInv'
  <2> SUFFICES ASSUME RetrievalInv, [Next]_vars PROVE RetrievalInv'
      OBVIOUS
  <2>1. CASE UNCHANGED vars
        BY <2>1 DEF vars, RetrievalInv, TypeOK, RowsFair, CorporaFair, QueryFair, Fair
  <2> QED BY <2>1, OperationOperates, OperatesFair, QueryAsks, AsksFair DEF Next
<1> QED BY <1>1, <1>2, PTL DEF Spec

(* Every variable of retrieval keeps its type; corpora are kept under      *)
(* scopes and hold documents.  Code: HybridRetriever, documents.py.        *)
THEOREM RetrievalTyped == Spec => []TypeOK
BY RetrievalAlways, PTL DEF RetrievalInv

(* A query without the administrator's flag finds only published documents *)
(* that its user owns or that were shared with that user, whatever races   *)
(* with whatever, also in the corpora of other queries.                    *)
THEOREM NothingForStrangers == Spec => []StrangersFindNothing
<1>1. RetrievalInv => StrangersFindNothing
      BY DEF RetrievalInv, QueryFair, Fair, StrangersFindNothing
<1> QED BY <1>1, RetrievalAlways, PTL

-----------------------------------------------------------------------------
(* Rights, where no corpus is built beside an operation.                   *)

(* What is searchable is active, and the payload names nobody whom    *)
(* the rows do not, nor whom an unshare is about to take from them.        *)
DocsRight ==
    \A d \in Docs :
        /\ d \notin active => /\ operation[d].pc \in {"tombstone", "purge", "over"}
                             /\ d \notin visible
        /\ operation[d].pc \in {"hide", "tombstone", "purge"} => d \notin visible
        /\ subjects[d] \subseteq {Owner} \cup shares[d]
        /\ operation[d].pc \in {"narrow", "revoke"} =>
              operation[d].user \notin subjects[d]

(* No build beside an operation; when the row goes, the corpora are gone.  *)
TakesTurns ==
    \A d \in Docs :
        /\ InFlight(d) => \A q \in Queries : ~Building(q)
        /\ operation[d].pc = "revoke" => DOMAIN corpora = {}

(* What a scope may hold at this moment.                                   *)
Right(scope, S) ==
    \A d \in S : /\ d \in active \cup lingering
                 /\ \/ scope.admin \/ scope.user = Owner
                    \/ scope.user \in shares[d] \/ d \in scope.shared

CorporaRight == \A f \in DOMAIN corpora : Right(f, corpora[f])

(* What a query may hold.                                                  *)
Holds(state) == state.entitled \cup state.leftover

(* Everything that a query's user may read now, or might when the query    *)
(* began, is known to be the user's, as is what lingers.                   *)
QueryRight(q) ==
    /\ query[q].pc # "idle" =>
          \A d \in Docs : Right(query[q].scope, {d}) => d \in Holds(query[q])
    /\ query[q].found \subseteq Holds(query[q])
    /\ query[q].building \subseteq Holds(query[q])
    /\ IF Building(q) THEN Right(query[q].scope, query[q].building)
                      ELSE query[q].building = {}

RightsInv ==
    ~setting.overlap =>
        /\ DocsRight /\ TakesTurns /\ CorporaRight
        /\ \A q \in Queries : QueryRight(q)

(* The counter of an operation, with the grantee that it is about.         *)
Steps(d, pc, u) ==
    /\ operation' \in [Docs -> Operation]
    /\ operation'[d].pc = pc /\ operation'[d].user = u
    /\ \A e \in Docs \ {d} : operation'[e] = operation[e]

(* Starting, going on and ending, with the grantee.                        *)
LEMMA OperationSteps ==
    ASSUME TypeOK, NEW d \in Docs, NEW pc \in Operations, NEW u \in Users
    PROVE  /\ Start(d, pc, u) => Steps(d, pc, u)
           /\ Goto(d, pc) => Steps(d, pc, operation[d].user)
           /\ End(d, pc) => Steps(d, pc, Owner)
<1>1. operation \in [Docs -> Operation] /\ Owner \in Users
      BY UsersAssumption DEF TypeOK
<1>2. ASSUME NEW v \in Users,
             operation' = [operation EXCEPT ![d] = [pc |-> pc, user |-> v]]
      PROVE  Steps(d, pc, v)
      BY <1>1, <1>2 DEF Steps, Operation
<1>3. Goto(d, pc) => Steps(d, pc, operation[d].user)
      BY <1>1 DEF Goto, Steps, Operation
<1> QED BY <1>1, <1>2, <1>3 DEF Start, End

(* The corpora stay, and a document that is tombstoned lingers in them.    *)
Stands == UNCHANGED corpora /\ active' \cup lingering' = active \cup lingering

(* The corpora are dropped, and nothing lingers.                           *)
Drops == Invalidate /\ UNCHANGED active /\ lingering' = {}

(* Steps that leave the share rows as they are keep every right; those     *)
(* that drop the corpora keep them right anyway.                           *)
LEMMA RightKept ==
    ASSUME RightsInv, RetrievalInv, ~setting.overlap,
           UNCHANGED <<shares, query>>, Stands \/ Drops,
           \A q \in Queries : ~Building(q)
    PROVE  CorporaRight' /\ \A q \in Queries : QueryRight(q)'
<1>1. CorporaRight'
  <2>1. CASE Stands
        BY <2>1 DEF Stands, RightsInv, CorporaRight, Right
  <2>2. CASE Drops
        BY <2>2 DEF Drops, Invalidate, CorporaRight
  <2> QED BY <2>1, <2>2
<1>2. ASSUME NEW q \in Queries
      PROVE  QueryRight(q)'
  <2>1. ASSUME NEW d \in Docs, Right(query[q].scope, {d})'
        PROVE  Right(query[q].scope, {d})
        BY <2>1 DEF Stands, Drops, Right
  <2>2. QueryRight(q) /\ ~Building(q)
        BY DEF RightsInv
  <2>3. query' = query
        OBVIOUS
  <2> QED BY <2>1, <2>2, <2>3 DEF QueryRight, Right, Building, Holds
<1> QED BY <1>1, <1>2

(* An operation that starts finds no corpus being built, one that goes on  *)
(* has kept it so.                                                         *)
LEMMA TurnsKept ==
    ASSUME RightsInv, RetrievalInv, ~setting.overlap, UNCHANGED setting,
           NEW d \in Docs, NEW pc \in Operations, NEW u \in Users,
           Steps(d, pc, u), Start(d, pc, u) \/ InFlight(d),
           \A q \in Queries : Building(q)' = Building(q),
           UNCHANGED corpora \/ Invalidate, pc = "revoke" => Invalidate
    PROVE  TakesTurns'
<1>1. \A q \in Queries : ~Building(q)
      BY DEF RightsInv, TakesTurns, Start
<1>2. ASSUME NEW e \in Docs, operation'[e].pc = "revoke"
      PROVE  DOMAIN corpora' = {}
  <2>1. CASE UNCHANGED corpora
        BY <1>2, <2>1 DEF RightsInv, TakesTurns, Steps, Invalidate
  <2>2. CASE Invalidate
        BY <2>2 DEF Invalidate
  <2> QED BY <2>1, <2>2
<1> QED BY <1>1, <1>2 DEF TakesTurns

(* Operations that leave the share rows as they are.                       *)
LEMMA QuietRights ==
    ASSUME RightsInv, RetrievalInv, ~setting.overlap,
           UNCHANGED <<setting, shares, query>>,
           NEW d \in Docs, NEW pc \in Operations, NEW u \in Users,
           Steps(d, pc, u), Start(d, pc, u) \/ InFlight(d),
           Stands \/ Drops, pc = "revoke" => Invalidate,
           DocsRight'
    PROVE  RightsInv'
<1>0. \A q \in Queries : ~Building(q)
      BY DEF RightsInv, TakesTurns, Start
<1>1. CorporaRight' /\ \A q \in Queries : QueryRight(q)'
      BY <1>0, RightKept
<1>2. TakesTurns'
      BY TurnsKept DEF Building, Stands, Drops
<1> QED BY <1>1, <1>2 DEF RightsInv

(* What the documents say of themselves, when only d changes.              *)
LEMMA DocRight ==
    ASSUME RightsInv, RetrievalInv, ~setting.overlap,
           NEW d \in Docs, NEW pc \in Operations, NEW u \in Users,
           Steps(d, pc, u), active \ {d} \subseteq active',
           visible' \subseteq visible \cup {d},
           \A e \in Docs \ {d} : shares'[e] = shares[e] /\ subjects'[e] = subjects[e],
           d \notin active' => pc \in {"tombstone", "purge", "over"},
           d \notin active' => d \notin visible',
           pc \in {"hide", "tombstone", "purge"} => d \notin visible',
           subjects'[d] \subseteq {Owner} \cup shares'[d],
           pc \in {"narrow", "revoke"} => u \notin subjects'[d]
    PROVE  DocsRight'
BY DEF RightsInv, DocsRight, Steps

(* Every operation keeps the rights.                                       *)
LEMMA OperationRights ==
    ASSUME RetrievalInv, RightsInv, ~setting.overlap,
           NEW d \in Docs, OperationStep(d)
    PROVE  RightsInv'
<1> DEFINE user == operation[d].user
<1>0. /\ TypeOK /\ Owner \in Users /\ operation[d] \in Operation /\ user \in Users
      /\ shares \in [Docs -> SUBSET Users] /\ subjects \in [Docs -> SUBSET Users]
      BY UsersAssumption DEF RetrievalInv, TypeOK, Operation
<1>i. /\ d \notin active => /\ operation[d].pc \in {"tombstone", "purge", "over"}
                           /\ d \notin visible
      /\ operation[d].pc \in {"hide", "tombstone", "purge"} => d \notin visible
      /\ subjects[d] \subseteq {Owner} \cup shares[d]
      /\ operation[d].pc \in {"narrow", "revoke"} => user \notin subjects[d]
      BY DEF RightsInv, DocsRight
<1>1. CASE PublishPoints(d)
  <2>1. Steps(d, "publish", Owner)
        BY <1>0, <1>1, OperationSteps DEF PublishPoints, Operations
  <2>2. DocsRight'
        BY <1>0, <1>i, <1>1, <2>1, DocRight DEF PublishPoints, Operations
  <2> QED BY <1>0, <1>1, <2>1, <2>2, QuietRights
          DEF PublishPoints, Operations, Stands, Drops
<1>2. CASE PublishDone(d)
  <2>1. Steps(d, "idle", Owner)
        BY <1>0, <1>2, OperationSteps DEF PublishDone, Operations
  <2>2. DocsRight'
        BY <1>0, <1>i, <1>2, <2>1, DocRight DEF PublishDone, Operations
  <2> QED BY <1>0, <1>2, <2>1, <2>2, QuietRights
          DEF PublishDone, Operations, InFlight, Stands, Drops
<1>3. ASSUME NEW u \in Users, ShareGrant(d, u)
      PROVE  RightsInv'
  <2>1. Steps(d, "grant", u)
        BY <1>0, <1>3, OperationSteps DEF ShareGrant, Operations
  <2>2. DocsRight'
        BY <1>0, <1>i, <1>3, <2>1, DocRight DEF ShareGrant, Operations
  <2>3. ASSUME NEW scope \in Scope, NEW S \in SUBSET Docs, Right(scope, S)
        PROVE  Right(scope, S)'
        BY <1>0, <1>3, <2>3 DEF ShareGrant, Right
  <2>4. CorporaRight'
    <3>1. ASSUME NEW f \in DOMAIN corpora
          PROVE  Right(f, corpora[f])
          BY DEF RightsInv, CorporaRight
    <3>2. ASSUME NEW f \in DOMAIN corpora
          PROVE  f \in Scope /\ corpora[f] \in SUBSET Docs
          BY <1>0 DEF TypeOK
    <3> QED BY <1>3, <2>3, <3>1, <3>2 DEF ShareGrant, CorporaRight, Right
  <2>5. ASSUME NEW q \in Queries
        PROVE  QueryRight(q)' /\ Building(q)' = Building(q)
    <3> DEFINE scope == query[q].scope
               held  == Holds(query[q])
    <3>1. /\ query' \in [Queries -> Query] /\ query[q] \in Query
          /\ query'[q].scope = scope /\ query'[q].building = query[q].building
          /\ query'[q].found = query[q].found
          BY <1>0, <1>3, EntitleHolds DEF ShareGrant, TypeOK
    <3>2. query'[q].pc = query[q].pc
          BY <1>3, <3>1 DEF ShareGrant, Entitle, Query
    <3>3. Holds(query[q])' = IF query[q].pc # "idle" /\ scope.user = u
                             THEN held \cup {d} ELSE held
          BY <1>3, <3>1 DEF ShareGrant, Entitle, Query, Holds
    <3>4. Building(q)' = Building(q)
          BY <3>2 DEF Building
    <3>5. /\ query[q].found \subseteq held /\ query[q].building \subseteq held
          /\ IF Building(q) THEN Right(scope, query[q].building)
                            ELSE query[q].building = {}
          BY DEF RightsInv, QueryRight
    <3>6. IF Building(q) THEN Right(scope, query[q].building)'
                         ELSE query'[q].building = {}
      <4>1. scope \in Scope /\ query[q].building \in SUBSET Docs
            BY <3>1 DEF Query
      <4> QED BY <1>0, <1>3, <3>1, <3>5, <4>1 DEF ShareGrant, Right
    <3>7. ASSUME NEW e \in Docs, query[q].pc # "idle", Right(scope, {e})'
          PROVE  e \in Holds(query[q])'
      <4>1. \/ e = d /\ scope.user = u
            \/ Right(scope, {e})
            BY <1>0, <1>3, <3>1, <3>7 DEF ShareGrant, Right
      <4>2. Right(scope, {e}) => e \in held
            BY <3>7 DEF RightsInv, QueryRight
      <4> QED BY <3>3, <3>7, <4>1, <4>2
    <3>8. /\ query'[q].found \subseteq Holds(query[q])'
          /\ query'[q].building \subseteq Holds(query[q])'
          BY <3>1, <3>3, <3>5
    <3>9. query'[q].pc # "idle" =>
             \A e \in Docs : Right(scope, {e})' => e \in Holds(query[q])'
          BY <3>2, <3>7
    <3> HIDE DEF held
    <3> QED BY <3>1, <3>4, <3>6, <3>8, <3>9 DEF QueryRight, Right
  <2>6. TakesTurns'
        BY <1>0, <1>3, <2>1, <2>5, TurnsKept DEF ShareGrant, Operations
  <2> QED BY <1>3, <2>2, <2>4, <2>5, <2>6 DEF RightsInv, ShareGrant
<1>4. CASE ShareWiden(d)
  <2>1. Steps(d, "widen", user)
        BY <1>0, <1>4, OperationSteps DEF ShareWiden, Operations
  <2>2. DocsRight'
        BY <1>0, <1>i, <1>4, <2>1, DocRight DEF ShareWiden, Operations
  <2> QED BY <1>0, <1>4, <2>1, <2>2, QuietRights
          DEF ShareWiden, Operations, InFlight, Stands, Drops
<1>5. CASE ShareDone(d)
  <2>1. Steps(d, "idle", Owner)
        BY <1>0, <1>5, OperationSteps DEF ShareDone, Operations
  <2>2. DocsRight'
        BY <1>0, <1>i, <1>5, <2>1, DocRight DEF ShareDone, Operations
  <2> QED BY <1>0, <1>5, <2>1, <2>2, QuietRights
          DEF ShareDone, Operations, InFlight, Stands, Drops
<1>6. ASSUME NEW u \in Users, UnshareNarrow(d, u)
      PROVE  RightsInv'
  <2>1. Steps(d, "narrow", u)
        BY <1>0, <1>6, OperationSteps DEF UnshareNarrow, Operations
  <2>2. DocsRight'
        BY <1>0, <1>i, <1>6, <2>1, DocRight DEF UnshareNarrow, Operations
  <2> QED BY <1>0, <1>6, <2>1, <2>2, QuietRights
          DEF UnshareNarrow, Operations, Stands, Drops
<1>7. CASE UnshareNarrowed(d)
  <2>1. Steps(d, "revoke", user)
        BY <1>0, <1>7, OperationSteps DEF UnshareNarrowed, Operations
  <2>2. DocsRight'
        BY <1>0, <1>i, <1>7, <2>1, DocRight DEF UnshareNarrowed, Operations
  <2> QED BY <1>0, <1>7, <2>1, <2>2, QuietRights
          DEF UnshareNarrowed, Operations, InFlight, Stands, Drops
<1>8. CASE UnshareRevoke(d)
  <2>1. Steps(d, "idle", Owner)
        BY <1>0, <1>8, OperationSteps DEF UnshareRevoke, Operations
  <2>2. DocsRight'
        BY <1>0, <1>i, <1>8, <2>1, DocRight DEF UnshareRevoke, Operations
  <2>3. DOMAIN corpora = {} /\ \A q \in Queries : ~Building(q)
        BY <1>8 DEF RightsInv, TakesTurns, UnshareRevoke, InFlight
  <2>4. TakesTurns'
        BY <1>0, <1>8, <2>1, TurnsKept DEF UnshareRevoke, Operations, InFlight, Building
  <2>5. CorporaRight'
        BY <1>8, <2>3 DEF UnshareRevoke, CorporaRight
  <2>6. ASSUME NEW q \in Queries
        PROVE  QueryRight(q)'
    <3>1. ASSUME NEW e \in Docs, Right(query[q].scope, {e})'
          PROVE  Right(query[q].scope, {e})
          BY <1>0, <1>8, <3>1 DEF UnshareRevoke, Right
    <3> QED BY <1>8, <2>3, <3>1 DEF UnshareRevoke, RightsInv, QueryRight, Right, Building
  <2> QED BY <1>8, <2>2, <2>4, <2>5, <2>6 DEF RightsInv, UnshareRevoke
<1>9. CASE DeleteHide(d)
  <2>1. Steps(d, "hide", Owner)
        BY <1>0, <1>9, OperationSteps DEF DeleteHide, Operations
  <2>2. DocsRight'
        BY <1>0, <1>i, <1>9, <2>1, DocRight DEF DeleteHide, Operations
  <2> QED BY <1>0, <1>9, <2>1, <2>2, QuietRights
          DEF DeleteHide, Operations, Stands, Drops
<1>10. CASE DeleteTombstone(d)
  <2>1. Steps(d, "tombstone", user)
        BY <1>0, <1>10, OperationSteps DEF DeleteTombstone, Operations
  <2>2. DocsRight'
        BY <1>0, <1>i, <1>10, <2>1, DocRight DEF DeleteTombstone, Bury, Operations
  <2>3. Stands
        BY <1>i, <1>10 DEF Stands, DeleteTombstone, Bury
  <2> QED BY <1>0, <1>10, <2>1, <2>2, <2>3, QuietRights
          DEF DeleteTombstone, Operations, InFlight
<1>11. CASE DeletePurge(d)
  <2>1. Steps(d, "purge", user)
        BY <1>0, <1>11, OperationSteps DEF DeletePurge, Operations
  <2>2. DocsRight'
        BY <1>0, <1>i, <1>11, <2>1, DocRight DEF DeletePurge, Operations
  <2> QED BY <1>0, <1>11, <2>1, <2>2, QuietRights
          DEF DeletePurge, Operations, InFlight, Stands
<1>12. CASE DeleteDone(d)
  <2>1. Steps(d, "over", Owner)
        BY <1>0, <1>12, OperationSteps DEF DeleteDone, Operations
  <2>2. DocsRight'
        BY <1>0, <1>i, <1>12, <2>1, DocRight DEF DeleteDone, Operations
  <2> QED BY <1>0, <1>12, <2>1, <2>2, QuietRights
          DEF DeleteDone, Operations, InFlight, Drops
<1>13. CASE Raise(d)
  <2>1. UNCHANGED <<setting, shares, subjects, query>> /\ InFlight(d)
        BY <1>13 DEF Raise
  <2>2. Stands
        BY <1>i, <1>13 DEF Raise, RaiseBefore, RaiseDeleting, Bury, Stands
  <2>3. CASE RaiseBefore(d)
    <3>1. Steps(d, "idle", Owner)
          BY <1>0, <2>3, OperationSteps DEF RaiseBefore, Operations
    <3>2. DocsRight'
          BY <1>0, <1>i, <2>1, <2>3, <3>1, DocRight
             DEF RaiseBefore, Operations, InFlight
    <3> QED BY <1>0, <2>1, <2>2, <3>1, <3>2, QuietRights DEF Operations
  <2>4. CASE RaiseDeleting(d)
    <3>1. Steps(d, "over", Owner)
          BY <1>0, <2>4, OperationSteps DEF RaiseDeleting, Operations
    <3>2. DocsRight'
          BY <1>0, <1>i, <2>1, <2>4, <3>1, DocRight
             DEF RaiseDeleting, Bury, Operations
    <3> QED BY <1>0, <2>1, <2>2, <3>1, <3>2, QuietRights DEF Operations
  <2> QED BY <1>13, <2>3, <2>4 DEF Raise
<1> QED BY <1>1, <1>2, <1>3, <1>4, <1>5, <1>6, <1>7, <1>8, <1>9, <1>10, <1>11,
           <1>12, <1>13 DEF OperationStep

(* A query in this state has found only what it may hold.                  *)
StateRight(state) ==
    /\ state.pc # "idle" =>
          \A d \in Docs : Right(state.scope, {d}) => d \in Holds(state)
    /\ state.found \subseteq Holds(state)
    /\ state.building \subseteq Holds(state)
    /\ IF state.pc = "scroll" THEN Right(state.scope, state.building)
                              ELSE state.building = {}

(* A query that moves to a state that is right keeps the rights.           *)
LEMMA AsksRights ==
    ASSUME RetrievalInv, RightsInv, ~setting.overlap,
           NEW q \in Queries, NEW state \in Query,
           query' = [query EXCEPT ![q] = state], StateRight(state),
           UNCHANGED <<setting, shares, active, visible, subjects, operation,
                       lingering, granted>>,
           state.pc = "scroll" => Building(q) \/ \A d \in Docs : ~InFlight(d),
           CorporaRight', DOMAIN corpora = {} => DOMAIN corpora' = {} \/ Building(q)
    PROVE  RightsInv'
<1>1. query'[q] = state /\ \A p \in Queries \ {q} : query'[p] = query[p]
      BY DEF RetrievalInv, TypeOK
<1>2. ASSUME NEW p \in Queries
      PROVE  QueryRight(p)'
  <2>1. CASE p = q
        BY <1>1, <2>1 DEF StateRight, QueryRight, Right, Building
  <2>2. CASE p # q
        BY <1>1, <2>2 DEF RightsInv, QueryRight, Right, Building
  <2> QED BY <2>1, <2>2
<1>3. DocsRight'
      BY DEF RightsInv, DocsRight
<1>4. TakesTurns'
  <2>1. ASSUME NEW d \in Docs, InFlight(d), NEW p \in Queries
        PROVE  query'[p].pc # "scroll"
        BY <1>1, <2>1 DEF RightsInv, TakesTurns, Building
  <2>2. ASSUME NEW d \in Docs, operation[d].pc = "revoke"
        PROVE  DOMAIN corpora' = {}
        BY <2>2 DEF RightsInv, TakesTurns, InFlight
  <2> QED BY <2>1, <2>2 DEF TakesTurns, InFlight, Building
<1> QED BY <1>2, <1>3, <1>4 DEF RightsInv

(* Every step of a query keeps the rights.                                 *)
LEMMA QueryRights ==
    ASSUME RetrievalInv, RightsInv, ~setting.overlap,
           NEW q \in Queries, QueryStep(q)
    PROVE  RightsInv'
<1> DEFINE scope == query[q].scope
<1>0. /\ query[q] \in Query /\ query \in [Queries -> Query] /\ scope \in Scope
      /\ query[q].found \in SUBSET Docs /\ query[q].building \in SUBSET Docs
      /\ query[q].page \in Nat
      BY DEF RetrievalInv, TypeOK, Query
<1>i. StateRight(query[q]) /\ CorporaRight /\ DocsRight
      BY DEF RightsInv, QueryRight, StateRight, Building
<1>s. ASSUME UNCHANGED <<corpora, shares, active, lingering>>
      PROVE  CorporaRight'
      BY <1>i, <1>s DEF CorporaRight, Right
<1>m. ASSUME NEW d \in Docs, Matches(d, scope)
      PROVE  Right(scope, {d})
      BY <1>i, <1>m DEF DocsRight, Matches, Right
<1>1. ASSUME NEW u \in Users, NEW admin \in BOOLEAN, ReadScope(q, u, admin)
      PROVE  RightsInv'
  <2> DEFINE new == [user |-> u, admin |-> admin,
                     shared |-> {d \in Docs : u \in shares[d]}]
             state == [NoQuery EXCEPT !.pc = "dense", !.scope = new,
                         !.entitled = MayRead(u, admin),
                         !.leftover = lingering \cap Given(u, admin)]
  <2>1. state \in Query
        BY DEF Query, NoQuery, Stages, Scope, MayRead, Given
  <2>2. /\ state.pc = "dense" /\ state.found = {} /\ state.building = {}
        /\ state.scope = new /\ state.entitled = MayRead(u, admin)
        /\ state.leftover = lingering \cap Given(u, admin)
        BY DEF NoQuery
  <2>3. ASSUME NEW d \in Docs, Right(new, {d})
        PROVE  d \in MayRead(u, admin) \cup (lingering \cap Given(u, admin))
        BY <2>3 DEF Right, MayRead, Given
  <2>4. /\ query' = [query EXCEPT ![q] = state]
        /\ UNCHANGED <<setting, shares, active, visible, subjects, operation,
                       corpora, lingering, granted>>
        BY <1>1 DEF ReadScope
  <2> HIDE DEF state, new
  <2>5. StateRight(state)
        BY <2>2, <2>3 DEF StateRight, Holds
  <2> QED BY <1>s, <2>1, <2>2, <2>4, <2>5, AsksRights
<1>2. CASE DenseSearch(q)
  <2> DEFINE hits == {d \in Docs : Matches(d, scope)}
             state == [query[q] EXCEPT !.pc = "sparse", !.found = hits]
  <2>1. /\ query' = [query EXCEPT ![q] = state] /\ query[q].pc = "dense"
        /\ UNCHANGED <<setting, shares, active, visible, subjects, operation,
                       corpora, lingering, granted>>
        BY <1>0, <1>2 DEF DenseSearch
  <2>2. hits \in SUBSET Docs /\ hits \subseteq Holds(query[q])
        BY <1>m, <1>i, <2>1 DEF StateRight
  <2> HIDE DEF hits
  <2>3. /\ state \in Query /\ state.scope = scope /\ state.pc = "sparse"
        /\ state.building = query[q].building /\ state.found = hits
        /\ Holds(state) = Holds(query[q])
        BY <1>0, <2>2 DEF Query, Stages, Holds
  <2> HIDE DEF state
  <2>4. StateRight(state)
        BY <1>i, <2>1, <2>2, <2>3 DEF StateRight
  <2> QED BY <1>s, <2>1, <2>3, <2>4, AsksRights
<1>3. CASE SparseHit(q)
  <2> DEFINE hits == corpora[scope]
             state == [query[q] EXCEPT !.pc = "answered",
                         !.found = query[q].found \cup hits]
  <2>1. /\ query' = [query EXCEPT ![q] = state]
        /\ query[q].pc = "sparse" /\ scope \in DOMAIN corpora
        /\ UNCHANGED <<setting, shares, active, visible, subjects, operation,
                       corpora, lingering, granted>>
        BY <1>0, <1>3 DEF SparseHit, Fingerprint
  <2>2. hits \in SUBSET Docs /\ Right(scope, hits)
        BY <1>i, <2>1 DEF RetrievalInv, TypeOK, CorporaRight
  <2> HIDE DEF hits
  <2>3. hits \subseteq Holds(query[q])
    <3>1. ASSUME NEW d \in hits
          PROVE  Right(scope, {d})
          BY <2>2 DEF Right
    <3> QED BY <1>i, <2>1, <2>2, <3>1 DEF StateRight
  <2>4. /\ state \in Query /\ state.scope = scope /\ state.pc = "answered"
        /\ state.building = query[q].building
        /\ state.found = query[q].found \cup hits
        /\ Holds(state) = Holds(query[q])
        BY <1>0, <2>2 DEF Query, Stages, Holds
  <2> HIDE DEF state
  <2>5. StateRight(state)
        BY <1>i, <2>1, <2>3, <2>4 DEF StateRight
  <2> QED BY <1>s, <2>1, <2>4, <2>5, AsksRights
<1>4. CASE SparseMiss(q)
  <2> DEFINE state == [query[q] EXCEPT !.pc = "scroll"]
  <2>1. /\ query' = [query EXCEPT ![q] = state] /\ query[q].pc = "sparse"
        /\ \A d \in Docs : ~InFlight(d)
        /\ UNCHANGED <<setting, shares, active, visible, subjects, operation,
                       corpora, lingering, granted>>
        BY <1>0, <1>4 DEF SparseMiss
  <2>2. /\ state \in Query /\ state.scope = scope /\ state.pc = "scroll"
        /\ state.building = query[q].building /\ state.found = query[q].found
        /\ Holds(state) = Holds(query[q])
        BY <1>0 DEF Query, Stages, Holds
  <2> HIDE DEF state
  <2>3. StateRight(state)
        BY <1>i, <2>1, <2>2 DEF StateRight, Right
  <2> QED BY <1>s, <2>1, <2>2, <2>3, AsksRights
<1>5. CASE ScrollPage(q)
  <2> DEFINE d == query[q].page
             next == d + 1
             more == IF Matches(d, scope) THEN query[q].building \cup {d}
                                          ELSE query[q].building
             state == [query[q] EXCEPT !.page = next, !.building = more]
  <2>1. /\ d \in Docs /\ query' = [query EXCEPT ![q] = state]
        /\ UNCHANGED <<setting, shares, active, visible, subjects, operation,
                       corpora, lingering, granted>>
        BY <1>0, <1>5 DEF ScrollPage
  <2>p. query[q].pc = "scroll" /\ next \in Nat
        BY <1>0, <1>5 DEF ScrollPage, Building
  <2>2. /\ more \in SUBSET Docs /\ Right(scope, more)
        /\ more \subseteq Holds(query[q])
        BY <1>0, <1>i, <1>m, <2>1, <2>p DEF Right, StateRight
  <2> HIDE DEF more, next
  <2>3. /\ state \in Query /\ state.scope = scope /\ state.pc = query[q].pc
        /\ state.building = more /\ state.found = query[q].found
        /\ Holds(state) = Holds(query[q])
        BY <1>0, <2>p, <2>2 DEF Query, Stages, Holds
  <2> HIDE DEF state
  <2>4. StateRight(state)
        BY <1>i, <2>p, <2>2, <2>3 DEF StateRight
  <2> QED BY <1>s, <2>1, <2>p, <2>3, <2>4, AsksRights DEF Building
<1>6. CASE StoreCorpus(q)
  <2> DEFINE built == query[q].building
             state == [query[q] EXCEPT !.pc = "answered", !.page = 1,
                         !.building = {}, !.found = query[q].found \cup built]
  <2>1. /\ query' = [query EXCEPT ![q] = state] /\ Building(q)
        /\ corpora' = [g \in DOMAIN corpora \cup {scope} |->
                         IF g = scope THEN built ELSE corpora[g]]
        /\ UNCHANGED <<setting, shares, active, visible, subjects, operation,
                       lingering, granted>>
        BY <1>0, <1>6 DEF StoreCorpus, Fingerprint
  <2>2. /\ state \in Query /\ state.scope = scope /\ state.building = {}
        /\ state.pc = "answered" /\ state.found = query[q].found \cup built
        /\ Holds(state) = Holds(query[q])
        BY <1>0 DEF Query, Stages, Holds
  <2> HIDE DEF state
  <2>3. StateRight(state)
        BY <1>i, <2>1, <2>2 DEF StateRight, Building
  <2>4. CorporaRight'
    <3>1. ASSUME NEW f \in DOMAIN corpora'
          PROVE  Right(f, corpora'[f])
          BY <1>i, <2>1 DEF CorporaRight, StateRight, Building
    <3> QED BY <2>1, <3>1 DEF CorporaRight, Right
  <2> QED BY <2>1, <2>2, <2>3, <2>4, AsksRights
<1>7. CASE EndQuery(q)
  <2>1. /\ NoQuery \in Query /\ NoQuery.building = {} /\ NoQuery.found = {}
        /\ NoQuery.pc = "idle"
        BY UsersAssumption DEF NoQuery, Nobody, Query, Scope, Stages
  <2>2. /\ query' = [query EXCEPT ![q] = NoQuery]
        /\ UNCHANGED <<setting, shares, active, visible, subjects, operation,
                       corpora, lingering, granted>>
        BY <1>7 DEF EndQuery
  <2>3. StateRight(NoQuery)
        BY <2>1 DEF StateRight
  <2> QED BY <1>s, <2>1, <2>2, <2>3, AsksRights
<1> QED BY <1>1, <1>2, <1>3, <1>4, <1>5, <1>6, <1>7 DEF QueryStep

(* Without builds beside operations, an answer holds only what its user    *)
(* could read at some time since the query read its scope, and documents   *)
(* of the user's that were tombstoned before while no operation has ended  *)
(* since: no withdrawn grant survives in a corpus, and a deleted document  *)
(* only until an operation ends.  Code: the order of the writes and of     *)
(* invalidate_sparse_indexes in service.py and documents.py, and           *)
(* HybridRetriever's scoped corpora.                                       *)
THEOREM AnswersKept == Spec => []AnswersWithinRights
<1>1. Init => RightsInv
  <2>1. NoQuery.pc = "idle" /\ NoQuery.found = {} /\ NoQuery.building = {}
        BY DEF NoQuery
  <2> QED BY <2>1 DEF Init, RightsInv, DocsRight, TakesTurns, CorporaRight,
                     QueryRight, Right, InFlight, Building, Holds
<1>2. RetrievalInv /\ RightsInv /\ [Next]_vars => RightsInv'
  <2> SUFFICES ASSUME RetrievalInv, RightsInv, [Next]_vars PROVE RightsInv'
      OBVIOUS
  <2>1. setting' = setting
        BY DEF Next, vars, OperationStep, QueryStep, PublishPoints, PublishDone,
               ShareGrant, ShareWiden, ShareDone, UnshareNarrow, UnshareNarrowed,
               UnshareRevoke, DeleteHide, DeleteTombstone, DeletePurge,
               DeleteDone, Raise,
               ReadScope, DenseSearch, SparseHit, SparseMiss, ScrollPage,
               StoreCorpus, EndQuery
  <2>2. CASE UNCHANGED vars
        BY <2>2 DEF vars, RightsInv, DocsRight, TakesTurns, CorporaRight,
                    QueryRight, Right, InFlight, Building, Holds
  <2>3. CASE setting.overlap
        BY <2>1, <2>3 DEF RightsInv
  <2> QED BY <2>2, <2>3, OperationRights, QueryRights DEF Next
<1>3. RightsInv => AnswersWithinRights
      BY DEF RightsInv, QueryRight, AnswersWithinRights, Holds
<1> QED BY <1>1, <1>2, <1>3, RetrievalAlways, PTL DEF Spec
=============================================================================
