---------------------------- MODULE TraceReading ----------------------------
(***************************************************************************)
(* Reading the trace history while it is written and indexed: the lists,   *)
(* the detail and the summary that the API reads from the rows, statement  *)
(* by statement, and the meta queries that search the meta collection.     *)
(* One call at a time, served by one process.                              *)
(***************************************************************************)
EXTENDS TraceHistory

CONSTANTS
    Home,         \* the process that serves the calls
    OwnerOf(_),   \* trace -> the user whose query it was
    Readers(_),   \* setting -> who calls: subject and roles
    Parameters    \* the query parameters that are tried

VARIABLES
    call,      \* the call in progress, with what it has read
    corpora    \* the meta retriever's dict: scope -> traces in its corpus

vars == <<historyVars, call, corpora>>

Lists == {"traces", "defects", "evals"}
Calls == Lists \cup {"detail", "summary", "meta"}

(* Query parameters; times, severities and defect types are left out.      *)
Filters == [defects : BOOLEAN \cup {None}, gate : Gates \cup {None},
            trace : Traces \cup {None}, limit : 1..2, offset : 0..1]
ASSUME CallAssumption == Home \in Replicas /\ Parameters \subseteq Filters

NoFilter == [defects |-> None, gate |-> None, trace |-> None,
             limit |-> 1, offset |-> 0]

(* page, total: the rows of the answer, and of how many; counts: gate ->   *)
(* number; found: what a meta query has retrieved; indexed: ghost, the     *)
(* points there were in its scope when it searched.                        *)
NoCall == [pc |-> "none", name |-> "none", who |-> None, filter |-> NoFilter,
           page |-> {}, total |-> 0, defects |-> FALSE, gate |-> "none",
           counts |-> [g \in Gates |-> 0], found |-> {}, indexed |-> {}]

CallState ==
    [pc : {"none", "first", "total", "defects", "evals", "sparse", "generate",
           "done", "refused"},
     name : Calls \cup {"none"}, who : {None} \cup UNION {Readers(s) : s \in Settings},
     filter : Filters, page : SUBSET Traces, total : Nat, defects : BOOLEAN,
     gate : Gates \cup {"none"}, counts : [Gates -> Nat],
     found : SUBSET Traces, indexed : SUBSET Traces]

Init == HistoryInit /\ call = NoCall /\ corpora = [s \in {} |-> {}]

(* What a role may do, of the permissions that matter here.                *)
RolePermissions(role) ==
    CASE role = "user"                -> {"query:execute"}
      [] role = "observer"            -> {"query:execute", "observability:read"}
      [] role = "observability_admin" -> {"query:execute", "observability:read",
                                          "observability:admin"}
      [] role = "document_admin"      -> {"query:execute", "document:content:admin"}
      [] OTHER                        -> {}

Has(who, permission) == \E role \in who.roles : permission \in RolePermissions(role)

(* The condition on user_id in every statement of the stores.  The texts   *)
(* that _serialize_trace then leaves out are left out here.                *)
MaySee(who, q) ==
    Has(who, "observability:admin") \/ OwnerOf(q) = who.subject

(* The rows that the conditions of a list leave.  The defects and the      *)
(* evaluation of a trace carry its owner; one defect stands for them all.  *)
Listed(name, who, filter) ==
    {q \in Rows :
       /\ MaySee(who, q)
       /\ CASE name = "traces" ->
                 /\ filter.defects # None => row[q].defects = filter.defects
                 /\ filter.gate # None => row[q].gate = filter.gate
            [] name = "defects" -> row[q].defects
            [] name = "evals" ->
                 /\ row[q].gate # "none"
                 /\ filter.trace \in {None, q}}

Proceed(state) == call' = state /\ UNCHANGED <<historyVars, corpora>>
Reading(name, pc) == call.pc = pc /\ call.name = name

(* require_observability_read, and for a meta query is_ready.              *)
Call(who, name, filter) ==
    /\ call.pc = "none" /\ Up(Home)
    /\ Proceed([NoCall EXCEPT
                  !.pc = IF Has(who, "observability:read") THEN "first"
                         ELSE "refused",
                  !.name = name, !.who = who, !.filter = filter])

(* A call with the parameters that its endpoint has.                       *)
SomeCall ==
    \E who \in Readers(setting), name \in Calls, filter \in Parameters :
        /\ name # "traces" => filter.defects = None /\ filter.gate = None
        /\ name \notin {"evals", "detail"} => filter.trace = None
        /\ name = "detail" => filter.trace # None
        /\ name \notin Lists => filter.limit = 1 /\ filter.offset = 0
        /\ Call(who, name, filter)

(* limit and offset, of whatever order.                                    *)
Pages(S) ==
    LET rest == IF Cardinality(S) < call.filter.offset THEN 0
                ELSE Cardinality(S) - call.filter.offset
    IN  {page \in SUBSET S :
           Cardinality(page) = IF rest < call.filter.limit THEN rest
                               ELSE call.filter.limit}

(* list_traces, list_defects, list_evals: the items, then their number.    *)
ReadItems ==
    /\ call.pc = "first" /\ call.name \in Lists
    /\ \E page \in Pages(Listed(call.name, call.who, call.filter)) :
         Proceed([call EXCEPT !.pc = "total", !.page = page])

(* Wrong: the number of the items on the page.                             *)
TotalOfPage ==
    /\ call.pc = "total"
    /\ Proceed([call EXCEPT
                  !.pc = "done", !.total = Cardinality(call.page)])

ReadTotal ==
    /\ call.pc = "total"
    /\ Proceed([call EXCEPT
                  !.pc = "done",
                  !.total = Cardinality(Listed(call.name, call.who, call.filter))])

(* get_trace: the trace, or 404; then its defects; then its evaluations.   *)
ReadTrace ==
    /\ Reading("detail", "first")
    /\ LET q == call.filter.trace
       IN  IF q \in Rows /\ MaySee(call.who, q)
           THEN Proceed([call EXCEPT !.pc = "defects", !.page = {q}])
           ELSE Proceed([call EXCEPT !.pc = "refused"])

ReadDefects ==
    /\ Reading("detail", "defects")
    /\ Proceed([call EXCEPT !.pc = "evals",
                            !.defects = row[call.filter.trace].defects])

ReadEvals ==
    /\ Reading("detail", "evals")
    /\ Proceed([call EXCEPT !.pc = "done",
                            !.gate = row[call.filter.trace].gate])

(* summary: one statement counts and averages.                             *)
ReadSummary ==
    /\ Reading("summary", "first")
    /\ LET evals == Listed("evals", call.who, NoFilter)
       IN  Proceed([call EXCEPT
                      !.pc = "done", !.total = Cardinality(evals),
                      !.counts = [g \in Gates |->
                                    Cardinality({q \in evals : row[q].gate = g})]])

-----------------------------------------------------------------------------
(* Meta queries.  The retriever is that of documents, bound to the meta    *)
(* collection; the scope is that of the principal, without shares.         *)

Scope(who) == <<who.subject, Has(who, "document:content:admin")>>

(* What a scope asks of a point's subjects: a content administrator's asks *)
(* nothing, and the subject of a trace is its owner.                       *)
InScope(scope, q) == scope[2] \/ OwnerOf(q) = scope[1]

(* The keys of a point's payload that say whose it is and who may find it. *)
PayloadKeys ==
    {"text", "query_id", "owner_user_id", "organization_id", "access_subjects",
     "authorization_ready"}

(* _authorization_filter: a key that a point lacks matches nothing.  Each  *)
(* trace has a user and an organization, so authorization_ready is TRUE.   *)
Found(who, q) ==
    /\ entry[q] # None
    /\ {"authorization_ready", "searchable"} \subseteq PayloadKeys
    /\ InScope(Scope(who), q)

(* The embedder, the search or the model raises: a 500.                    *)
MetaFails ==
    /\ setting.fails /\ call.name = "meta" /\ call.pc \in {"first", "sparse", "generate"}
    /\ Proceed([call EXCEPT !.pc = "refused"])

MetaDense ==
    /\ Reading("meta", "first")
    /\ Proceed([call EXCEPT
                  !.pc = IF collection THEN "sparse" ELSE "refused",
                  !.found = {q \in Traces : Found(call.who, q)},
                  !.indexed = {q \in Traces : entry[q] # None
                                              /\ InScope(Scope(call.who), q)}])

(* A corpus is built on first use and never dropped: only the retriever of *)
(* the documents is invalidated.                                           *)
MetaSparse ==
    /\ Reading("meta", "sparse")
    /\ LET scope  == Scope(call.who)
           corpus == IF scope \in DOMAIN corpora THEN corpora[scope]
                     ELSE {q \in Traces : Found(call.who, q)}
       IN  /\ corpora' = [s \in DOMAIN corpora \cup {scope} |->
                            IF s = scope THEN corpus ELSE corpora[s]]
           /\ call' = [call EXCEPT !.pc = "generate", !.found = @ \cup corpus]
    /\ UNCHANGED historyVars

(* Assembly, the model, and what was retrieved.                            *)
MetaAnswer ==
    /\ Reading("meta", "generate")
    /\ Proceed([call EXCEPT !.pc = "done"])

Close == call.pc \in {"done", "refused"} /\ Proceed(NoCall)

Read ==
    \/ SomeCall \/ ReadItems \/ ReadTotal \/ ReadTrace \/ ReadDefects
    \/ ReadEvals \/ ReadSummary \/ MetaDense \/ MetaSparse \/ MetaAnswer
    \/ MetaFails \/ Close

(* The process that serves the calls has a memory of its own.              *)
HistoryStep ==
    /\ HistoryNext
    /\ IF Up(Home) /\ indexer'[Home].pc = "off"
       THEN call' = NoCall /\ corpora' = [s \in {} |-> {}]
       ELSE UNCHANGED <<call, corpora>>

Next == HistoryStep \/ Read

Spec == Init /\ [][Next]_vars

-----------------------------------------------------------------------------
(* Properties.                                                             *)

TypeOK ==
    /\ HistoryTypeOK
    /\ call \in CallState
    /\ \A s \in DOMAIN corpora : corpora[s] \subseteq Traces

(* The statements of a call see the rows of different moments, and yet:    *)
(* the total covers the page and what comes before it; every item has what *)
(* was asked for; the detail has the defects of its trace and no verdict   *)
(* but the stored one; the distribution of the summary adds up.  Code:     *)
(* trace_store, defect_store, eval_store and the routers that read them.   *)
ReadsAreCoherent ==
    call.pc = "done" =>
        /\ call.name \in Lists /\ call.page # {} =>
              call.filter.offset + Cardinality(call.page) <= call.total
        /\ call.name \in Lists =>
              call.page \subseteq Listed(call.name, call.who, call.filter)
        /\ call.name = "detail" =>
              \A q \in call.page : /\ call.defects = row[q].defects
                                   /\ call.gate \in {"none", row[q].gate}
        /\ call.name = "summary" =>
              call.total = FoldFunction(+, 0, call.counts)

(* docs/OPERATIONS.md: when a meta query has no traces to go by, the meta  *)
(* collection is empty.                                                    *)
NothingFoundMeansNothingIndexed ==
    Reading("meta", "done") /\ call.found = {} => call.indexed = {}
=============================================================================
