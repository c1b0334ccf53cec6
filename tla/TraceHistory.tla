---------------------------- MODULE TraceHistory ----------------------------
(***************************************************************************)
(* The rows of past queries and their copy in the meta collection, which   *)
(* periodic indexers and the index_traces command refresh while queries    *)
(* and evaluations go on writing rows.                                     *)
(*                                                                         *)
(* Time is counted in a unit that is long against a database call.  Times  *)
(* are kept as ages, which stop growing where nothing tells them apart any *)
(* more, so the behaviours are as long as one likes.  How a query comes to *)
(* its rows is QueryPipeline's subject.                                    *)
(***************************************************************************)
EXTENDS Naturals, FiniteSets, SequencesExt

CONSTANTS
    Traces,     \* query ids
    Replicas,   \* API processes; each runs the periodic indexer
    Command,    \* a run of cli.index_traces
    Interval,   \* META_INDEXER_INTERVAL_SECONDS
    Window,     \* META_INDEXER_WINDOW_MINUTES, in the same unit
    Slack,      \* bound: how long a periodic reindex takes at the most
    Limit,      \* DEFAULT_FETCH_LIMIT
    Batch,      \* DEFAULT_BATCH_SIZE
    Gates,      \* what the quality gate may say
    None,
    Settings    \* a behaviour picks one and keeps it

(* The window reaches back over an interval and a reindex: 30 minutes       *)
(* against 15.  A trace without an evaluation has none of the gates.       *)
ASSUME HistoryAssumption ==
    /\ {Interval, Window, Slack} \subseteq Nat
    /\ Interval + Slack <= Window
    /\ {Limit, Batch} \subseteq Nat \ {0}
    /\ IsFiniteSet(Replicas) /\ Command \notin Replicas
    /\ IsFiniteSet(Gates) /\ "none" \notin Gates

Indexers == Replicas \cup {Command}

(* running: the indexers there are; fails: a step of a reindex may raise;  *)
(* stops: a process may stop; written: the traces that are written;        *)
(* defective: those of them that have defects; gates: what the gate of an  *)
(* evaluation says; windows: TRUE if the command is given --window-minutes, *)
(* FALSE if it is not; elapses: there is more than one unit of time.       *)
Setting == [running : SUBSET Indexers, fails : BOOLEAN, stops : BOOLEAN,
            written : SUBSET Traces, defective : SUBSET Traces,
            gates : SUBSET Gates, windows : SUBSET BOOLEAN, elapses : BOOLEAN]

ASSUME SettingsAssumption == Settings \subseteq Setting

VARIABLES
    setting,      \* the setting of this behaviour
    row,          \* trace -> its row with what refers to it, or None
    collection,   \* does the meta collection exist?
    entry,        \* trace -> its point in the collection, or None
    indexer,      \* indexer -> its counter, its clock and its locals
    excused       \* ghost: traces that a failure or a crowd kept from the
                  \* reindexes that their age would have allowed

historyVars == <<setting, row, collection, entry, indexer, excused>>

(* Ages from Old on are beyond every window that a reindex may still use.  *)
Old == Window + Slack + 1

(* gate: that of the evaluation, or "none"; timely: ghost, whether it was  *)
(* written early enough for a reindex to follow that sees it and that no   *)
(* older one overtakes.                                                    *)
Row      == [age : 0..Old, defects : BOOLEAN, gate : Gates \cup {"none"},
             timely : BOOLEAN]
Snapshot == [trace : Traces, defects : BOOLEAN, gate : Gates \cup {"skip"}]
Stages   == {"off", "asleep", "ready", "fetch", "write"}
Indexer  == [pc : Stages, clock : Nat, windowed : BOOLEAN, todo : Seq(Snapshot)]
Off      == [pc |-> "off", clock |-> 0, windowed |-> FALSE, todo |-> <<>>]

ASSUME NoneAssumption == None \notin Row \cup Snapshot

HistoryInit ==
    /\ setting \in Settings
    /\ row        = [q \in Traces |-> None]
    /\ collection = FALSE
    /\ entry      = [q \in Traces |-> None]
    /\ indexer    = [i \in Indexers |-> Off]
    /\ excused    = {}

Rows       == {q \in Traces : row[q] # None}
Up(i)      == indexer[i].pc # "off"
Serving    == \E i \in Replicas : Up(i)
Busy(i)    == indexer[i].pc \in {"ready", "fetch", "write"}
Becomes(i, state) == indexer' = [indexer EXCEPT ![i] = state]

-----------------------------------------------------------------------------
(* Rows.                                                                   *)

(* persist_result: the trace and its defects in one transaction, created   *)
(* now, by a process that serves queries.                                  *)
WriteTrace(q) ==
    /\ q \in setting.written \ Rows /\ Serving
    /\ row' = [row EXCEPT ![q] = [age |-> 0, defects |-> q \in setting.defective,
                                  gate |-> "none", timely |-> FALSE]]
    /\ UNCHANGED <<setting, collection, entry, indexer, excused>>

(* Ghost: with several indexers one may still write, for as long as a      *)
(* reindex takes, what it fetched before another.                          *)
Overtaking == IF Cardinality(setting.running) = 1 THEN 0 ELSE Slack

InGoodTime(q) == row[q].age + Overtaking + Slack + Interval <= Window

(* create_eval: at most once, at any time after the trace, or never.       *)
WriteEval(q) ==
    /\ q \in Rows /\ row[q].gate = "none"
    /\ \E gate \in setting.gates :
         row' = [row EXCEPT ![q].gate = gate, ![q].timely = @ \/ InGoodTime(q)]
    /\ UNCHANGED <<setting, collection, entry, indexer, excused>>

-----------------------------------------------------------------------------
(* A process, its loop, and the command.                                   *)

(* startup: init_meta_collection may fail, the loop is started anyway.  Its *)
(* initial delay is less than a unit of time.                              *)
StartReplica(i) ==
    /\ i \in Replicas \cap setting.running /\ ~Up(i)
    /\ \/ collection' = TRUE
       \/ setting.fails /\ UNCHANGED collection
    /\ Becomes(i, [Off EXCEPT !.pc = "asleep", !.windowed = TRUE])
    /\ UNCHANGED <<setting, row, entry, excused>>

(* cli.index_traces: the collection first, then reindex_recent.            *)
StartCommand ==
    /\ Command \in setting.running /\ ~Up(Command)
    /\ collection' = TRUE
    /\ \E windowed \in setting.windows :
         Becomes(Command, [Off EXCEPT !.pc = "ready", !.windowed = windowed])
    /\ UNCHANGED <<setting, row, entry, excused>>

(* shutdown cancels the loop wherever it is; so does a crash.              *)
Stop(i) ==
    /\ setting.stops /\ Up(i)
    /\ Becomes(i, Off)
    /\ excused' = IF i \in Replicas /\ Busy(i)
                  THEN excused \cup {q \in Rows : row[q].age > Window}
                  ELSE excused
    /\ UNCHANGED <<setting, row, collection, entry>>

(* The sleep is over: `since` is Window before now, from when on clock     *)
(* counts.                                                                 *)
Wake(i) ==
    /\ indexer[i].pc = "asleep" /\ indexer[i].clock = 0
    /\ Becomes(i, [indexer[i] EXCEPT !.pc = "ready"])
    /\ UNCHANGED <<setting, row, collection, entry, excused>>

EnsureReady(i) ==
    /\ indexer[i].pc = "ready"
    /\ collection' = TRUE
    /\ Becomes(i, [indexer[i] EXCEPT !.pc = "fetch"])
    /\ UNCHANGED <<setting, row, entry, excused>>

(* The indexer after a reindex, done or failed.                            *)
Rested(i) ==
    IF i = Command THEN Off
    ELSE [Off EXCEPT !.pc = "asleep", !.clock = Interval, !.windowed = TRUE]

(* Traces that the next reindex of a loop that sleeps from now on, plus    *)
(* `more`, is too late for.                                                *)
TooOldAfter(S, more) == {q \in S \cap Rows : row[q].age + more + Interval > Window}

(* Whatever a step of a reindex raises ends this reindex, not the loop.    *)
(* What a call did before it raised is as if it had raised in the next.    *)
ReindexFails(i) ==
    /\ setting.fails /\ Busy(i)
    /\ excused' = IF i = Command THEN excused
                  ELSE excused \cup TooOldAfter(Traces, 0)
    /\ Becomes(i, Rested(i))
    /\ UNCHANGED <<setting, row, collection, entry>>

(* Wrong: the window is no longer than the interval.                       *)
InHalfWindow(i, q) ==
    ~indexer[i].windowed \/ row[q].age <= Interval + indexer[i].clock

(* created_at >= since, for a loop and for a command that has a window.    *)
InWindow(i, q) ==
    ~indexer[i].windowed \/ row[q].age <= Window + indexer[i].clock

(* Wrong: a trace without an evaluation has no gate.                       *)
GateAsIs(q) == row[q].gate

(* Wrong: the evaluations of one trace are taken for those of another.     *)
GateOfAny(q) ==
    LET gates == {row[p].gate : p \in Rows} \ {"none"}
    IN  IF gates = {} THEN "skip" ELSE CHOOSE g \in gates : TRUE

(* _build_payload: that of the evaluation if there is one.                 *)
PayloadGate(q) == IF row[q].gate = "none" THEN "skip" ELSE row[q].gate

(* format_trace_document, _build_payload: from the row and from what the   *)
(* two eager loads find with it.                                           *)
SnapshotOf(q) ==
    [trace |-> q, defects |-> row[q].defects, gate |-> PayloadGate(q)]

(* order_by(created_at.desc()).limit(Limit)                                *)
NewestFirst(S) ==
    {SubSeq(s, 1, IF Len(s) < Limit THEN Len(s) ELSE Limit) :
        s \in {t \in SetToSeqs(S) :
                 \A a, b \in DOMAIN t : a < b => row[t[a]].age <= row[t[b]].age}}

(* _fetch_traces: one transaction.  The documents are those of this moment *)
(* and are written later.                                                  *)
Fetch(i) ==
    /\ indexer[i].pc = "fetch"
    /\ LET seen == {q \in Rows : InWindow(i, q)}
       IN  \E newest \in NewestFirst(seen) :
             /\ Becomes(i, IF newest = <<>> THEN Rested(i)
                           ELSE [indexer[i] EXCEPT
                                   !.pc = "write",
                                   !.todo = [n \in DOMAIN newest |->
                                                SnapshotOf(newest[n])]])
             /\ excused' = IF i = Command THEN excused
                           ELSE excused \cup TooOldAfter(seen \ ToSet(newest),
                                                         Slack - indexer[i].clock)
    /\ UNCHANGED <<setting, row, collection, entry>>

(* Wrong: a trace that has a point keeps it.                               *)
UpsertedOnce(batch) ==
    [q \in Traces |->
       LET news == {n \in DOMAIN batch : batch[n].trace = q}
       IN  IF news = {} \/ entry[q] # None THEN entry[q]
           ELSE batch[CHOOSE n \in news : TRUE]]

(* The points of a batch replace those of the same traces.                 *)
Upserted(batch) ==
    [q \in Traces |->
       LET news == {n \in DOMAIN batch : batch[n].trace = q}
       IN  IF news = {} THEN entry[q] ELSE batch[CHOOSE n \in news : TRUE]]

(* A batch is embedded and upserted; the last one ends the reindex.        *)
WriteBatch(i) ==
    /\ indexer[i].pc = "write"
    /\ LET todo  == indexer[i].todo
           batch == SubSeq(todo, 1, IF Len(todo) < Batch THEN Len(todo) ELSE Batch)
           rest  == SubSeq(todo, Len(batch) + 1, Len(todo))
       IN  /\ entry' = Upserted(batch)
           /\ Becomes(i, IF rest = <<>> THEN Rested(i)
                         ELSE [indexer[i] EXCEPT !.todo = rest])
    /\ UNCHANGED <<setting, row, collection, excused>>

Reindex(i) == EnsureReady(i) \/ Fetch(i) \/ WriteBatch(i) \/ ReindexFails(i)

(* A unit of time passes.  A sleep that is over ends first, and a reindex  *)
(* in the time it is given.                                                *)
Elapse ==
    /\ setting.elapses
    /\ \A i \in Indexers : /\ indexer[i].pc = "asleep" => indexer[i].clock > 0
                           /\ Busy(i) => indexer[i].clock < Slack
    /\ row' = [q \in Traces |->
                 IF q \in Rows /\ row[q].age < Old
                 THEN [row[q] EXCEPT !.age = @ + 1] ELSE row[q]]
    /\ indexer' = [i \in Indexers |->
                     CASE indexer[i].pc = "asleep" -> [indexer[i] EXCEPT !.clock = @ - 1]
                       [] Busy(i)                  -> [indexer[i] EXCEPT !.clock = @ + 1]
                       [] OTHER                    -> indexer[i]]
    /\ excused' = IF Serving THEN excused
                  ELSE excused \cup {q \in Rows : row[q].age = Window}
    /\ UNCHANGED <<setting, collection, entry>>

HistoryNext ==
    \/ \E q \in Traces : WriteTrace(q) \/ WriteEval(q)
    \/ \E i \in Indexers : StartReplica(i) \/ Stop(i) \/ Wake(i) \/ Reindex(i)
    \/ StartCommand
    \/ Elapse

-----------------------------------------------------------------------------
(* Properties.                                                             *)

HistoryTypeOK ==
    /\ setting \in Setting
    /\ row \in [Traces -> Row \cup {None}]
    /\ collection \in BOOLEAN
    /\ entry \in [Traces -> Snapshot \cup {None}]
    /\ indexer \in [Indexers -> Indexer]
    /\ \A i \in Indexers :
         /\ indexer[i].clock <= IF Busy(i) THEN Slack ELSE Interval
         /\ indexer[i].todo # <<>> <=> indexer[i].pc = "write"
    /\ excused \in SUBSET Traces

(* A trace that has become too old for every reindex has its point, unless *)
(* a failure, a stop or more than Limit newer traces kept it from each     *)
(* reindex that its age allowed: failures are survived, and a trace that   *)
(* is young enough gets another chance.  Code: _meta_indexer_loop with its *)
(* interval and window, TraceIndexer.reindex.                              *)
NothingSlipsBy ==
    \A q \in Rows \ excused : row[q].age = Old => entry[q] # None

(* A verdict that is stored early enough is in the index in the end,       *)
(* whatever was indexed without it: a reindex that fetched the trace before *)
(* and writes it after another one may take the verdict back, and a later  *)
(* one then brings it again while the window still reaches the trace.      *)
(* Code: _meta_point_id, the upsert in reindex, window against interval.   *)
VerdictReachesTheIndex ==
    \A q \in Rows \ excused :
        row[q].age = Old /\ row[q].timely
            => entry[q] # None /\ entry[q].gate = row[q].gate

(* However reindexes overlap, each with the rows of its own moment: a point *)
(* is that of a trace that is there, says of its defects what the rows say, *)
(* and has no verdict but the stored one.  Code: _fetch_traces,            *)
(* _build_payload, persist_result's one transaction.                       *)
EntryTellsTheRow ==
    \A q \in Traces : entry[q] # None =>
        /\ collection /\ q \in Rows
        /\ entry[q].trace = q
        /\ entry[q].defects = row[q].defects
        /\ entry[q].gate \in {"skip", row[q].gate}
=============================================================================
