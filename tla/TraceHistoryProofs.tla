------------------------- MODULE TraceHistoryProofs -------------------------
(* Proofs about TraceReading, for any traces, processes, callers, settings *)
(* and times.                                                              *)
EXTENDS TraceReading, FiniteSetTheorems, SequenceTheorems,
        WellFoundedInduction, TLAPS

(* A finite set of rows, newest first, is a list of them, and not empty    *)
(* unless the set is.                                                      *)
LEMMA NewestFirstLists ==
    ASSUME NEW S, IsFiniteSet(S), NEW t \in NewestFirst(S)
    PROVE  t \in Seq(S) /\ (S # {} => t # <<>>)
<1>1. PICK s \in SetToSeqs(S) :
         t = SubSeq(s, 1, IF Len(s) < Limit THEN Len(s) ELSE Limit)
      BY DEF NewestFirst
<1>2. Cardinality(S) \in Nat /\ (S # {} => Cardinality(S) # 0)
      BY FS_CardinalityType, FS_EmptySet
<1>3. s \in Seq(S) /\ Len(s) = Cardinality(S)
      BY <1>2 DEF SetToSeqs
<1> QED BY <1>1, <1>2, <1>3, HistoryAssumption

(* The two parts of what there is to write, as WriteBatch parts it.        *)
BatchOf(todo) == SubSeq(todo, 1, IF Len(todo) < Batch THEN Len(todo) ELSE Batch)
RestOf(todo)  == SubSeq(todo, Len(BatchOf(todo)) + 1, Len(todo))

(* A batch and the rest are what there was to write.                       *)
LEMMA BatchesListed ==
    ASSUME NEW S, NEW todo \in Seq(S), todo # <<>>
    PROVE  /\ BatchOf(todo) \in Seq(S) /\ RestOf(todo) \in Seq(S)
           /\ \A n \in DOMAIN BatchOf(todo) :
                n \in DOMAIN todo /\ BatchOf(todo)[n] = todo[n]
           /\ \A n \in DOMAIN RestOf(todo) :
                \E m \in DOMAIN todo : RestOf(todo)[n] = todo[m]
           /\ \A n \in DOMAIN todo :
                \/ n \in DOMAIN BatchOf(todo)
                \/ \E m \in DOMAIN RestOf(todo) : RestOf(todo)[m] = todo[n]
<1> DEFINE batch == BatchOf(todo)
           rest  == RestOf(todo)
<1> DEFINE size == IF Len(todo) < Batch THEN Len(todo) ELSE Batch
<1>1. size \in Nat /\ 1 <= size /\ size <= Len(todo) /\ Len(todo) \in Nat
      BY HistoryAssumption
<1> HIDE DEF size
<1>2. /\ batch \in Seq(S) /\ Len(batch) = size /\ DOMAIN batch = 1..size
      /\ \A n \in 1..size : batch[n] = todo[n]
      BY <1>1 DEF size, BatchOf
<1>3. /\ rest \in Seq(S) /\ DOMAIN rest = 1..(Len(todo) - size)
      /\ \A n \in DOMAIN rest : rest[n] = todo[n + size]
      BY <1>1, <1>2 DEF RestOf
<1> HIDE DEF batch, rest
<1>4. DOMAIN todo = 1..Len(todo)
      OBVIOUS
<1>5. ASSUME NEW n \in DOMAIN rest
      PROVE  \E m \in DOMAIN todo : rest[n] = todo[m]
  <2>0. n \in 1..(Len(todo) - size)
        BY <1>3, <1>5, Zenon
  <2>1. n \in Int /\ 1 <= n /\ n <= Len(todo) - size
        BY <1>1, <2>0
  <2>2. n + size \in 1..Len(todo)
        BY <1>1, <2>1
  <2>3. rest[n] = todo[n + size]
        BY <1>3, <1>5
  <2> QED BY <1>4, <2>2, <2>3
<1>6. ASSUME NEW n \in DOMAIN todo, n \notin DOMAIN batch
      PROVE  \E m \in DOMAIN rest : rest[m] = todo[n]
  <2>0. n \in 1..Len(todo) /\ n \notin 1..size
        BY <1>2, <1>4, <1>6
  <2>1. n \in Int /\ size < n /\ n <= Len(todo)
        BY <1>1, <2>0
  <2>2. n - size \in 1..(Len(todo) - size) /\ (n - size) + size = n
        BY <1>1, <2>1
  <2>3. n - size \in DOMAIN rest
        BY <1>3, <2>2
  <2>4. rest[n - size] = todo[(n - size) + size]
        BY <1>3, <2>3
  <2> QED BY <2>2, <2>3, <2>4
<1>7. ASSUME NEW n \in DOMAIN batch PROVE n \in DOMAIN todo /\ batch[n] = todo[n]
  <2>1. n \in 1..size
        BY <1>2, <1>7
  <2>2. n \in 1..Len(todo)
        BY <1>1, <2>1
  <2> QED BY <1>2, <1>4, <2>1, <2>2
<1> QED BY <1>2, <1>3, <1>5, <1>6, <1>7 DEF batch, rest

-----------------------------------------------------------------------------
(* Types.                                                                  *)

(* What the type invariant says of the indexers.                           *)
IndexerOK(state) ==
    /\ state \in Indexer
    /\ state.clock <= IF state.pc \in {"ready", "fetch", "write"} THEN Slack
                      ELSE Interval
    /\ state.todo # <<>> <=> state.pc = "write"

IndexersOK ==
    indexer \in [Indexers -> Indexer] /\ \A i \in Indexers : IndexerOK(indexer[i])

(* The type invariant, by its parts, and what makes it inductive: there    *)
(* are finitely many rows.                                                 *)
HistoryTypes ==
    /\ setting \in Settings
    /\ row \in [Traces -> Row \cup {None}]
    /\ collection \in BOOLEAN
    /\ entry \in [Traces -> Snapshot \cup {None}]
    /\ IndexersOK
    /\ excused \in SUBSET Traces
    /\ IsFiniteSet(Rows)

(* The parts make the whole.                                               *)
LEMMA TypesTogether == HistoryTypes => HistoryTypeOK
BY SettingsAssumption
   DEF HistoryTypes, HistoryTypeOK, IndexersOK, IndexerOK, Busy, Indexer, Stages

(* A row that is there is a row.                                           *)
LEMMA RowsTyped ==
    ASSUME HistoryTypes
    PROVE  /\ Rows \subseteq Traces
           /\ \A q \in Rows : /\ row[q] \in Row /\ row[q].age \in 0..Old
                              /\ row[q].defects \in BOOLEAN
                              /\ row[q].gate \in Gates \cup {"none"}
                              /\ row[q].timely \in BOOLEAN
BY DEF HistoryTypes, Rows, Row

(* What is fetched and what of it is left after a batch are lists.         *)
LEMMA SnapshotsListed ==
    ASSUME HistoryTypes, NEW newest \in Seq(Rows)
    PROVE  /\ [n \in DOMAIN newest |-> SnapshotOf(newest[n])] \in Seq(Snapshot)
           /\ newest # <<>> => [n \in DOMAIN newest |-> SnapshotOf(newest[n])] # <<>>
           /\ DOMAIN [n \in DOMAIN newest |-> SnapshotOf(newest[n])] = DOMAIN newest
<1>1. ASSUME NEW q \in Rows PROVE SnapshotOf(q) \in Snapshot
      BY <1>1, RowsTyped DEF SnapshotOf, Snapshot, PayloadGate
<1>2. /\ Len(newest) \in Nat /\ DOMAIN newest = 1..Len(newest)
      /\ \A n \in DOMAIN newest : newest[n] \in Rows
      OBVIOUS
<1>3. [n \in DOMAIN newest |-> SnapshotOf(newest[n])] \in [1..Len(newest) -> Snapshot]
      BY <1>1, <1>2
<1>4. newest # <<>> => 1 \in DOMAIN newest
      BY <1>2
<1> QED BY <1>2, <1>3, <1>4

(* The states an indexer passes through.                                   *)
LEMMA OffOK == IndexerOK(Off)
BY HistoryAssumption DEF IndexerOK, Indexer, Stages, Off

LEMMA StartsOK ==
    ASSUME NEW pc \in {"asleep", "ready"}, NEW windowed \in BOOLEAN, NEW state,
           state = [Off EXCEPT !.pc = pc, !.windowed = windowed]
    PROVE  IndexerOK(state) /\ state.pc = pc /\ state.clock = 0
<1>1. Off \in Indexer
      BY OffOK DEF IndexerOK
<1>2. pc \in Stages
      BY DEF Stages
<1>3. state \in Indexer
      BY <1>1, <1>2 DEF Indexer
<1>4. state.pc = pc /\ state.clock = 0 /\ state.todo = <<>>
      BY DEF Off
<1> QED BY <1>3, <1>4, HistoryAssumption DEF IndexerOK

LEMMA RestedOK == ASSUME NEW i PROVE IndexerOK(Rested(i))
<1>1. CASE i = Command
      BY <1>1, OffOK DEF Rested
<1>2. CASE i # Command
  <2>1. Rested(i) = [pc |-> "asleep", clock |-> Interval, windowed |-> TRUE,
                     todo |-> <<>>]
        BY <1>2 DEF Rested, Off
  <2>2. Interval \in Nat /\ "asleep" \in Stages /\ <<>> \in Seq(Snapshot)
        BY HistoryAssumption DEF Stages
  <2> QED BY <2>1, <2>2 DEF IndexerOK, Indexer
<1> QED BY <1>1, <1>2

(* One indexer moves, to a state that is one.                              *)
LEMMA BecomesOK ==
    ASSUME IndexersOK, NEW i \in Indexers, NEW state, IndexerOK(state),
           Becomes(i, state)
    PROVE  /\ IndexersOK'
           /\ indexer'[i] = state
           /\ \A j \in Indexers \ {i} : indexer'[j] = indexer[j]
BY DEF IndexersOK, IndexerOK, Becomes

(* An indexer that is woken, or moves on within a reindex.                 *)
LEMMA MovesOK ==
    ASSUME NEW state, IndexerOK(state),
           (state.pc = "asleep" /\ state.clock = 0) \/ state.pc = "ready",
           NEW pc \in {"ready", "fetch"}
    PROVE  IndexerOK([state EXCEPT !.pc = pc])
<1>1. /\ state.clock \in Nat /\ state.clock <= Slack /\ state.todo = <<>>
      /\ pc \in Stages
      BY HistoryAssumption DEF IndexerOK, Indexer, Stages
<1>2. state \in Indexer
      BY DEF IndexerOK
<1>3. /\ [state EXCEPT !.pc = pc] \in Indexer
      /\ [state EXCEPT !.pc = pc].pc = pc
      /\ [state EXCEPT !.pc = pc].clock = state.clock
      /\ [state EXCEPT !.pc = pc].todo = state.todo
      BY <1>1, <1>2 DEF Indexer
<1> QED BY <1>1, <1>3 DEF IndexerOK

(* What a unit of time makes of an indexer.                                *)
LEMMA ElapseMoves ==
    ASSUME HistoryTypes, Elapse, NEW i \in Indexers
    PROVE  /\ IndexerOK(indexer'[i])
           /\ indexer'[i].pc = indexer[i].pc /\ indexer'[i].todo = indexer[i].todo
           /\ indexer[i].pc = "asleep" =>
                indexer[i].clock > 0 /\ indexer'[i].clock = indexer[i].clock - 1
           /\ Busy(i) =>
                indexer[i].clock < Slack /\ indexer'[i].clock = indexer[i].clock + 1
<1>1. /\ indexer[i] \in Indexer /\ IndexerOK(indexer[i]) /\ indexer[i].clock \in Nat
      BY DEF HistoryTypes, IndexersOK, IndexerOK, Indexer
<1>2. indexer'[i] = CASE indexer[i].pc = "asleep" -> [indexer[i] EXCEPT !.clock = @ - 1]
                      [] Busy(i)                  -> [indexer[i] EXCEPT !.clock = @ + 1]
                      [] OTHER                    -> indexer[i]
      BY DEF Elapse
<1>3. /\ indexer[i].pc = "asleep" => indexer[i].clock > 0
      /\ Busy(i) => indexer[i].clock < Slack
      BY DEF Elapse
<1>4. CASE indexer[i].pc = "asleep"
  <2>1. indexer'[i] = [indexer[i] EXCEPT !.clock = @ - 1] /\ ~Busy(i)
        BY <1>2, <1>4 DEF Busy
  <2>2. indexer[i].clock - 1 \in Nat
        BY <1>1, <1>3, <1>4
  <2>3. /\ indexer'[i] \in Indexer /\ indexer'[i].pc = "asleep"
        /\ indexer'[i].clock = indexer[i].clock - 1
        /\ indexer'[i].todo = indexer[i].todo
        BY <1>1, <1>4, <2>1, <2>2 DEF Indexer
  <2> QED BY <1>1, <1>3, <1>4, <2>1, <2>3, HistoryAssumption DEF IndexerOK
<1>5. CASE Busy(i)
  <2>1. indexer'[i] = [indexer[i] EXCEPT !.clock = @ + 1]
        BY <1>2, <1>5 DEF Busy
  <2>2. /\ indexer'[i] \in Indexer /\ indexer'[i].pc = indexer[i].pc
        /\ indexer'[i].clock = indexer[i].clock + 1
        /\ indexer'[i].todo = indexer[i].todo
        BY <1>1, <2>1 DEF Indexer
  <2> QED BY <1>1, <1>3, <1>5, <2>2, HistoryAssumption DEF IndexerOK, Busy
<1>6. CASE indexer[i].pc # "asleep" /\ ~Busy(i)
      BY <1>1, <1>2, <1>6
<1> QED BY <1>4, <1>5, <1>6

(* What the steps make of the rows: one is added, with no evaluation yet.  *)
LEMMA WriteTraceRows ==
    ASSUME HistoryTypes, NEW q \in Traces, WriteTrace(q)
    PROVE  /\ row' \in [Traces -> Row \cup {None}] /\ Rows' = Rows \cup {q}
           /\ q \notin Rows /\ \A p \in Rows : row'[p] = row[p]
           /\ row'[q].age = 0 /\ row'[q].gate = "none" /\ row'[q].timely = FALSE
<1> DEFINE new == [age |-> 0, defects |-> q \in setting.defective,
                   gate |-> "none", timely |-> FALSE]
<1>1. Old \in Nat
      BY HistoryAssumption DEF Old
<1>2. new \in Row /\ new.age = 0 /\ new.gate = "none" /\ new.timely = FALSE
      BY <1>1 DEF Row
<1>3. row' = [row EXCEPT ![q] = new] /\ q \notin Rows
      BY DEF WriteTrace
<1> HIDE DEF new
<1>4. row' \in [Traces -> Row \cup {None}]
      BY <1>2, <1>3 DEF HistoryTypes
<1>5. Rows' = Rows \cup {q} /\ row'[q] = new
      BY <1>2, <1>3, NoneAssumption DEF Rows, HistoryTypes
<1>6. \A p \in Rows : row'[p] = row[p]
      BY <1>3 DEF Rows, HistoryTypes
<1> QED BY <1>2, <1>3, <1>4, <1>5, <1>6

(* One gets its evaluation, which is timely if it is young.                *)
LEMMA WriteEvalRows ==
    ASSUME HistoryTypes, NEW q \in Traces, WriteEval(q)
    PROVE  /\ row' \in [Traces -> Row \cup {None}] /\ Rows' = Rows
           /\ q \in Rows /\ \A p \in Rows \ {q} : row'[p] = row[p]
           /\ row[q].gate = "none" /\ row'[q].gate \in Gates
           /\ row'[q].age = row[q].age /\ row'[q].defects = row[q].defects
           /\ row'[q].timely <=> row[q].timely \/ InGoodTime(q)
<1>1. PICK gate \in setting.gates :
        row' = [row EXCEPT ![q].gate = gate, ![q].timely = @ \/ InGoodTime(q)]
      BY DEF WriteEval
<1>2. gate \in Gates /\ row[q] \in Row /\ q \in Rows /\ row[q].gate = "none"
      BY RowsTyped, SettingsAssumption DEF WriteEval, HistoryTypes, Setting
<1>3. row'[q] \in Row /\ \A p \in Traces \ {q} : row'[p] = row[p]
      BY <1>1, <1>2 DEF HistoryTypes, Row, InGoodTime
<1>4. Rows' = Rows
      BY <1>2, <1>3, NoneAssumption DEF Rows
<1>5. row' \in [Traces -> Row \cup {None}]
      BY <1>1, <1>3 DEF HistoryTypes
<1>6. /\ row'[q].gate = gate
      /\ row'[q].age = row[q].age /\ row'[q].defects = row[q].defects
      /\ row'[q].timely <=> row[q].timely \/ InGoodTime(q)
      BY <1>1, <1>2 DEF HistoryTypes, Row
<1> QED BY <1>2, <1>3, <1>4, <1>5, <1>6, RowsTyped

(* All of them grow older, up to Old.                                      *)
LEMMA ElapseRows ==
    ASSUME HistoryTypes, Elapse
    PROVE  /\ row' \in [Traces -> Row \cup {None}] /\ Rows' = Rows
           /\ \A q \in Rows :
                /\ row'[q].age = IF row[q].age < Old THEN row[q].age + 1
                                 ELSE row[q].age
                /\ row'[q].defects = row[q].defects /\ row'[q].gate = row[q].gate
                /\ row'[q].timely = row[q].timely
<1>1. Old \in Nat /\ \A q \in Rows : row[q] \in Row /\ q \in Traces
      BY HistoryAssumption, RowsTyped DEF Old
<1>2. row' = [q \in Traces |-> IF q \in Rows /\ row[q].age < Old
                               THEN [row[q] EXCEPT !.age = @ + 1] ELSE row[q]]
      BY DEF Elapse
<1>3. ASSUME NEW q \in Rows, row[q].age < Old
      PROVE  /\ row'[q] \in Row /\ row'[q].age = row[q].age + 1
             /\ row'[q].defects = row[q].defects /\ row'[q].gate = row[q].gate
             /\ row'[q].timely = row[q].timely
      BY <1>1, <1>2, <1>3 DEF Row
<1>4. \A q \in Traces : (q \in Rows /\ row[q].age < Old) \/ row'[q] = row[q]
      BY <1>2
<1>5. Rows' = Rows
      BY <1>3, <1>4, NoneAssumption DEF Rows
<1>6. row' \in [Traces -> Row \cup {None}]
      BY <1>2, <1>3, <1>4 DEF HistoryTypes
<1> QED BY <1>1, <1>3, <1>4, <1>5, <1>6

(* Each step of the history keeps the types.                               *)
LEMMA TypesKept == HistoryTypes /\ HistoryNext => HistoryTypes'
<1> SUFFICES ASSUME HistoryTypes, HistoryNext PROVE HistoryTypes'
    OBVIOUS
<1>a. Rows \subseteq Traces /\ Command \in Indexers /\ Replicas \subseteq Indexers
      BY DEF Rows, Indexers
<1>b. \A i \in Indexers : IndexerOK(indexer[i])
      BY DEF HistoryTypes, IndexersOK
<1>c. row' = row => Rows' = Rows
      BY DEF Rows
<1>1. ASSUME NEW q \in Traces, WriteTrace(q) PROVE HistoryTypes'
  <2>1. Rows' = Rows \cup {q} /\ IsFiniteSet(Rows)
        BY <1>1, WriteTraceRows DEF HistoryTypes
  <2>2. IsFiniteSet(Rows')
        BY <2>1, FS_AddElement
  <2> QED BY <1>1, <2>2, WriteTraceRows DEF WriteTrace, IndexersOK, HistoryTypes
<1>2. ASSUME NEW q \in Traces, WriteEval(q) PROVE HistoryTypes'
      BY <1>2, WriteEvalRows DEF WriteEval, IndexersOK, HistoryTypes
<1>3. ASSUME NEW i \in Indexers, StartReplica(i) PROVE HistoryTypes'
  <2> DEFINE state == [Off EXCEPT !.pc = "asleep", !.windowed = TRUE]
  <2>1. IndexerOK(state)
        BY StartsOK
  <2>2. Becomes(i, state)
        BY <1>3 DEF StartReplica
  <2> HIDE DEF state
  <2>3. IndexersOK'
        BY <2>1, <2>2, BecomesOK DEF HistoryTypes
  <2> QED BY <1>3, <1>c, <2>3 DEF StartReplica, HistoryTypes
<1>4. ASSUME NEW i \in Indexers, Stop(i) PROVE HistoryTypes'
  <2>1. IndexersOK'
        BY <1>4, OffOK, BecomesOK DEF HistoryTypes, Stop
  <2> QED BY <1>4, <1>a, <1>c, <2>1 DEF Stop, HistoryTypes
<1>5. ASSUME NEW i \in Indexers, Wake(i) PROVE HistoryTypes'
  <2>1. IndexersOK'
        BY <1>5, <1>b, MovesOK, BecomesOK DEF HistoryTypes, Wake
  <2> QED BY <1>5, <1>c, <2>1 DEF Wake, HistoryTypes
<1>6. ASSUME NEW i \in Indexers, EnsureReady(i) PROVE HistoryTypes'
  <2>1. IndexersOK'
        BY <1>6, <1>b, MovesOK, BecomesOK DEF HistoryTypes, EnsureReady
  <2> QED BY <1>6, <1>c, <2>1 DEF EnsureReady, HistoryTypes
<1>7. ASSUME NEW i \in Indexers, Fetch(i) PROVE HistoryTypes'
  <2> DEFINE seen == {q \in Rows : InWindow(i, q)}
  <2>1. PICK newest \in NewestFirst(seen) :
          /\ Becomes(i, IF newest = <<>> THEN Rested(i)
                        ELSE [indexer[i] EXCEPT
                                !.pc = "write",
                                !.todo = [n \in DOMAIN newest |->
                                             SnapshotOf(newest[n])]])
          /\ excused' = IF i = Command THEN excused
                        ELSE excused \cup TooOldAfter(seen \ ToSet(newest),
                                                      Slack - indexer[i].clock)
        BY <1>7 DEF Fetch
  <2>2. IsFiniteSet(seen) /\ seen \subseteq Rows
        BY FS_Subset DEF HistoryTypes
  <2> HIDE DEF seen
  <2>3. newest \in Seq(Rows)
        BY <2>2, NewestFirstLists
  <2>4. IndexersOK'
    <3> DEFINE todo  == [n \in DOMAIN newest |-> SnapshotOf(newest[n])]
               state == [indexer[i] EXCEPT !.pc = "write", !.todo = todo]
    <3>1. CASE newest = <<>>
          BY <2>1, <3>1, RestedOK, BecomesOK DEF HistoryTypes
    <3>2. CASE newest # <<>>
      <4>1. todo \in Seq(Snapshot) /\ todo # <<>>
            BY <2>3, <3>2, SnapshotsListed
      <4> HIDE DEF todo
      <4>2. indexer[i] \in Indexer /\ indexer[i].clock <= Slack
            BY <1>7, <1>b DEF Fetch, IndexerOK
      <4>3. IndexerOK(state)
            BY <4>1, <4>2 DEF IndexerOK, Indexer, Stages
      <4>4. Becomes(i, state)
            BY <2>1, <3>2 DEF todo
      <4> QED BY <4>3, <4>4, BecomesOK DEF HistoryTypes
    <3> QED BY <3>1, <3>2
  <2>5. excused' \in SUBSET Traces
        BY <1>a, <2>1 DEF TooOldAfter, HistoryTypes
  <2> QED BY <1>7, <1>c, <2>4, <2>5 DEF Fetch, HistoryTypes
<1>8. ASSUME NEW i \in Indexers, WriteBatch(i) PROVE HistoryTypes'
  <2> DEFINE todo  == indexer[i].todo
             batch == BatchOf(todo)
             rest  == RestOf(todo)
             state == [indexer[i] EXCEPT !.todo = rest]
  <2>1. /\ entry' = Upserted(batch)
        /\ Becomes(i, IF rest = <<>> THEN Rested(i) ELSE state)
        BY <1>8 DEF WriteBatch, BatchOf, RestOf
  <2>2. todo \in Seq(Snapshot) /\ todo # <<>>
        BY <1>8, <1>b DEF WriteBatch, IndexerOK, Indexer
  <2> HIDE DEF todo
  <2>3. /\ batch \in Seq(Snapshot) /\ rest \in Seq(Snapshot)
        /\ \A n \in DOMAIN batch : n \in DOMAIN todo /\ batch[n] = todo[n]
        BY <2>2, BatchesListed
  <2> HIDE DEF batch, rest
  <2>4. rest # <<>> => IndexerOK(state)
    <3>1. indexer[i] \in Indexer /\ indexer[i].pc = "write" /\ indexer[i].clock <= Slack
          BY <1>8, <1>b DEF WriteBatch, IndexerOK
    <3>2. /\ state \in Indexer
          /\ state.pc = "write" /\ state.clock <= Slack /\ state.todo = rest
          BY <2>3, <3>1 DEF Indexer
    <3> QED BY <3>2 DEF IndexerOK
  <2> HIDE DEF state
  <2>5. IndexersOK'
    <3>1. CASE rest = <<>>
          BY <2>1, <3>1, RestedOK, BecomesOK DEF HistoryTypes
    <3>2. CASE rest # <<>>
          BY <2>1, <2>4, <3>2, BecomesOK DEF HistoryTypes
    <3> QED BY <3>1, <3>2
  <2>6. \A n \in DOMAIN batch : batch[n] \in Snapshot
        BY <2>3
  <2>7. Upserted(batch) \in [Traces -> Snapshot \cup {None}]
    <3>1. ASSUME NEW q \in Traces, NEW news \in SUBSET DOMAIN batch, news # {}
          PROVE  batch[CHOOSE n \in news : TRUE] \in Snapshot
          BY <2>6, <3>1
    <3> QED BY <3>1 DEF Upserted, HistoryTypes
  <2> QED BY <1>8, <1>c, <2>1, <2>5, <2>7 DEF WriteBatch, HistoryTypes
<1>9. ASSUME NEW i \in Indexers, ReindexFails(i) PROVE HistoryTypes'
  <2>1. IndexersOK'
        BY <1>9, RestedOK, BecomesOK DEF HistoryTypes, ReindexFails
  <2> QED BY <1>9, <1>a, <1>c, <2>1 DEF ReindexFails, HistoryTypes, TooOldAfter
<1>10. CASE StartCommand
  <2>1. PICK windowed \in setting.windows :
          Becomes(Command, [Off EXCEPT !.pc = "ready", !.windowed = windowed])
        BY <1>10 DEF StartCommand
  <2>2. windowed \in BOOLEAN
        BY SettingsAssumption DEF HistoryTypes, Setting
  <2> DEFINE state == [Off EXCEPT !.pc = "ready", !.windowed = windowed]
  <2>3. IndexerOK(state)
        BY <2>2, StartsOK
  <2> HIDE DEF state
  <2>4. IndexersOK'
        BY <1>a, <2>1, <2>3, BecomesOK DEF HistoryTypes, state
  <2> QED BY <1>10, <1>c, <2>4 DEF StartCommand, HistoryTypes
<1>11. CASE Elapse
  <2>2. row' \in [Traces -> Row \cup {None}] /\ Rows' = Rows
        BY <1>11, ElapseRows
  <2>4. ASSUME NEW i \in Indexers
        PROVE  IndexerOK(indexer'[i])
        BY <1>11, ElapseMoves
  <2>5. IndexersOK'
        BY <1>11, <2>4 DEF Elapse, IndexersOK, IndexerOK
  <2>6. excused' \in SUBSET Traces
        BY <1>11, <1>a DEF Elapse, HistoryTypes
  <2> QED BY <1>11, <2>2, <2>5, <2>6 DEF Elapse, HistoryTypes
<1> QED BY <1>1, <1>2, <1>3, <1>4, <1>5, <1>6, <1>7, <1>8, <1>9, <1>10, <1>11
        DEF HistoryNext, Reindex

(* The types are there from the start, and however the history goes on.    *)
LEMMA TypesInit == HistoryInit => HistoryTypes
<1> SUFFICES ASSUME HistoryInit PROVE HistoryTypes
    OBVIOUS
<1>1. Rows = {}
      BY DEF HistoryInit, Rows
<1>2. IsFiniteSet(Rows)
      BY <1>1, FS_EmptySet
<1> QED BY <1>2, OffOK DEF HistoryInit, HistoryTypes, IndexersOK, IndexerOK

-----------------------------------------------------------------------------
(* What the rows, the points and the indexers' snapshots have in common.   *)

(* The rows stay, and only a verdict is added to them: what every reader   *)
(* of several statements goes by.                                          *)
RowsGrow ==
    /\ Rows \subseteq Rows'
    /\ \A q \in Rows : /\ row'[q].defects = row[q].defects
                       /\ \/ row'[q].gate = row[q].gate
                          \/ row[q].gate = "none" /\ row'[q].gate \in Gates
    /\ collection => collection'

(* The steps that do something to the rows.                                *)
LEMMA RowSteps ==
    ASSUME HistoryNext
    PROVE  \/ \E q \in Traces : WriteTrace(q) \/ WriteEval(q)
           \/ Elapse
           \/ row' = row /\ (collection => collection')
<1>1. ASSUME NEW i \in Indexers, StartReplica(i) \/ Stop(i) \/ Wake(i) \/ Reindex(i)
      PROVE  row' = row /\ (collection => collection')
  <2>1. CASE Fetch(i)
        BY <2>1 DEF Fetch
  <2>2. CASE WriteBatch(i)
        BY <2>2 DEF WriteBatch
  <2> QED BY <1>1, <2>1, <2>2
             DEF StartReplica, Stop, Wake, Reindex, EnsureReady, ReindexFails
<1>2. CASE StartCommand
      BY <1>2 DEF StartCommand
<1> QED BY <1>1, <1>2 DEF HistoryNext

(* Every step of the history keeps to that.                                *)
LEMMA RowsKept == HistoryTypes /\ HistoryNext => RowsGrow
<1> SUFFICES ASSUME HistoryTypes, HistoryNext PROVE RowsGrow
    OBVIOUS
<1>1. ASSUME NEW q \in Traces, WriteTrace(q) PROVE RowsGrow
      BY <1>1, WriteTraceRows DEF WriteTrace, RowsGrow
<1>2. ASSUME NEW q \in Traces, WriteEval(q) PROVE RowsGrow
      BY <1>2, WriteEvalRows DEF WriteEval, RowsGrow
<1>3. CASE Elapse
      BY <1>3, ElapseRows DEF Elapse, RowsGrow
<1>4. CASE row' = row /\ (collection => collection')
      BY <1>4 DEF RowsGrow, Rows
<1> QED BY <1>1, <1>2, <1>3, <1>4, RowSteps

(* What a point, or a snapshot that is to be one, may say of its trace.    *)
Truthful(snapshot) ==
    /\ snapshot.trace \in Rows
    /\ snapshot.defects = row[snapshot.trace].defects
    /\ snapshot.gate \in {"skip", row[snapshot.trace].gate}

(* What holds of an indexer: there is a collection to write what it has    *)
(* fetched to, that is truthful, and two snapshots of a trace are the same. *)
Holds(state) ==
    /\ state.pc \in {"fetch", "write"} => collection
    /\ \A n \in DOMAIN state.todo : Truthful(state.todo[n])
    /\ \A m, n \in DOMAIN state.todo :
         state.todo[m].trace = state.todo[n].trace => state.todo[m] = state.todo[n]

(* EntryTellsTheRow and what makes it inductive: what an indexer holds and *)
(* has not written yet is as truthful as what is written.                  *)
PointsInv ==
    /\ \A q \in Traces : entry[q] # None =>
         collection /\ entry[q].trace = q /\ Truthful(entry[q])
    /\ \A i \in Indexers : Holds(indexer[i])

(* Whatever was truthful stays so while verdicts are added: one that has   *)
(* none of its own yet says "skip".                                        *)
LEMMA TruthfulKept ==
    ASSUME HistoryTypes, RowsGrow, NEW snapshot \in Snapshot, Truthful(snapshot)
    PROVE  Truthful(snapshot)'
<1>1. snapshot.gate \in Gates \cup {"skip"} /\ "none" \notin Gates
      BY HistoryAssumption DEF Snapshot
<1> QED BY <1>1 DEF Truthful, RowsGrow

(* A fetch and a batch hold to it.                                         *)
LEMMA FetchHolds ==
    ASSUME HistoryTypes, NEW newest \in Seq(Rows), NEW todo,
           todo = [n \in DOMAIN newest |-> SnapshotOf(newest[n])]
    PROVE  /\ \A n \in DOMAIN todo : Truthful(todo[n])
           /\ \A m, n \in DOMAIN todo :
                todo[m].trace = todo[n].trace => todo[m] = todo[n]
<1>1. DOMAIN todo = DOMAIN newest /\ \A n \in DOMAIN newest : newest[n] \in Rows
      OBVIOUS
<1>2. \A n \in DOMAIN todo : todo[n] = SnapshotOf(newest[n])
      BY <1>1
<1>3. \A q : SnapshotOf(q).trace = q
      BY DEF SnapshotOf
<1>4. \A q \in Rows : Truthful(SnapshotOf(q))
      BY DEF SnapshotOf, Truthful, PayloadGate
<1> QED BY <1>1, <1>2, <1>3, <1>4

(* Every step keeps the points and the snapshots truthful.                 *)
LEMMA PointsKept == HistoryTypes /\ PointsInv /\ HistoryNext => PointsInv'
<1> SUFFICES ASSUME HistoryTypes, PointsInv, HistoryNext PROVE PointsInv'
    OBVIOUS
<1>0. RowsGrow
      BY RowsKept
<1>a. \A i \in Indexers : /\ IndexerOK(indexer[i]) /\ Holds(indexer[i])
                          /\ \A n \in DOMAIN indexer[i].todo :
                               indexer[i].todo[n] \in Snapshot
      BY DEF HistoryTypes, IndexersOK, IndexerOK, Indexer, PointsInv
<1>b. ASSUME NEW i \in Indexers, NEW state, state = indexer[i]
      PROVE  Holds(state)'
      BY <1>0, <1>a, <1>b, TruthfulKept DEF Holds, RowsGrow
<1>c. ASSUME NEW q \in Traces, entry[q] # None, NEW point, point = entry[q]
      PROVE  collection' /\ point.trace = q /\ Truthful(point)'
      BY <1>0, <1>c, TruthfulKept DEF PointsInv, RowsGrow, HistoryTypes
<1>d. ASSUME entry' = entry, \A i \in Indexers : Holds(indexer[i])'
      PROVE  PointsInv'
      BY <1>c, <1>d DEF PointsInv
<1>e. ASSUME NEW i \in Indexers, NEW state, Becomes(i, state), Holds(state)'
      PROVE  \A j \in Indexers : Holds(indexer[j])'
  <2>1. /\ indexer'[i] = state
        /\ \A j \in Indexers \ {i} : indexer'[j] = indexer[j]
        BY <1>e DEF Becomes, HistoryTypes, IndexersOK
  <2> QED BY <1>b, <1>e, <2>1
<1>f. \A state : state.todo = <<>> /\ (state.pc \in {"fetch", "write"} => collection')
                   => Holds(state)'
      BY DEF Holds
<1>g. Holds(Off)' /\ \A i : Holds(Rested(i))'
      BY <1>f DEF Off, Rested
<1>1. ASSUME NEW q \in Traces, WriteTrace(q) \/ WriteEval(q) PROVE PointsInv'
  <2>1. entry' = entry /\ indexer' = indexer
        BY <1>1 DEF WriteTrace, WriteEval
  <2> QED BY <1>b, <1>d, <2>1
<1>3. ASSUME NEW i \in Indexers, StartReplica(i) PROVE PointsInv'
      BY <1>d, <1>e, <1>f, <1>3 DEF StartReplica, Off
<1>4. ASSUME NEW i \in Indexers, Stop(i) PROVE PointsInv'
      BY <1>d, <1>e, <1>g, <1>4 DEF Stop
<1>5. ASSUME NEW i \in Indexers, Wake(i) PROVE PointsInv'
  <2>1. PICK state : state = [indexer[i] EXCEPT !.pc = "ready"]
        OBVIOUS
  <2>2. state.todo = <<>> /\ state.pc = "ready"
        BY <1>5, <1>a, <2>1 DEF Wake, IndexerOK, Indexer
  <2>3. Becomes(i, state) /\ entry' = entry
        BY <1>5, <2>1 DEF Wake
  <2> QED BY <1>d, <1>e, <1>f, <2>2, <2>3
<1>6. ASSUME NEW i \in Indexers, EnsureReady(i) PROVE PointsInv'
  <2>1. PICK state : state = [indexer[i] EXCEPT !.pc = "fetch"]
        OBVIOUS
  <2>2. state.todo = <<>>
        BY <1>6, <1>a, <2>1 DEF EnsureReady, IndexerOK, Indexer
  <2>3. Becomes(i, state) /\ entry' = entry /\ collection'
        BY <1>6, <2>1 DEF EnsureReady
  <2> QED BY <1>d, <1>e, <1>f, <2>2, <2>3
<1>7. ASSUME NEW i \in Indexers, Fetch(i) PROVE PointsInv'
  <2> DEFINE seen == {q \in Rows : InWindow(i, q)}
  <2>1. PICK newest \in NewestFirst(seen) :
          Becomes(i, IF newest = <<>> THEN Rested(i)
                     ELSE [indexer[i] EXCEPT
                             !.pc = "write",
                             !.todo = [n \in DOMAIN newest |->
                                          SnapshotOf(newest[n])]])
        BY <1>7 DEF Fetch
  <2>2. IsFiniteSet(seen) /\ seen \subseteq Rows
        BY FS_Subset DEF HistoryTypes
  <2> HIDE DEF seen
  <2>3. newest \in Seq(Rows)
        BY <2>2, NewestFirstLists
  <2>4. row' = row /\ collection' = collection /\ entry' = entry /\ collection
        BY <1>7, <1>a DEF Fetch, Holds
  <2>5. CASE newest = <<>>
        BY <1>d, <1>e, <1>g, <2>1, <2>4, <2>5
  <2>6. CASE newest # <<>>
    <3>1. PICK todo : todo = [n \in DOMAIN newest |-> SnapshotOf(newest[n])]
          OBVIOUS
    <3>2. PICK state : state = [indexer[i] EXCEPT !.pc = "write", !.todo = todo]
          OBVIOUS
    <3>3. state.todo = todo
          BY <1>a, <3>2 DEF IndexerOK, Indexer
    <3>4. /\ \A n \in DOMAIN todo : Truthful(todo[n])'
          /\ \A m, n \in DOMAIN todo : todo[m].trace = todo[n].trace => todo[m] = todo[n]
          BY <2>3, <2>4, <3>1, FetchHolds DEF Truthful, Rows
    <3>5. Holds(state)'
          BY <2>4, <3>3, <3>4 DEF Holds
    <3>6. Becomes(i, state)
          BY <2>1, <2>6, <3>1, <3>2
    <3> QED BY <1>d, <1>e, <2>4, <3>5, <3>6
  <2> QED BY <2>5, <2>6
<1>8. ASSUME NEW i \in Indexers, WriteBatch(i) PROVE PointsInv'
  <2>1. PICK todo : todo = indexer[i].todo
        OBVIOUS
  <2>2. PICK state : state = [indexer[i] EXCEPT !.todo = RestOf(todo)]
        OBVIOUS
  <2>3. /\ entry' = Upserted(BatchOf(todo))
        /\ Becomes(i, IF RestOf(todo) = <<>> THEN Rested(i) ELSE state)
        /\ row' = row /\ collection' = collection /\ indexer[i].pc = "write"
        BY <1>8, <2>1, <2>2 DEF WriteBatch, BatchOf, RestOf
  <2>4. /\ indexer[i] \in Indexer /\ todo \in Seq(Snapshot) /\ todo # <<>> /\ collection
        /\ \A n \in DOMAIN todo : Truthful(todo[n])
        /\ \A m, n \in DOMAIN todo : todo[m].trace = todo[n].trace => todo[m] = todo[n]
        BY <1>a, <2>1, <2>3 DEF IndexerOK, Indexer, Holds
  <2>5. /\ \A n \in DOMAIN BatchOf(todo) : \E m \in DOMAIN todo : BatchOf(todo)[n] = todo[m]
        /\ \A n \in DOMAIN RestOf(todo) : \E m \in DOMAIN todo : RestOf(todo)[n] = todo[m]
        BY <2>4, BatchesListed
  <2>6. state.todo = RestOf(todo)
        BY <2>2, <2>4 DEF Indexer
  <2>7. Holds(state)'
        BY <2>3, <2>4, <2>5, <2>6 DEF Holds, Truthful, Rows
  <2>8. \A j \in Indexers : Holds(indexer[j])'
    <3>1. CASE RestOf(todo) = <<>>
          BY <1>e, <1>g, <2>3, <3>1
    <3>2. CASE RestOf(todo) # <<>>
          BY <1>e, <2>3, <2>7, <3>2
    <3> QED BY <3>1, <3>2
  <2>9. ASSUME NEW q \in Traces, entry'[q] # None
        PROVE  collection' /\ entry'[q].trace = q /\ Truthful(entry[q])'
    <3>1. CASE entry'[q] = entry[q]
      <4>1. PICK point : point = entry[q]
            OBVIOUS
      <4> QED BY <1>c, <2>9, <3>1, <4>1
    <3>2. CASE entry'[q] # entry[q]
      <4>1. PICK n \in DOMAIN BatchOf(todo) :
              BatchOf(todo)[n].trace = q /\ entry'[q] = BatchOf(todo)[n]
            BY <2>3, <3>2 DEF Upserted
      <4>2. PICK m \in DOMAIN todo : entry'[q] = todo[m]
            BY <2>5, <4>1
      <4> QED BY <2>3, <2>4, <4>1, <4>2 DEF Truthful, Rows
    <3> QED BY <3>1, <3>2
  <2> QED BY <2>8, <2>9 DEF PointsInv
<1>9. ASSUME NEW i \in Indexers, ReindexFails(i) PROVE PointsInv'
      BY <1>d, <1>e, <1>g, <1>9 DEF ReindexFails
<1>10. CASE StartCommand
      BY <1>d, <1>e, <1>f, <1>10 DEF StartCommand, Off, Indexers
<1>11. CASE Elapse
  <2>1. ASSUME NEW i \in Indexers, NEW state, state = indexer[i]
        PROVE  indexer'[i].pc = state.pc /\ indexer'[i].todo = state.todo
        BY <1>11, <2>1, ElapseMoves
  <2>2. \A i \in Indexers : Holds(indexer[i])'
        BY <1>b, <2>1 DEF Holds
  <2> QED BY <1>d, <1>11, <2>2 DEF Elapse
<1> QED BY <1>1, <1>3, <1>4, <1>5, <1>6, <1>7, <1>8, <1>9, <1>10, <1>11
        DEF HistoryNext, Reindex

-----------------------------------------------------------------------------
(* What an indexer will yet do for a trace that is getting older.          *)

(* A point is there and says what is needed.                               *)
Told(point, need) == point # None /\ point.gate \in need

(* An indexer in this state writes such a point of a trace of this age     *)
(* with what it does, or starts again while the window reaches the trace.  *)
InTime(state, age, q, need) ==
    \/ state.pc = "asleep" /\ age + state.clock <= Window
    \/ state.pc \in {"ready", "fetch"} /\ age <= Window + state.clock
    \/ /\ state.pc = "write" /\ age <= Window + state.clock
       /\ \E n \in DOMAIN state.todo :
            state.todo[n].trace = q /\ state.todo[n].gate \in need
    \/ state.pc = "write" /\ age + Slack + Interval <= Window + state.clock

(* While it is young a trace that needs a point can rely on every loop     *)
(* there is, and later on some loop that has it in hand.                   *)
Hope(q, need) ==
    q \in Rows \ excused /\ ~Told(entry[q], need) =>
        IF row[q].age <= Window
        THEN \A i \in Replicas : Up(i) => InTime(indexer[i], row[q].age, q, need)
        ELSE \E i \in Replicas : InTime(indexer[i], row[q].age, q, need)

(* One indexer moves and hope is kept if it does not let the trace down.   *)
LEMMA HopeOfOthers ==
    ASSUME HistoryTypes, NEW q \in Rows, NEW need, Hope(q, need),
           NEW i \in Indexers, NEW state, Becomes(i, state),
           row' = row, entry' = entry, excused \subseteq excused',
           i \in Replicas /\ q \notin excused' =>
             /\ InTime(indexer[i], row[q].age, q, need) =>
                  \/ InTime(state, row[q].age, q, need)
                  \/ state.pc = "off" /\ row[q].age <= Window
             /\ ~Up(i) /\ row[q].age <= Window =>
                  InTime(state, row[q].age, q, need) \/ state.pc = "off"
    PROVE  Hope(q, need)'
<1>1. /\ indexer'[i] = state
      /\ \A j \in Indexers \ {i} : indexer'[j] = indexer[j]
      /\ Replicas \subseteq Indexers
      BY DEF Becomes, HistoryTypes, IndexersOK, Indexers
<1>2. Rows' = Rows
      BY DEF Rows
<1>3. row[q].age \in Nat /\ Window \in Nat
      BY RowsTyped, HistoryAssumption
<1> SUFFICES ASSUME q \notin excused', ~Told(entry[q], need)
             PROVE  IF row[q].age <= Window
                    THEN \A j \in Replicas :
                           indexer'[j].pc # "off" => InTime(indexer'[j], row[q].age, q, need)
                    ELSE \E j \in Replicas : InTime(indexer'[j], row[q].age, q, need)
    BY DEF Hope, Up
<1>4. CASE row[q].age <= Window
      BY <1>1, <1>4 DEF Hope, Up
<1>5. CASE ~(row[q].age <= Window)
      BY <1>1, <1>5 DEF Hope, Up
<1> QED BY <1>4, <1>5

(* What is about to be written does not take back what was told.           *)
Steady(q, need) ==
    \A i \in Indexers : \A n \in DOMAIN indexer[i].todo :
        indexer[i].todo[n].trace = q /\ Told(entry[q], need)
            => indexer[i].todo[n].gate \in need

(* A batch leaves the points of other traces alone, and tells of its own   *)
(* traces what it holds.                                                   *)
LEMMA UpsertTells ==
    ASSUME NEW todo \in Seq(Snapshot), NEW q \in Traces, NEW batch,
           \A n \in DOMAIN batch : \E m \in DOMAIN todo : batch[n] = todo[m],
           \A m, n \in DOMAIN todo : todo[m].trace = todo[n].trace => todo[m] = todo[n]
    PROVE  /\ \/ Upserted(batch)[q] = entry[q]
              \/ \E n \in DOMAIN todo : todo[n].trace = q /\ Upserted(batch)[q] = todo[n]
           /\ \A n \in DOMAIN batch : batch[n].trace = q => Upserted(batch)[q] = batch[n]
<1> DEFINE news == {n \in DOMAIN batch : batch[n].trace = q}
<1>1. CASE news = {}
      BY <1>1 DEF Upserted
<1>2. CASE news # {}
  <2>1. PICK n \in news : Upserted(batch)[q] = batch[n]
        BY <1>2 DEF Upserted
  <2> QED BY <2>1
<1> QED BY <1>1, <1>2

(* Hope is kept by every step that leaves the trace's row as it was, but   *)
(* for its age: a loop that lets the trace down excuses it.                *)
LEMMA HopeKept ==
    ASSUME HistoryTypes, PointsInv, HistoryNext, NEW q \in Rows, NEW need,
           PayloadGate(q) \in need, Steady(q, need), Hope(q, need)
    PROVE  Hope(q, need)'
<1>a. /\ {Window, Slack, Interval} \subseteq Nat /\ Interval + Slack <= Window
      /\ row[q].age \in Nat /\ q \in Traces
      BY RowsTyped, HistoryAssumption
<1>b. \A i \in Indexers : /\ IndexerOK(indexer[i]) /\ indexer[i] \in Indexer
                          /\ indexer[i].clock \in Nat /\ Holds(indexer[i])
                          /\ indexer[i].todo \in Seq(Snapshot)
      BY DEF HistoryTypes, IndexersOK, IndexerOK, Indexer, PointsInv
<1>c. Replicas \subseteq Indexers /\ Command \notin Replicas
      BY HistoryAssumption DEF Indexers
<1>d. \A i : i # Command =>
        /\ Rested(i).pc = "asleep" /\ Rested(i).clock = Interval
      BY DEF Rested, Off
<1>1. ASSUME NEW p \in Traces, WriteTrace(p) \/ WriteEval(p) PROVE Hope(q, need)'
  <2>1. q \in Rows' /\ row'[q].age = row[q].age
        BY <1>1, WriteTraceRows, WriteEvalRows
  <2>2. entry' = entry /\ indexer' = indexer /\ excused' = excused
        BY <1>1 DEF WriteTrace, WriteEval
  <2> QED BY <2>1, <2>2 DEF Hope, Up
<1>3. ASSUME NEW i \in Indexers, StartReplica(i) PROVE Hope(q, need)'
  <2>1. PICK state : state = [Off EXCEPT !.pc = "asleep", !.windowed = TRUE]
        OBVIOUS
  <2>2. state.pc = "asleep" /\ state.clock = 0
        BY <2>1, StartsOK
  <2>3. Becomes(i, state) /\ row' = row /\ entry' = entry /\ excused' = excused /\ ~Up(i)
        BY <1>3, <2>1 DEF StartReplica
  <2>4. /\ ~InTime(indexer[i], row[q].age, q, need)
        /\ row[q].age <= Window => InTime(state, row[q].age, q, need)
        BY <1>a, <2>2, <2>3 DEF InTime, Up
  <2> QED BY <2>3, <2>4, HopeOfOthers
<1>4. ASSUME NEW i \in Indexers, Stop(i) PROVE Hope(q, need)'
  <2>1. /\ Becomes(i, Off) /\ row' = row /\ entry' = entry
        /\ excused \subseteq excused' /\ Off.pc = "off" /\ Up(i)
        /\ i \in Replicas /\ Busy(i) /\ row[q].age > Window => q \in excused'
        BY <1>4 DEF Stop, Off
  <2>2. InTime(indexer[i], row[q].age, q, need) /\ ~Busy(i) => row[q].age <= Window
        BY <1>a, <1>b DEF InTime, Busy
  <2> QED BY <1>a, <2>1, <2>2, HopeOfOthers
<1>5. ASSUME NEW i \in Indexers, Wake(i) PROVE Hope(q, need)'
  <2>1. PICK state : state = [indexer[i] EXCEPT !.pc = "ready"]
        OBVIOUS
  <2>2. /\ state.pc = "ready" /\ state.clock = 0
        /\ indexer[i].pc = "asleep" /\ indexer[i].clock = 0
        BY <1>5, <1>b, <2>1 DEF Wake, Indexer
  <2>3. Becomes(i, state) /\ row' = row /\ entry' = entry /\ excused' = excused /\ Up(i)
        BY <1>5, <2>1 DEF Wake, Up
  <2>4. InTime(indexer[i], row[q].age, q, need) => InTime(state, row[q].age, q, need)
        BY <1>a, <2>2 DEF InTime
  <2> QED BY <2>3, <2>4, HopeOfOthers
<1>6. ASSUME NEW i \in Indexers, EnsureReady(i) PROVE Hope(q, need)'
  <2>1. PICK state : state = [indexer[i] EXCEPT !.pc = "fetch"]
        OBVIOUS
  <2>2. state.pc = "fetch" /\ state.clock = indexer[i].clock /\ indexer[i].pc = "ready"
        BY <1>6, <1>b, <2>1 DEF EnsureReady, Indexer
  <2>3. Becomes(i, state) /\ row' = row /\ entry' = entry /\ excused' = excused /\ Up(i)
        BY <1>6, <2>1 DEF EnsureReady, Up
  <2>4. InTime(indexer[i], row[q].age, q, need) => InTime(state, row[q].age, q, need)
        BY <1>a, <2>2 DEF InTime
  <2> QED BY <2>3, <2>4, HopeOfOthers
<1>7. ASSUME NEW i \in Indexers, Fetch(i) PROVE Hope(q, need)'
  <2> DEFINE seen == {p \in Rows : InWindow(i, p)}
  <2>1. PICK newest \in NewestFirst(seen) :
          /\ Becomes(i, IF newest = <<>> THEN Rested(i)
                        ELSE [indexer[i] EXCEPT
                                !.pc = "write",
                                !.todo = [n \in DOMAIN newest |->
                                             SnapshotOf(newest[n])]])
          /\ excused' = IF i = Command THEN excused
                        ELSE excused \cup TooOldAfter(seen \ ToSet(newest),
                                                      Slack - indexer[i].clock)
        BY <1>7 DEF Fetch
  <2>2. IsFiniteSet(seen) /\ seen \subseteq Rows
        BY FS_Subset DEF HistoryTypes
  <2>3. InTime(indexer[i], row[q].age, q, need) => q \in seen
        BY <1>7 DEF Fetch, InTime, InWindow
  <2> HIDE DEF seen
  <2>4. newest \in Seq(Rows) /\ (seen # {} => newest # <<>>)
        BY <2>2, NewestFirstLists
  <2>5. row' = row /\ entry' = entry /\ indexer[i].pc = "fetch" /\ Up(i)
        BY <1>7 DEF Fetch, Up
  <2>6. excused \subseteq excused'
        BY <2>1
  <2>7. PICK todo : todo = [n \in DOMAIN newest |-> SnapshotOf(newest[n])]
        OBVIOUS
  <2>8. PICK state : state = IF newest = <<>> THEN Rested(i)
                             ELSE [indexer[i] EXCEPT !.pc = "write", !.todo = todo]
        OBVIOUS
  <2>9. Becomes(i, state)
        BY <2>1, <2>7, <2>8
  <2>10. ASSUME i \in Replicas, q \notin excused', InTime(indexer[i], row[q].age, q, need)
         PROVE  InTime(state, row[q].age, q, need)
    <3>1. newest # <<>> /\ q \in seen
          BY <2>3, <2>4, <2>10
    <3>2. /\ state.pc = "write" /\ state.clock = indexer[i].clock /\ state.todo = todo
          BY <1>b, <2>8, <3>1 DEF Indexer
    <3>3. CASE q \in ToSet(newest)
      <4>1. PICK n \in DOMAIN newest : newest[n] = q
            BY <3>3 DEF ToSet
      <4>2. n \in DOMAIN todo /\ todo[n].trace = q /\ todo[n].gate = PayloadGate(q)
            BY <2>7, <4>1 DEF SnapshotOf
      <4>3. row[q].age <= Window + state.clock
            BY <2>5, <2>10, <3>2 DEF InTime
      <4> QED BY <3>2, <4>2, <4>3 DEF InTime
    <3>4. CASE q \notin ToSet(newest)
      <4>1. i # Command
            BY <1>c, <2>10
      <4>2. ~(row[q].age + (Slack - indexer[i].clock) + Interval > Window)
            BY <2>1, <2>10, <3>1, <3>4, <4>1 DEF TooOldAfter
      <4>3. row[q].age + Slack + Interval <= Window + indexer[i].clock
            BY <1>a, <1>b, <4>2
      <4> QED BY <3>2, <4>3 DEF InTime
    <3> QED BY <3>3, <3>4
  <2> QED BY <2>5, <2>6, <2>9, <2>10, HopeOfOthers
<1>8. ASSUME NEW i \in Indexers, WriteBatch(i) PROVE Hope(q, need)'
  <2>1. PICK todo : todo = indexer[i].todo
        OBVIOUS
  <2>2. PICK rest : rest = RestOf(todo)
        OBVIOUS
  <2>3. PICK state : state = IF rest = <<>> THEN Rested(i)
                             ELSE [indexer[i] EXCEPT !.todo = rest]
        OBVIOUS
  <2>4. /\ entry' = Upserted(BatchOf(todo)) /\ Becomes(i, state)
        /\ row' = row /\ excused' = excused /\ indexer[i].pc = "write" /\ Up(i)
        BY <1>8, <2>1, <2>2, <2>3 DEF WriteBatch, BatchOf, RestOf, Up
  <2>5. /\ todo \in Seq(Snapshot) /\ todo # <<>>
        /\ \A m, n \in DOMAIN todo : todo[m].trace = todo[n].trace => todo[m] = todo[n]
        BY <1>b, <2>1, <2>4 DEF IndexerOK, Holds
  <2>6. /\ \A n \in DOMAIN BatchOf(todo) : \E m \in DOMAIN todo : BatchOf(todo)[n] = todo[m]
        /\ \A n \in DOMAIN todo :
             \/ \E m \in DOMAIN BatchOf(todo) : BatchOf(todo)[m] = todo[n]
             \/ \E m \in DOMAIN rest : rest[m] = todo[n]
    <3>1. /\ \A n \in DOMAIN BatchOf(todo) :
               n \in DOMAIN todo /\ BatchOf(todo)[n] = todo[n]
          /\ \A n \in DOMAIN todo :
               \/ n \in DOMAIN BatchOf(todo)
               \/ \E m \in DOMAIN rest : rest[m] = todo[n]
          BY <2>2, <2>5, BatchesListed
    <3> QED BY <3>1
  <2>7. /\ \/ entry'[q] = entry[q]
           \/ \E n \in DOMAIN todo : todo[n].trace = q /\ entry'[q] = todo[n]
        /\ \A n \in DOMAIN BatchOf(todo) :
             BatchOf(todo)[n].trace = q => entry'[q] = BatchOf(todo)[n]
        BY <1>a, <2>4, <2>5, <2>6, UpsertTells
  <2>8. \A n \in DOMAIN todo : todo[n] # None
        BY <2>5, NoneAssumption
  <2>9. CASE Told(entry[q], need)
    <3>1. Told(entry'[q], need)
          BY <2>1, <2>7, <2>8, <2>9 DEF Told, Steady
    <3> QED BY <3>1 DEF Hope
  <2>10. CASE ~Told(entry[q], need) /\ ~Told(entry'[q], need)
    <3>1. ASSUME i \in Replicas, InTime(indexer[i], row[q].age, q, need)
          PROVE  InTime(state, row[q].age, q, need)
      <4>1. /\ rest = <<>> => state.pc = "asleep" /\ state.clock = Interval
            /\ rest # <<>> => /\ state.pc = "write" /\ state.todo = rest
                              /\ state.clock = indexer[i].clock
            BY <1>b, <1>c, <1>d, <2>3, <2>4, <3>1 DEF Indexer
      <4>2. indexer[i].clock <= Slack /\ indexer[i].clock \in Nat
            BY <1>b, <2>4 DEF IndexerOK
      <4>3. CASE row[q].age + Slack + Interval <= Window + indexer[i].clock
        <5>1. row[q].age + Interval <= Window
              BY <1>a, <4>2, <4>3
        <5> QED BY <4>1, <4>3, <5>1 DEF InTime
      <4>4. ASSUME NEW n \in DOMAIN todo, todo[n].trace = q, todo[n].gate \in need,
                   row[q].age <= Window + indexer[i].clock
            PROVE  InTime(state, row[q].age, q, need)
        <5>1. entry'[q] # todo[n]
              BY <2>8, <2>10, <4>4 DEF Told
        <5>2. PICK m \in DOMAIN rest : rest[m] = todo[n]
              BY <2>6, <2>7, <4>4, <5>1
        <5> QED BY <4>1, <4>4, <5>2 DEF InTime
      <4> QED BY <2>1, <2>4, <3>1, <4>3, <4>4 DEF InTime
    <3>2. \A j \in Indexers \ {i} : indexer'[j] = indexer[j]
          BY <2>4 DEF Becomes, HistoryTypes, IndexersOK
    <3>3. indexer'[i] = state /\ Rows' = Rows
          BY <2>4 DEF Becomes, HistoryTypes, IndexersOK, Rows
    <3> QED BY <1>c, <2>4, <2>10, <3>1, <3>2, <3>3 DEF Hope, Up
  <2>11. CASE ~Told(entry[q], need) /\ Told(entry'[q], need)
         BY <2>11 DEF Hope
  <2> QED BY <2>9, <2>10, <2>11
<1>9. ASSUME NEW i \in Indexers, ReindexFails(i) PROVE Hope(q, need)'
  <2>1. PICK state : state = Rested(i)
        OBVIOUS
  <2>2. /\ Becomes(i, state) /\ row' = row /\ entry' = entry
        /\ excused \subseteq excused' /\ Up(i)
        /\ i \in Replicas /\ row[q].age + 0 + Interval > Window => q \in excused'
        BY <1>a, <1>c, <1>9, <2>1 DEF ReindexFails, TooOldAfter, Busy, Up
  <2>3. i \in Replicas => state.pc = "asleep" /\ state.clock = Interval
        BY <1>c, <1>d, <2>1
  <2>4. i \in Replicas /\ q \notin excused' => InTime(state, row[q].age, q, need)
        BY <1>a, <2>2, <2>3 DEF InTime
  <2> QED BY <2>2, <2>4, HopeOfOthers
<1>10. CASE StartCommand
  <2>1. PICK windowed \in setting.windows :
          Becomes(Command, [Off EXCEPT !.pc = "ready", !.windowed = windowed])
        BY <1>10 DEF StartCommand
  <2>2. row' = row /\ entry' = entry /\ excused' = excused /\ Command \in Indexers
        BY <1>10 DEF StartCommand, Indexers
  <2> QED BY <1>c, <2>1, <2>2, HopeOfOthers
<1>11. CASE Elapse
  <2>1. /\ Rows' = Rows /\ Old = Window + Slack + 1
        /\ row'[q].age = IF row[q].age < Old THEN row[q].age + 1 ELSE row[q].age
        BY <1>11, ElapseRows DEF Old
  <2>2. entry' = entry
        BY <1>11 DEF Elapse
  <2>3. excused' = IF Serving THEN excused
                   ELSE excused \cup {p \in Rows : row[p].age = Window}
        BY <1>11 DEF Elapse
  <2>4. ASSUME NEW i \in Indexers, NEW old, old = indexer[i], NEW new, new = indexer'[i],
               InTime(old, row[q].age, q, need)
        PROVE  InTime(new, row'[q].age, q, need)
    <3>1. /\ new.pc = old.pc /\ new.todo = old.todo /\ old.clock \in Nat
          /\ old.pc = "asleep" => old.clock > 0 /\ new.clock = old.clock - 1
          /\ old.pc \in {"ready", "fetch", "write"} => new.clock = old.clock + 1
          BY <1>b, <1>11, <2>4, ElapseMoves DEF Busy
    <3>2. row'[q].age \in Nat /\ row'[q].age <= row[q].age + 1
          BY <1>a, <2>1
    <3> QED BY <1>a, <2>4, <3>1, <3>2 DEF InTime
  <2>5. ASSUME NEW i \in Indexers, Up(i)' PROVE Up(i)
        BY <1>11, <2>5, ElapseMoves DEF Up
  <2>6. CASE row'[q].age <= Window
        BY <1>a, <1>c, <2>1, <2>2, <2>3, <2>4, <2>5, <2>6 DEF Hope
  <2>7. CASE row[q].age = Window
    <3>1. CASE ~Serving
          BY <2>3, <2>7, <3>1 DEF Hope
    <3>2. CASE Serving
      <4>1. PICK i \in Replicas : Up(i)
            BY <3>2 DEF Serving
      <4>2. row'[q].age = Window + 1
            BY <1>a, <2>1, <2>7
      <4>3. q \notin excused' /\ ~Told(entry[q], need)
              => InTime(indexer'[i], row'[q].age, q, need)
            BY <1>a, <1>c, <2>3, <2>4, <2>7, <3>2, <4>1 DEF Hope
      <4> QED BY <1>a, <2>2, <4>2, <4>3 DEF Hope
    <3> QED BY <3>1, <3>2
  <2>8. CASE row[q].age > Window
        BY <1>a, <1>c, <2>1, <2>2, <2>3, <2>4, <2>8 DEF Hope
  <2> QED BY <1>a, <2>1, <2>6, <2>7, <2>8
<1> QED BY <1>1, <1>3, <1>4, <1>5, <1>6, <1>7, <1>8, <1>9, <1>10, <1>11
        DEF HistoryNext, Reindex

(* A loop, wherever it is, is in time for a trace that is young enough to  *)
(* be seen after a reindex and an interval more.                           *)
LEMMA YoungInTime ==
    ASSUME NEW state, IndexerOK(state), state.pc # "off", NEW age \in Nat,
           age + Slack + Interval <= Window, NEW q, NEW need
    PROVE  InTime(state, age, q, need)
<1>1. /\ {Window, Slack, Interval} \subseteq Nat /\ state.clock \in Nat
      /\ state.pc \in {"asleep", "ready", "fetch", "write"}
      BY HistoryAssumption DEF IndexerOK, Indexer, Stages
<1>2. state.pc = "asleep" => state.clock <= Interval
      BY DEF IndexerOK
<1> QED BY <1>1, <1>2 DEF InTime

(* NothingSlipsBy, and what makes it inductive: hope of any point at all.  *)
AnyPoint == Gates \cup {"skip"}
HopeInv  == \A q \in Rows : Hope(q, AnyPoint)

(* A new trace is young, and the others keep their hope.                   *)
LEMMA HopeInvKept == HistoryTypes /\ PointsInv /\ HopeInv /\ HistoryNext => HopeInv'
<1> SUFFICES ASSUME HistoryTypes, PointsInv, HopeInv, HistoryNext,
                    NEW q \in Rows'
             PROVE  Hope(q, AnyPoint)'
    BY DEF HopeInv
<1>1. CASE q \in Rows
  <2>1. PayloadGate(q) \in AnyPoint
        BY <1>1, RowsTyped DEF PayloadGate, AnyPoint
  <2>2. \A i \in Indexers : indexer[i].todo \in Seq(Snapshot)
        BY DEF HistoryTypes, IndexersOK, Indexer
  <2>3. Steady(q, AnyPoint)
    <3> SUFFICES ASSUME NEW i \in Indexers, NEW n \in DOMAIN indexer[i].todo
                 PROVE  indexer[i].todo[n].gate \in AnyPoint
        BY DEF Steady
    <3>1. indexer[i].todo[n] \in Snapshot
          BY <2>2
    <3> QED BY <3>1 DEF Snapshot, AnyPoint
  <2> QED BY <1>1, <2>1, <2>3, HopeKept DEF HopeInv
<1>2. CASE q \notin Rows
  <2>1. PICK p \in Traces : WriteTrace(p) /\ Rows' = Rows \cup {p}
    <3>1. row' = row => Rows' = Rows
          BY DEF Rows
    <3> QED BY <1>2, <3>1, RowSteps, WriteTraceRows, WriteEvalRows, ElapseRows
  <2>2. p = q /\ indexer' = indexer /\ row'[q].age = 0
        BY <1>2, <2>1, WriteTraceRows DEF WriteTrace
  <2>3. \A i \in Replicas : Up(i) => InTime(indexer[i], 0, q, AnyPoint)
        BY YoungInTime, HistoryAssumption DEF Up, HistoryTypes, IndexersOK, Indexers
  <2> QED BY <2>2, <2>3, HistoryAssumption DEF Hope, Up
<1> QED BY <1>1, <1>2

(* Hope holds at the start, when there are no rows.                        *)
LEMMA HistoryInvInit == HistoryInit => PointsInv /\ HopeInv
<1> SUFFICES ASSUME HistoryInit PROVE PointsInv /\ HopeInv
    OBVIOUS
<1>1. Rows = {}
      BY DEF HistoryInit, Rows
<1>2. Holds(Off)
      BY DEF Holds, Off
<1> QED BY <1>1, <1>2 DEF HistoryInit, PointsInv, HopeInv

-----------------------------------------------------------------------------
(* Indexers and verdicts.                                                  *)

Alone == Cardinality(setting.running) = 1

(* Only the indexers of the setting are ever up.                           *)
OnlyRunning == \A i \in Indexers : Up(i) => i \in setting.running

(* What the one indexer holds has the verdict that is already told.        *)
NoRelapse(state) ==
    \A n \in DOMAIN state.todo :
        LET point == entry[state.todo[n].trace]
        IN  point # None /\ point.gate # "skip" => state.todo[n].gate = point.gate

(* Something of a trace is about to be written without its verdict.        *)
Outdated(state, q, gate) ==
    \E n \in DOMAIN state.todo :
        state.todo[n].trace = q /\ state.todo[n].gate # gate

(* Whoever is about to do so is done, and seen by a reindex of every       *)
(* indexer after it, before the window has passed the trace.               *)
StaleIsYoung(q) ==
    \A i \in Indexers : Outdated(indexer[i], q, row[q].gate) =>
        row[q].age + Slack + Slack + Interval <= Window + indexer[i].clock

(* VerdictReachesTheIndex, and what makes it inductive: the hope of a      *)
(* timely trace is for a point with its own verdict.  A snapshot that is   *)
(* older than the evaluation is not left to overwrite a point that has it, *)
(* or does so while the trace is young.                                    *)
VerdictInv ==
    /\ OnlyRunning
    /\ \A q \in Rows : row[q].timely => row[q].gate \in Gates
    /\ Alone => \A i \in Indexers : NoRelapse(indexer[i])
    /\ ~Alone => \A q \in Rows : row[q].timely => StaleIsYoung(q)
    /\ \A q \in Rows : row[q].timely => Hope(q, {row[q].gate})

(* What a verdict has time for.                                            *)
LEMMA GoodTime ==
    ASSUME HistoryTypes, NEW q \in Rows, InGoodTime(q)
    PROVE  /\ row[q].age + Slack + Interval <= Window /\ row[q].age <= Window
           /\ ~Alone => row[q].age + Slack + Slack + Interval <= Window
<1>1. {Window, Slack, Interval} \subseteq Nat /\ row[q].age \in Nat
      BY RowsTyped, HistoryAssumption
<1> QED BY <1>1 DEF InGoodTime, Overtaking, Alone

(* A trace grows older while time passes, and then only.                   *)
LEMMA AgeSteps ==
    ASSUME HistoryTypes, HistoryNext, NEW q \in Rows
    PROVE  /\ q \in Rows' /\ row[q].age \in Nat /\ row'[q].age \in Nat
           /\ row'[q].age <= row[q].age + 1
           /\ Elapse \/ row'[q].age = row[q].age
<1>0. row[q].age \in Nat
      BY RowsTyped
<1>1. ASSUME NEW p \in Traces, WriteTrace(p) \/ WriteEval(p)
      PROVE  q \in Rows' /\ row'[q].age = row[q].age
      BY <1>1, WriteTraceRows, WriteEvalRows
<1>2. CASE Elapse
      BY <1>0, <1>2, ElapseRows DEF Old
<1>3. CASE row' = row
      BY <1>0, <1>3 DEF Rows
<1> QED BY <1>0, <1>1, <1>2, <1>3, RowSteps

(* A timely row was one before, or gets its evaluation while it is young.  *)
LEMMA TimelyRows ==
    ASSUME HistoryTypes, HistoryNext, NEW q \in Rows', row'[q].timely,
           \A p \in Rows : row[p].timely => row[p].gate \in Gates
    PROVE  \/ q \in Rows /\ row[q].timely /\ row'[q].gate = row[q].gate
           \/ /\ q \in Rows /\ WriteEval(q) /\ row'[q].gate \in Gates
              /\ InGoodTime(q)
<1>0. "none" \notin Gates
      BY HistoryAssumption
<1>1. ASSUME NEW p \in Traces, WriteTrace(p)
      PROVE  q \in Rows /\ row[q].timely /\ row'[q].gate = row[q].gate
      BY <1>1, WriteTraceRows
<1>2. ASSUME NEW p \in Traces, WriteEval(p), p # q
      PROVE  q \in Rows /\ row[q].timely /\ row'[q].gate = row[q].gate
      BY <1>2, WriteEvalRows
<1>3. ASSUME q \in Traces, WriteEval(q)
      PROVE  q \in Rows /\ row'[q].gate \in Gates /\ InGoodTime(q)
      BY <1>0, <1>3, WriteEvalRows
<1>4. CASE Elapse
      BY <1>4, ElapseRows
<1>5. CASE row' = row
      BY <1>5 DEF Rows
<1> QED BY <1>1, <1>2, <1>3, <1>4, <1>5, RowSteps

(* There is one indexer at the most that does anything.                    *)
LEMMA OthersAreOff ==
    ASSUME HistoryTypes, OnlyRunning, Alone, NEW i \in Indexers, Up(i),
           NEW j \in Indexers, j # i
    PROVE  indexer[j].todo = <<>>
<1>1. IsFiniteSet(setting.running)
      BY SettingsAssumption, HistoryAssumption, FS_Subset, FS_AddElement
         DEF HistoryTypes, Setting, Indexers
<1>2. PICK x : setting.running = {x}
      BY <1>1, FS_Singleton DEF Alone
<1>3. ~Up(j)
      BY <1>2 DEF OnlyRunning
<1> QED BY <1>3 DEF Up, HistoryTypes, IndexersOK, IndexerOK

(* The steps by their effect on the indexers and the points: a fetch, a    *)
(* batch, or nothing is told and what is held stays or is dropped.         *)
LEMMA IndexerSteps ==
    ASSUME HistoryTypes, HistoryNext
    PROVE  /\ setting' = setting
           /\ \A i \in Indexers : Up(i)' => Up(i) \/ i \in setting.running
           /\ \/ \E i \in Indexers : Fetch(i) \/ WriteBatch(i)
              \/ /\ entry' = entry
                 /\ \A i \in Indexers :
                      \/ indexer'[i].todo = <<>> \/ indexer'[i] = indexer[i]
                      \/ Elapse /\ indexer'[i].todo = indexer[i].todo
<1> DEFINE Effect ==
      /\ setting' = setting
      /\ \A i \in Indexers : Up(i)' => Up(i) \/ i \in setting.running
      /\ \/ \E i \in Indexers : Fetch(i) \/ WriteBatch(i)
         \/ /\ entry' = entry
            /\ \A i \in Indexers :
                 \/ indexer'[i].todo = <<>> \/ indexer'[i] = indexer[i]
                 \/ Elapse /\ indexer'[i].todo = indexer[i].todo
<1>a. ASSUME NEW i \in Indexers, NEW state, Becomes(i, state), setting' = setting,
             Up(i) \/ i \in setting.running \/ state.pc = "off",
             \/ Fetch(i) \/ WriteBatch(i)
             \/ entry' = entry /\ state.todo = <<>>
      PROVE  Effect
  <2>1. /\ indexer'[i] = state
        /\ \A j \in Indexers \ {i} : indexer'[j] = indexer[j]
        BY <1>a DEF Becomes, HistoryTypes, IndexersOK
  <2> QED BY <1>a, <2>1 DEF Up
<1>b. Off.pc = "off" /\ Off.todo = <<>> /\ \A i : Rested(i).todo = <<>>
      BY DEF Off, Rested
<1>c. \A i \in Indexers : indexer[i] \in Indexer /\ IndexerOK(indexer[i])
      BY DEF HistoryTypes, IndexersOK
<1> HIDE DEF Effect
<1>1. ASSUME NEW q \in Traces, WriteTrace(q) \/ WriteEval(q) PROVE Effect
      BY <1>1 DEF WriteTrace, WriteEval, Effect, Up
<1>3. ASSUME NEW i \in Indexers, StartReplica(i) PROVE Effect
  <2>1. PICK state : state = [Off EXCEPT !.pc = "asleep", !.windowed = TRUE]
        OBVIOUS
  <2>2. state.todo = <<>>
        BY <2>1 DEF Off
  <2> QED BY <1>3, <1>a, <2>1, <2>2 DEF StartReplica
<1>4. ASSUME NEW i \in Indexers, Stop(i) PROVE Effect
      BY <1>4, <1>a, <1>b DEF Stop
<1>5. ASSUME NEW i \in Indexers, Wake(i) \/ EnsureReady(i) PROVE Effect
  <2>1. PICK pc, state : state = [indexer[i] EXCEPT !.pc = pc] /\ Becomes(i, state)
        BY <1>5 DEF Wake, EnsureReady
  <2>2. state.todo = <<>>
    <3>1. indexer[i].pc \in {"asleep", "ready"}
          BY <1>5 DEF Wake, EnsureReady
    <3>2. state.todo = indexer[i].todo
          BY <1>c, <2>1 DEF Indexer
    <3> QED BY <1>c, <3>1, <3>2 DEF IndexerOK
  <2> QED BY <1>5, <1>a, <2>1, <2>2 DEF Wake, EnsureReady, Up
<1>7. ASSUME NEW i \in Indexers, Fetch(i) PROVE Effect
  <2>1. PICK state : Becomes(i, state)
        BY <1>7 DEF Fetch
  <2> QED BY <1>7, <1>a, <2>1 DEF Fetch, Up
<1>8. ASSUME NEW i \in Indexers, WriteBatch(i) PROVE Effect
  <2>1. PICK state : Becomes(i, state)
        BY <1>8 DEF WriteBatch
  <2> QED BY <1>8, <1>a, <2>1 DEF WriteBatch, Up
<1>9. ASSUME NEW i \in Indexers, ReindexFails(i) PROVE Effect
  <2>1. PICK state : state = Rested(i)
        OBVIOUS
  <2> QED BY <1>9, <1>a, <1>b, <2>1 DEF ReindexFails, Busy, Up
<1>10. ASSUME StartCommand PROVE Effect
  <2>1. PICK windowed \in setting.windows :
          Becomes(Command, [Off EXCEPT !.pc = "ready", !.windowed = windowed])
        BY <1>10 DEF StartCommand
  <2>2. [Off EXCEPT !.pc = "ready", !.windowed = windowed].todo = <<>>
        BY DEF Off
  <2> QED BY <1>10, <1>a, <2>1, <2>2 DEF StartCommand, Indexers
<1>11. ASSUME Elapse PROVE Effect
  <2>1. \A i \in Indexers : /\ indexer'[i].pc = indexer[i].pc
                            /\ indexer'[i].todo = indexer[i].todo
        BY <1>11, ElapseMoves
  <2> QED BY <1>11, <2>1 DEF Elapse, Effect, Up
<1>12. Effect
       BY <1>1, <1>3, <1>4, <1>5, <1>7, <1>8, <1>9, <1>10, <1>11
          DEF HistoryNext, Reindex
<1> QED BY <1>12 DEF Effect

(* Nothing makes the indexer relapse.                                      *)
LEMMA NoRelapseKept ==
    ASSUME HistoryTypes, PointsInv, OnlyRunning, Alone, HistoryNext,
           \A i \in Indexers : NoRelapse(indexer[i])
    PROVE  \A i \in Indexers : NoRelapse(indexer[i])'
<1>a. \A i \in Indexers : IndexerOK(indexer[i]) /\ indexer[i] \in Indexer
      BY DEF HistoryTypes, IndexersOK, IndexerOK
<1>1. ASSUME entry' = entry, NEW j \in Indexers,
             indexer'[j].todo \in {indexer[j].todo, <<>>}
      PROVE  NoRelapse(indexer[j])'
      BY <1>1 DEF NoRelapse
<1>2. ASSUME NEW i \in Indexers, Fetch(i), NEW j \in Indexers
      PROVE  NoRelapse(indexer[j])'
  <2> DEFINE seen == {p \in Rows : InWindow(i, p)}
  <2>1. PICK newest \in NewestFirst(seen) :
          Becomes(i, IF newest = <<>> THEN Rested(i)
                     ELSE [indexer[i] EXCEPT
                             !.pc = "write",
                             !.todo = [n \in DOMAIN newest |->
                                          SnapshotOf(newest[n])]])
        BY <1>2 DEF Fetch
  <2>2. IsFiniteSet(seen) /\ seen \subseteq Rows
        BY FS_Subset DEF HistoryTypes
  <2> HIDE DEF seen
  <2>3. newest \in Seq(Rows) /\ entry' = entry
        BY <1>2, <2>2, NewestFirstLists DEF Fetch
  <2>4. CASE j # i
        BY <2>1, <2>3, <2>4 DEF Becomes, HistoryTypes, IndexersOK, NoRelapse
  <2>5. CASE j = i /\ newest = <<>>
    <3>1. indexer'[i].todo = <<>>
          BY <2>1, <2>5 DEF Becomes, HistoryTypes, IndexersOK, Rested, Off
    <3> QED BY <2>5, <3>1 DEF NoRelapse
  <2>6. CASE j = i /\ newest # <<>>
    <3>1. PICK todo : todo = [n \in DOMAIN newest |-> SnapshotOf(newest[n])]
          OBVIOUS
    <3>2. Becomes(i, [indexer[i] EXCEPT !.pc = "write", !.todo = todo])
          BY <2>1, <2>6, <3>1
    <3>3. indexer'[i].todo = todo
          BY <1>a, <3>2 DEF Becomes, HistoryTypes, IndexersOK, Indexer
    <3>4. ASSUME NEW n \in DOMAIN todo, entry[todo[n].trace] # None,
                 entry[todo[n].trace].gate # "skip"
          PROVE  todo[n].gate = entry[todo[n].trace].gate
      <4>1. PICK q : q = newest[n]
            OBVIOUS
      <4>2. q \in Rows /\ q \in Traces
            BY <2>3, <3>1, <3>4, <4>1, RowsTyped
      <4>3. todo[n].trace = q /\ todo[n].gate = PayloadGate(q)
            BY <3>1, <3>4, <4>1 DEF SnapshotOf
      <4>4. /\ entry[q] \in Snapshot /\ entry[q].gate \in {"skip", row[q].gate}
            BY <3>4, <4>2, <4>3 DEF HistoryTypes, PointsInv, Truthful
      <4>5. row[q].gate = entry[q].gate /\ row[q].gate # "none"
            BY <3>4, <4>3, <4>4, HistoryAssumption DEF Snapshot
      <4> QED BY <4>3, <4>5 DEF PayloadGate
    <3> QED BY <2>3, <2>6, <3>3, <3>4 DEF NoRelapse
  <2> QED BY <2>4, <2>5, <2>6
<1>3. ASSUME NEW i \in Indexers, WriteBatch(i), NEW j \in Indexers
      PROVE  NoRelapse(indexer[j])'
  <2>1. PICK todo : todo = indexer[i].todo
        OBVIOUS
  <2>2. PICK state : state = IF RestOf(todo) = <<>> THEN Rested(i)
                             ELSE [indexer[i] EXCEPT !.todo = RestOf(todo)]
        OBVIOUS
  <2>3. /\ entry' = Upserted(BatchOf(todo)) /\ Becomes(i, state) /\ indexer[i].pc = "write"
        BY <1>3, <2>1, <2>2 DEF WriteBatch, BatchOf, RestOf
  <2>4. /\ todo \in Seq(Snapshot) /\ todo # <<>>
        /\ \A m, n \in DOMAIN todo : todo[m].trace = todo[n].trace => todo[m] = todo[n]
        BY <1>a, <2>1, <2>3 DEF IndexerOK, Indexer, PointsInv, Holds
  <2>5. /\ \A n \in DOMAIN BatchOf(todo) : \E m \in DOMAIN todo : BatchOf(todo)[n] = todo[m]
        /\ \A n \in DOMAIN RestOf(todo) : \E m \in DOMAIN todo : RestOf(todo)[n] = todo[m]
        BY <2>4, BatchesListed
  <2>6. /\ indexer'[i] = state
        /\ \A k \in Indexers \ {i} : indexer'[k] = indexer[k]
        BY <2>3 DEF Becomes, HistoryTypes, IndexersOK
  <2>7. CASE j # i
    <3>1. indexer'[j].todo = <<>>
          BY <2>3, <2>6, <2>7, OthersAreOff DEF Up
    <3> QED BY <3>1 DEF NoRelapse
  <2>8. CASE j = i
    <3>1. state.todo = RestOf(todo)
          BY <1>a, <2>2 DEF Indexer, Rested, Off
    <3>2. ASSUME NEW n \in DOMAIN todo, NEW q, q = todo[n].trace,
                 entry'[q] # None, entry'[q].gate # "skip"
          PROVE  todo[n].gate = entry'[q].gate
      <4>0. todo[n] \in Snapshot
            BY <2>4
      <4>1. q \in Traces
            BY <3>2, <4>0 DEF Snapshot
      <4>2. CASE entry'[q] = entry[q]
            BY <2>1, <3>2, <4>2 DEF NoRelapse
      <4>3. CASE entry'[q] # entry[q]
        <5>1. PICK m \in DOMAIN todo : todo[m].trace = q /\ entry'[q] = todo[m]
              BY <2>3, <2>4, <2>5, <4>1, <4>3, UpsertTells
        <5> QED BY <2>4, <3>2, <5>1
      <4> QED BY <4>2, <4>3
    <3> QED BY <2>5, <2>6, <2>8, <3>1, <3>2 DEF NoRelapse
  <2> QED BY <2>7, <2>8
<1> QED BY <1>1, <1>2, <1>3, IndexerSteps

(* While something outdated is about to be written, the trace stays young  *)
(* enough for every indexer to see it again.                               *)
LEMMA OutdatedIsYoung ==
    ASSUME HistoryTypes, HistoryNext, NEW q \in Rows, StaleIsYoung(q),
           NEW i \in Indexers, Outdated(indexer[i], q, row[q].gate)
    PROVE  row'[q].age + Slack + Interval <= Window
<1>1. /\ row[q].age \in Nat /\ row'[q].age \in Nat
      /\ {Window, Slack, Interval} \subseteq Nat
      BY AgeSteps, HistoryAssumption
<1>2. indexer[i] \in Indexer /\ IndexerOK(indexer[i])
      BY DEF HistoryTypes, IndexersOK
<1>3. indexer[i].pc = "write"
      BY <1>2 DEF IndexerOK, Outdated
<1>4. indexer[i].clock \in Nat /\ indexer[i].clock <= Slack
      BY <1>2, <1>3 DEF IndexerOK, Indexer
<1>5. row[q].age + Slack + Slack + Interval <= Window + indexer[i].clock
      BY DEF StaleIsYoung
<1>6. CASE Elapse
  <2>1. indexer[i].clock < Slack
        BY <1>3, <1>6, ElapseMoves DEF Busy
  <2>2. row'[q].age <= row[q].age + 1
        BY AgeSteps
  <2> QED BY <1>1, <1>4, <1>5, <2>1, <2>2
<1>7. CASE row'[q].age = row[q].age
      BY <1>1, <1>4, <1>5, <1>7
<1> QED BY <1>6, <1>7, AgeSteps

(* It was about to be written when the verdict came, or never is.          *)
LEMMA StaleKept ==
    ASSUME HistoryTypes, PointsInv, HistoryNext, NEW q \in Rows, StaleIsYoung(q),
           row'[q].gate = row[q].gate, row[q].gate \in Gates
    PROVE  StaleIsYoung(q)'
<1> SUFFICES ASSUME NEW i \in Indexers, Outdated(indexer'[i], q, row[q].gate)
             PROVE  row'[q].age + Slack + Slack + Interval <= Window + indexer'[i].clock
    BY DEF StaleIsYoung, Outdated
<1>0. /\ {Window, Slack, Interval} \subseteq Nat /\ "none" \notin Gates /\ q \in Traces
      /\ indexer[i] \in Indexer /\ IndexerOK(indexer[i]) /\ indexer[i].clock \in Nat
      BY HistoryAssumption, RowsTyped DEF HistoryTypes, IndexersOK, Indexer
<1>1. indexer'[i].todo # <<>>
      BY DEF Outdated
<1>2. CASE indexer'[i] = indexer[i] /\ row'[q].age = row[q].age
      BY <1>2 DEF StaleIsYoung
<1>3. CASE Elapse
  <2>1. indexer'[i].todo = indexer[i].todo
        BY <1>3, ElapseMoves
  <2>2. Outdated(indexer[i], q, row[q].gate) /\ indexer[i].pc = "write"
        BY <1>0, <1>1, <2>1 DEF Outdated, IndexerOK
  <2>3. indexer'[i].clock = indexer[i].clock + 1
        BY <1>3, <2>2, ElapseMoves DEF Busy
  <2>4. row[q].age + Slack + Slack + Interval <= Window + indexer[i].clock
        BY <2>2 DEF StaleIsYoung
  <2>5. /\ row[q].age \in Nat /\ row'[q].age \in Nat /\ row'[q].age <= row[q].age + 1
        BY AgeSteps
  <2> QED BY <1>0, <2>3, <2>4, <2>5
<1>4. ASSUME NEW j \in Indexers, Fetch(j) PROVE indexer'[i] = indexer[i] /\ row' = row
  <2> DEFINE seen == {p \in Rows : InWindow(j, p)}
  <2>1. PICK newest \in NewestFirst(seen) :
          Becomes(j, IF newest = <<>> THEN Rested(j)
                     ELSE [indexer[j] EXCEPT
                             !.pc = "write",
                             !.todo = [n \in DOMAIN newest |->
                                          SnapshotOf(newest[n])]])
        BY <1>4 DEF Fetch
  <2>2. row' = row
        BY <1>4 DEF Fetch
  <2> HIDE DEF seen
  <2>3. PICK todo, state :
          /\ todo = [n \in DOMAIN newest |-> SnapshotOf(newest[n])]
          /\ state = IF newest = <<>> THEN Rested(j)
                     ELSE [indexer[j] EXCEPT !.pc = "write", !.todo = todo]
        OBVIOUS
  <2>4. Becomes(j, state)
        BY <2>1, <2>3
  <2>5. CASE j = i
    <3>1. indexer'[i] = state
          BY <2>4, <2>5 DEF Becomes, HistoryTypes, IndexersOK
    <3>2. state.todo = IF newest = <<>> THEN <<>> ELSE todo
          BY <1>0, <2>3, <2>5 DEF Indexer, Rested, Off
    <3>3. indexer'[i].todo = todo
          BY <1>1, <3>1, <3>2
    <3>4. PICK n \in DOMAIN todo : todo[n].trace = q /\ todo[n].gate # row[q].gate
          BY <3>3 DEF Outdated
    <3>5. todo[n].gate = PayloadGate(q)
          BY <2>3, <3>4 DEF SnapshotOf
    <3> QED BY <1>0, <3>4, <3>5 DEF PayloadGate
  <2>6. CASE j # i
        BY <2>2, <2>4, <2>6 DEF Becomes, HistoryTypes, IndexersOK
  <2> QED BY <2>5, <2>6
<1>5. ASSUME NEW j \in Indexers, WriteBatch(j)
      PROVE  row'[q].age + Slack + Slack + Interval <= Window + indexer'[i].clock
  <2>1. PICK todo : todo = indexer[j].todo
        OBVIOUS
  <2>2. PICK rest : rest = RestOf(todo)
        OBVIOUS
  <2>3. PICK state : state = IF rest = <<>> THEN Rested(j)
                             ELSE [indexer[j] EXCEPT !.todo = rest]
        OBVIOUS
  <2>4. Becomes(j, state) /\ indexer[j].pc = "write" /\ row' = row
        BY <1>5, <2>1, <2>2, <2>3 DEF WriteBatch, BatchOf, RestOf
  <2>5. CASE j = i
    <3>1. indexer'[i] = state
          BY <2>4, <2>5 DEF Becomes, HistoryTypes, IndexersOK
    <3>2. rest = <<>> => state.todo = <<>>
          BY <2>3 DEF Rested, Off
    <3>3. state.todo = rest /\ state.clock = indexer[i].clock
          BY <1>0, <1>1, <2>3, <2>5, <3>1, <3>2 DEF Indexer
    <3>4. todo \in Seq(Snapshot) /\ todo # <<>>
          BY <1>0, <2>1, <2>4, <2>5 DEF IndexerOK, Indexer
    <3>5. \A n \in DOMAIN rest : \E m \in DOMAIN todo : rest[n] = todo[m]
          BY <2>2, <3>4, BatchesListed
    <3>6. Outdated(indexer[i], q, row[q].gate)
          BY <2>1, <2>5, <3>1, <3>3, <3>5 DEF Outdated
    <3> QED BY <2>4, <3>1, <3>3, <3>6 DEF StaleIsYoung
  <2>6. CASE j # i
    <3>1. indexer'[i] = indexer[i]
          BY <2>4, <2>6 DEF Becomes, HistoryTypes, IndexersOK
    <3> QED BY <1>2, <2>4, <3>1
  <2> QED BY <2>5, <2>6
<1> QED BY <1>1, <1>2, <1>3, <1>4, <1>5, IndexerSteps, AgeSteps

(* The verdicts' invariant is kept.                                        *)
LEMMA VerdictInvKept ==
    HistoryTypes /\ PointsInv /\ VerdictInv /\ HistoryNext => VerdictInv'
<1> SUFFICES ASSUME HistoryTypes, PointsInv, VerdictInv, HistoryNext PROVE VerdictInv'
    OBVIOUS
<1>1. OnlyRunning'
      BY IndexerSteps DEF VerdictInv, OnlyRunning
<1>2. \A q \in Rows' : row'[q].timely => row'[q].gate \in Gates
      BY TimelyRows DEF VerdictInv
<1>3. Alone' = Alone
      BY IndexerSteps DEF Alone
<1>4. ASSUME Alone PROVE \A i \in Indexers : NoRelapse(indexer[i])'
      BY <1>4, NoRelapseKept DEF VerdictInv
<1>5. ASSUME ~Alone, NEW q \in Rows', row'[q].timely PROVE StaleIsYoung(q)'
  <2>1. CASE q \in Rows /\ row[q].timely /\ row'[q].gate = row[q].gate
        BY <1>5, <2>1, StaleKept DEF VerdictInv
  <2>2. CASE q \in Rows /\ WriteEval(q) /\ InGoodTime(q)
    <3>0. q \in Traces /\ row[q].age \in Nat /\ {Window, Slack, Interval} \subseteq Nat
          BY <2>2, RowsTyped, HistoryAssumption DEF Rows
    <3>1. row'[q].age = row[q].age /\ indexer' = indexer
          BY <2>2, <3>0, WriteEvalRows DEF WriteEval
    <3>2. row[q].age + Slack + Slack + Interval <= Window
          BY <1>5, <2>2, GoodTime
    <3>3. \A i \in Indexers : indexer[i].clock \in Nat
          BY DEF HistoryTypes, IndexersOK, Indexer
    <3> QED BY <3>0, <3>1, <3>2, <3>3 DEF StaleIsYoung
  <2> QED BY <1>5, <2>1, <2>2, TimelyRows DEF VerdictInv
<1>6. ASSUME NEW q \in Rows', row'[q].timely, NEW gate, gate = row'[q].gate
      PROVE  Hope(q, {gate})'
  <2>0. ASSUME q \in Rows', row'[q].age \in Nat, row'[q].age + Slack + Interval <= Window
        PROVE  Hope(q, {gate})'
    <3>1. \A i \in Replicas : IndexerOK(indexer'[i])
          BY TypesKept DEF HistoryTypes, IndexersOK, Indexers
    <3>2. \A i \in Replicas : Up(i)' => InTime(indexer'[i], row'[q].age, q, {gate})
          BY <2>0, <3>1, YoungInTime DEF Up
    <3>3. row'[q].age <= Window
          BY <2>0, HistoryAssumption
    <3> QED BY <3>2, <3>3 DEF Hope
  <2>1. CASE q \in Rows /\ row[q].timely /\ row'[q].gate = row[q].gate
    <3>1. gate \in Gates /\ gate # "none" /\ gate = row[q].gate /\ q \in Traces
          BY <1>6, <2>1, HistoryAssumption DEF VerdictInv, Rows
    <3>2. CASE ~Alone /\ \E i \in Indexers : Outdated(indexer[i], q, gate)
      <4>1. row'[q].age + Slack + Interval <= Window
            BY <2>1, <3>1, <3>2, OutdatedIsYoung DEF VerdictInv
      <4> QED BY <1>6, <2>0, <2>1, <4>1, AgeSteps
    <3>3. CASE Alone \/ ~\E i \in Indexers : Outdated(indexer[i], q, gate)
      <4>1. PayloadGate(q) \in {gate}
            BY <3>1 DEF PayloadGate
      <4>2. Steady(q, {gate})
        <5> SUFFICES ASSUME NEW i \in Indexers, NEW n \in DOMAIN indexer[i].todo,
                            indexer[i].todo[n].trace = q, Told(entry[q], {gate})
                     PROVE  indexer[i].todo[n].gate = gate
            BY DEF Steady
        <5>1. CASE ~Alone
              BY <3>3, <5>1 DEF Outdated
        <5>2. CASE Alone /\ gate = "skip"
              BY <3>1, <5>2 DEF PointsInv, Holds, Truthful
        <5>3. CASE Alone /\ gate # "skip"
              BY <3>1, <5>3 DEF VerdictInv, NoRelapse, Told
        <5> QED BY <5>1, <5>2, <5>3
      <4>3. Hope(q, {gate})
            BY <2>1, <3>1 DEF VerdictInv
      <4> QED BY <2>1, <4>1, <4>2, <4>3, HopeKept
    <3> QED BY <3>2, <3>3
  <2>2. CASE q \in Rows /\ WriteEval(q) /\ InGoodTime(q)
    <3>1. q \in Traces /\ row'[q].age = row[q].age /\ row[q].age \in Nat
          BY <2>2, RowsTyped, WriteEvalRows DEF Rows
    <3>2. row[q].age + Slack + Interval <= Window
          BY <2>2, GoodTime
    <3> QED BY <1>6, <2>0, <3>1, <3>2
  <2> QED BY <1>6, <2>1, <2>2, TimelyRows DEF VerdictInv
<1>7. ASSUME NEW q \in Rows', row'[q].timely PROVE Hope(q, {row[q].gate})'
  <2>1. PICK gate : gate = row'[q].gate
        OBVIOUS
  <2>2. Hope(q, {gate})'
        BY <1>6, <1>7, <2>1
  <2> QED BY <2>1, <2>2
<1> QED BY <1>1, <1>2, <1>3, <1>4, <1>5, <1>7 DEF VerdictInv

-----------------------------------------------------------------------------
(* The history under the calls that read it.                               *)

HistoryInv == HistoryTypes /\ PointsInv /\ HopeInv /\ VerdictInv

(* The history's invariant holds at the start, and no call disturbs it.    *)
LEMMA HistoryInvAlways == Spec => []HistoryInv
<1>1. Init => HistoryInv
  <2> SUFFICES ASSUME Init PROVE HistoryInv
      OBVIOUS
  <2>1. HistoryInit
        BY DEF Init
  <2>2. Rows = {} /\ \A i \in Indexers : indexer[i] = Off
        BY <2>1 DEF HistoryInit, Rows
  <2>3. VerdictInv
        BY <2>2 DEF VerdictInv, OnlyRunning, Up, NoRelapse, Off
  <2> QED BY <2>1, <2>3, TypesInit, HistoryInvInit DEF HistoryInv
<1>2. HistoryInv /\ [Next]_vars => HistoryInv'
  <2> SUFFICES ASSUME HistoryInv, [Next]_vars PROVE HistoryInv'
      OBVIOUS
  <2>1. CASE HistoryNext
        BY <2>1, TypesKept, PointsKept, HopeInvKept, VerdictInvKept DEF HistoryInv
  <2>2. CASE UNCHANGED historyVars
    <3>0. /\ setting' = setting /\ row' = row /\ collection' = collection
          /\ entry' = entry /\ indexer' = indexer /\ excused' = excused /\ Rows' = Rows
          BY <2>2 DEF historyVars, Rows
    <3>1. HistoryTypes'
          BY <3>0 DEF HistoryInv, HistoryTypes, IndexersOK
    <3>2. PointsInv'
          BY <3>0 DEF HistoryInv, PointsInv, Holds, Truthful
    <3>3. ASSUME NEW q, NEW need, Hope(q, need) PROVE Hope(q, need)'
          BY <3>0, <3>3 DEF Hope, Up
    <3>4. HopeInv'
          BY <3>0, <3>3 DEF HistoryInv, HopeInv
    <3>5. VerdictInv'
      <4>1. ASSUME NEW q \in Rows', Hope(q, {row[q].gate}) PROVE Hope(q, {row[q].gate})'
            BY <3>0, <4>1 DEF Hope, Up
      <4>2. ASSUME NEW q \in Rows', StaleIsYoung(q) PROVE StaleIsYoung(q)'
            BY <3>0, <4>2 DEF StaleIsYoung, Outdated
      <4>3. \A i \in Indexers : NoRelapse(indexer[i]) => NoRelapse(indexer[i])'
            BY <3>0 DEF NoRelapse
      <4>4. OnlyRunning' = OnlyRunning /\ Alone' = Alone
            BY <3>0 DEF OnlyRunning, Up, Alone
      <4> QED BY <3>0, <4>1, <4>2, <4>3, <4>4 DEF HistoryInv, VerdictInv
    <3> QED BY <3>1, <3>2, <3>4, <3>5 DEF HistoryInv
  <2>3. Read => UNCHANGED historyVars
        BY DEF Read, SomeCall, Call, ReadItems, ReadTotal, ReadTrace, ReadDefects,
               ReadEvals, ReadSummary, MetaDense, MetaSparse, MetaAnswer, MetaFails,
               Close, Proceed
  <2> QED BY <2>1, <2>2, <2>3 DEF Next, HistoryStep, vars
<1> QED BY <1>1, <1>2, PTL DEF Spec

(* However reindexes overlap, a point says what the rows say.              *)
THEOREM PointsTellTheRows == Spec => []EntryTellsTheRow
<1>1. HistoryInv => EntryTellsTheRow
  <2> SUFFICES ASSUME HistoryInv, NEW q \in Traces, entry[q] # None
               PROVE  /\ collection /\ q \in Rows /\ entry[q].trace = q
                      /\ entry[q].defects = row[q].defects
                      /\ entry[q].gate \in {"skip", row[q].gate}
      BY DEF EntryTellsTheRow
  <2> QED BY DEF HistoryInv, PointsInv, Truthful
<1> QED BY <1>1, HistoryInvAlways, PTL

(* No trace is ever beyond Old, and none at Old is still in time.          *)
LEMMA TooLate ==
    ASSUME HistoryTypes, NEW q \in Rows \ excused, row[q].age = Old, NEW need,
           Hope(q, need)
    PROVE  Told(entry[q], need)
<1>1. /\ {Window, Slack, Interval} \subseteq Nat
      /\ Old = Window + Slack + 1 /\ ~(Old <= Window)
      BY HistoryAssumption DEF Old
<1>2. ASSUME NEW i \in Replicas PROVE ~InTime(indexer[i], Old, q, need)
  <2>1. IndexerOK(indexer[i]) /\ indexer[i].clock \in Nat
        BY DEF HistoryTypes, IndexersOK, IndexerOK, Indexers, Indexer
  <2>2. indexer[i].pc \in {"ready", "fetch", "write"} => indexer[i].clock <= Slack
        BY <2>1 DEF IndexerOK
  <2> QED BY <1>1, <2>1, <2>2 DEF InTime
<1> QED BY <1>1, <1>2 DEF Hope

(* A trace that gets too old for every reindex has its point, or a reason. *)
THEOREM NoTraceSlipsBy == Spec => []NothingSlipsBy
<1>1. HistoryInv => NothingSlipsBy
  <2> SUFFICES ASSUME HistoryInv, NEW q \in Rows \ excused, row[q].age = Old
               PROVE  entry[q] # None
      BY DEF NothingSlipsBy
  <2>1. Told(entry[q], AnyPoint)
        BY TooLate DEF HistoryInv, HopeInv
  <2> QED BY <2>1 DEF Told
<1> QED BY <1>1, HistoryInvAlways, PTL

(* A timely verdict is what is told in the end.                            *)
THEOREM TimelyVerdictsReachTheIndex == Spec => []VerdictReachesTheIndex
<1>1. HistoryInv => VerdictReachesTheIndex
  <2> SUFFICES ASSUME HistoryInv, NEW q \in Rows \ excused,
                      row[q].age = Old, row[q].timely
               PROVE  entry[q] # None /\ entry[q].gate = row[q].gate
      BY DEF VerdictReachesTheIndex
  <2>1. Told(entry[q], {row[q].gate})
        BY TooLate DEF HistoryInv, VerdictInv
  <2> QED BY <2>1 DEF Told
<1> QED BY <1>1, HistoryInvAlways, PTL

-----------------------------------------------------------------------------
(* Adding up.                                                              *)

(* Induction over the subsets of a finite set: of those that go wrong      *)
(* there is one all of whose proper subsets are right.                     *)
LEMMA LeastSubset ==
    ASSUME NEW S, IsFiniteSet(S), NEW bad, bad \subseteq SUBSET S, bad # {}
    PROVE  \E s \in bad : \A t \in SUBSET s : t # s => t \notin bad
<1>1. bad \subseteq FiniteSubsetsOf(S)
      BY FS_Subset DEF FiniteSubsetsOf
<1>2. PICK s \in bad : \A t \in bad : ~ (<<t, s>> \in StrictSubsetOrdering(S))
      BY <1>1, WFMin, FS_StrictSubsetOrderingWellFounded
<1>3. ASSUME NEW t \in SUBSET s, t # s PROVE t \notin bad
  <2>1. <<t, s>> \in StrictSubsetOrdering(S)
        BY <1>3 DEF StrictSubsetOrdering
  <2> QED BY <1>2, <2>1
<1> QED BY <1>3

(* What the sum of a function's values is defined from.                    *)
Sums(f) ==
    CHOOSE iter : iter = [s \in SUBSET DOMAIN f |->
        IF s = {} THEN 0
        ELSE LET x == CHOOSE x \in s : TRUE IN f[x] + iter[s \ {x}]]

(* It is.                                                                  *)
LEMMA SumsOf ==
    ASSUME NEW f PROVE FoldFunction(+, 0, f) = Sums(f)[DOMAIN f]
BY DEF FoldFunction, FoldFunctionOnSet, MapThenFoldSet, Sums

(* Sums over the parts of the domain that grow by each element's value are *)
(* the sum in whatever order it is taken.                                  *)
LEMMA SumsAre ==
    ASSUME NEW f, IsFiniteSet(DOMAIN f), NEW g,
           g = [s \in SUBSET DOMAIN f |-> g[s]], g[{}] = 0,
           \A s \in SUBSET DOMAIN f : \A x \in s : g[s] = f[x] + g[s \ {x}]
    PROVE  FoldFunction(+, 0, f) = g[DOMAIN f]
<1> DEFINE S == DOMAIN f
           pick(s) == CHOOSE x \in s : TRUE
           Body(h) == [s \in SUBSET S |-> IF s = {} THEN 0
                                          ELSE f[pick(s)] + h[s \ {pick(s)}]]
<1>1. \A s : s # {} => pick(s) \in s
      OBVIOUS
<1> HIDE DEF pick
<1>2. g = Body(g)
  <2>1. ASSUME NEW s \in SUBSET S
        PROVE  g[s] = IF s = {} THEN 0 ELSE f[pick(s)] + g[s \ {pick(s)}]
        BY <1>1
  <2> QED BY <2>1
<1>3. ASSUME NEW h, h = Body(h) PROVE h = g
  <2> DEFINE bad == {s \in SUBSET S : h[s] # g[s]}
  <2>1. CASE bad = {}
    <3>1. h = [s \in SUBSET S |-> h[s]]
          BY <1>3
    <3> QED BY <2>1, <3>1
  <2>2. CASE bad # {}
    <3>1. PICK s \in bad : \A t \in SUBSET s : t # s => t \notin bad
      <4>1. bad \subseteq SUBSET S /\ bad # {} /\ IsFiniteSet(S)
            BY <2>2
      <4> HIDE DEF bad
      <4> QED BY <4>1, LeastSubset
    <3>2. s \in SUBSET S /\ h[s] # g[s]
          OBVIOUS
    <3>3. h[s] = IF s = {} THEN 0 ELSE f[pick(s)] + h[s \ {pick(s)}]
          BY <1>3, <3>2
    <3>4. s # {}
          BY <3>2, <3>3
    <3>5. h[s \ {pick(s)}] = g[s \ {pick(s)}]
      <4>1. PICK t : t = s \ {pick(s)}
            OBVIOUS
      <4>2. t \in SUBSET s /\ t # s /\ t \in SUBSET S
            BY <1>1, <3>2, <3>4, <4>1
      <4> QED BY <3>1, <4>1, <4>2
    <3>6. g[s] = f[pick(s)] + g[s \ {pick(s)}]
          BY <1>1, <3>2, <3>4
    <3> QED BY <3>2, <3>3, <3>4, <3>5, <3>6
  <2> QED BY <2>1, <2>2
<1>4. Sums(f) = CHOOSE h : h = Body(h)
      BY DEF Sums, pick
<1> HIDE DEF Body
<1>5. Sums(f) = Body(Sums(f))
      BY <1>2, <1>4
<1>6. Sums(f) = g
      BY <1>3, <1>5
<1> QED BY <1>6, SumsOf

(* The counts of the finitely many rows by their gates add up to their     *)
(* number.                                                                 *)
LEMMA CountsAddUp ==
    ASSUME NEW E, IsFiniteSet(E), \A q \in E : row[q].gate \in Gates
    PROVE  FoldFunction(+, 0, [g \in Gates |-> Cardinality({q \in E : row[q].gate = g})])
             = Cardinality(E)
<1> DEFINE f == [g \in Gates |-> Cardinality({q \in E : row[q].gate = g})]
           sub(s) == {q \in E : row[q].gate \in s}
           h == [s \in SUBSET Gates |-> Cardinality(sub(s))]
<1>1. IsFiniteSet(DOMAIN f) /\ DOMAIN f = Gates
      BY HistoryAssumption
<1>2. h = [s \in SUBSET DOMAIN f |-> h[s]]
      BY <1>1
<1>3. h[{}] = 0
  <2>1. sub({}) = {}
        OBVIOUS
  <2> QED BY <2>1, FS_EmptySet
<1>4. ASSUME NEW s \in SUBSET Gates, NEW x \in s
      PROVE  h[s] = f[x] + h[s \ {x}]
  <2> DEFINE only == {q \in E : row[q].gate = x}
  <2>1. sub(s) = only \cup sub(s \ {x}) /\ only \cap sub(s \ {x}) = {}
        OBVIOUS
  <2>2. IsFiniteSet(only) /\ IsFiniteSet(sub(s \ {x}))
        BY FS_Subset
  <2>3. f[x] = Cardinality(only) /\ h[s] = Cardinality(sub(s))
        /\ h[s \ {x}] = Cardinality(sub(s \ {x}))
        BY <1>4
  <2> HIDE DEF f, h, sub, only
  <2>4. Cardinality(sub(s)) = Cardinality(only) + Cardinality(sub(s \ {x})) - Cardinality({})
        BY <2>1, <2>2, FS_Union
  <2>5. /\ Cardinality(only) \in Nat /\ Cardinality(sub(s \ {x})) \in Nat
        /\ Cardinality({}) = 0
        BY <2>2, FS_CardinalityType, FS_EmptySet
  <2> QED BY <2>3, <2>4, <2>5
<1>5. sub(Gates) = E
      OBVIOUS
<1>6. h[Gates] = Cardinality(E)
      BY <1>5
<1> HIDE DEF f, h
<1>7. FoldFunction(+, 0, f) = h[DOMAIN f]
      BY <1>1, <1>2, <1>3, <1>4, SumsAre
<1> QED BY <1>1, <1>6, <1>7 DEF f

-----------------------------------------------------------------------------
(* What the statements of a call have read.                                *)

(* ReadsAreCoherent, and what makes it inductive: what has been read so    *)
(* far of a list or a detail agrees with the rows of now.                  *)
ListCoherent(c) ==
    /\ c.page \subseteq Listed(c.name, c.who, c.filter)
    /\ c.page # {} =>
         c.filter.offset + Cardinality(c.page)
           <= IF c.pc = "done" THEN c.total
              ELSE Cardinality(Listed(c.name, c.who, c.filter))

DetailCoherent(c) ==
    /\ c.page = {c.filter.trace} /\ c.filter.trace \in Rows
    /\ c.pc # "defects" => c.defects = row[c.filter.trace].defects
    /\ c.pc = "done" => c.gate \in {"none", row[c.filter.trace].gate}

SummaryCoherent(c) == c.total = FoldFunction(+, 0, c.counts)

Coherent(c) ==
    /\ c.pc = "total" => c.name \in Lists
    /\ c.name \in Lists /\ c.pc \in {"total", "done"} => ListCoherent(c)
    /\ c.name = "detail" /\ c.pc \in {"defects", "evals", "done"} => DetailCoherent(c)
    /\ c.name = "summary" /\ c.pc = "done" => SummaryCoherent(c)

(* What is listed is a part of the rows, and stays listed.                 *)
LEMMA ListedFinite ==
    ASSUME HistoryTypes, NEW name, NEW who, NEW filter
    PROVE  /\ Listed(name, who, filter) \subseteq Rows
           /\ IsFiniteSet(Listed(name, who, filter))
           /\ Cardinality(Listed(name, who, filter)) \in Nat
<1>1. Listed(name, who, filter) \subseteq Rows /\ IsFiniteSet(Rows)
      BY DEF Listed, HistoryTypes
<1> QED BY <1>1, FS_Subset, FS_CardinalityType

LEMMA ListedGrows ==
    ASSUME HistoryTypes, IsFiniteSet(Rows'), RowsGrow, NEW name \in Lists, NEW who,
           NEW filter \in Filters
    PROVE  /\ Listed(name, who, filter) \subseteq Listed(name, who, filter)'
           /\ Cardinality(Listed(name, who, filter))
                <= Cardinality(Listed(name, who, filter)')
           /\ Cardinality(Listed(name, who, filter)') \in Nat
<1>1. "none" \notin Gates /\ filter.gate \in Gates \cup {None}
      BY HistoryAssumption DEF Filters
<1>2. ASSUME NEW q \in Listed(name, who, filter)
      PROVE  q \in Listed(name, who, filter)'
  <2>1. /\ q \in Rows /\ q \in Rows' /\ MaySee(who, q)
        /\ row'[q].defects = row[q].defects
        /\ \/ row'[q].gate = row[q].gate
           \/ row[q].gate = "none" /\ row'[q].gate \in Gates
        BY <1>2 DEF Listed, RowsGrow
  <2>2. CASE name = "traces"
        BY <1>1, <1>2, <2>1, <2>2 DEF Listed
  <2>3. CASE name = "defects"
        BY <1>2, <2>1, <2>3 DEF Listed
  <2>4. CASE name = "evals"
        BY <1>1, <1>2, <2>1, <2>4 DEF Listed
  <2> QED BY <2>2, <2>3, <2>4 DEF Lists
<1>3. Listed(name, who, filter)' \subseteq Rows'
      BY DEF Listed
<1> QED BY <1>2, <1>3, FS_Subset, FS_CardinalityType

(* What was read stays coherent while the history goes on.                 *)
LEMMA CoherentKept ==
    ASSUME HistoryTypes, IsFiniteSet(Rows'), RowsGrow, NEW c \in CallState, Coherent(c)
    PROVE  Coherent(c)'
<1>1. c.filter \in Filters /\ c.total \in Nat /\ c.filter.offset \in Nat
      BY DEF CallState, Filters
<1>2. ASSUME c.name \in Lists, c.pc \in {"total", "done"} PROVE ListCoherent(c)'
  <2>0. ListCoherent(c)
        BY <1>2 DEF Coherent
  <2>1. /\ c.page \subseteq Listed(c.name, c.who, c.filter)
        /\ IsFiniteSet(c.page) /\ Cardinality(c.page) \in Nat
        BY <2>0, ListedFinite, FS_Subset, FS_CardinalityType DEF ListCoherent
  <2>2. Cardinality(Listed(c.name, c.who, c.filter)) \in Nat
        BY ListedFinite
  <2>3. /\ Listed(c.name, c.who, c.filter) \subseteq Listed(c.name, c.who, c.filter)'
        /\ Cardinality(Listed(c.name, c.who, c.filter))
             <= Cardinality(Listed(c.name, c.who, c.filter)')
        /\ Cardinality(Listed(c.name, c.who, c.filter)') \in Nat
        BY <1>1, <1>2, ListedGrows
  <2>4. c.page # {} =>
          c.filter.offset + Cardinality(c.page)
            <= IF c.pc = "done" THEN c.total
               ELSE Cardinality(Listed(c.name, c.who, c.filter))
        BY <2>0 DEF ListCoherent
  <2>5. c.page # {} =>
          c.filter.offset + Cardinality(c.page)
            <= IF c.pc = "done" THEN c.total
               ELSE Cardinality(Listed(c.name, c.who, c.filter)')
    <3>1. CASE c.pc = "done"
          BY <2>4, <3>1
    <3>2. CASE c.pc # "done"
          BY <1>1, <2>1, <2>2, <2>3, <2>4, <3>2
    <3> QED BY <3>1, <3>2
  <2> QED BY <2>1, <2>3, <2>5 DEF ListCoherent
<1>3. ASSUME c.name = "detail", c.pc \in {"defects", "evals", "done"}
      PROVE  DetailCoherent(c)'
      BY <1>3 DEF Coherent, DetailCoherent, RowsGrow
<1>4. SummaryCoherent(c) => SummaryCoherent(c)'
      OBVIOUS
<1> QED BY <1>2, <1>3, <1>4 DEF Coherent

(* A corpus holds traces.                                                  *)
CorporaInv == \A s \in DOMAIN corpora : corpora[s] \subseteq Traces

CallInv == call \in CallState /\ Coherent(call)

(* There is a call that has read nothing.                                  *)
LEMMA NoCallOK == NoCall \in CallState /\ Coherent(NoCall)
<1>1. NoFilter \in Filters
      BY DEF NoFilter, Filters
<1>2. NoCall \in CallState
  <2>1. PICK counts, who, filter : /\ counts = [g \in Gates |-> 0] /\ who = None
                                   /\ filter = NoFilter
        OBVIOUS
  <2>2. /\ counts \in [Gates -> Nat] /\ filter \in Filters
        /\ who \in {None} \cup UNION {Readers(s) : s \in Settings}
        BY <1>1, <2>1
  <2>3. NoCall = [pc |-> "none", name |-> "none", who |-> who, filter |-> filter,
                  page |-> {}, total |-> 0, defects |-> FALSE, gate |-> "none",
                  counts |-> counts, found |-> {}, indexed |-> {}]
        BY <2>1, Zenon DEF NoCall
  <2> QED BY <2>2, <2>3 DEF CallState
<1>3. NoCall.pc = "none" /\ NoCall.name = "none"
      BY DEF NoCall
<1> QED BY <1>2, <1>3 DEF Coherent, Lists

(* A step that reads becomes a call that agrees with the rows.             *)
LEMMA ReadKeeps ==
    ASSUME UNCHANGED historyVars, NEW c \in CallState, Coherent(c), call' = c
    PROVE  CallInv'
<1>1. row' = row /\ Rows' = Rows
      BY DEF historyVars, Rows
<1>2. \A name, who, filter : Listed(name, who, filter)' = Listed(name, who, filter)
      BY <1>1 DEF Listed
<1>3. Coherent(c)'
      BY <1>1, <1>2 DEF Coherent, ListCoherent, DetailCoherent
<1> QED BY <1>3 DEF CallInv

(* Readers are callers of some setting.                                    *)
LEMMA SomeCallKept == HistoryTypes /\ CallInv /\ SomeCall => CallInv'
<1> SUFFICES ASSUME HistoryTypes, CallInv, SomeCall PROVE CallInv'
    OBVIOUS
<1>1. PICK who \in Readers(setting), name \in Calls, filter \in Parameters :
        Call(who, name, filter)
      BY DEF SomeCall
<1>2. PICK pc \in {"first", "refused"} :
        Proceed([NoCall EXCEPT !.pc = pc, !.name = name, !.who = who, !.filter = filter])
      BY <1>1 DEF Call
<1>3. PICK c : c = [NoCall EXCEPT !.pc = pc, !.name = name, !.who = who,
                                  !.filter = filter]
      OBVIOUS
<1>4. who \in UNION {Readers(s) : s \in Settings} /\ filter \in Filters
      BY CallAssumption DEF HistoryTypes
<1>5. c \in CallState
      BY <1>3, <1>4, NoCallOK DEF CallState
<1>6. c.pc = pc
      BY <1>3 DEF NoCall
<1>7. Coherent(c)
      BY <1>6 DEF Coherent
<1> QED BY <1>2, <1>3, <1>5, <1>7, ReadKeeps DEF Proceed

(* The page of a list, which fits behind its offset.                       *)
LEMMA ReadItemsKept == HistoryTypes /\ CallInv /\ ReadItems => CallInv'
<1> SUFFICES ASSUME HistoryTypes, CallInv, ReadItems PROVE CallInv'
    OBVIOUS
<1> DEFINE L == Listed(call.name, call.who, call.filter)
<1>1. PICK page \in Pages(L) : Proceed([call EXCEPT !.pc = "total", !.page = page])
      BY DEF ReadItems
<1>2. PICK c : c = [call EXCEPT !.pc = "total", !.page = page]
      OBVIOUS
<1>3. /\ L \subseteq Traces /\ IsFiniteSet(L) /\ Cardinality(L) \in Nat
      BY ListedFinite, RowsTyped
<1>4. /\ call \in CallState /\ call.filter.offset \in Nat /\ call.filter.limit \in Nat
      /\ call.pc = "first" /\ call.name \in Lists
      BY DEF CallInv, CallState, Filters, ReadItems
<1> HIDE DEF L
<1>5. page \in SUBSET L /\ IsFiniteSet(page) /\ Cardinality(page) \in Nat
      BY <1>1, <1>3, FS_Subset, FS_CardinalityType DEF Pages
<1>6. page # {} => call.filter.offset + Cardinality(page) <= Cardinality(L)
  <2>1. CASE Cardinality(L) < call.filter.offset
    <3>1. Cardinality(page) = 0
          BY <1>1, <1>4, <2>1 DEF Pages
    <3> QED BY <1>5, <3>1, FS_EmptySet
  <2>2. CASE ~(Cardinality(L) < call.filter.offset)
    <3>1. Cardinality(page) <= Cardinality(L) - call.filter.offset
          BY <1>1, <1>3, <1>4, <2>2 DEF Pages
    <3> QED BY <1>3, <1>4, <1>5, <3>1
  <2> QED BY <2>1, <2>2
<1>7. c \in CallState
      BY <1>2, <1>3, <1>4, <1>5 DEF CallState
<1>8. /\ c.pc = "total" /\ c.page = page /\ c.name = call.name /\ c.who = call.who
      /\ c.filter = call.filter
      BY <1>2, <1>4 DEF CallState
<1>9. ListCoherent(c)
      BY <1>5, <1>6, <1>8 DEF ListCoherent, L
<1>10. Coherent(c)
       BY <1>4, <1>8, <1>9 DEF Coherent, Lists
<1> QED BY <1>1, <1>2, <1>7, <1>10, ReadKeeps DEF Proceed

(* The total of a list is counted when its page is still listed.           *)
LEMMA ReadTotalKept == HistoryTypes /\ CallInv /\ ReadTotal => CallInv'
<1> SUFFICES ASSUME HistoryTypes, CallInv, ReadTotal PROVE CallInv'
    OBVIOUS
<1> DEFINE L == Listed(call.name, call.who, call.filter)
<1>1. PICK c : c = [call EXCEPT !.pc = "done", !.total = Cardinality(L)]
      OBVIOUS
<1>2. call \in CallState /\ call.pc = "total" /\ call.name \in Lists /\ ListCoherent(call)
      BY DEF CallInv, ReadTotal, Coherent
<1>3. Cardinality(L) \in Nat
      BY ListedFinite
<1>4. Proceed(c)
      BY <1>1 DEF ReadTotal
<1> HIDE DEF L
<1>5. c \in CallState
      BY <1>1, <1>2, <1>3 DEF CallState
<1>6. /\ c.pc = "done" /\ c.total = Cardinality(L) /\ c.name = call.name
      /\ c.who = call.who /\ c.filter = call.filter /\ c.page = call.page
      BY <1>1, <1>2 DEF CallState
<1>7. ListCoherent(c)
      BY <1>2, <1>6 DEF ListCoherent, L
<1>8. Coherent(c)
      BY <1>2, <1>6, <1>7 DEF Coherent, Lists
<1> QED BY <1>4, <1>5, <1>8, ReadKeeps DEF Proceed

(* The first statement of a detail finds the trace and remembers whose it  *)
(* is; the next ones read its defects and its evaluations.                 *)
LEMMA DetailKept ==
    HistoryTypes /\ CallInv /\ (ReadTrace \/ ReadDefects \/ ReadEvals) => CallInv'
<1> SUFFICES ASSUME HistoryTypes, CallInv, ReadTrace \/ ReadDefects \/ ReadEvals
             PROVE  CallInv'
    OBVIOUS
<1> DEFINE q == call.filter.trace
<1>0. /\ call \in CallState /\ Coherent(call) /\ call.name = "detail"
      /\ "detail" \notin Lists
      BY DEF CallInv, ReadTrace, ReadDefects, ReadEvals, Reading, Lists
<1>1. ASSUME ReadTrace, q \in Rows, MaySee(call.who, q) PROVE CallInv'
  <2>1. PICK c : c = [call EXCEPT !.pc = "defects", !.page = {q}]
        OBVIOUS
  <2>2. Proceed(c) /\ call.pc = "first"
        BY <1>1, <2>1 DEF ReadTrace, Reading
  <2>3. {q} \in SUBSET Traces
        BY <1>1 DEF Rows
  <2>4. c \in CallState
        BY <1>0, <2>1, <2>3 DEF CallState
  <2>5. /\ c.pc = "defects" /\ c.page = {q} /\ c.name = "detail"
        /\ c.who = call.who /\ c.filter = call.filter
        BY <1>0, <2>1 DEF CallState
  <2>6. Coherent(c)
        BY <1>0, <1>1, <2>5 DEF Coherent, DetailCoherent
  <2> QED BY <2>2, <2>4, <2>6, ReadKeeps DEF Proceed
<1>2. ASSUME ReadTrace, ~(q \in Rows /\ MaySee(call.who, q)) PROVE CallInv'
  <2>1. PICK c : c = [call EXCEPT !.pc = "refused"]
        OBVIOUS
  <2>2. Proceed(c) /\ call.pc = "first"
        BY <1>2, <2>1 DEF ReadTrace, Reading
  <2>3. c \in CallState
        BY <1>0, <2>1 DEF CallState
  <2>4. /\ c.pc = "refused" /\ c.name = "detail" /\ c.who = call.who
        /\ c.page = call.page
        BY <1>0, <2>1 DEF CallState
  <2>5. Coherent(c)
        BY <1>0, <2>2, <2>4 DEF Coherent
  <2> QED BY <2>2, <2>3, <2>5, ReadKeeps DEF Proceed
<1>3. ASSUME ReadDefects PROVE CallInv'
  <2>1. PICK c : c = [call EXCEPT !.pc = "evals", !.defects = row[q].defects]
        OBVIOUS
  <2>2. Proceed(c) /\ call.pc = "defects"
        BY <1>3, <2>1 DEF ReadDefects, Reading
  <2>3. DetailCoherent(call)
        BY <1>0, <2>2 DEF Coherent
  <2>4. row[q].defects \in BOOLEAN
        BY <2>3, RowsTyped DEF DetailCoherent
  <2>5. c \in CallState
        BY <1>0, <2>1, <2>4 DEF CallState
  <2>6. /\ c.pc = "evals" /\ c.name = "detail" /\ c.who = call.who /\ c.filter = call.filter
        /\ c.page = call.page
        /\ c.defects = row[q].defects
        BY <1>0, <2>1 DEF CallState
  <2>7. Coherent(c)
        BY <1>0, <2>2, <2>3, <2>6 DEF Coherent, DetailCoherent
  <2> QED BY <2>2, <2>5, <2>7, ReadKeeps DEF Proceed
<1>4. ASSUME ReadEvals PROVE CallInv'
  <2>1. PICK c : c = [call EXCEPT !.pc = "done", !.gate = row[q].gate]
        OBVIOUS
  <2>2. Proceed(c) /\ call.pc = "evals"
        BY <1>4, <2>1 DEF ReadEvals, Reading
  <2>3. DetailCoherent(call)
        BY <1>0, <2>2 DEF Coherent
  <2>4. row[q].gate \in Gates \cup {"none"}
        BY <2>3, RowsTyped DEF DetailCoherent
  <2>5. c \in CallState
        BY <1>0, <2>1, <2>4 DEF CallState
  <2>6. /\ c.pc = "done" /\ c.name = "detail" /\ c.who = call.who /\ c.filter = call.filter
        /\ c.page = call.page
        /\ c.defects = call.defects /\ c.gate = row[q].gate
        BY <1>0, <2>1 DEF CallState
  <2>7. Coherent(c)
        BY <1>0, <2>2, <2>3, <2>6 DEF Coherent, DetailCoherent
  <2> QED BY <2>2, <2>5, <2>7, ReadKeeps DEF Proceed
<1> QED BY <1>1, <1>2, <1>3, <1>4

(* The one statement of the summary counts what it lists.                  *)
LEMMA ReadSummaryKept == HistoryTypes /\ CallInv /\ ReadSummary => CallInv'
<1> SUFFICES ASSUME HistoryTypes, CallInv, ReadSummary PROVE CallInv'
    OBVIOUS
<1> DEFINE evals  == Listed("evals", call.who, NoFilter)
           counts == [g \in Gates |-> Cardinality({q \in evals : row[q].gate = g})]
<1>1. PICK c : c = [call EXCEPT !.pc = "done", !.total = Cardinality(evals),
                                !.counts = counts]
      OBVIOUS
<1>2. Proceed(c) /\ call.pc = "first" /\ call.name = "summary"
      BY <1>1 DEF ReadSummary, Reading
<1>3. IsFiniteSet(evals) /\ Cardinality(evals) \in Nat /\ evals \subseteq Rows
      BY ListedFinite
<1>4. \A q \in evals : row[q].gate \in Gates
      BY <1>3, RowsTyped DEF Listed
<1> HIDE DEF evals
<1>5. Cardinality(evals) = FoldFunction(+, 0, counts)
      BY <1>3, <1>4, CountsAddUp
<1>6. \A g \in Gates : Cardinality({q \in evals : row[q].gate = g}) \in Nat
      BY <1>3, FS_Subset, FS_CardinalityType
<1>7. counts \in [Gates -> Nat]
      BY <1>6
<1> HIDE DEF counts
<1>8. call \in CallState
      BY DEF CallInv
<1>9. c \in CallState
      BY <1>1, <1>3, <1>7, <1>8 DEF CallState
<1>10. /\ c.pc = "done" /\ c.name = "summary" /\ c.who = call.who
       /\ c.page = call.page
       /\ c.total = Cardinality(evals) /\ c.counts = counts
       BY <1>1, <1>2, <1>8 DEF CallState
<1>11. SummaryCoherent(c)
       BY <1>5, <1>10 DEF SummaryCoherent
<1>12. Coherent(c)
       BY <1>10, <1>11 DEF Coherent, Lists
<1> QED BY <1>2, <1>9, <1>12, ReadKeeps DEF Proceed

-----------------------------------------------------------------------------
(* Meta queries.                                                           *)

(* The steps of a meta query but that of the corpora.                      *)
LEMMA MetaKept ==
    HistoryTypes /\ CallInv /\ (MetaFails \/ MetaDense \/ MetaAnswer \/ Close) => CallInv'
<1> SUFFICES ASSUME HistoryTypes, CallInv,
                    MetaFails \/ MetaDense \/ MetaAnswer \/ Close
             PROVE  CallInv'
    OBVIOUS
<1>0. call \in CallState /\ Coherent(call) /\ "meta" \notin Lists
      BY DEF CallInv, Lists
<1>1. ASSUME MetaFails PROVE CallInv'
  <2>1. PICK c : c = [call EXCEPT !.pc = "refused"]
        OBVIOUS
  <2>2. Proceed(c) /\ call.name = "meta" /\ call.pc # "none"
        BY <1>1, <2>1 DEF MetaFails
  <2>3. c \in CallState
        BY <1>0, <2>1 DEF CallState
  <2>4. /\ c.pc = "refused" /\ c.name = "meta" /\ c.who = call.who
        /\ c.page = call.page
        BY <1>0, <2>1, <2>2 DEF CallState
  <2>5. Coherent(c)
        BY <1>0, <2>2, <2>4 DEF Coherent
  <2> QED BY <2>2, <2>3, <2>5, ReadKeeps DEF Proceed
<1>2. ASSUME MetaDense PROVE CallInv'
  <2> DEFINE found   == {q \in Traces : Found(call.who, q)}
             indexed == {q \in Traces : entry[q] # None /\ InScope(Scope(call.who), q)}
  <2>1. PICK pc \in {"sparse", "refused"} :
          Proceed([call EXCEPT !.pc = pc, !.found = found, !.indexed = indexed])
        BY <1>2 DEF MetaDense
  <2>2. PICK c : c = [call EXCEPT !.pc = pc, !.found = found, !.indexed = indexed]
        OBVIOUS
  <2>3. found \in SUBSET Traces /\ indexed \in SUBSET Traces
        OBVIOUS
  <2> HIDE DEF found, indexed
  <2>4. c \in CallState
        BY <1>0, <2>2, <2>3 DEF CallState
  <2>5. /\ c.pc = pc /\ c.name = "meta" /\ c.who = call.who /\ call.pc = "first"
        /\ c.page = call.page
        BY <1>0, <1>2, <2>2 DEF CallState, MetaDense, Reading
  <2>6. Coherent(c)
        BY <1>0, <2>3, <2>5 DEF Coherent
  <2> QED BY <2>1, <2>2, <2>4, <2>6, ReadKeeps DEF Proceed
<1>3. ASSUME MetaAnswer PROVE CallInv'
  <2>1. PICK c : c = [call EXCEPT !.pc = "done"]
        OBVIOUS
  <2>2. Proceed(c) /\ call.pc = "generate" /\ call.name = "meta"
        BY <1>3, <2>1 DEF MetaAnswer, Reading
  <2>3. c \in CallState
        BY <1>0, <2>1 DEF CallState
  <2>4. /\ c.pc = "done" /\ c.name = "meta" /\ c.who = call.who
        /\ c.page = call.page
        BY <1>0, <2>1, <2>2 DEF CallState
  <2>5. Coherent(c)
        BY <1>0, <2>2, <2>4 DEF Coherent
  <2> QED BY <2>2, <2>3, <2>5, ReadKeeps DEF Proceed
<1>4. ASSUME Close PROVE CallInv'
  <2>1. Proceed(NoCall)
        BY <1>4 DEF Close
  <2>2. PICK c : c = NoCall
        OBVIOUS
  <2> QED BY <2>1, <2>2, NoCallOK, ReadKeeps DEF Proceed
<1> QED BY <1>1, <1>2, <1>3, <1>4

(* The corpus of the caller's scope, built now or before.                  *)
LEMMA MetaSparseKept ==
    HistoryTypes /\ CallInv /\ CorporaInv /\ MetaSparse => CallInv' /\ CorporaInv'
<1> SUFFICES ASSUME HistoryTypes, CallInv, CorporaInv, MetaSparse
             PROVE  CallInv' /\ CorporaInv'
    OBVIOUS
<1> DEFINE scope  == Scope(call.who)
           corpus == IF scope \in DOMAIN corpora THEN corpora[scope]
                     ELSE {q \in Traces : Found(call.who, q)}
<1>0. /\ call \in CallState /\ Coherent(call) /\ "meta" \notin Lists
      /\ call.pc = "sparse" /\ call.name = "meta"
      BY DEF CallInv, Lists, MetaSparse, Reading
<1>1. /\ corpora' = [s \in DOMAIN corpora \cup {scope} |->
                       IF s = scope THEN corpus ELSE corpora[s]]
      /\ call' = [call EXCEPT !.pc = "generate", !.found = @ \cup corpus]
      /\ UNCHANGED historyVars
      BY DEF MetaSparse
<1>2. corpus \subseteq Traces
      BY DEF CorporaInv
<1> HIDE DEF scope, corpus
<1>3. CallInv'
  <2>1. PICK c : c = [call EXCEPT !.pc = "generate", !.found = @ \cup corpus]
        OBVIOUS
  <2>2. call.found \cup corpus \in SUBSET Traces
        BY <1>0, <1>2 DEF CallState
  <2>3. c \in CallState
        BY <1>0, <2>1, <2>2 DEF CallState
  <2>4. /\ c.pc = "generate" /\ c.name = "meta" /\ c.who = call.who
        /\ c.page = call.page
        BY <1>0, <2>1 DEF CallState
  <2>5. Coherent(c)
        BY <1>0, <1>2, <2>4 DEF Coherent
  <2> QED BY <1>1, <2>1, <2>3, <2>5, ReadKeeps
<1>4. CorporaInv'
      BY <1>1, <1>2 DEF CorporaInv
<1> QED BY <1>3, <1>4

-----------------------------------------------------------------------------
(* The theorems about calls.                                               *)

(* The rows of a step are those of before with more, so what calls have    *)
(* read agrees with them in every state.                                   *)
LEMMA CallInvAlways == Spec => [](CallInv /\ CorporaInv)
<1>1. Init => CallInv /\ CorporaInv
  <2> SUFFICES ASSUME Init PROVE CallInv /\ CorporaInv
      OBVIOUS
  <2>1. call = NoCall /\ DOMAIN corpora = {}
        BY DEF Init
  <2> QED BY <2>1, NoCallOK DEF CallInv, CorporaInv
<1>2. HistoryInv /\ HistoryInv' /\ CallInv /\ CorporaInv /\ [Next]_vars
        => CallInv' /\ CorporaInv'
  <2> SUFFICES ASSUME HistoryInv, HistoryInv', CallInv, CorporaInv, [Next]_vars
               PROVE  CallInv' /\ CorporaInv'
      OBVIOUS
  <2>0. HistoryTypes /\ IsFiniteSet(Rows')
        BY DEF HistoryInv, HistoryTypes
  <2>a. ASSUME corpora' = corpora PROVE CorporaInv'
        BY <2>a DEF CorporaInv
  <2>b. PICK c : c = call
        OBVIOUS
  <2>1. CASE HistoryStep
    <3>1. RowsGrow
          BY <2>0, <2>1, RowsKept DEF HistoryStep
    <3>2. CASE UNCHANGED <<call, corpora>>
      <4>1. Coherent(c)'
            BY <2>0, <2>b, <3>1, CoherentKept DEF CallInv
      <4> QED BY <2>a, <2>b, <3>2, <4>1 DEF CallInv
    <3>3. CASE call' = NoCall /\ corpora' = [s \in {} |-> {}]
      <4>1. PICK n : n = NoCall
            OBVIOUS
      <4>2. n \in CallState /\ Coherent(n) /\ n.pc = "none" /\ call' = n
            BY <3>3, <4>1, NoCallOK DEF NoCall
      <4>3. Coherent(n)'
            BY <2>0, <3>1, <4>2, CoherentKept
      <4>4. CorporaInv'
            BY <3>3 DEF CorporaInv
      <4> QED BY <4>2, <4>3, <4>4 DEF CallInv
    <3> QED BY <2>1, <3>2, <3>3 DEF HistoryStep
  <2>2. CASE Read
    <3>1. CASE MetaSparse
          BY <2>0, <3>1, MetaSparseKept
    <3>2. CASE ~MetaSparse
      <4>1. corpora' = corpora
            BY <2>2, <3>2 DEF Read, SomeCall, Call, ReadItems, ReadTotal, ReadTrace,
                   ReadDefects, ReadEvals, ReadSummary, MetaDense, MetaAnswer, MetaFails,
                   Close, Proceed
      <4>2. CallInv'
            BY <2>0, <2>2, <3>2, SomeCallKept, ReadItemsKept, ReadTotalKept, DetailKept,
               ReadSummaryKept, MetaKept DEF Read
      <4> QED BY <2>a, <4>1, <4>2
    <3> QED BY <3>1, <3>2
  <2>3. CASE UNCHANGED vars
    <3>1. UNCHANGED historyVars /\ call' = call /\ corpora' = corpora
          BY <2>3 DEF vars
    <3>2. CallInv'
          BY <2>b, <3>1, ReadKeeps DEF CallInv
    <3> QED BY <2>a, <3>1, <3>2
  <2> QED BY <2>1, <2>2, <2>3 DEF Next
<1> QED BY <1>1, <1>2, HistoryInvAlways, PTL DEF Spec

(* Types, of the rows, the points, the indexers and the call.              *)
THEOREM TypesOfReading == Spec => []TypeOK
<1>1. HistoryInv /\ CallInv /\ CorporaInv => TypeOK
      BY TypesTogether DEF HistoryInv, CallInv, CorporaInv, TypeOK
<1> QED BY <1>1, HistoryInvAlways, CallInvAlways, PTL

(* However many steps of the history come between the statements of a      *)
(* call, what it answers agrees with itself and with the rows.             *)
THEOREM CallsReadCoherently == Spec => []ReadsAreCoherent
<1>1. CallInv => ReadsAreCoherent
      BY DEF CallInv, Coherent, ListCoherent, DetailCoherent, SummaryCoherent,
             ReadsAreCoherent
<1> QED BY <1>1, CallInvAlways, PTL
=============================================================================
