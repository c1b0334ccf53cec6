------------------------ MODULE QueryPipelineProofs ------------------------
(* Proofs about QueryPipeline, for any requests, retries and settings.     *)
EXTENDS QueryPipeline, AnswerPathProofs

(* The locals of a request and of its task are always the same fields.     *)
Shape ==
    /\ DOMAIN request = Requests /\ DOMAIN task = Requests
    /\ DOMAIN record = Requests  /\ DOMAIN scored = Requests
    /\ \A r \in Requests : /\ DOMAIN request[r] = DOMAIN NewRequest
                           /\ DOMAIN task[r] = DOMAIN NewTask

(* The stages before the answer is there.                                  *)
Early == {"scope", "embed", "dense", "sparse", "generate"}

(* What of the rows and of the task goes with where the request is.        *)
Linked(r) ==
    /\ request[r].pc \in {"new"} \cup InFlight \cup Final
    /\ record[r] # None => /\ request[r].pc \in {"respond", "answered", "dropped"}
                           /\ record[r] = request[r].defects
    /\ task[r].pc # "none" => request[r].pc = "answered"
    /\ scored[r] # None => /\ record[r] # None
                           /\ task[r].pc \notin {"none", "judging", "saving"}

LinkInv == Shape /\ \A r \in Requests : Linked(r)

-----------------------------------------------------------------------------
(* A step of one request that leaves all the rest alone.                   *)
Goes(r, from, to) ==
    /\ request[r].pc = from /\ request'[r].pc = to
    /\ DOMAIN request' = Requests /\ DOMAIN request'[r] = DOMAIN NewRequest
    /\ \A s \in Requests \ {r} : request'[s] = request[s]
    /\ UNCHANGED <<setting, runner, starts, task, record, scored>>

(* The service that may be blamed for a failed query.                      *)
Blamed(service) ==
    /\ service \in PathServices \cap setting.failures
    /\ setting.provider = "mock" => service \notin {"embedder", "llm"}

(* The steps between admission and answer, told by where they lead.        *)
Travels(r) == \E from \in Early, to \in Early \cup {"persist"} : Goes(r, from, to)
Breaks(r)  == \E from \in Early, service \in PathServices :
                  Goes(r, from, "failed") /\ Blamed(service)

(* A submitted query is accepted or refused.                               *)
LEMMA SubmitGoes ==
    ASSUME Shape, NEW r \in Requests, Submit(r)
    PROVE  \/ runner = "ready" /\ Goes(r, "new", "scope")
           \/ runner \notin {"ready", "down"} /\ Goes(r, "new", "refused")
BY DEF Shape, Submit, At, Move, Goes, NewRequest

(* What a Move to a state with a given pc does.                            *)
LEMMA MoveGoes ==
    ASSUME Shape, NEW r \in Requests, NEW state, Move(r, state),
           DOMAIN state = DOMAIN NewRequest
    PROVE  Goes(r, request[r].pc, state.pc)
BY DEF Shape, Move, Goes

(* A service that raises ends the query as failed.                         *)
LEMMA FailsBreaks ==
    ASSUME Shape, NEW r \in Requests, request[r].pc \in Early,
           NEW service \in PathServices, Fails(r, service),
           setting.provider = "mock" => service \notin {"embedder", "llm"}
    PROVE  Breaks(r)
<1> DEFINE state == [request[r] EXCEPT !.pc = "failed"]
<1>1. DOMAIN state = DOMAIN NewRequest /\ state.pc = "failed"
      BY DEF Shape, NewRequest
<1>2. Move(r, state) /\ service \in setting.failures
      BY DEF Fails, May
<1> HIDE DEF state
<1>3. Goes(r, request[r].pc, "failed")
      BY <1>1, <1>2, MoveGoes
<1> QED BY <1>2, <1>3 DEF Breaks, Blamed

(* A retry stays where it is.                                              *)
LEMMA RetryTravels ==
    ASSUME Shape, NEW r \in Requests, request[r].pc \in Early,
           NEW service \in PathServices,
           setting.provider # "mock", NEW done, done => Travels(r),
           CallWithRetry(r, service, done)
    PROVE  Travels(r) \/ Breaks(r)
<1> DEFINE state == [request[r] EXCEPT !.attempt = @ + 1]
<1>1. CASE done
      BY <1>1
<1>2. CASE Move(r, state)
  <2>1. DOMAIN state = DOMAIN NewRequest /\ state.pc = request[r].pc
        BY DEF Shape, NewRequest
  <2> HIDE DEF state
  <2>2. Goes(r, request[r].pc, request[r].pc)
        BY <1>2, <2>1, MoveGoes
  <2> QED BY <2>2 DEF Travels
<1>3. CASE Fails(r, service)
      BY <1>3, FailsBreaks
<1> QED BY <1>1, <1>2, <1>3 DEF CallWithRetry

(* Embedding takes the query further, or fails it.                         *)
LEMMA EmbedTravels ==
    ASSUME Shape, NEW r \in Requests, OpenAIEmbed(r) \/ MockEmbed(r)
    PROVE  Travels(r) \/ Breaks(r)
<1>1. request[r].pc = "embed"
      BY DEF OpenAIEmbed, MockEmbed, At
<1>2. ASSUME Embedded(r)
      PROVE  Travels(r)
  <2> DEFINE state == [request[r] EXCEPT !.pc = "dense", !.attempt = 1]
  <2>1. DOMAIN state = DOMAIN NewRequest /\ state.pc = "dense" /\ Move(r, state)
        BY <1>2 DEF Shape, NewRequest, Embedded
  <2> HIDE DEF state
  <2>2. Goes(r, "embed", "dense")
        BY <1>1, <2>1, MoveGoes
  <2> QED BY <2>2 DEF Travels, Early
<1>3. CASE OpenAIEmbed(r)
  <2>1. setting.provider # "mock" /\ CallWithRetry(r, "embedder", Embedded(r))
        BY <1>3 DEF OpenAIEmbed
  <2> QED BY <1>1, <1>2, <2>1, RetryTravels DEF Early, PathServices
<1>4. CASE MockEmbed(r)
      BY <1>2, <1>4 DEF MockEmbed
<1> QED BY <1>3, <1>4

(* So does generating.                                                     *)
LEMMA GenerateTravels ==
    ASSUME Shape, NEW r \in Requests, Generate(r)
    PROVE  Travels(r) \/ Breaks(r)
<1>1. request[r].pc = "generate"
      BY DEF Generate, AnthropicGenerate, OpenAIGenerate, MockGenerate, At
<1>2. ASSUME Answered(r)
      PROVE  Travels(r)
  <2>1. PICK answer \in setting.answers :
          Move(r, [request[r] EXCEPT
                     !.pc = "persist", !.answer = answer,
                     !.defects = Detect(request[r].hits, request[r].ctx, answer)])
        BY <1>2 DEF Answered
  <2> DEFINE state == [request[r] EXCEPT
                         !.pc = "persist", !.answer = answer,
                         !.defects = Detect(request[r].hits, request[r].ctx, answer)]
  <2>2. DOMAIN state = DOMAIN NewRequest /\ state.pc = "persist" /\ Move(r, state)
        BY <2>1 DEF Shape, NewRequest
  <2> HIDE DEF state
  <2>3. Goes(r, "generate", "persist")
        BY <1>1, <2>2, MoveGoes
  <2> QED BY <2>3 DEF Travels, Early
<1>3. CASE MockGenerate(r)
      BY <1>2, <1>3 DEF MockGenerate
<1>4. CASE AnthropicGenerate(r) \/ OpenAIGenerate(r)
  <2>1. setting.provider # "mock" /\ CallWithRetry(r, "llm", Answered(r))
        BY <1>4 DEF AnthropicGenerate, OpenAIGenerate
  <2> QED BY <1>1, <1>2, <2>1, RetryTravels DEF Early, PathServices
<1> QED BY <1>3, <1>4 DEF Generate

(* So do the searches and what follows them up to the model.               *)
LEMMA SearchTravels ==
    ASSUME Shape, NEW r \in Requests,
           ReadScope(r) \/ DenseSearch(r) \/ SparseSearch(r)
    PROVE  Travels(r) \/ Breaks(r)
<1>1. CASE ReadScope(r)
  <2> DEFINE state == [request[r] EXCEPT !.pc = "embed"]
  <2>1. request[r].pc = "scope"
        BY <1>1 DEF ReadScope, At
  <2>2. CASE Fails(r, "identity")
        BY <2>1, <2>2, FailsBreaks DEF Early, PathServices
  <2>3. CASE Move(r, state)
    <3>1. DOMAIN state = DOMAIN NewRequest /\ state.pc = "embed"
          BY DEF Shape, NewRequest
    <3> HIDE DEF state
    <3>2. Goes(r, "scope", "embed")
          BY <2>1, <2>3, <3>1, MoveGoes
    <3> QED BY <3>2 DEF Travels, Early
  <2> QED BY <1>1, <2>2, <2>3 DEF ReadScope
<1>2. CASE DenseSearch(r)
  <2>1. request[r].pc = "dense"
        BY <1>2 DEF DenseSearch, At
  <2>2. CASE Fails(r, "qdrant")
        BY <2>1, <2>2, FailsBreaks DEF Early, PathServices
  <2>3. ASSUME NEW list,
               Move(r, [request[r] EXCEPT !.pc = "sparse", !.dense = list])
        PROVE  Travels(r)
    <3> DEFINE state == [request[r] EXCEPT !.pc = "sparse", !.dense = list]
    <3>1. DOMAIN state = DOMAIN NewRequest /\ state.pc = "sparse" /\ Move(r, state)
          BY <2>3 DEF Shape, NewRequest
    <3> HIDE DEF state
    <3>2. Goes(r, "dense", "sparse")
          BY <2>1, <3>1, MoveGoes
    <3> QED BY <3>2 DEF Travels, Early
  <2> QED BY <1>2, <2>2, <2>3 DEF DenseSearch
<1>3. CASE SparseSearch(r)
  <2>1. request[r].pc = "sparse"
        BY <1>3 DEF SparseSearch, At
  <2>2. CASE Fails(r, "qdrant")
        BY <2>1, <2>2, FailsBreaks DEF Early, PathServices
  <2>3. CASE Fails(r, "reranker")
        BY <2>1, <2>3, FailsBreaks DEF Early, PathServices
  <2>4. ASSUME NEW k, NEW list, NEW fused, NEW hits, NEW ctx,
               Move(r, [request[r] EXCEPT !.pc = "generate", !.topK = k, !.sparse = list,
                          !.fused = fused, !.hits = hits, !.ctx = ctx])
        PROVE  Travels(r)
    <3> DEFINE state == [request[r] EXCEPT !.pc = "generate", !.topK = k, !.sparse = list,
                           !.fused = fused, !.hits = hits, !.ctx = ctx]
    <3>1. DOMAIN state = DOMAIN NewRequest /\ state.pc = "generate" /\ Move(r, state)
          BY <2>4 DEF Shape, NewRequest
    <3> HIDE DEF state
    <3>2. Goes(r, "sparse", "generate")
          BY <2>1, <3>1, MoveGoes
    <3> QED BY <3>2 DEF Travels, Early
  <2> QED BY <1>3, <2>2, <2>3, <2>4 DEF SparseSearch
<1> QED BY <1>1, <1>2, <1>3

(* Every step of a request before its rows are written.                    *)
LEMMA StepTravels ==
    ASSUME Shape, NEW r \in Requests, Step(r)
    PROVE  Travels(r) \/ Breaks(r) \/ Persist(r) \/ Respond(r)
BY EmbedTravels, GenerateTravels, SearchTravels DEF Step

-----------------------------------------------------------------------------
(* The link between a request, its rows and its task.                      *)

(* The links hold before the first query.                                  *)
LEMMA LinkInit == Init => LinkInv
BY DEF Init, LinkInv, Shape, Linked, NewRequest, NewTask

(* A step of one request before its rows are written keeps the link.       *)
LEMMA GoesLinked ==
    ASSUME LinkInv, NEW r \in Requests, NEW from \in Early \cup {"new"},
           NEW to \in Early \cup {"persist", "failed", "refused"},
           Goes(r, from, to)
    PROVE  LinkInv'
BY DEF LinkInv, Shape, Linked, Goes, Early, InFlight, Final

(* Writing the history keeps them.                                         *)
LEMMA PersistLinked ==
    ASSUME LinkInv, NEW r \in Requests, Persist(r)
    PROVE  LinkInv'
<1> USE DEF LinkInv, Persist, At, NewRequest
<1>1. Shape'
      BY DEF Shape
<1>2. ASSUME NEW s \in Requests
      PROVE  Linked(s)'
  <2>1. CASE s = r
        BY <2>1 DEF Shape, Linked, InFlight, Final
  <2>2. CASE s # r
        BY <2>2 DEF Shape, Linked, InFlight, Final
  <2> QED BY <2>1, <2>2
<1> QED BY <1>1, <1>2

(* Answering keeps them.                                                   *)
LEMMA RespondLinked ==
    ASSUME LinkInv, NEW r \in Requests, Respond(r)
    PROVE  LinkInv'
<1> USE DEF LinkInv, Respond, At, NewRequest, NewTask
<1>1. Shape'
      BY DEF Shape
<1>2. ASSUME NEW s \in Requests
      PROVE  Linked(s)'
  <2>1. CASE s = r
        BY <2>1 DEF Shape, Linked, InFlight, Final
  <2>2. CASE s # r
        BY <2>2 DEF Shape, Linked, InFlight, Final
  <2> QED BY <2>1, <2>2
<1> QED BY <1>1, <1>2

(* What a judging leads to, whatever the judge says.                       *)
LEMMA JudgeSaves ==
    ASSUME NEW r \in Requests, Judge(r)
    PROVE  task[r].pc = "judging" /\ \E result : Save(r, result)
BY DEF Judge

(* Judging and saving the verdict keep them.                               *)
LEMMA EvaluateLinked ==
    ASSUME LinkInv, NEW r \in Requests, Evaluate(r)
    PROVE  LinkInv'
<1>1. CASE Judge(r)
  <2>1. PICK result : task[r].pc = "judging" /\ Save(r, result)
        BY <1>1, JudgeSaves
  <2> QED BY <2>1 DEF LinkInv, Shape, Linked, Save, NewTask
<1>2. CASE SaveVerdict(r)
      BY <1>2 DEF LinkInv, Shape, Linked, SaveVerdict, NewTask
<1> QED BY <1>1, <1>2 DEF Evaluate

(* Tasks may end; requests in flight may end without an answer.            *)
LEMMA StopLinked ==
    ASSUME LinkInv, Shutdown \/ Crash
    PROVE  LinkInv'
<1>1. /\ UNCHANGED <<record, scored>>
      /\ DOMAIN request' = Requests /\ DOMAIN task' = Requests
      BY DEF LinkInv, Shape, Shutdown, Crash, DropTasks
<1>2. ASSUME NEW s \in Requests
      PROVE  /\ DOMAIN task'[s] = DOMAIN NewTask
             /\ task'[s].pc = IF task[s].pc \in {"judging", "saving"}
                              THEN "dropped" ELSE task[s].pc
      BY DEF LinkInv, Shape, Shutdown, Crash, DropTasks, NewTask
<1>3. ASSUME NEW s \in Requests
      PROVE  \/ request'[s] = request[s]
             \/ /\ request[s].pc \in InFlight
                /\ request'[s] = [request[s] EXCEPT !.pc = "dropped"]
      BY DEF Shutdown, Crash
<1>4. ASSUME NEW s \in Requests
      PROVE  Linked(s)' /\ DOMAIN request'[s] = DOMAIN NewRequest
  <2>1. CASE request'[s] = request[s]
        BY <1>1, <1>2, <2>1 DEF LinkInv, Shape, Linked
  <2>2. CASE /\ request[s].pc \in InFlight
             /\ request'[s] = [request[s] EXCEPT !.pc = "dropped"]
    <3>1. /\ request'[s].pc = "dropped" /\ request'[s].defects = request[s].defects
          /\ DOMAIN request'[s] = DOMAIN NewRequest
          BY <2>2 DEF LinkInv, Shape, NewRequest
    <3> QED BY <1>1, <1>2, <2>2, <3>1 DEF LinkInv, Linked, InFlight, Final
  <2> QED BY <1>3, <2>1, <2>2
<1> QED BY <1>1, <1>2, <1>4 DEF LinkInv, Shape

(* Every step keeps them.                                                  *)
LEMMA LinkStep == LinkInv /\ [Next]_vars => LinkInv'
<1> SUFFICES ASSUME LinkInv, [Next]_vars PROVE LinkInv'
    OBVIOUS
<1>1. CASE Startup
      BY <1>1 DEF LinkInv, Shape, Linked, Startup
<1>2. CASE Shutdown \/ Crash
      BY <1>2, StopLinked
<1>3. ASSUME NEW r \in Requests, Submit(r)
      PROVE  LinkInv'
      BY <1>3, SubmitGoes, GoesLinked DEF LinkInv, Early
<1>4. ASSUME NEW r \in Requests, Step(r)
      PROVE  LinkInv'
  <2>1. CASE Travels(r) \/ Breaks(r)
        BY <2>1, GoesLinked DEF Travels, Breaks
  <2> QED BY <1>4, <2>1, StepTravels, PersistLinked, RespondLinked DEF LinkInv
<1>5. ASSUME NEW r \in Requests, Evaluate(r)
      PROVE  LinkInv'
      BY <1>5, EvaluateLinked
<1>6. CASE UNCHANGED vars
      BY <1>6 DEF LinkInv, Shape, Linked, vars
<1> QED BY <1>1, <1>2, <1>3, <1>4, <1>5, <1>6 DEF Next

(* Rows belong to the answer that they are about, tasks to answered        *)
(* queries, and verdicts to traces that are there.                         *)
THEOREM RowsLinked == Spec => []LinkInv
BY LinkInit, LinkStep, PTL DEF Spec

-----------------------------------------------------------------------------
(* Whom to blame for a query without an answer.                            *)
Able == HasEmbedder /\ HasLlm

Explained(r) ==
    /\ request[r].pc \in InFlight \cup {"answered"} => Able
    /\ request[r].pc = "failed" => \E service \in PathServices : Blamed(service)
    /\ request[r].pc = "refused" => ~Able

BlameInv ==
    /\ runner = "ready" => Able
    /\ runner \notin {"ready", "down"} => ~Able
    /\ \A r \in Requests : Explained(r)

(* Nothing is to blame at the start.                                       *)
LEMMA BlameInit == Init => BlameInv
BY DEF Init, BlameInv, Explained, NewRequest, InFlight

(* The keys and the provider are those of the setting, which is kept.      *)
LEMMA AbleKept ==
    ASSUME UNCHANGED setting
    PROVE  /\ Able' = Able
           /\ \A service : Blamed(service)' = Blamed(service)
BY DEF Able, HasEmbedder, HasLlm, Blamed

(* The rest of a query's way neither fails nor refuses it.                 *)
LEMMA LateBlame ==
    ASSUME LinkInv, BlameInv, NEW r \in Requests,
           Persist(r) \/ Respond(r) \/ Evaluate(r)
    PROVE  BlameInv'
<1>1. UNCHANGED <<setting, runner>>
  <2>1. CASE Judge(r)
        BY <2>1, JudgeSaves DEF Save
  <2> QED BY <2>1 DEF Persist, Respond, Evaluate, SaveVerdict
<1>2. ASSUME NEW s \in Requests
      PROVE  \/ request'[s].pc = request[s].pc
             \/ /\ request[s].pc \in InFlight
                /\ request'[s].pc \in {"respond", "answered"}
  <2>1. CASE Judge(r)
        BY <2>1, JudgeSaves DEF Save
  <2>2. CASE SaveVerdict(r)
        BY <2>2 DEF SaveVerdict
  <2>3. CASE Persist(r)
        BY <2>3 DEF LinkInv, Shape, NewRequest, Persist, At, InFlight
  <2>4. CASE Respond(r)
        BY <2>4 DEF LinkInv, Shape, NewRequest, Respond, At, InFlight
  <2> QED BY <2>1, <2>2, <2>3, <2>4 DEF Evaluate
<1> QED BY <1>1, <1>2, AbleKept DEF BlameInv, Explained, InFlight

(* Every step that fails a query names a service that its answer needs.    *)
LEMMA BlameStep == LinkInv /\ BlameInv /\ [Next]_vars => BlameInv'
<1> SUFFICES ASSUME LinkInv, BlameInv, [Next]_vars PROVE BlameInv'
    OBVIOUS
<1>1. CASE Startup
  <2>1. UNCHANGED <<setting, request>>
        BY <1>1 DEF Startup
  <2>2. /\ runner' = "ready" => Able
        /\ runner' \notin {"ready", "down"} => ~Able
        BY <1>1 DEF Startup, Able
  <2> QED BY <2>1, <2>2, AbleKept DEF BlameInv, Explained
<1>2. CASE Shutdown \/ Crash
  <2>1. UNCHANGED setting /\ runner' = "down"
        BY <1>2 DEF Shutdown, Crash
  <2>2. ASSUME NEW s \in Requests
        PROVE  request'[s].pc \in {request[s].pc, "dropped"}
        BY <1>2 DEF LinkInv, Shape, NewRequest, Shutdown, Crash
  <2> QED BY <2>1, <2>2, AbleKept DEF BlameInv, Explained, InFlight
<1>3. ASSUME NEW r \in Requests, Submit(r)
      PROVE  BlameInv'
  <2>1. UNCHANGED <<setting, runner>>
        BY <1>3 DEF Submit, Move
  <2> QED BY <1>3, <2>1, SubmitGoes, AbleKept
          DEF LinkInv, BlameInv, Explained, Goes, InFlight
<1>4. ASSUME NEW r \in Requests, Travels(r) \/ Breaks(r)
      PROVE  BlameInv'
  <2>1. UNCHANGED <<setting, runner>>
        BY <1>4 DEF Travels, Breaks, Goes
  <2>2. ASSUME NEW s \in Requests
        PROVE  Explained(s)'
    <3>1. CASE s # r
          BY <1>4, <2>1, <3>1, AbleKept
             DEF BlameInv, Explained, Travels, Breaks, Goes
    <3>2. CASE s = r /\ Travels(r)
          BY <2>1, <3>2, AbleKept
             DEF BlameInv, Explained, Travels, Goes, Early, InFlight
    <3>3. CASE s = r /\ Breaks(r)
          BY <2>1, <3>3, AbleKept DEF Explained, Breaks, Goes, InFlight
    <3> QED BY <1>4, <3>1, <3>2, <3>3
  <2> QED BY <2>1, <2>2, AbleKept DEF BlameInv
<1>5. ASSUME NEW r \in Requests, Step(r)
      PROVE  BlameInv'
      BY <1>4, <1>5, StepTravels, LateBlame DEF LinkInv
<1>6. ASSUME NEW r \in Requests, Evaluate(r)
      PROVE  BlameInv'
      BY <1>6, LateBlame
<1>7. CASE UNCHANGED vars
  <2>1. UNCHANGED <<setting, runner, request>>
        BY <1>7 DEF vars
  <2> QED BY <2>1, AbleKept DEF BlameInv, Explained
<1> QED BY <1>1, <1>2, <1>3, <1>5, <1>6, <1>7 DEF Next

(* Then history and judge have failed none.                                *)
LEMMA BlameImplies == BlameInv => HistoryNeverFailsAQuery
BY DEF BlameInv, Explained, Able, Blamed, HistoryNeverFailsAQuery, Detected,
       At, InFlight

(* A query fails only because of something that it needs for its answer,   *)
(* never because of its history or its evaluation; it is refused exactly   *)
(* when the keys are missing.  Code: query, persist_result, schedule_eval. *)
THEOREM HistoryIsBestEffort == Spec => []HistoryNeverFailsAQuery
<1>1. Spec => []BlameInv
      BY RowsLinked, BlameInit, BlameStep, PTL DEF Spec
<1> QED BY <1>1, BlameImplies, PTL

-----------------------------------------------------------------------------
(* A verdict, and what it says of the scores it comes with.                *)
Truthful(row) ==
    LET known == {m \in Metrics : row.scores[m] # Unscored}
    IN  /\ row \in Verdicts
        /\ (row.gate = "skip") <=> (known = {})
        /\ row.gate = "pass" => \A m \in known : row.scores[m] >= WarnBelow(m)
        /\ row.gate \in {"pass", "warn"} =>
              \A m \in known : row.scores[m] >= FailBelow(m)
        /\ row.gate \in {"warn", "fail"} =>
              \E m \in known : row.scores[m] < WarnBelow(m)
        /\ row.status # "ok" => known = {}

VerdictInv ==
    /\ setting \in Settings
    /\ DOMAIN task = Requests /\ DOMAIN scored = Requests
    /\ \A r \in Requests : /\ DOMAIN task[r] = DOMAIN NewTask
                           /\ Truthful(task[r].result)
                           /\ scored[r] # None => Truthful(scored[r])

(* One metric against its thresholds.                                      *)
LEMMA VerdictOfScore ==
    ASSUME NEW m \in Metrics, NEW score \in Nat \cup {Unscored}
    PROVE  /\ Verdict(m, score) = "skip" <=> score = Unscored
           /\ Verdict(m, score) = "pass" =>
                 score >= WarnBelow(m) /\ score >= FailBelow(m)
           /\ Verdict(m, score) = "warn" =>
                 score < WarnBelow(m) /\ score >= FailBelow(m)
           /\ Verdict(m, score) = "fail" => score < WarnBelow(m)
           /\ Verdict(m, score) \in {"skip", "pass", "warn", "fail"}
BY DEF Verdict, WarnBelow, FailBelow

(* The gate is as strict as the strictest metric: evaluate_quality_gate.   *)
LEMMA GateTruthful ==
    ASSUME NEW scores \in Scores
    PROVE  Truthful([status |-> "ok", scores |-> scores, gate |-> Gate(scores)])
<1> DEFINE V == {Verdict(m, scores[m]) : m \in Metrics}
           known == {m \in Metrics : scores[m] # Unscored}
           gate == Gate(scores)
<1>1. ASSUME NEW m \in Metrics
      PROVE  scores[m] \in Nat \cup {Unscored} /\ Verdict(m, scores[m]) \in V
      BY DEF Scores
<1>2. V = {"skip"} <=> known = {}
  <2>1. V # {}
        BY <1>1 DEF Metrics
  <2> QED BY <1>1, <2>1, VerdictOfScore
<1>3. gate = IF V = {"skip"} THEN "skip" ELSE IF "fail" \in V THEN "fail"
             ELSE IF "warn" \in V THEN "warn" ELSE "pass"
      BY DEF Gate
<1>4. gate = "pass" =>
        \A m \in known : scores[m] >= WarnBelow(m) /\ scores[m] >= FailBelow(m)
      BY <1>1, <1>3, VerdictOfScore
<1>5. gate = "warn" => \A m \in known : scores[m] >= FailBelow(m)
      BY <1>1, <1>3, VerdictOfScore
<1>6. gate \in {"warn", "fail"} => \E m \in known : scores[m] < WarnBelow(m)
  <2>1. SUFFICES ASSUME gate \in {"warn", "fail"}
                 PROVE  \E m \in known : scores[m] < WarnBelow(m)
        OBVIOUS
  <2>2. PICK m \in Metrics : Verdict(m, scores[m]) \in {"warn", "fail"}
        BY <1>3, <2>1
  <2>3. scores[m] # Unscored /\ scores[m] < WarnBelow(m)
        BY <1>1, <2>2, VerdictOfScore
  <2> QED BY <2>3
<1>7. [status |-> "ok", scores |-> scores, gate |-> gate] \in Verdicts
      BY <1>3 DEF Verdicts
<1> HIDE DEF gate, V
<1> QED BY <1>2, <1>3, <1>4, <1>5, <1>6, <1>7 DEF Truthful, gate

(* Without scores there is nothing to be wrong about.                      *)
LEMMA UnscoredTruthful ==
    /\ Truthful(NoVerdict)
    /\ Truthful([NoVerdict EXCEPT !.status = "failed"])
<1>1. NoScores \in Scores
      BY DEF NoScores, Scores
<1>2. /\ NoVerdict \in Verdicts
      /\ [NoVerdict EXCEPT !.status = "failed"] \in Verdicts
      BY <1>1 DEF NoVerdict, Verdicts
<1> QED BY <1>2 DEF Truthful, NoVerdict, NoScores

(* What the judge hands over tells the truth.                              *)
LEMMA JudgeTruthful ==
    ASSUME NEW r \in Requests, Judge(r), setting \in Settings
    PROVE  \E result : Truthful(result) /\ Save(r, result)
<1>1. ASSUME NEW scores \in RagasScores
      PROVE  Truthful([status |-> "ok", scores |-> scores, gate |-> Gate(scores)])
  <2>1. scores \in Scores
        BY SettingsAssumption DEF RagasScores
  <2> QED BY <2>1, GateTruthful
<1> QED BY <1>1, UnscoredTruthful DEF Judge

(* Every step keeps the verdicts truthful.                                 *)
LEMMA VerdictStep == VerdictInv /\ [Next]_vars => VerdictInv'
<1> SUFFICES ASSUME VerdictInv, [Next]_vars PROVE VerdictInv'
    OBVIOUS
<1>1. CASE Shutdown \/ Crash
  <2>1. UNCHANGED <<setting, scored>> /\ DOMAIN task' = Requests
        BY <1>1 DEF Shutdown, Crash, DropTasks
  <2>2. ASSUME NEW r \in Requests
        PROVE  DOMAIN task'[r] = DOMAIN NewTask /\ task'[r].result = task[r].result
        BY <1>1 DEF VerdictInv, Shutdown, Crash, DropTasks, NewTask
  <2> QED BY <2>1, <2>2 DEF VerdictInv
<1>2. ASSUME NEW r \in Requests, Judge(r)
      PROVE  VerdictInv'
  <2>1. PICK result : Truthful(result) /\ Save(r, result)
        BY <1>2, JudgeTruthful DEF VerdictInv
  <2>2. /\ UNCHANGED <<setting, scored>> /\ DOMAIN task' = Requests
        /\ task'[r].result = result /\ DOMAIN task'[r] = DOMAIN NewTask
        /\ \A s \in Requests \ {r} : task'[s] = task[s]
        BY <2>1 DEF Save, VerdictInv, NewTask
  <2> QED BY <2>1, <2>2 DEF VerdictInv
<1>3. ASSUME NEW r \in Requests, SaveVerdict(r) \/ Respond(r)
      PROVE  VerdictInv'
  <2>1. /\ UNCHANGED setting
        /\ DOMAIN task' = Requests /\ DOMAIN scored' = Requests
        /\ \A s \in Requests : /\ DOMAIN task'[s] = DOMAIN NewTask
                               /\ task'[s].result = task[s].result
                               /\ scored'[s] \in {scored[s], task[s].result}
    <3>1. CASE SaveVerdict(r)
          BY <3>1 DEF VerdictInv, SaveVerdict, NewTask
    <3>2. CASE Respond(r)
      <4>1. UNCHANGED <<setting, scored>>
            BY <3>2 DEF Respond
      <4>2. task' = [task EXCEPT ![r].pc = "judging"] \/ UNCHANGED task
            BY <3>2 DEF Respond
      <4> QED BY <4>1, <4>2 DEF VerdictInv, NewTask
    <3> QED BY <1>3, <3>1, <3>2
  <2> QED BY <2>1 DEF VerdictInv
<1>4. CASE \/ Startup \/ UNCHANGED vars
           \/ \E r \in Requests : Submit(r) \/ (Step(r) /\ ~Respond(r))
  <2>1. UNCHANGED <<setting, task, scored>>
        BY <1>4 DEF vars, Startup, Submit, Step, ReadScope, OpenAIEmbed,
           MockEmbed, DenseSearch, SparseSearch, Generate, AnthropicGenerate,
           OpenAIGenerate, MockGenerate, Persist, CallWithRetry, Embedded,
           Answered, Fails, Move
  <2> QED BY <2>1 DEF VerdictInv
<1> QED BY <1>1, <1>2, <1>3, <1>4 DEF Next, Step, Evaluate

(* A stored verdict is no better than any of its metrics, and is "skip"    *)
(* exactly when none was scored, for all scores.  Code: Evaluator,         *)
(* evaluate_quality_gate, _persist_eval.                                   *)
THEOREM VerdictIsTruthful == Spec => []VerdictTellsTheTruth
<1>1. Init => VerdictInv
      BY UnscoredTruthful DEF Init, VerdictInv, NewTask
<1>2. VerdictInv => VerdictTellsTheTruth
      BY DEF VerdictInv, VerdictTellsTheTruth, Truthful
<1> QED BY <1>1, <1>2, VerdictStep, PTL DEF Spec

-----------------------------------------------------------------------------
(* The refinement.                                                         *)

(* Initial states map to initial states of QueryService.                   *)
LEMMA PromisesInit == Init => Service!Init
BY DEF Init, Service!Init, NewRequest, Status, InFlight, Stored, At

(* A request accepted, refused or failed, or one that goes on unseen.      *)
LEMMA GoesPromised ==
    ASSUME LinkInv, NEW r \in Requests, NEW from \in Early \cup {"new"},
           NEW to \in Early \cup {"persist", "failed", "refused"},
           Goes(r, from, to), to = "refused" => from = "new",
           to = "failed" => from # "new"
    PROVE  [Service!Next]_Service!serviceVars
<1> DEFINE status == [s \in Requests |-> Status(request[s].pc)]
           status2 == [s \in Requests |-> Status(request'[s].pc)]
<1>1. /\ UNCHANGED <<record, scored>> /\ record[r] = None
      /\ \A s \in Requests : At(s, "answered")' = At(s, "answered")
      /\ \A s \in Requests : At(s, "answered") => request'[s] = request[s]
      BY DEF LinkInv, Linked, Goes, Early, At
<1>2. /\ status2 = [status EXCEPT ![r] = Status(to)]
      /\ status[r] = Status(from)
      BY DEF Goes
<1>3. /\ UNCHANGED [s \in Requests |-> Stored(record[s])]
      /\ UNCHANGED [s \in Requests |-> Stored(scored[s])]
      /\ UNCHANGED [s \in Requests |->
                      IF At(s, "answered") THEN {request[s].defects} ELSE {}]
      BY <1>1
<1>4. CASE from = "new" /\ to # "refused"
  <2>1. status[r] = "new" /\ Status(to) = "pending"
        BY <1>2, <1>4 DEF Status, InFlight, Early
  <2>2. Service!Accept(r)
        BY <1>2, <1>3, <2>1 DEF Service!Accept, Service!Become
  <2> QED BY <2>2 DEF Service!Next
<1>5. CASE to = "refused"
  <2>1. status[r] = "new" /\ Status(to) = "refused"
        BY <1>2, <1>5 DEF Status, InFlight
  <2>2. Service!Refuse(r)
        BY <1>2, <1>3, <2>1 DEF Service!Refuse, Service!Become
  <2> QED BY <2>2 DEF Service!Next
<1>6. CASE from # "new" /\ to = "failed"
  <2>1. status[r] = "pending" /\ Status(to) = "failed"
        BY <1>2, <1>6 DEF Status, InFlight, Early
  <2>2. Stored(record[r]) = {}
        BY <1>1 DEF Stored
  <2>3. Service!Fail(r)
        BY <1>2, <1>3, <2>1, <2>2 DEF Service!Fail, Service!Become
  <2> QED BY <2>3 DEF Service!Next
<1>7. CASE from # "new" /\ to \in Early \cup {"persist"}
  <2>1. UNCHANGED status
        BY <1>2, <1>7 DEF Status, InFlight, Early
  <2> QED BY <1>3, <2>1 DEF Service!serviceVars
<1> QED BY <1>4, <1>5, <1>6, <1>7

(* Writing the rows is unseen, or it is what records them.                 *)
LEMMA PersistPromised ==
    ASSUME LinkInv, NEW r \in Requests, Persist(r)
    PROVE  [Service!Next]_Service!serviceVars
<1>1. /\ request[r].pc = "persist" /\ request'[r].pc = "respond"
      /\ \A s \in Requests \ {r} : request'[s] = request[s]
      /\ UNCHANGED scored
      BY DEF Persist, At, LinkInv, Shape, NewRequest
<1>2. /\ UNCHANGED [s \in Requests |-> Status(request[s].pc)]
      /\ UNCHANGED [s \in Requests |-> Stored(scored[s])]
      /\ UNCHANGED [s \in Requests |->
                      IF At(s, "answered") THEN {request[s].defects} ELSE {}]
      BY <1>1 DEF Status, InFlight, At
<1>3. Status(request[r].pc) = "pending" /\ record[r] = None
      BY <1>1 DEF LinkInv, Linked, Status, InFlight
<1>4. \/ UNCHANGED record
      \/ record' = [record EXCEPT ![r] = request[r].defects]
      BY DEF Persist
<1>5. CASE record'[r] = None
  <2>1. \A s \in Requests : record'[s] = record[s]
        BY <1>3, <1>4, <1>5 DEF LinkInv, Shape
  <2>2. UNCHANGED [s \in Requests |-> Stored(record[s])]
        BY <2>1
  <2> QED BY <1>2, <2>2 DEF Service!serviceVars
<1>6. CASE record'[r] # None
  <2> DEFINE rows  == [s \in Requests |-> Stored(record[s])]
             rows2 == [s \in Requests |-> Stored(record'[s])]
  <2>1. rows[r] = {} /\ rows2[r] # {}
        BY <1>3, <1>6 DEF Stored
  <2>2. rows2 = [rows EXCEPT ![r] = rows2[r]]
        BY <1>4 DEF LinkInv, Shape
  <2>3. Service!Set(rows, r, rows2)
        BY <2>1, <2>2 DEF Service!Set
  <2>4. Service!Record(r)
        BY <1>2, <1>3, <2>3 DEF Service!Record
  <2> QED BY <2>4 DEF Service!Next
<1> QED BY <1>5, <1>6

(* The answer tells the defects that were recorded, if they were.          *)
LEMMA RespondPromised ==
    ASSUME LinkInv, NEW r \in Requests, Respond(r)
    PROVE  [Service!Next]_Service!serviceVars
<1> DEFINE status   == [s \in Requests |-> Status(request[s].pc)]
           status2  == [s \in Requests |-> Status(request'[s].pc)]
           replies  == [s \in Requests |->
                          IF At(s, "answered") THEN {request[s].defects} ELSE {}]
           replies2 == [s \in Requests |->
                          IF At(s, "answered")' THEN {request'[s].defects} ELSE {}]
<1>1. /\ request[r].pc = "respond" /\ request'[r].pc = "answered"
      /\ request'[r].defects = request[r].defects
      /\ \A s \in Requests \ {r} : request'[s] = request[s]
      /\ UNCHANGED <<record, scored>>
      BY DEF Respond, At, LinkInv, Shape, NewRequest
<1>2. /\ UNCHANGED [s \in Requests |-> Stored(record[s])]
      /\ UNCHANGED [s \in Requests |-> Stored(scored[s])]
      BY <1>1
<1>3. status[r] = "pending" /\ status2 = [status EXCEPT ![r] = "answered"]
      BY <1>1 DEF Status, InFlight
<1>4. replies[r] = {} /\ replies2[r] = {request[r].defects}
      BY <1>1 DEF At
<1>5. replies2 = [replies EXCEPT ![r] = replies2[r]]
      BY <1>1 DEF At
<1>6. Stored(record[r]) \in {{}, replies2[r]}
      BY <1>4 DEF LinkInv, Linked, Stored
<1>7. Service!Become(r, "pending", "answered")
      BY <1>3 DEF Service!Become
<1>8. Service!Set(replies, r, replies2)
      BY <1>4, <1>5 DEF Service!Set
<1>9. Service!Answer(r)
      BY <1>2, <1>6, <1>7, <1>8 DEF Service!Answer
<1> QED BY <1>9 DEF Service!Next

(* A verdict is attached, to a trace that is there, or nothing is seen.    *)
LEMMA EvaluatePromised ==
    ASSUME LinkInv, NEW r \in Requests, Evaluate(r)
    PROVE  [Service!Next]_Service!serviceVars
<1>1. UNCHANGED <<request, record>>
  <2>1. CASE Judge(r)
        BY <2>1, JudgeSaves DEF Save
  <2> QED BY <2>1 DEF Evaluate, SaveVerdict
<1>2. /\ UNCHANGED [s \in Requests |-> Status(request[s].pc)]
      /\ UNCHANGED [s \in Requests |-> Stored(record[s])]
      /\ UNCHANGED [s \in Requests |->
                      IF At(s, "answered") THEN {request[s].defects} ELSE {}]
      BY <1>1 DEF At
<1>3. ASSUME UNCHANGED scored
      PROVE  [Service!Next]_Service!serviceVars
  <2>1. UNCHANGED [s \in Requests |-> Stored(scored[s])]
        BY <1>3
  <2> QED BY <1>2, <2>1 DEF Service!serviceVars
<1>4. CASE Judge(r)
  <2>1. UNCHANGED scored
        BY <1>4, JudgeSaves DEF Save
  <2> QED BY <1>3, <2>1
<1>5. CASE SaveVerdict(r)
  <2>1. task[r].pc = "saving" /\ scored[r] = None /\ request[r].pc = "answered"
        BY <1>5 DEF SaveVerdict, LinkInv, Linked
  <2>2. \/ UNCHANGED scored
        \/ record[r] # None /\ scored' = [scored EXCEPT ![r] = task[r].result]
        BY <1>5 DEF SaveVerdict
  <2>3. CASE scored'[r] = None
    <3>1. \A s \in Requests : scored'[s] = scored[s]
          BY <2>1, <2>2, <2>3 DEF LinkInv, Shape
    <3>2. UNCHANGED [s \in Requests |-> Stored(scored[s])]
          BY <3>1
    <3> QED BY <1>2, <3>2 DEF Service!serviceVars
  <2>4. CASE scored'[r] # None
    <3> DEFINE rows  == [s \in Requests |-> Stored(scored[s])]
               rows2 == [s \in Requests |-> Stored(scored'[s])]
    <3>1. rows[r] = {} /\ rows2[r] # {}
          BY <2>1, <2>4 DEF Stored
    <3>2. rows2 = [rows EXCEPT ![r] = rows2[r]]
          BY <2>2 DEF LinkInv, Shape
    <3>3. Service!Set(rows, r, rows2)
          BY <3>1, <3>2 DEF Service!Set
    <3>4. Status(request[r].pc) = "answered" /\ Stored(record[r]) # {}
          BY <2>1, <2>2, <2>4 DEF Status, InFlight, Stored
    <3>5. Service!Attach(r)
          BY <1>2, <3>3, <3>4 DEF Service!Attach
    <3> QED BY <3>5 DEF Service!Next
  <2> QED BY <2>3, <2>4
<1> QED BY <1>4, <1>5 DEF Evaluate

(* The end of the process drops who waits for an answer, nothing else.     *)
LEMMA CrashPromised ==
    ASSUME LinkInv, Crash
    PROVE  Service!Next
<1>1. UNCHANGED <<record, scored>>
      BY DEF Crash
<1>2. ASSUME NEW s \in Requests
      PROVE  \/ /\ request[s].pc \in InFlight
                /\ request'[s].pc = "dropped"
             \/ /\ request[s].pc \notin InFlight
                /\ request'[s] = request[s]
      BY DEF Crash, LinkInv, Shape, NewRequest
<1>3. /\ UNCHANGED [s \in Requests |-> Stored(record[s])]
      /\ UNCHANGED [s \in Requests |-> Stored(scored[s])]
      BY <1>1
<1>4. UNCHANGED [s \in Requests |->
                   IF At(s, "answered") THEN {request[s].defects} ELSE {}]
      BY <1>2 DEF At, InFlight
<1>5. ASSUME NEW s \in Requests
      PROVE  Status(request[s].pc)' =
                IF Status(request[s].pc) = "pending" THEN "dropped"
                                                     ELSE Status(request[s].pc)
      BY <1>2 DEF LinkInv, Linked, Status, InFlight, Final
<1>6. Service!Stop
      BY <1>3, <1>4, <1>5 DEF Service!Stop
<1> QED BY <1>6 DEF Service!Next

(* Every step maps to a step of QueryService or to a stutter.              *)
LEMMA PromisesStep ==
    LinkInv /\ [Next]_vars => [Service!Next]_Service!serviceVars
<1> SUFFICES ASSUME LinkInv, [Next]_vars
             PROVE  [Service!Next]_Service!serviceVars
    OBVIOUS
<1>1. CASE UNCHANGED <<request, record, scored>>
      BY <1>1 DEF Service!serviceVars, At
<1>2. CASE Startup \/ Shutdown \/ UNCHANGED vars
      BY <1>1, <1>2 DEF Startup, Shutdown, vars
<1>3. CASE Crash
      BY <1>3, CrashPromised
<1>4. ASSUME NEW r \in Requests, Submit(r)
      PROVE  [Service!Next]_Service!serviceVars
      BY <1>4, SubmitGoes, GoesPromised DEF LinkInv, Early
<1>5. ASSUME NEW r \in Requests, Step(r)
      PROVE  [Service!Next]_Service!serviceVars
  <2>1. CASE Travels(r) \/ Breaks(r)
        BY <2>1, GoesPromised DEF Travels, Breaks, Early
  <2> QED BY <1>5, <2>1, StepTravels, PersistPromised, RespondPromised DEF LinkInv
<1>6. ASSUME NEW r \in Requests, Evaluate(r)
      PROVE  [Service!Next]_Service!serviceVars
      BY <1>6, EvaluatePromised
<1> QED BY <1>2, <1>3, <1>4, <1>5, <1>6 DEF Next

(* The pipeline, with its retries, failures and stops, implements the      *)
(* abstract query service.  Code: the whole query path.                    *)
THEOREM PromisesKept == Spec => KeepsItsPromises
BY RowsLinked, PromisesInit, PromisesStep, PTL
   DEF Spec, KeepsItsPromises, Service!Spec

-----------------------------------------------------------------------------
(* A request on its way.                                                   *)

Answering == {"generate", "persist", "respond", "answered"}
Telling   == {"persist", "respond", "answered"}

(* What its locals have to do with each other.                             *)
Ranked(q) ==
    /\ q.topK \in Nat \ {0} /\ IsRanking(q.sparse)
    /\ q.fused = Fuse(q.dense, q.sparse, Candidates(q.topK))
    /\ \E asked \in BOOLEAN \cup {None}, model \in BOOLEAN :
         q.hits \in Reranked(q.fused, asked, model, q.topK)
    /\ q.ctx = Assemble(q.hits)

(* What the defects have been derived from.                                *)
Checked(q) == IsFiniteSet(q.answer) /\ q.defects = Detect(q.hits, q.ctx, q.answer)

(* All that is known of the locals of a request, by its stage.             *)
Sound(q) ==
    /\ q.pc \in {"new"} \cup InFlight \cup Final
    /\ q.attempt \in 1..MaxAttempts
    /\ IsRanking(q.dense)
    /\ InSeq(q.fused, Hit) /\ InSeq(q.hits, Hit) /\ InSeq(q.defects, Defects)
    /\ q.pc \in Answering => Ranked(q)
    /\ q.pc \in Telling => Checked(q)

(* The invariant of the path: it holds of every request on its own.        *)
PathInv ==
    /\ runner \in {"down", "ready", "embedder-unavailable", "llm-unavailable"}
    /\ starts \in 0..MaxStarts
    /\ \A r \in Requests :
         /\ Sound(request[r])
         /\ task[r].pc \in {"none", "judging", "saving", "ended", "dropped"}

(* Fusion is always asked for one candidate at least.                      *)
LEMMA CandidatesAre ==
    ASSUME NEW k \in Nat \ {0} PROVE Candidates(k) \in Nat \ {0}
<1>1. PICK w \in Nat, p \in Nat : w = Widening /\ p = Pool /\ p # 0
      BY PipelineAssumption
<1>2. PICK m : m = w * k
      OBVIOUS
<1>3. m \in Nat
      BY <1>2
<1>4. Candidates(k) = IF m < p THEN p ELSE m
      BY <1>1, <1>2 DEF Candidates
<1> QED BY <1>1, <1>3, <1>4

(* Fusion and what follows leave a request in order.                       *)
LEMMA RankedHits ==
    ASSUME NEW q, IsRanking(q.dense), Ranked(q)
    PROVE  /\ IsFusion(q.fused, q.dense, q.sparse, Candidates(q.topK))
           /\ IsSelection(q.hits, q.fused)
           /\ InSeq(q.fused, Hit) /\ InSeq(q.hits, Hit)
<1>1. PICK n \in Nat \ {0} : n = Candidates(q.topK)
      BY CandidatesAre DEF Ranked
<1>2. PICK dense, sparse, fused, hits :
        dense = q.dense /\ sparse = q.sparse /\ fused = q.fused /\ hits = q.hits
      OBVIOUS
<1>3. IsRanking(dense) /\ IsRanking(sparse) /\ fused = Fuse(dense, sparse, n)
      BY <1>1, <1>2 DEF Ranked
<1>4. IsFusion(fused, dense, sparse, n)
      BY <1>3, FuseIs
<1>5. fused \in Seq(Hit) /\ Distinct(fused)
      BY <1>4 DEF IsFusion
<1>6. PICK asked \in BOOLEAN \cup {None}, model \in BOOLEAN, k \in Nat \ {0} :
        hits \in Reranked(fused, asked, model, k)
      BY <1>2 DEF Ranked
<1>7. IsSelection(hits, fused)
      BY <1>5, <1>6, RerankedIs
<1>8. \A list \in Seq(Hit) : InSeq(list, Hit)
      BY DEF InSeq, ToSet
<1>9. hits \in Seq(Hit)
      BY <1>7 DEF IsSelection
<1> QED BY <1>1, <1>2, <1>4, <1>5, <1>7, <1>8, <1>9

(* A step that leaves the lists alone and leads no further than before.    *)
LEMMA SoundKept ==
    ASSUME NEW q, NEW p, Sound(q), p.attempt \in 1..MaxAttempts,
           p.topK = q.topK, p.dense = q.dense, p.sparse = q.sparse,
           p.fused = q.fused, p.hits = q.hits, p.ctx = q.ctx,
           p.answer = q.answer, p.defects = q.defects,
           p.pc \in {"new"} \cup InFlight \cup Final,
           p.pc \in Answering => q.pc \in Answering,
           p.pc \in Telling => q.pc \in Telling
    PROVE  Sound(p)
BY DEF Sound, Ranked, Checked

(* A step of one request needs to be right for that one only.              *)
LEMMA MoveSound ==
    ASSUME Shape, PathInv, NEW r \in Requests, NEW state, Move(r, state), Sound(state)
    PROVE  PathInv'
<1>1. /\ request' = [request EXCEPT ![r] = state]
      /\ UNCHANGED <<runner, starts, task>>
      BY DEF Move
<1>2. \A s \in Requests : request'[s] = IF s = r THEN state ELSE request[s]
      BY <1>1 DEF Shape
<1>3. \A s \in Requests : Sound(request'[s])
      BY <1>2 DEF PathInv
<1> QED BY <1>1, <1>3 DEF PathInv

(* A change of stage that claims nothing new.                              *)
LEMMA StageSound ==
    ASSUME Shape, PathInv, NEW r \in Requests, NEW pc,
           pc \in {"new"} \cup InFlight \cup Final,
           pc \in Answering => request[r].pc \in Answering,
           pc \in Telling => request[r].pc \in Telling
    PROVE  Sound([request[r] EXCEPT !.pc = pc])
<1>1. PICK q : q = request[r] /\ DOMAIN q = DOMAIN NewRequest /\ Sound(q)
      BY DEF Shape, PathInv
<1>2. PICK state : state = [q EXCEPT !.pc = pc]
      OBVIOUS
<1>3. /\ state.pc = pc /\ state.attempt = q.attempt
      /\ state.topK = q.topK /\ state.dense = q.dense /\ state.sparse = q.sparse
      /\ state.fused = q.fused /\ state.hits = q.hits /\ state.ctx = q.ctx
      /\ state.answer = q.answer /\ state.defects = q.defects
      BY <1>1, <1>2 DEF NewRequest
<1>4. /\ q.attempt \in 1..MaxAttempts
      /\ pc \in Answering => q.pc \in Answering
      /\ pc \in Telling => q.pc \in Telling
      BY <1>1 DEF Sound
<1>5. Sound(state)
      BY <1>1, <1>3, <1>4, SoundKept
<1> QED BY <1>1, <1>2, <1>5

(* A query that fails claims nothing.                                      *)
LEMMA FailSound ==
    ASSUME Shape, PathInv, NEW r \in Requests, NEW service, Fails(r, service)
    PROVE  PathInv'
<1>1. Sound([request[r] EXCEPT !.pc = "failed"])
      BY StageSound DEF Final, Answering, Telling
<1> QED BY <1>1, MoveSound DEF Fails

(* A retried call either does its work, or fails, or counts an attempt     *)
(* that is still among those allowed.                                      *)
LEMMA RetrySound ==
    ASSUME Shape, PathInv, NEW r \in Requests, NEW service,
           NEW done, done => PathInv', CallWithRetry(r, service, done)
    PROVE  PathInv'
<1>1. CASE done
      BY <1>1
<1>2. CASE Fails(r, service)
      BY <1>2, FailSound
<1>3. CASE /\ request[r].attempt < MaxAttempts
           /\ Move(r, [request[r] EXCEPT !.attempt = @ + 1])
  <2>1. PICK state : state = [request[r] EXCEPT !.attempt = request[r].attempt + 1]
        OBVIOUS
  <2>2. Move(r, state)
        BY <1>3, <2>1
  <2>3. PICK q : q = request[r] /\ DOMAIN q = DOMAIN NewRequest /\ Sound(q)
        BY DEF Shape, PathInv
  <2>4. /\ state.pc = q.pc /\ state.attempt = q.attempt + 1
        /\ state.topK = q.topK /\ state.dense = q.dense /\ state.sparse = q.sparse
        /\ state.fused = q.fused /\ state.hits = q.hits /\ state.ctx = q.ctx
        /\ state.answer = q.answer /\ state.defects = q.defects
        BY <2>1, <2>3 DEF NewRequest
  <2>5. q.attempt + 1 \in 1..MaxAttempts
    <3>1. q.attempt \in 1..MaxAttempts /\ q.attempt < MaxAttempts
          BY <1>3, <2>3 DEF Sound
    <3> QED BY <3>1, PipelineAssumption
  <2>6. q.pc \in {"new"} \cup InFlight \cup Final
        BY <2>3 DEF Sound
  <2>7. Sound(state)
        BY <2>3, <2>4, <2>5, <2>6, SoundKept
  <2> QED BY <2>2, <2>7, MoveSound
<1> QED BY <1>1, <1>2, <1>3 DEF CallWithRetry

(* The model's answer, with its defects.                                   *)
LEMMA AnswerSound ==
    ASSUME Shape, PathInv, setting \in Settings,
           NEW r \in Requests, At(r, "generate"), Answered(r)
    PROVE  PathInv'
<1>1. PICK answer \in setting.answers :
        Move(r, [request[r] EXCEPT
                   !.pc = "persist", !.answer = answer,
                   !.defects = Detect(request[r].hits, request[r].ctx, answer)])
      BY DEF Answered
<1>2. PICK q : q = request[r] /\ DOMAIN q = DOMAIN NewRequest /\ Sound(q)
               /\ q.pc = "generate"
      BY DEF Shape, PathInv, At
<1>3. PICK defects : defects = Detect(q.hits, q.ctx, answer)
      OBVIOUS
<1>4. PICK state : state = [q EXCEPT !.pc = "persist", !.answer = answer,
                                     !.defects = defects]
      OBVIOUS
<1>5. Move(r, state)
      BY <1>1, <1>2, <1>3, <1>4
<1>6. /\ state.pc = "persist" /\ state.attempt = q.attempt
      /\ state.topK = q.topK /\ state.dense = q.dense /\ state.sparse = q.sparse
      /\ state.fused = q.fused /\ state.hits = q.hits /\ state.ctx = q.ctx
      /\ state.answer = answer /\ state.defects = defects
      BY <1>2, <1>4 DEF NewRequest
<1>7. IsFiniteSet(answer)
      BY SettingsAssumption
<1>8. InSeq(defects, Defects)
      BY <1>3, DetectIs DEF InSeq, ToSet
<1>9. Ranked(q) /\ IsRanking(q.dense) /\ q.attempt \in 1..MaxAttempts
      /\ InSeq(q.fused, Hit) /\ InSeq(q.hits, Hit)
      BY <1>2 DEF Sound, Answering
<1>10. Ranked(state)
       BY <1>6, <1>9 DEF Ranked
<1>11. Checked(state)
       BY <1>3, <1>6, <1>7 DEF Checked
<1>12. Sound(state)
       BY <1>6, <1>8, <1>9, <1>10, <1>11 DEF Sound, InFlight
<1> QED BY <1>5, <1>12, MoveSound

(* The searches and all that follows them.                                 *)
LEMMA SearchSound ==
    ASSUME Shape, PathInv, setting \in Settings,
           NEW r \in Requests, DenseSearch(r) \/ SparseSearch(r)
    PROVE  PathInv'
<1>1. PICK q : q = request[r] /\ DOMAIN q = DOMAIN NewRequest /\ Sound(q)
      BY DEF Shape, PathInv
<1>2. ASSUME NEW service, Fails(r, service) PROVE PathInv'
      BY <1>2, FailSound
<1>3. ASSUME NEW list \in setting.dense,
             Move(r, [request[r] EXCEPT !.pc = "sparse", !.dense = list])
      PROVE  PathInv'
  <2>1. PICK state : state = [q EXCEPT !.pc = "sparse", !.dense = list]
        OBVIOUS
  <2>2. Move(r, state)
        BY <1>1, <1>3, <2>1
  <2>3. /\ state.pc = "sparse" /\ state.attempt = q.attempt /\ state.dense = list
        /\ state.fused = q.fused /\ state.hits = q.hits /\ state.defects = q.defects
        BY <1>1, <2>1 DEF NewRequest
  <2>4. IsRanking(list)
        BY SettingsAssumption
  <2>5. Sound(state)
        BY <1>1, <2>3, <2>4 DEF Sound, InFlight, Answering, Telling
  <2> QED BY <2>2, <2>5, MoveSound
<1>4. ASSUME NEW list \in setting.sparse, NEW asked \in setting.asked,
             NEW k \in setting.topK,
             NEW fused, fused = Fuse(request[r].dense, list, Candidates(k)),
             NEW hits \in Reranked(fused, asked, setting.reranker, k),
             Move(r, [request[r] EXCEPT
                        !.pc = "generate", !.topK = k, !.sparse = list,
                        !.fused = fused, !.hits = hits, !.ctx = Assemble(hits)])
      PROVE  PathInv'
  <2>1. PICK ctx : ctx = Assemble(hits)
        OBVIOUS
  <2>2. PICK state : state = [q EXCEPT !.pc = "generate", !.topK = k,
                                !.sparse = list, !.fused = fused,
                                !.hits = hits, !.ctx = ctx]
        OBVIOUS
  <2>3. Move(r, state)
        BY <1>1, <1>4, <2>1, <2>2
  <2>4. /\ state.pc = "generate" /\ state.attempt = q.attempt /\ state.topK = k
        /\ state.dense = q.dense /\ state.sparse = list /\ state.fused = fused
        /\ state.hits = hits /\ state.ctx = ctx /\ state.defects = q.defects
        BY <1>1, <2>2 DEF NewRequest
  <2>5. /\ IsRanking(list) /\ k \in Nat \ {0}
        /\ asked \in BOOLEAN \cup {None} /\ setting.reranker \in BOOLEAN
        BY SettingsAssumption
  <2>6. Ranked(state)
        BY <1>1, <1>4, <2>1, <2>4, <2>5 DEF Ranked
  <2>7. /\ IsRanking(q.dense) /\ q.attempt \in 1..MaxAttempts
        /\ InSeq(q.defects, Defects)
        BY <1>1 DEF Sound
  <2>8. InSeq(state.fused, Hit) /\ InSeq(state.hits, Hit)
        BY <2>4, <2>6, <2>7, RankedHits
  <2>9. Sound(state)
        BY <2>4, <2>6, <2>7, <2>8 DEF Sound, InFlight, Telling
  <2> QED BY <2>3, <2>9, MoveSound
<1> QED BY <1>2, <1>3, <1>4 DEF DenseSearch, SparseSearch

(* The first steps of a request.                                           *)
LEMMA EmbedSound ==
    ASSUME Shape, PathInv, NEW r \in Requests,
           Submit(r) \/ ReadScope(r) \/ OpenAIEmbed(r) \/ MockEmbed(r)
    PROVE  PathInv'
<1>1. /\ Sound([request[r] EXCEPT !.pc = "scope"])
      /\ Sound([request[r] EXCEPT !.pc = "refused"])
      /\ Sound([request[r] EXCEPT !.pc = "embed"])
      BY StageSound DEF InFlight, Final, Answering, Telling
<1>2. CASE Submit(r)
  <2>1. PICK pc \in {"scope", "refused"} : Move(r, [request[r] EXCEPT !.pc = pc])
        BY <1>2 DEF Submit
  <2> QED BY <1>1, <2>1, MoveSound
<1>3. CASE ReadScope(r)
      BY <1>1, <1>3, MoveSound, FailSound DEF ReadScope
<1>4. ASSUME Embedded(r) PROVE PathInv'
  <2>1. PICK q : q = request[r] /\ DOMAIN q = DOMAIN NewRequest /\ Sound(q)
        BY DEF Shape, PathInv
  <2>2. PICK state : state = [q EXCEPT !.pc = "dense", !.attempt = 1]
        OBVIOUS
  <2>3. Move(r, state)
        BY <1>4, <2>1, <2>2 DEF Embedded
  <2>4. /\ state.pc = "dense" /\ state.attempt = 1
        /\ state.topK = q.topK /\ state.dense = q.dense /\ state.sparse = q.sparse
        /\ state.fused = q.fused /\ state.hits = q.hits /\ state.ctx = q.ctx
        /\ state.answer = q.answer /\ state.defects = q.defects
        BY <2>1, <2>2 DEF NewRequest
  <2>5. 1 \in 1..MaxAttempts
        BY PipelineAssumption
  <2>6. Sound(state)
        BY <2>1, <2>4, <2>5, SoundKept DEF InFlight, Answering, Telling
  <2> QED BY <2>3, <2>6, MoveSound
<1>5. CASE OpenAIEmbed(r)
      BY <1>4, <1>5, RetrySound DEF OpenAIEmbed
<1>6. CASE MockEmbed(r)
      BY <1>4, <1>6 DEF MockEmbed
<1> QED BY <1>2, <1>3, <1>5, <1>6

(* The answer, from any of the providers, and the defects with it.         *)
LEMMA GenerateSound ==
    ASSUME Shape, PathInv, setting \in Settings, NEW r \in Requests, Generate(r)
    PROVE  PathInv'
<1>1. At(r, "generate")
      BY DEF Generate, AnthropicGenerate, OpenAIGenerate, MockGenerate
<1>2. Answered(r) => PathInv'
      BY <1>1, AnswerSound
<1>3. CallWithRetry(r, "llm", Answered(r)) => PathInv'
      BY <1>2, RetrySound
<1> QED BY <1>2, <1>3 DEF Generate, AnthropicGenerate, OpenAIGenerate, MockGenerate

(* The last ones, and the task.                                            *)
LEMMA EndSound ==
    ASSUME Shape, PathInv, NEW r \in Requests, Persist(r) \/ Respond(r) \/ Evaluate(r)
    PROVE  PathInv'
<1>1. ASSUME NEW pc, pc \in {"respond", "answered"}, request[r].pc \in Telling,
             request' = [request EXCEPT ![r].pc = pc]
      PROVE  \A s \in Requests : Sound(request'[s])
  <2>1. Sound([request[r] EXCEPT !.pc = pc])
    <3>1. pc \in InFlight \cup Final /\ request[r].pc \in Answering
          BY <1>1 DEF InFlight, Final, Answering, Telling
    <3> QED BY <1>1, <3>1, StageSound
  <2>2. \A s \in Requests : request'[s] = IF s = r THEN [request[r] EXCEPT !.pc = pc]
                                                   ELSE request[s]
        BY <1>1 DEF Shape
  <2> QED BY <2>1, <2>2 DEF PathInv
<1>2. CASE Persist(r)
  <2>1. /\ request' = [request EXCEPT ![r].pc = "respond"]
        /\ request[r].pc \in Telling /\ UNCHANGED <<runner, starts, task>>
        BY <1>2 DEF Persist, At, Telling
  <2>2. \A s \in Requests : Sound(request'[s])
        BY <1>1, <2>1
  <2> QED BY <2>1, <2>2 DEF PathInv
<1>3. CASE Respond(r)
  <2>1. /\ request' = [request EXCEPT ![r].pc = "answered"]
        /\ request[r].pc \in Telling /\ UNCHANGED <<runner, starts>>
        /\ task' \in {task, [task EXCEPT ![r].pc = "judging"]}
        BY <1>3 DEF Respond, At, Telling
  <2>2. \A s \in Requests : Sound(request'[s])
        BY <1>1, <2>1
  <2>3. \A s \in Requests : task'[s].pc \in {task[s].pc, "judging"}
        BY <2>1 DEF Shape, NewTask
  <2> QED BY <2>1, <2>2, <2>3 DEF PathInv
<1>4. CASE Evaluate(r)
  <2>1. UNCHANGED <<runner, starts, request>>
        BY <1>4 DEF Evaluate, Judge, Save, SaveVerdict
  <2>2. \A s \in Requests : task'[s].pc \in {task[s].pc, "saving", "ended"}
    <3>1. CASE Judge(r)
      <4>1. PICK result : task' = [task EXCEPT ![r] = [pc |-> "saving", result |-> result]]
            BY <3>1 DEF Judge, Save
      <4> QED BY <4>1 DEF Shape
    <3>2. CASE SaveVerdict(r)
      <4>1. task' = [task EXCEPT ![r].pc = "ended"]
            BY <3>2 DEF SaveVerdict
      <4> QED BY <4>1 DEF Shape, NewTask
    <3> QED BY <1>4, <3>1, <3>2 DEF Evaluate
  <2> QED BY <2>1, <2>2 DEF PathInv
<1> QED BY <1>2, <1>3, <1>4

(* Starting and stopping.                                                  *)
LEMMA ProcessSound ==
    ASSUME Shape, PathInv, Startup \/ Shutdown \/ Crash
    PROVE  PathInv'
<1>1. CASE Startup
  <2>1. starts' \in 0..MaxStarts
    <3>1. starts \in 0..MaxStarts /\ starts < MaxStarts /\ starts' = starts + 1
          BY <1>1 DEF Startup, PathInv
    <3> QED BY <3>1, PipelineAssumption
  <2> QED BY <1>1, <2>1 DEF Startup, PathInv
<1>2. ASSUME DropTasks
      PROVE  \A s \in Requests : task'[s].pc \in {task[s].pc, "dropped"}
      BY <1>2 DEF DropTasks, Shape, NewTask
<1>3. CASE Shutdown
      BY <1>2, <1>3 DEF Shutdown, PathInv
<1>4. CASE Crash
  <2>1. ASSUME NEW s \in Requests PROVE Sound(request'[s])
    <3>1. Sound([request[s] EXCEPT !.pc = "dropped"])
          BY StageSound DEF Final, Answering, Telling
    <3>2. request'[s] \in {request[s], [request[s] EXCEPT !.pc = "dropped"]}
          BY <1>4 DEF Crash
    <3> QED BY <3>1, <3>2 DEF PathInv
  <2> QED BY <1>2, <1>4, <2>1 DEF Crash, PathInv
<1> QED BY <1>1, <1>3, <1>4

(* Every step keeps the invariant of the path.                             *)
LEMMA PathStep == LinkInv /\ VerdictInv /\ PathInv /\ [Next]_vars => PathInv'
<1> SUFFICES ASSUME LinkInv, VerdictInv, PathInv, [Next]_vars PROVE PathInv'
    OBVIOUS
<1>1. Shape /\ setting \in Settings
      BY DEF LinkInv, VerdictInv
<1>2. CASE Startup \/ Shutdown \/ Crash
      BY <1>1, <1>2, ProcessSound
<1>3. ASSUME NEW r \in Requests, Submit(r) \/ Step(r) \/ Evaluate(r)
      PROVE  PathInv'
      BY <1>1, <1>3, EmbedSound, SearchSound, GenerateSound, EndSound DEF Step
<1>4. CASE UNCHANGED vars
      BY <1>4 DEF vars, PathInv
<1> QED BY <1>2, <1>3, <1>4 DEF Next

(* A request that has not been sent has empty lists, which are in order.   *)
LEMMA PathInit == Init => PathInv
<1> SUFFICES ASSUME Init PROVE PathInv
    OBVIOUS
<1>1. Sound(NewRequest)
  <2>1. /\ NewRequest.pc = "new" /\ NewRequest.attempt = 1
        /\ NewRequest.dense = <<>> /\ NewRequest.fused = <<>>
        /\ NewRequest.hits = <<>> /\ NewRequest.defects = <<>>
        BY DEF NewRequest
  <2>2. \A S : InSeq(<<>>, S)
        BY DEF InSeq, ToSet
  <2>3. IsRanking(<<>>)
    <3>1. DOMAIN <<>> = {} /\ Len(<<>>) = 0
          OBVIOUS
    <3>2. 0 <= PerPath
          BY RankingAssumption
    <3>3. <<>> \in Seq([chunk : Chunks, score : Nat])
          BY EmptySeq
    <3> QED BY <3>1, <3>2, <3>3 DEF IsRanking
  <2>4. 1 \in 1..MaxAttempts
        BY PipelineAssumption
  <2> QED BY <2>1, <2>2, <2>3, <2>4 DEF Sound, Answering, Telling
<1>2. 0 \in 0..MaxStarts
      BY PipelineAssumption
<1> QED BY <1>1, <1>2 DEF Init, PathInv, NewTask

(* What is known of every request, its rows and its task, at any time.     *)
THEOREM PathSound == Spec => [](LinkInv /\ VerdictInv /\ PathInv)
<1>1. Init => VerdictInv
      BY UnscoredTruthful DEF Init, VerdictInv, NewTask
<1> QED BY <1>1, LinkInit, LinkStep, VerdictStep, PathInit, PathStep, PTL DEF Spec

(* The state stays in its types, for any settings: no hit or defect is     *)
(* made up, no call is attempted more often than configured, whatever is   *)
(* stored as a verdict is one.                                             *)
THEOREM PipelineTypeOK == Spec => []TypeOK
<1>1. LinkInv /\ VerdictInv /\ PathInv => TypeOK
  <2> SUFFICES ASSUME LinkInv, VerdictInv, PathInv PROVE TypeOK
      OBVIOUS
  <2>1. ASSUME NEW r \in Requests
        PROVE  /\ task[r].result \in Verdicts
               /\ scored[r] \in Verdicts \cup {None}
        BY DEF VerdictInv, Truthful
  <2>2. ASSUME NEW r \in Requests
        PROVE  /\ request[r].pc \in {"new"} \cup InFlight \cup Final
               /\ request[r].attempt \in 1..MaxAttempts
               /\ InSeq(request[r].fused, Hit) /\ InSeq(request[r].hits, Hit)
               /\ InSeq(request[r].defects, Defects)
        BY DEF PathInv, Sound
  <2> QED BY <2>1, <2>2 DEF TypeOK, PathInv, VerdictInv
<1> QED BY <1>1, PathSound, PTL

(* Fusion ranks as it should, for every pair of lists that the searches    *)
(* may return, up to their limit, and for every constant that makes two    *)
(* terms outweigh any single one.  Code: HybridRetriever._fuse.            *)
THEOREM FusionIsFair == Spec => []FusionRespectsRanks
<1>1. ASSUME PathInv, NEW r \in Requests, Searched(r)
      PROVE  LET dense  == request[r].dense
                 sparse == request[r].sparse
                 fused  == request[r].fused
                 both   == ChunksOf(dense) \cap ChunksOf(sparse)
                 found  == ChunksOf(dense) \cup ChunksOf(sparse)
                 room   == Candidates(request[r].topK)
                 Beats(a, b) ==
                     \/ a \in both /\ b \notin both
                     \/ \A list \in {dense, sparse} : b \in ChunksOf(list) =>
                           a \in ChunksOf(list) /\ RankIn(list, a) < RankIn(list, b)
             IN  /\ ChunksOf(fused) \subseteq found
                 /\ Len(fused) = Cardinality(ChunksOf(fused))
                 /\ Len(fused) = room \/ (ChunksOf(fused) = found /\ Len(fused) < room)
                 /\ \A i, j \in DOMAIN fused :
                       i < j => ~Beats(fused[j].chunk, fused[i].chunk)
                 /\ \A c \in found \ ChunksOf(fused), i \in DOMAIN fused :
                       ~Beats(c, fused[i].chunk)
                 /\ \A i \in DOMAIN fused :
                       /\ fused[i].dense  = ScoreIn(dense, fused[i].chunk)
                       /\ fused[i].sparse = ScoreIn(sparse, fused[i].chunk)
  <2>1. PICK dense, sparse, fused, room :
          /\ dense = request[r].dense /\ sparse = request[r].sparse
          /\ fused = request[r].fused /\ room = Candidates(request[r].topK)
        OBVIOUS
  <2>2. /\ IsRanking(dense) /\ IsRanking(sparse)
        /\ IsFusion(fused, dense, sparse, room)
    <3>1. IsRanking(request[r].dense) /\ Ranked(request[r])
          BY <1>1 DEF PathInv, Sound, Searched, Answering
    <3> QED BY <2>1, <3>1, RankedHits DEF Ranked
  <2>3. \A a, b \in Found(dense, sparse) :
          Outranks(dense, sparse, a, b) => ~IsBetter(dense, sparse, b, a)
    <3>1. /\ \A c : RrfScore(dense, sparse, c) \in Nat
          /\ \A c \in Found(dense, sparse) : FirstSeen(dense, sparse, c) \in Nat
          BY <2>2, PlacesDiffer
    <3>2. \A a, b \in Found(dense, sparse) :
            ~(Outranks(dense, sparse, a, b) /\ Outranks(dense, sparse, b, a))
          BY <3>1 DEF Outranks
    <3>3. \A a, b \in Found(dense, sparse) :
            IsBetter(dense, sparse, a, b) => Outranks(dense, sparse, a, b)
          BY <2>2, BetterOutranks
    <3> QED BY <3>2, <3>3
  <2>4. \A i \in DOMAIN fused : fused[i].chunk \in Found(dense, sparse)
        BY <2>2 DEF IsFusion, ChunksOf
  <2>5. Len(fused) = Cardinality(ChunksOf(fused))
        BY <2>2, DistinctCount DEF IsFusion
  <2>6. \A i, j \in DOMAIN fused :
          i < j => ~IsBetter(dense, sparse, fused[j].chunk, fused[i].chunk)
        BY <2>2, <2>3, <2>4 DEF IsFusion
  <2>7. \A c \in Found(dense, sparse) \ ChunksOf(fused), i \in DOMAIN fused :
          ~IsBetter(dense, sparse, c, fused[i].chunk)
        BY <2>2, <2>3, <2>4 DEF IsFusion
  <2>8. /\ ChunksOf(fused) \subseteq Found(dense, sparse)
        /\ \/ Len(fused) = room
           \/ ChunksOf(fused) = Found(dense, sparse) /\ Len(fused) < room
        /\ \A i \in DOMAIN fused :
              /\ fused[i].dense  = ScoreIn(dense, fused[i].chunk)
              /\ fused[i].sparse = ScoreIn(sparse, fused[i].chunk)
        BY <2>2 DEF IsFusion
  <2> QED BY <2>1, <2>5, <2>6, <2>7, <2>8 DEF Found, IsBetter
<1>2. PathInv => FusionRespectsRanks
      BY <1>1 DEF FusionRespectsRanks
<1> QED BY <1>2, PathSound, PTL

(* The context is packed as it should be, for every cost of the chunks and *)
(* every budget.  Code: assemble_context.                                  *)
THEOREM ContextIsPacked == Spec => []ContextPacked
<1>1. ASSUME PathInv, NEW r \in Requests, Searched(r)
      PROVE  LET ctx  == request[r].ctx
                 hits == request[r].hits
                 Follows(list) ==
                     \A i, j \in DOMAIN list : i < j =>
                         \E m, n \in DOMAIN hits :
                             m < n /\ hits[m] = list[i] /\ hits[n] = list[j]
             IN  /\ Follows(ctx.included) /\ Follows(ctx.dropped)
                 /\ ToSet(ctx.included) \cup ToSet(ctx.dropped) = ToSet(hits)
                 /\ Len(hits) = Len(ctx.included) + Len(ctx.dropped)
                 /\ hits # <<>> => ctx.included[1] = hits[1]
                 /\ Len(ctx.included) > 1 =>
                       /\ ctx.tokens <= Budget
                       /\ ctx.tokens = Spent(ctx.included)
                                         + Separator * (Len(ctx.included) - 1)
                 /\ ctx.dropped # <<>> =>
                       \E m \in DOMAIN hits :
                           /\ hits[m] = ctx.dropped[1]
                           /\ Spent(SubSeq(hits, 1, m)) + Separator * (m - 1) > Budget
  <2>1. PICK hits, ctx : hits = request[r].hits /\ ctx = request[r].ctx
        OBVIOUS
  <2>2. hits \in Seq(Hit) /\ ctx = Assemble(hits)
    <3>1. IsRanking(request[r].dense) /\ Ranked(request[r])
          BY <1>1 DEF PathInv, Sound, Searched, Answering
    <3>2. IsSelection(hits, request[r].fused)
          BY <2>1, <3>1, RankedHits
    <3> QED BY <2>1, <3>1, <3>2 DEF Ranked, IsSelection
  <2>3. PICK n \in Nat : n = Len(hits) /\ DOMAIN hits = 1..n
        BY <2>2
  <2>4. PICK list, rest : list = ctx.included /\ rest = ctx.dropped
        OBVIOUS
  <2>5. ctx \in Ctx /\ Packed(ctx, hits, n) /\ Overflows(ctx, hits, n)
        BY <2>2, <2>3, AssemblePacks
  <2>6. /\ From(list, hits, n) /\ From(rest, hits, n)
        /\ \A m \in 1..n : \/ \E i \in DOMAIN list : list[i] = hits[m]
                           \/ \E i \in DOMAIN rest : rest[i] = hits[m]
        /\ n = Len(list) + Len(rest)
        /\ n # 0 => list # <<>> /\ list[1] = hits[1]
        /\ ctx.tokens = IF list = <<>> THEN 0
                        ELSE Spent(list) + Separator * (Len(list) - 1)
        /\ Len(list) > 1 => ctx.tokens <= Budget
        BY <2>4, <2>5 DEF Packed
  <2>7. ToSet(list) \cup ToSet(rest) = ToSet(hits)
    <3>1. /\ \A i \in DOMAIN list : \E m \in DOMAIN hits : hits[m] = list[i]
          /\ \A i \in DOMAIN rest : \E m \in DOMAIN hits : hits[m] = rest[i]
          BY <2>3, <2>6 DEF From
    <3> QED BY <2>3, <2>6, <3>1 DEF ToSet
  <2>8. hits # <<>> => list[1] = hits[1]
        BY <2>2, <2>3, <2>6, EmptySeq
  <2>9. ASSUME Len(list) > 1
        PROVE  ctx.tokens <= Budget /\ ctx.tokens = Spent(list) + Separator * (Len(list) - 1)
    <3>1. list # <<>>
          BY <2>9, EmptySeq
    <3> QED BY <2>6, <2>9, <3>1
  <2>10. rest # <<>> =>
           \E m \in DOMAIN hits :
               /\ hits[m] = rest[1]
               /\ Spent(SubSeq(hits, 1, m)) + Separator * (m - 1) > Budget
         BY <2>3, <2>4, <2>5 DEF Overflows, Joined
  <2>11. /\ \A i, j \in DOMAIN list : i < j =>
               \E m, o \in DOMAIN hits :
                   m < o /\ hits[m] = list[i] /\ hits[o] = list[j]
         /\ \A i, j \in DOMAIN rest : i < j =>
               \E m, o \in DOMAIN hits :
                   m < o /\ hits[m] = rest[i] /\ hits[o] = rest[j]
    <3>1. ASSUME NEW part, From(part, hits, n),
                 NEW i \in DOMAIN part, NEW j \in DOMAIN part, i < j
          PROVE  \E m, o \in DOMAIN hits :
                     m < o /\ hits[m] = part[i] /\ hits[o] = part[j]
          BY <2>3, <3>1 DEF From
    <3> QED BY <2>6, <3>1
  <2>12. Len(hits) = Len(list) + Len(rest)
         BY <2>3, <2>6
  <2> QED BY <2>1, <2>4, <2>7, <2>8, <2>9, <2>10, <2>11, <2>12
<1>2. PathInv => ContextPacked
      BY <1>1 DEF ContextPacked, Spent
<1> QED BY <1>2, PathSound, PTL

(* The defects tell the truth, for all lists, scores, thresholds and       *)
(* answers.  Code: RAGPipeline.run and DefectDetector.                     *)
THEOREM DefectsAreTrue == Spec => []DefectsTellTheTruth
<1>1. ASSUME PathInv, NEW r \in Requests, Detected(r)
      PROVE  TellsTruth(request[r].dense, request[r].sparse, request[r].hits,
                        request[r].ctx, request[r].answer, request[r].defects)
  <2>1. PICK q : q = request[r]
        OBVIOUS
  <2>2. IsRanking(q.dense) /\ Ranked(q) /\ Checked(q)
        BY <1>1, <2>1 DEF PathInv, Sound, Detected, Answering, Telling
  <2>3. PICK n \in Nat \ {0} : n = Candidates(q.topK)
        BY <2>2, CandidatesAre DEF Ranked
  <2>4. PICK k \in Nat \ {0}, asked \in BOOLEAN \cup {None}, model \in BOOLEAN :
          q.hits \in Reranked(q.fused, asked, model, k)
        BY <2>2 DEF Ranked
  <2>5. PICK dense, sparse, fused, hits, ctx, answer, defects :
          /\ dense = q.dense /\ sparse = q.sparse /\ fused = q.fused
          /\ hits = q.hits /\ ctx = q.ctx /\ answer = q.answer /\ defects = q.defects
        OBVIOUS
  <2>6. /\ IsRanking(dense) /\ IsRanking(sparse) /\ fused = Fuse(dense, sparse, n)
        /\ hits \in Reranked(fused, asked, model, k) /\ ctx = Assemble(hits)
        /\ IsFiniteSet(answer) /\ defects = Detect(hits, ctx, answer)
        BY <2>2, <2>3, <2>4, <2>5 DEF Ranked, Checked
  <2>7. TellsTruth(dense, sparse, hits, ctx, answer, defects)
        BY <2>6, DefectsAre
  <2> QED BY <2>1, <2>5, <2>7
<1>2. PathInv => DefectsTellTheTruth
      BY <1>1 DEF DefectsTellTheTruth, TellsTruth
<1> QED BY <1>2, PathSound, PTL
=============================================================================
