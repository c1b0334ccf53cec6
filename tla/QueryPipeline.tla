--------------------------- MODULE QueryPipeline ---------------------------
(***************************************************************************)
(* Queries from their admission to the stored verdict of their evaluation, *)
(* in one process that starts, shuts down and may stop at any time.        *)
(*                                                                         *)
(* A request runs in stretches between the awaits of _run_query and        *)
(* RAGPipeline.run.  What the searches return, how the cross-encoder       *)
(* orders it, what the model answers and how the judge scores it is        *)
(* chosen from the sets of the setting.  Admission is AdmissionControl's   *)
(* subject, the contents of the searches ScopedRetrieval's.                *)
(***************************************************************************)
EXTENDS DefectDetection, QualityGate

CONSTANTS
    Requests,      \* query ids; each is used once
    Widening,      \* RAGPipeline.run asks the retriever for Widening * top_k
    Pool,          \* candidates, and for Pool at the least
    MaxAttempts,   \* settings.llm.max_retries
    MaxStarts,     \* bound: how often the process starts
    Settings       \* a behaviour picks one and keeps it

ASSUME PipelineAssumption ==
    /\ MaxAttempts \in Nat \ {0}
    /\ {MaxStarts, Widening} \subseteq Nat /\ Pool \in Nat \ {0}

Providers == {"anthropic", "openai", "mock"}

(* What a query calls before it has its answer, and after: the database    *)
(* that takes its history, and the judge.                                  *)
PathServices == {"identity", "embedder", "qdrant", "reranker", "llm"}
Services     == PathServices \cup {"history", "judge"}

Scores   == [Metrics -> Nat \cup {Unscored}]
NoScores == [m \in Metrics |-> Unscored]

(* provider: settings.llm.provider; keys: the API keys that are set;       *)
(* reranker, ragas: the optional packages that are installed; failures:    *)
(* the services that may raise; crashes: the process may stop; queries:    *)
(* those that arrive, with asked and topK of their bodies; sampled: what   *)
(* the sample rate allows.  The rest are the choices named above.          *)
ASSUME SettingsAssumption == \A s \in Settings :
    /\ s.provider \in Providers /\ s.keys \subseteq {"openai", "anthropic"}
    /\ {s.reranker, s.ragas, s.crashes} \subseteq BOOLEAN
    /\ s.failures \subseteq Services
    /\ s.queries \subseteq Requests /\ s.scores \subseteq Scores
    /\ s.asked \subseteq BOOLEAN \cup {None}
    /\ s.topK \subseteq Nat \ {0}
    /\ \A list \in s.dense \cup s.sparse : IsRanking(list)
    /\ \A answer \in s.answers : IsFiniteSet(answer)
    /\ s.sampled \subseteq BOOLEAN

VARIABLES
    setting,   \* the setting of this behaviour
    runner,    \* the process and whether its pipeline could be built
    starts,    \* how often it has started
    request,   \* request -> its counter and locals
    task,      \* request -> its evaluation task
    record,    \* request -> the defects of its trace rows, or None
    scored     \* request -> its eval_score row, or None

vars == <<setting, runner, starts, request, task, record, scored>>

InFlight == {"scope", "embed", "dense", "sparse", "generate", "persist",
             "respond"}
Final    == {"answered", "failed", "refused", "dropped"}

Verdicts   == [status : {"ok", "skipped", "failed"}, scores : Scores,
               gate : {"pass", "warn", "fail", "skip"}]
NoVerdict  == [status |-> "skipped", scores |-> NoScores, gate |-> "skip"]

NewRequest == [pc |-> "new", attempt |-> 1, topK |-> 1, dense |-> <<>>,
               sparse |-> <<>>, fused |-> <<>>, hits |-> <<>>, ctx |-> Empty,
               answer |-> {}, defects |-> <<>>]
NewTask    == [pc |-> "none", result |-> NoVerdict]

Init ==
    /\ setting \in Settings
    /\ runner  = "down"
    /\ starts  = 0
    /\ request = [r \in Requests |-> NewRequest]
    /\ task    = [r \in Requests |-> NewTask]
    /\ record  = [r \in Requests |-> None]
    /\ scored  = [r \in Requests |-> None]

May(service) == service \in setting.failures
At(r, pc)    == request[r].pc = pc

-----------------------------------------------------------------------------
(* The process.                                                            *)

(* Which collaborators can be built.  OpenAI embeds for every provider but *)
(* the mock, which has an embedder of its own.                             *)
HasEmbedder == setting.provider = "mock" \/ "openai" \in setting.keys
HasLlm      == setting.provider \in setting.keys \cup {"mock"}

(* startup: without keys the pipeline is not built, the server runs.       *)
Startup ==
    /\ runner = "down" /\ starts < MaxStarts
    /\ starts' = starts + 1
    /\ runner' = IF ~HasEmbedder THEN "embedder-unavailable"
                 ELSE IF ~HasLlm THEN "llm-unavailable" ELSE "ready"
    /\ UNCHANGED <<setting, request, task, record, scored>>

(* Evaluation tasks end with the event loop; nothing waits for them.       *)
DropTasks ==
    task' = [r \in Requests |->
                IF task[r].pc \in {"judging", "saving"}
                THEN [task[r] EXCEPT !.pc = "dropped"] ELSE task[r]]

(* shutdown, when the server has finished the requests in flight.          *)
Shutdown ==
    /\ runner # "down"
    /\ \A r \in Requests : request[r].pc \notin InFlight
    /\ runner' = "down"
    /\ DropTasks
    /\ UNCHANGED <<setting, starts, request, record, scored>>

Crash ==
    /\ setting.crashes /\ runner # "down"
    /\ runner' = "down"
    /\ request' = [r \in Requests |->
                     IF request[r].pc \in InFlight
                     THEN [request[r] EXCEPT !.pc = "dropped"] ELSE request[r]]
    /\ DropTasks
    /\ UNCHANGED <<setting, starts, record, scored>>

-----------------------------------------------------------------------------
(* A request.                                                              *)

Move(r, state) ==
    /\ request' = [request EXCEPT ![r] = state]
    /\ UNCHANGED <<setting, runner, starts, task, record, scored>>

(* Every exception before the answer ends as a 500.                        *)
Fails(r, service) ==
    /\ May(service)
    /\ Move(r, [request[r] EXCEPT !.pc = "failed"])

(* is_ready is read before the first await.                                *)
Submit(r) ==
    /\ At(r, "new") /\ r \in setting.queries /\ runner # "down"
    /\ Move(r, [request[r] EXCEPT
                  !.pc = IF runner = "ready" THEN "scope" ELSE "refused"])

(* One transaction: identity for row-level security, rows, scope.          *)
ReadScope(r) ==
    /\ At(r, "scope")
    /\ \/ Move(r, [request[r] EXCEPT !.pc = "embed"])
       \/ Fails(r, "identity")

(* Wrong: after the last attempt the count starts again.                   *)
CallUncounted(r, service, done) ==
    \/ done
    \/ /\ May(service)
       /\ Move(r, [request[r] EXCEPT !.attempt = 1 + (@ % MaxAttempts)])
    \/ Fails(r, service)

(* Wrong: one attempt too many.                                            *)
CallOnceMore(r, service, done) ==
    \/ done
    \/ /\ May(service) /\ request[r].attempt <= MaxAttempts
       /\ Move(r, [request[r] EXCEPT !.attempt = @ + 1])
    \/ Fails(r, service)

(* tenacity around a call: timeouts, lost connections and rate limits are  *)
(* tried again, up to MaxAttempts in all; the last error and every other   *)
(* one is raised.                                                          *)
CallWithRetry(r, service, done) ==
    \/ done
    \/ /\ May(service) /\ request[r].attempt < MaxAttempts
       /\ Move(r, [request[r] EXCEPT !.attempt = @ + 1])
    \/ Fails(r, service)

Embedded(r) == Move(r, [request[r] EXCEPT !.pc = "dense", !.attempt = 1])

(* Embedder.embed_texts; one text is one batch.                            *)
OpenAIEmbed(r) ==
    /\ At(r, "embed") /\ setting.provider # "mock"
    /\ CallWithRetry(r, "embedder", Embedded(r))

(* MockEmbedder.embed_texts calls nothing.                                 *)
MockEmbed(r) ==
    /\ At(r, "embed") /\ setting.provider = "mock"
    /\ Embedded(r)

DenseSearch(r) ==
    /\ At(r, "dense")
    /\ \/ \E list \in setting.dense :
              Move(r, [request[r] EXCEPT !.pc = "sparse", !.dense = list])
       \/ Fails(r, "qdrant")

Candidates(topK) == IF Widening * topK < Pool THEN Pool ELSE Widening * topK

(* From the end of the sparse search to the call of the model nothing is   *)
(* awaited: fusion, reranking, assembly.                                   *)
SparseSearch(r) ==
    /\ At(r, "sparse")
    /\ \/ \E list \in setting.sparse, asked \in setting.asked, k \in setting.topK :
            LET fused == Fuse(request[r].dense, list, Candidates(k))
            IN  \E hits \in Reranked(fused, asked, setting.reranker, k) :
                  Move(r, [request[r] EXCEPT
                             !.pc = "generate", !.topK = k, !.sparse = list,
                             !.fused = fused, !.hits = hits,
                             !.ctx = Assemble(hits)])
       \/ Fails(r, "qdrant")
       \/ setting.reranker /\ Fails(r, "reranker")

(* The defects are detected in the stretch that receives the answer.       *)
Answered(r) ==
    \E answer \in setting.answers :
        Move(r, [request[r] EXCEPT
                   !.pc = "persist", !.answer = answer,
                   !.defects = Detect(request[r].hits, request[r].ctx, answer)])

AnthropicGenerate(r) ==
    /\ At(r, "generate") /\ setting.provider = "anthropic"
    /\ CallWithRetry(r, "llm", Answered(r))

OpenAIGenerate(r) ==
    /\ At(r, "generate") /\ setting.provider = "openai"
    /\ CallWithRetry(r, "llm", Answered(r))

(* MockClient.generate calls nothing and always answers.                   *)
MockGenerate(r) ==
    /\ At(r, "generate") /\ setting.provider = "mock"
    /\ Answered(r)

(* Wrong: a failing write fails the request.                               *)
PersistOrFail(r) ==
    /\ At(r, "persist")
    /\ \/ /\ record'  = [record EXCEPT ![r] = request[r].defects]
          /\ request' = [request EXCEPT ![r].pc = "respond"]
          /\ UNCHANGED <<setting, runner, starts, task, scored>>
       \/ Fails(r, "history")

(* persist_result: trace and defects in one transaction.  Whatever it      *)
(* raises is logged, be it that nothing was written or that only the       *)
(* confirmation of the commit was lost.                                    *)
Persist(r) ==
    /\ At(r, "persist")
    /\ \E written \in IF May("history") THEN BOOLEAN ELSE {TRUE} :
         record' = IF written THEN [record EXCEPT ![r] = request[r].defects]
                              ELSE record
    /\ request' = [request EXCEPT ![r].pc = "respond"]
    /\ UNCHANGED <<setting, runner, starts, task, scored>>

(* schedule_eval, for a sample of the queries with a context; the answer.  *)
Respond(r) ==
    /\ At(r, "respond")
    /\ request' = [request EXCEPT ![r].pc = "answered"]
    /\ \E sampled \in setting.sampled :
         task' = IF sampled /\ HasText(request[r].ctx)
                 THEN [task EXCEPT ![r].pc = "judging"] ELSE task
    /\ UNCHANGED <<setting, runner, starts, record, scored>>

-----------------------------------------------------------------------------
(* The evaluation task of a request.                                       *)

Save(r, result) ==
    /\ task' = [task EXCEPT ![r] = [pc |-> "saving", result |-> result]]
    /\ UNCHANGED <<setting, runner, starts, request, record, scored>>

(* _should_skip: ragas judges with OpenAI whatever the provider is.        *)
ShouldSkip ==
    \/ ~setting.ragas
    \/ setting.provider = "anthropic" /\ "anthropic" \notin setting.keys
    \/ "openai" \notin setting.keys

(* _run_ragas: three scores, any of which may be missing.                  *)
RagasScores == setting.scores

(* evaluate_async: skipped, failed if ragas raises, else scored and gated. *)
Judge(r) ==
    /\ task[r].pc = "judging"
    /\ \/ ShouldSkip /\ Save(r, NoVerdict)
       \/ /\ ~ShouldSkip /\ May("judge")
          /\ Save(r, [NoVerdict EXCEPT !.status = "failed"])
       \/ /\ ~ShouldSkip
          /\ \E scores \in RagasScores :
               Save(r, [status |-> "ok", scores |-> scores,
                        gate |-> Gate(scores)])

(* Wrong: the row is written whether or not its trace is there.            *)
SaveVerdictUnreferenced(r) ==
    /\ task[r].pc = "saving"
    /\ scored' = [scored EXCEPT ![r] = task[r].result]
    /\ task' = [task EXCEPT ![r].pc = "ended"]
    /\ UNCHANGED <<setting, runner, starts, request, record>>

(* _persist_eval: the database rejects a row whose query has no trace, and *)
(* that, as every other error, is logged.                                  *)
SaveVerdict(r) ==
    /\ task[r].pc = "saving"
    /\ \E written \in IF May("history") THEN BOOLEAN ELSE {TRUE} :
         scored' = IF written /\ record[r] # None
                   THEN [scored EXCEPT ![r] = task[r].result] ELSE scored
    /\ task' = [task EXCEPT ![r].pc = "ended"]
    /\ UNCHANGED <<setting, runner, starts, request, record>>

-----------------------------------------------------------------------------
Generate(r) == AnthropicGenerate(r) \/ OpenAIGenerate(r) \/ MockGenerate(r)

Step(r) == \/ ReadScope(r) \/ OpenAIEmbed(r) \/ MockEmbed(r)
           \/ DenseSearch(r) \/ SparseSearch(r) \/ Generate(r)
           \/ Persist(r) \/ Respond(r)

Evaluate(r) == Judge(r) \/ SaveVerdict(r)

Next ==
    \/ Startup \/ Shutdown \/ Crash
    \/ \E r \in Requests : Submit(r) \/ Step(r) \/ Evaluate(r)

Spec == Init /\ [][Next]_vars

(* An awaited call returns or raises (each client has a timeout), and the  *)
(* event loop resumes whoever waited for it.                               *)
Fairness == \A r \in Requests : WF_vars(Step(r)) /\ WF_vars(Evaluate(r))

FairSpec == Spec /\ Fairness

-----------------------------------------------------------------------------
(* Properties.                                                             *)

InSeq(list, S) == ToSet(list) \subseteq S
TypeOK ==
    /\ setting \in Settings
    /\ runner \in {"down", "ready", "embedder-unavailable", "llm-unavailable"}
    /\ starts \in 0..MaxStarts
    /\ \A r \in Requests :
         /\ request[r].pc \in {"new"} \cup InFlight \cup Final
         /\ request[r].attempt \in 1..MaxAttempts
         /\ InSeq(request[r].fused, Hit) /\ InSeq(request[r].hits, Hit)
         /\ InSeq(request[r].defects, Defects)
         /\ task[r].pc \in {"none", "judging", "saving", "ended", "dropped"}
         /\ task[r].result \in Verdicts
         /\ scored[r] \in Verdicts \cup {None}

Searched(r)  == request[r].pc \in {"generate", "persist", "respond", "answered"}
Detected(r)  == request[r].pc \in {"persist", "respond", "answered"}

(* Rank fusion never puts a chunk before one that does better in every     *)
(* list that holds it, nor one that a single search found before one that  *)
(* both found.  It leaves a chunk out only for want of room, and never     *)
(* keeps one that is no match for it; each keeps the scores it was found   *)
(* with.  Code: HybridRetriever._fuse with k = 60 and lists of 20.         *)
FusionRespectsRanks ==
    \A r \in Requests : Searched(r) =>
        LET dense  == request[r].dense
            sparse == request[r].sparse
            fused  == request[r].fused
            both   == ChunksOf(dense) \cap ChunksOf(sparse)
            found  == ChunksOf(dense) \cup ChunksOf(sparse)
            room   == Candidates(request[r].topK)
            Beats(a, b) ==
                \/ a \in both /\ b \notin both
                \/ \A list \in {dense, sparse} : b \in ChunksOf(list) =>
                      a \in ChunksOf(list) /\ RankIn(list, a) < RankIn(list, b)
        IN  /\ ChunksOf(fused) \subseteq found
            /\ Len(fused) = Cardinality(ChunksOf(fused))
            /\ Len(fused) = room \/ (ChunksOf(fused) = found /\ Len(fused) < room)
            /\ \A i, j \in DOMAIN fused :
                  i < j => ~Beats(fused[j].chunk, fused[i].chunk)
            /\ \A c \in found \ ChunksOf(fused), i \in DOMAIN fused :
                  ~Beats(c, fused[i].chunk)
            /\ \A i \in DOMAIN fused :
                  /\ fused[i].dense  = ScoreIn(dense, fused[i].chunk)
                  /\ fused[i].sparse = ScoreIn(sparse, fused[i].chunk)

(* The prompt's context and the dropped chunks share out the ranked chunks *)
(* in their order; the best one is in the context, which stays within the  *)
(* budget unless it is that one chunk; and the first chunk that was left   *)
(* out did not fit after those in front of it, so that nothing is dropped  *)
(* when everything fits.  Code: assemble_context.                          *)
ContextPacked ==
    \A r \in Requests : Searched(r) =>
        LET ctx  == request[r].ctx
            hits == request[r].hits
            Follows(list) ==
                \A i, j \in DOMAIN list : i < j =>
                    \E m, n \in DOMAIN hits :
                        m < n /\ hits[m] = list[i] /\ hits[n] = list[j]
            spent(list) == FoldLeft(LAMBDA sum, h : sum + Cost(h.chunk), 0, list)
        IN  /\ Follows(ctx.included) /\ Follows(ctx.dropped)
            /\ ToSet(ctx.included) \cup ToSet(ctx.dropped) = ToSet(hits)
            /\ Len(hits) = Len(ctx.included) + Len(ctx.dropped)
            /\ hits # <<>> => ctx.included[1] = hits[1]
            /\ Len(ctx.included) > 1 =>
                  /\ ctx.tokens <= Budget
                  /\ ctx.tokens = spent(ctx.included)
                                    + Separator * (Len(ctx.included) - 1)
            /\ ctx.dropped # <<>> =>
                  \E m \in DOMAIN hits :
                      /\ hits[m] = ctx.dropped[1]
                      /\ spent(SubSeq(hits, 1, m)) + Separator * (m - 1) > Budget

(* The defects of an answer describe what happened on the way to it, from  *)
(* what the searches returned on: nothing found; found but nothing good,   *)
(* by the similarity where there is one; found but left out of the prompt; *)
(* one source; an answer that shares too little with its prompt.  The most *)
(* severe comes first.  Code: RAGPipeline.run and DefectDetector.          *)
DefectsTellTheTruth ==
    \A r \in Requests : Detected(r) =>
        LET q      == request[r]
            raised == ToSet(q.defects)
            kept   == ChunksOf(q.hits)
            good(c) == IF c \in ChunksOf(q.dense)
                       THEN ScoreIn(q.dense, c) >= Similarity
                       ELSE ScoreIn(q.sparse, c) >= Similarity
            prompt == UNION {Words(c) : c \in ChunksOf(q.ctx.included)}
        IN  /\ ("EMPTY_RETRIEVAL" \in raised)
                  <=> (q.dense = <<>> /\ q.sparse = <<>>)
            /\ ("LOW_RETRIEVAL_QUALITY" \in raised)
                  <=> (kept # {} /\ ~\E c \in kept : good(c))
            /\ ("CONTEXT_TRUNCATED" \in raised)
                  <=> (kept # ChunksOf(q.ctx.included))
            /\ ("LOW_CHUNK_DIVERSITY" \in raised)
                  <=> (Cardinality(kept) > 1 /\ Cardinality({Source(c) : c \in kept}) = 1)
            /\ ("HALLUCINATION_SIGNAL" \in raised) =>
                  (kept # {} /\ 100 * Cardinality(q.answer \ prompt)
                      > (100 - Overlap) * Cardinality(q.answer))
            /\ \A i, j \in DOMAIN q.defects :
                  i < j => Severity(q.defects[i]) <= Severity(q.defects[j])

(* A stored verdict is no better than any metric that was scored, says     *)
(* "skip" exactly when none was, and a judge that did not run or raised    *)
(* leaves no scores.  Code: Evaluator.evaluate_async, _persist_eval.       *)
VerdictTellsTheTruth ==
    \A r \in Requests : scored[r] # None =>
        LET row    == scored[r]
            known  == {m \in Metrics : row.scores[m] # Unscored}
        IN  /\ (row.gate = "skip") <=> (known = {})
            /\ row.gate = "pass" =>
                  \A m \in known : row.scores[m] >= WarnBelow(m)
            /\ row.gate \in {"pass", "warn"} =>
                  \A m \in known : row.scores[m] >= FailBelow(m)
            /\ row.gate \in {"warn", "fail"} =>
                  \E m \in known : row.scores[m] < WarnBelow(m)
            /\ row.status # "ok" => known = {}

(* A query fails only because something that it needs for its answer       *)
(* failed: writing its history and judging it never do that.  The mock     *)
(* provider calls no embedder and no model.  Without keys a query is       *)
(* refused, and with them it is not.  Code: query, persist_result,         *)
(* schedule_eval, PipelineRunner.startup.                                  *)
HistoryNeverFailsAQuery ==
    \A r \in Requests :
        /\ At(r, "failed") =>
              \E service \in PathServices \cap setting.failures :
                  setting.provider = "mock" => service \notin {"embedder", "llm"}
        /\ At(r, "refused") => ~(HasEmbedder /\ HasLlm)
        /\ Detected(r) => HasEmbedder /\ HasLlm

(* A query that was accepted ends, and so does an evaluation that was      *)
(* scheduled: retries are bounded.  Code: CallWithRetry's tenacity.        *)
EverythingEnds ==
    \A r \in Requests :
        /\ (request[r].pc \in InFlight) ~> (request[r].pc \in Final)
        /\ (task[r].pc = "judging") ~> (task[r].pc \in {"ended", "dropped"})

(* What a client can see of the pipeline.                                  *)
Status(pc) ==
    IF pc \in InFlight THEN "pending" ELSE pc

Stored(value) == IF value = None THEN {} ELSE {value}

Service == INSTANCE QueryService WITH
    status  <- [r \in Requests |-> Status(request[r].pc)],
    record  <- [r \in Requests |-> Stored(record[r])],
    reply   <- [r \in Requests |->
                  IF At(r, "answered") THEN {request[r].defects} ELSE {}],
    verdict <- [r \in Requests |-> Stored(scored[r])]

(* The pipeline keeps the promises of QueryService: among them that the    *)
(* stored defects are those of the answer, that a failed query leaves no   *)
(* rows, and that a verdict has a trace.  Code: the whole query path.      *)
KeepsItsPromises == Service!Spec
=============================================================================
