-------------------------- MODULE MCQueryPipeline --------------------------
(* Instances of QueryPipeline for TLC.                                     *)
EXTENDS QueryPipeline

CONSTANTS a, b, c   \* three chunks; a and b come from the same file

(* Budget 10, separator 1: a fills it to the token with b, c is too large  *)
(* beside any other.  An answer of twenty words needs three of the prompt. *)
TokenCost(chunk)  == CASE chunk = a -> 6 [] chunk = b -> 3 [] chunk = c -> 8
SourceFile(chunk) == IF chunk = c THEN 2 ELSE 1
WordsOf(chunk)    == CASE chunk = a -> {1, 2} [] chunk = b -> {3} [] chunk = c -> {}

(* Every list of at most two chunks; scores at and below the threshold of  *)
(* 65, BM25 scores on a scale of their own.                                *)
Lists(low, high) ==
    UNION {{[i \in 1..n |-> [chunk |-> ids[i],
                             score |-> IF i <= best THEN high ELSE low]] :
              ids \in {s \in [1..n -> Chunks] : IsInjective(s)}, best \in {0, n}} :
           n \in 0..2}

One(chunk, score) == <<[chunk |-> chunk, score |-> score]>>
AllScores == [Metrics -> {Unscored, 49, 50, 70, 75}]
Good == [m \in Metrics |-> 80]

Base == [provider |-> "openai", keys |-> {"openai"}, reranker |-> FALSE,
         ragas |-> TRUE, failures |-> {}, crashes |-> FALSE, dense |-> {One(a, 65)},
         sparse |-> {One(b, 200)}, asked |-> {FALSE}, answers |-> {{1, 2}},
         scores |-> {Good}, topK |-> {3}, sampled |-> BOOLEAN,
         queries |-> {CHOOSE r \in Requests : TRUE}]

Ranking == [Base EXCEPT !.dense = Lists(64, 65), !.sparse = Lists(0, 200),
                        !.asked = {FALSE, None}, !.topK = {1, 3}, !.reranker = TRUE,
                        !.sampled = {FALSE}, !.answers = {1..20, 4..6}]
Judging == [Base EXCEPT !.scores = AllScores, !.sampled = {TRUE}]
Unjudged == [Base EXCEPT !.provider = "mock", !.keys = {}, !.answers = {{}, {1, 2}},
                         !.failures = {"history", "judge"},
                         !.dense = {<<>>, One(a, 65)}, !.crashes = TRUE,
                         !.queries = Requests]
Failing == [Base EXCEPT !.provider = "anthropic", !.keys = {"openai", "anthropic"},
                        !.failures = Services, !.crashes = TRUE,
                        !.reranker = TRUE, !.asked = {None},
                        !.dense = {<<>>, One(a, 65)}, !.sparse = {<<>>},
                        !.queries = Requests]
Bare == [Base EXCEPT !.failures = Services, !.ragas = FALSE]
Unembedded == [Base EXCEPT !.provider = "anthropic", !.keys = {"anthropic"}]
Modelless  == [Base EXCEPT !.provider = "anthropic"]
Mocked == [Base EXCEPT !.provider = "mock",
                       !.failures = {"embedder", "llm", "history", "judge"}]

PipelineSettings == {Ranking, Judging, Unjudged, Failing, Bare, Unembedded,
                     Modelless, Mocked}
=============================================================================
