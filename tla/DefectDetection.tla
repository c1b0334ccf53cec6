-------------------------- MODULE DefectDetection --------------------------
(* The five checks on one answered query.  A text is the set of its        *)
(* content words.                                                          *)
EXTENDS HybridRanking, ContextAssembly, FiniteSets

CONSTANTS
    Source(_),       \* the source_file of a chunk
    Words(_),        \* the content words of a chunk as it is rendered
    Similarity,      \* defect_similarity_threshold, in hundredths
    Overlap          \* HALLUCINATION_OVERLAP_THRESHOLD, in hundredths

ASSUME DetectionAssumption ==
    /\ \A c \in Chunks : Cost(c) \in Nat
    /\ {Similarity, Overlap} \subseteq Nat

(* DefectType, in the order of the checks.                                 *)
Checks == <<"EMPTY_RETRIEVAL", "LOW_RETRIEVAL_QUALITY", "CONTEXT_TRUNCATED",
            "LOW_CHUNK_DIVERSITY", "HALLUCINATION_SIGNAL">>
Defects == ToSet(Checks)

(* DEFAULT_SEVERITY through _SEVERITY_ORDER: CRITICAL is 0, LOW is 3.      *)
Severity(defect) ==
    CASE defect = "EMPTY_RETRIEVAL"       -> 0
      [] defect = "LOW_RETRIEVAL_QUALITY" -> 1
      [] defect = "HALLUCINATION_SIGNAL"  -> 1
      [] defect = "CONTEXT_TRUNCATED"     -> 2
      [] defect = "LOW_CHUNK_DIVERSITY"   -> 3

(* Wrong: the BM25 score is preferred, whose scale is not the threshold's. *)
SparseQuality(hit) == IF hit.sparse # None THEN hit.sparse ELSE hit.dense

(* _quality.  Its last resort, the RRF score, is out of reach: a hit comes *)
(* from one of the lists.                                                  *)
Quality(hit) == IF hit.dense # None THEN hit.dense ELSE hit.sparse

LowQuality(hits) ==
    /\ hits # <<>>
    /\ \A i \in DOMAIN hits : Quality(hits[i]) < Similarity

LowDiversity(hits) ==
    /\ Len(hits) >= 2
    /\ Cardinality({Source(hits[i].chunk) : i \in DOMAIN hits}) = 1

ContextWords(ctx) ==
    UNION {Words(ctx.included[i].chunk) : i \in DOMAIN ctx.included}

LowOverlap(ctx, answer) ==
    /\ HasText(ctx)
    /\ answer # {}
    /\ 100 * Cardinality(answer \cap ContextWords(ctx))
           < Overlap * Cardinality(answer)

Raised(defect, hits, ctx, answer) ==
    CASE defect = "EMPTY_RETRIEVAL"       -> hits = <<>>
      [] defect = "LOW_RETRIEVAL_QUALITY" -> LowQuality(hits)
      [] defect = "CONTEXT_TRUNCATED"     -> WasTruncated(ctx)
      [] defect = "LOW_CHUNK_DIVERSITY"   -> LowDiversity(hits)
      [] defect = "HALLUCINATION_SIGNAL"  -> LowOverlap(ctx, answer)

(* The defects of one query, most severe first; list.sort is stable.       *)
Detect(hits, ctx, answer) ==
    LET Earlier(i, j) ==
            \/ Severity(Checks[i]) < Severity(Checks[j])
            \/ Severity(Checks[i]) = Severity(Checks[j]) /\ i < j
        raised == {i \in DOMAIN Checks : Raised(Checks[i], hits, ctx, answer)}
        sorted == Sorted(raised, Earlier)
    IN  [i \in DOMAIN sorted |-> Checks[sorted[i]]]
=============================================================================
