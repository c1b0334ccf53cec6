--------------------------- MODULE HybridRanking ---------------------------
(***************************************************************************)
(* How two ranked lists of chunks become one: reciprocal rank fusion of    *)
(* the dense and the sparse hits, then the optional cross-encoder.         *)
(*                                                                         *)
(* A list is a sequence of hits [chunk, score], best first, each chunk     *)
(* once.  1/(k + rank + 1) is counted in units of 1/Scale, which makes it  *)
(* a natural number for every rank that occurs.                            *)
(***************************************************************************)
EXTENDS Naturals, Sequences, SequencesExt

CONSTANTS
    Chunks,    \* the ids of the points that a search may return
    None,      \* Python's None
    PerPath,   \* DEFAULT_CANDIDATES_PER_PATH, how many hits a search returns
    RrfK,      \* RRF_K_CONSTANT
    Scale      \* a multiple of RrfK + 1, ..., RrfK + PerPath (see above)

(* 20 hits against a constant of 60: two terms outweigh any single one.    *)
ASSUME RankingAssumption ==
    /\ {PerPath, RrfK} \subseteq Nat /\ PerPath <= RrfK + 1
    /\ Scale \in Nat \ {0}
    /\ \A rank \in 1..PerPath : Scale % (RrfK + rank) = 0
    /\ None \notin Nat

(* A fused hit: RetrievedChunk with what the later stages read of it.      *)
Hit == [chunk : Chunks, dense : Nat \cup {None}, sparse : Nat \cup {None}]

ChunksOf(list) == {list[i].chunk : i \in DOMAIN list}

(* What a search may return.                                               *)
IsRanking(list) ==
    /\ list \in Seq([chunk : Chunks, score : Nat]) /\ Len(list) <= PerPath
    /\ \A i, j \in DOMAIN list : i # j => list[i].chunk # list[j].chunk

(* The rank of a chunk in a list, from 1 (`rank` counts from 0).           *)
RankIn(list, c) == CHOOSE i \in DOMAIN list : list[i].chunk = c

(* The term that a list contributes to a chunk's score.                    *)
Term(list, c) ==
    IF c \in ChunksOf(list) THEN Scale \div (RrfK + RankIn(list, c)) ELSE 0

(* Wrong: a chunk that both lists hold keeps the dense term only.          *)
DenseTermOnly(dense, sparse, c) ==
    IF c \in ChunksOf(dense) THEN Term(dense, c) ELSE Term(sparse, c)

RrfScore(dense, sparse, c) == Term(dense, c) + Term(sparse, c)

(* The position at which the dicts of _fuse first meet a chunk.            *)
FirstSeen(dense, sparse, c) ==
    IF c \in ChunksOf(dense) THEN RankIn(dense, c)
                             ELSE Len(dense) + RankIn(sparse, c)

ScoreIn(list, c) ==
    IF c \in ChunksOf(list) THEN list[RankIn(list, c)].score ELSE None

Take(list, n) == SubSeq(list, 1, IF Len(list) < n THEN Len(list) ELSE n)

(* The elements of S, each once, in the order of Before.                   *)
Sorted(S, Before(_, _)) ==
    CHOOSE list \in SetToSeqs(S) :
        \A i, j \in DOMAIN list : i < j => Before(list[i], list[j])

(* Python's sorted(..., reverse=True) is stable: equal scores keep the     *)
(* order of insertion.  A chunk of both lists keeps both its scores.       *)
Fuse(dense, sparse, n) ==
    LET Better(a, b) ==
            \/ RrfScore(dense, sparse, a) > RrfScore(dense, sparse, b)
            \/ /\ RrfScore(dense, sparse, a) = RrfScore(dense, sparse, b)
               /\ FirstSeen(dense, sparse, a) < FirstSeen(dense, sparse, b)
        ids == Sorted(ChunksOf(dense) \cup ChunksOf(sparse), Better)
    IN  Take([i \in DOMAIN ids |->
                 [chunk  |-> ids[i],
                  dense  |-> ScoreIn(dense, ids[i]),
                  sparse |-> ScoreIn(sparse, ids[i])]], n)

(* The cross-encoder may score the candidates in any order.                *)
Reorderings(hits) ==
    {[i \in DOMAIN hits |-> hits[p[i]]] : p \in SetToSeqs(DOMAIN hits)}

(* What the reranking stage of RAGPipeline.run may return: `asked` is the  *)
(* request's enable_reranking, `model` whether sentence-transformers is    *)
(* installed.  CrossEncoderReranker is built enabled.                      *)
Reranked(hits, asked, model, topK) ==
    IF asked # FALSE /\ model
    THEN {Take(list, topK) : list \in Reorderings(hits)}
    ELSE {Take(hits, topK)}
=============================================================================
