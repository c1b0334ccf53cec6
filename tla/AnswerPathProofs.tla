-------------------------- MODULE AnswerPathProofs --------------------------
(***************************************************************************)
(* What the stretches of a query compute that await nothing: the fusion of *)
(* two lists of hits, the packing of the context, the defects.  Lemmas     *)
(* about the operators of HybridRanking, ContextAssembly and               *)
(* DefectDetection, for any lists that the searches may return.            *)
(*                                                                         *)
(* A CHOOSE over the lists of a set is only worth something if one of them *)
(* is in order, so the existence of orders comes first; FoldLeft is        *)
(* defined by a recursion over the positions of a list, so the existence   *)
(* of that function comes before the loops that are written with it.  The  *)
(* induction is over subsets: the least of those that go wrong.            *)
(***************************************************************************)
EXTENDS DefectDetection, TLAPS, FiniteSetTheorems, SequenceTheorems,
        WellFoundedInduction

-----------------------------------------------------------------------------
(* Finite sets: least ones, last elements, lists.                          *)

(* Induction over the subsets of a finite set: of those that go wrong      *)
(* there is one all of whose proper subsets are right.                     *)
LEMMA LeastSubset ==
    ASSUME NEW S, IsFiniteSet(S), NEW bad, bad \subseteq SUBSET S, bad # {}
    PROVE  \E s \in bad : \A t \in SUBSET s : t # s => t \notin bad
<1>1. bad \subseteq FiniteSubsetsOf(S)
      BY FS_Subset DEF FiniteSubsetsOf
<1>2. PICK s \in bad : \A t \in bad : ~ (<<t, s>> \in StrictSubsetOrdering(S))
      BY <1>1, WFMin, FS_StrictSubsetOrderingWellFounded
<1>3. ASSUME NEW t \in SUBSET s, t # s PROVE t \notin bad
  <2>1. <<t, s>> \in StrictSubsetOrdering(S)
        BY <1>3 DEF StrictSubsetOrdering
  <2> QED BY <1>2, <2>1
<1> QED BY <1>3

(* As many numbers as the last one says.                                   *)
LEMMA IntervalIs ==
    ASSUME NEW n \in Nat
    PROVE  IsFiniteSet(1..n) /\ Cardinality(1..n) = n
BY FS_Interval

(* R puts the elements of S in an order.                                   *)
Orders(R, S) ==
    /\ \A a, b \in S : a # b => <<a, b>> \in R \/ <<b, a>> \in R
    /\ \A a, b, c \in S : <<a, b>> \in R /\ <<b, c>> \in R => <<a, c>> \in R

(* One of finitely many elements comes last.                               *)
LEMMA LastExists ==
    ASSUME NEW S, IsFiniteSet(S), S # {}, NEW R, Orders(R, S)
    PROVE  \E x \in S : \A y \in S : y # x => <<y, x>> \in R
<1> DEFINE HasLast(T) == \E x \in T : \A y \in T : y # x => <<y, x>> \in R
           bad == {T \in SUBSET S : T # {} /\ ~HasLast(T)}
<1> SUFFICES ASSUME bad # {} PROVE FALSE
    OBVIOUS
<1>1. PICK T \in bad : \A U \in SUBSET T : U # T => U \notin bad
  <2>1. bad \subseteq SUBSET S
        OBVIOUS
  <2> HIDE DEF bad
  <2> QED BY <2>1, LeastSubset
<1>2. PICK x \in T : TRUE
      BY <1>1
<1>3. T \ {x} # {}
  <2>1. ~\E z \in T : \A y \in T : y # z => <<y, z>> \in R
        BY <1>1
  <2> QED BY <1>2, <2>1
<1>4. PICK last \in T \ {x} : \A y \in T \ {x} : y # last => <<y, last>> \in R
  <2>1. PICK U : U = T \ {x}
        OBVIOUS
  <2>2. U \in SUBSET T /\ U # T
        BY <1>2, <2>1
  <2>3. U \notin bad
        BY <1>1, <2>2
  <2>4. U \in SUBSET S /\ U # {}
        BY <1>1, <1>3, <2>1
  <2>5. \E z \in U : \A y \in U : y # z => <<y, z>> \in R
        BY <2>3, <2>4
  <2> QED BY <2>1, <2>5
<1>5. T \subseteq S /\ x \in S /\ last \in S /\ last # x
      BY <1>1, <1>2, <1>4
<1>6. CASE <<x, last>> \in R
      BY <1>1, <1>4, <1>5, <1>6
<1>7. CASE <<last, x>> \in R
  <2>1. \A y \in T : y # x => <<y, x>> \in R
        BY <1>4, <1>5, <1>7 DEF Orders
  <2> QED BY <1>1, <1>2, <2>1
<1> QED BY <1>5, <1>6, <1>7 DEF Orders

(* What it means to list a finite set.                                     *)
LEMMA ListsAre ==
    ASSUME NEW S, IsFiniteSet(S), NEW list \in SetToSeqs(S)
    PROVE  /\ list \in Seq(S) /\ Len(list) = Cardinality(S)
           /\ Len(list) \in Nat /\ DOMAIN list = 1..Len(list)
           /\ \A i, j \in DOMAIN list : i # j => list[i] # list[j]
           /\ \A x \in S : \E i \in DOMAIN list : list[i] = x
<1>1. Cardinality(S) \in Nat
      BY FS_CardinalityType
<1> DEFINE n == Cardinality(S)
<1>2. list \in [1..n -> S] /\ \A i, j \in 1..n : i # j => list[i] # list[j]
      BY DEF SetToSeqs
<1>3. list \in Seq(S) /\ Len(list) = n /\ DOMAIN list = 1..n
      BY <1>1, <1>2
<1>4. list \in Surjection(1..n, S)
  <2>1. list \in Injection(1..n, S)
        BY <1>2 DEF Injection, IsInjective
  <2>2. IsFiniteSet(1..n) /\ Cardinality(1..n) = n
        BY <1>1, IntervalIs
  <2> QED BY <2>1, <2>2, FS_Injection
<1> QED BY <1>1, <1>2, <1>3, <1>4 DEF Surjection

(* A finite set can be listed in any order that it has.                    *)
LEMMA SortExists ==
    ASSUME NEW S, IsFiniteSet(S), NEW R, Orders(R, S)
    PROVE  \E list \in SetToSeqs(S) :
             \A i, j \in DOMAIN list : i < j => <<list[i], list[j]>> \in R
<1> DEFINE InOrder(list) ==
             \A i, j \in DOMAIN list : i < j => <<list[i], list[j]>> \in R
           bad == {T \in SUBSET S : ~\E list \in SetToSeqs(T) : InOrder(list)}
<1> SUFFICES ASSUME bad # {} PROVE FALSE
    OBVIOUS
<1>1. PICK T \in bad : \A U \in SUBSET T : U # T => U \notin bad
  <2>1. bad \subseteq SUBSET S
        OBVIOUS
  <2> HIDE DEF bad
  <2> QED BY <2>1, LeastSubset
<1>2. T \in SUBSET S /\ IsFiniteSet(T) /\ ~\E list \in SetToSeqs(T) : InOrder(list)
      BY <1>1, FS_Subset
<1>3. CASE T = {}
  <2>1. PICK list : list = [i \in 1..0 |-> i]
        OBVIOUS
  <2>2. list \in SetToSeqs(T)
        BY <1>3, <2>1, FS_EmptySet DEF SetToSeqs
  <2> QED BY <1>2, <2>1, <2>2
<1>4. CASE T # {}
  <2>1. Orders(R, T)
        BY <1>2 DEF Orders
  <2>2. PICK x \in T : \A y \in T : y # x => <<y, x>> \in R
        BY <1>2, <1>4, <2>1, LastExists
  <2> DEFINE U == T \ {x}
             n == Cardinality(U)
  <2>3. PICK rest \in SetToSeqs(U) : InOrder(rest)
        BY <1>1, <1>2, <2>2
  <2>4. IsFiniteSet(U) /\ n \in Nat /\ Cardinality(T) = n + 1
    <3>1. IsFiniteSet(U) /\ Cardinality(U) = Cardinality(T) - 1
          BY <1>2, <2>2, FS_RemoveElement
    <3>2. Cardinality(U) \in Nat /\ Cardinality(T) \in Nat
          BY <1>2, <3>1, FS_CardinalityType
    <3> QED BY <3>1, <3>2
  <2>5. /\ rest \in [1..n -> U]
        /\ \A i, j \in 1..n : i # j => rest[i] # rest[j]
        BY DEF SetToSeqs
  <2> DEFINE list == [i \in 1..(n + 1) |-> IF i = n + 1 THEN x ELSE rest[i]]
  <2> HIDE DEF n
  <2>6. \A i \in 1..(n + 1) : i = n + 1 \/ i \in 1..n
        BY <2>4
  <2>7. list \in SetToSeqs(T)
    <3>1. list \in [1..(n + 1) -> T]
          BY <2>2, <2>5, <2>6
    <3>2. ASSUME NEW i \in 1..(n + 1), NEW j \in 1..(n + 1), i # j
          PROVE  list[i] # list[j]
          BY <2>5, <2>6, <3>2
    <3> QED BY <2>4, <3>1, <3>2 DEF SetToSeqs
  <2>8. InOrder(list)
    <3> SUFFICES ASSUME NEW i \in 1..(n + 1), NEW j \in 1..(n + 1), i < j
                 PROVE  <<list[i], list[j]>> \in R
        OBVIOUS
    <3>1. i \in 1..n
          BY <2>4
    <3>2. CASE j = n + 1
          BY <2>2, <2>5, <3>1, <3>2
    <3>3. CASE j \in 1..n
          BY <2>3, <2>4, <2>5, <3>1, <3>3
    <3> QED BY <2>6, <3>2, <3>3
  <2> QED BY <1>2, <2>7, <2>8
<1> QED BY <1>3, <1>4

-----------------------------------------------------------------------------
(* Ranks and their shares of the score.                                    *)

(* The larger the divisor, the smaller the part.                           *)
LEMMA PartsFall ==
    ASSUME NEW a \in Nat, NEW b \in Nat, NEW x \in Nat, NEW y \in Nat,
           a * x = b * y, x <= y, 0 < x
    PROVE  b <= a
<1> SUFFICES ASSUME a + 1 <= b PROVE FALSE
    OBVIOUS
<1>1. (a + 1) * y <= b * y
      OBVIOUS
<1>2. (a + 1) * y = a * y + y /\ a * x <= a * y
      OBVIOUS
<1> QED BY <1>1, <1>2

(* Less than twice the divisor, more than half the part.                   *)
LEMMA HalvesFall ==
    ASSUME NEW a \in Nat, NEW b \in Nat, NEW x \in Nat, NEW y \in Nat,
           a * x = b * y, 0 < a, x < 2 * y
    PROVE  b < 2 * a
<1> SUFFICES ASSUME 2 * a <= b PROVE FALSE
    OBVIOUS
<1>1. (2 * a) * y <= b * y
      OBVIOUS
<1>2. (2 * a) * y = a * (2 * y)
      OBVIOUS
<1>3. a * x < a * (2 * y)
      OBVIOUS
<1> QED BY <1>1, <1>2, <1>3

(* A rank's share of the score is without a remainder.                     *)
Share(rank) == Scale \div (RrfK + rank)

(* Scale is a multiple of every divisor of a rank, so each share is exact. *)
LEMMA ShareOfScale ==
    ASSUME NEW rank \in 1..PerPath
    PROVE  /\ RrfK + rank \in Nat /\ 0 < RrfK + rank
           /\ Share(rank) \in Nat /\ 0 < Share(rank)
           /\ Share(rank) * (RrfK + rank) = Scale
<1>1. /\ rank \in Nat /\ 1 <= rank /\ rank <= PerPath
      /\ RrfK \in Nat /\ Scale \in Nat /\ 0 < Scale
      /\ Scale % (RrfK + rank) = 0
      BY RankingAssumption
<1> DEFINE x == RrfK + rank
<1>2. x \in Nat /\ 0 < x
      BY <1>1
<1>3. Scale % x = 0
      BY <1>1
<1> HIDE DEF x
<1>4. Scale = x * (Scale \div x) + (Scale % x) /\ Scale \div x \in Nat
      BY <1>1, <1>2
<1>5. x * (Scale \div x) = Scale /\ Scale \div x # 0
      BY <1>1, <1>2, <1>3, <1>4
<1>6. (Scale \div x) * x = Scale
      BY <1>2, <1>4, <1>5
<1> QED BY <1>2, <1>4, <1>5, <1>6 DEF Share, x

(* A better rank has no smaller share, and two shares are more than one.   *)
LEMMA SharesFall ==
    ASSUME NEW r \in 1..PerPath, NEW s \in 1..PerPath, r <= s
    PROVE  Share(s) <= Share(r)
<1>1. r \in Nat /\ s \in Nat /\ RrfK \in Nat
      BY RankingAssumption
<1> QED BY <1>1, ShareOfScale, PartsFall

(* Any two shares are together more than any single one: the hit of both   *)
(* searches outranks the hit of one.                                       *)
LEMMA TwoSharesWin ==
    ASSUME NEW r \in 1..PerPath, NEW s \in 1..PerPath, NEW t \in 1..PerPath
    PROVE  Share(t) < Share(r) + Share(s)
<1>1. ASSUME NEW p \in 1..PerPath PROVE Share(t) < 2 * Share(p)
  <2>1. RrfK + p < 2 * (RrfK + t)
        BY RankingAssumption
  <2> QED BY <2>1, ShareOfScale, HalvesFall
<1> QED BY <1>1, ShareOfScale

(* Where a search has put a chunk.                                         *)
LEMMA RankingIs ==
    ASSUME NEW list, IsRanking(list)
    PROVE  /\ Len(list) \in Nat /\ DOMAIN list = 1..Len(list)
           /\ \A i \in DOMAIN list : list[i] \in [chunk : Chunks, score : Nat]
           /\ \A i \in DOMAIN list : RankIn(list, list[i].chunk) = i
           /\ \A c \in ChunksOf(list) :
                /\ RankIn(list, c) \in 1..PerPath
                /\ RankIn(list, c) \in DOMAIN list /\ list[RankIn(list, c)].chunk = c
           /\ ChunksOf(list) \subseteq Chunks /\ IsFiniteSet(ChunksOf(list))
<1>1. /\ Len(list) \in Nat /\ DOMAIN list = 1..Len(list)
      /\ \A i \in DOMAIN list : list[i] \in [chunk : Chunks, score : Nat]
  <2>1. list \in Seq([chunk : Chunks, score : Nat])
        BY DEF IsRanking
  <2>2. PICK S : S = [chunk : Chunks, score : Nat]
        OBVIOUS
  <2> QED BY <2>1, <2>2, LenProperties
<1>2. ASSUME NEW c \in ChunksOf(list)
      PROVE  RankIn(list, c) \in DOMAIN list /\ list[RankIn(list, c)].chunk = c
  <2>1. \E i \in DOMAIN list : list[i].chunk = c
        BY DEF ChunksOf
  <2> QED BY <2>1 DEF RankIn
<1>3. ASSUME NEW i \in DOMAIN list PROVE RankIn(list, list[i].chunk) = i
  <2>1. list[i].chunk \in ChunksOf(list)
        BY DEF ChunksOf
  <2> QED BY <1>2, <2>1 DEF IsRanking
<1>4. ASSUME NEW c \in ChunksOf(list) PROVE RankIn(list, c) \in 1..PerPath
      BY <1>1, <1>2, RankingAssumption DEF IsRanking
<1>5. ChunksOf(list) \subseteq Chunks
      BY <1>1 DEF ChunksOf
<1>6. IsFiniteSet(ChunksOf(list))
  <2>1. [i \in DOMAIN list |-> list[i].chunk] \in Surjection(DOMAIN list, ChunksOf(list))
        BY DEF Surjection, ChunksOf
  <2>2. IsFiniteSet(DOMAIN list)
        BY <1>1, FS_Interval
  <2> QED BY <2>1, <2>2, FS_Surjection
<1> QED BY <1>1, <1>2, <1>3, <1>4, <1>5, <1>6

-----------------------------------------------------------------------------
(* Fusion.                                                                 *)

Found(dense, sparse) == ChunksOf(dense) \cup ChunksOf(sparse)

(* The order of _fuse, and the one FusionRespectsRanks asks for.           *)
Outranks(dense, sparse, a, b) ==
    \/ RrfScore(dense, sparse, a) > RrfScore(dense, sparse, b)
    \/ /\ RrfScore(dense, sparse, a) = RrfScore(dense, sparse, b)
       /\ FirstSeen(dense, sparse, a) < FirstSeen(dense, sparse, b)

(* The relation FusionRespectsRanks speaks of: found by both searches and  *)
(* the other not, or found earlier by every search that found the other.   *)
IsBetter(dense, sparse, a, b) ==
    LET both == ChunksOf(dense) \cap ChunksOf(sparse)
    IN  \/ a \in both /\ b \notin both
        \/ \A list \in {dense, sparse} : b \in ChunksOf(list) =>
              a \in ChunksOf(list) /\ RankIn(list, a) < RankIn(list, b)

(* A list's term for a chunk.                                              *)
LEMMA TermIs ==
    ASSUME NEW list, IsRanking(list), NEW c
    PROVE  /\ Term(list, c) \in Nat
           /\ c \in ChunksOf(list) => Term(list, c) = Share(RankIn(list, c))
           /\ c \notin ChunksOf(list) => Term(list, c) = 0
BY RankingIs, ShareOfScale DEF Term, Share

(* Scores and first places are numbers, and no two chunks share a place.   *)
LEMMA PlacesDiffer ==
    ASSUME NEW dense, NEW sparse, IsRanking(dense), IsRanking(sparse)
    PROVE  /\ \A c : RrfScore(dense, sparse, c) \in Nat
           /\ \A c \in Found(dense, sparse) : FirstSeen(dense, sparse, c) \in Nat
           /\ \A a, b \in Found(dense, sparse) :
                FirstSeen(dense, sparse, a) = FirstSeen(dense, sparse, b) => a = b
<1>1. ASSUME NEW c PROVE RrfScore(dense, sparse, c) \in Nat
      BY TermIs DEF RrfScore
<1>2. ASSUME NEW list, IsRanking(list), NEW c \in ChunksOf(list)
      PROVE  /\ RankIn(list, c) \in Nat /\ 1 <= RankIn(list, c)
             /\ RankIn(list, c) <= Len(list) /\ list[RankIn(list, c)].chunk = c
  <2>1. RankIn(list, c) \in 1..Len(list) /\ list[RankIn(list, c)].chunk = c
        BY <1>2, RankingIs
  <2> QED BY <1>2, <2>1, RankingIs
<1>3. Len(dense) \in Nat
      BY RankingIs
<1> QED BY <1>1, <1>2, <1>3 DEF Found, FirstSeen

(* So the order is one,                                                    *)
LEMMA OutranksOrders ==
    ASSUME NEW dense, NEW sparse, IsRanking(dense), IsRanking(sparse),
           NEW R, R = {p \in Found(dense, sparse) \X Found(dense, sparse) :
                         Outranks(dense, sparse, p[1], p[2])}
    PROVE  /\ Orders(R, Found(dense, sparse))
           /\ \A a, b \in Found(dense, sparse) :
                /\ <<a, b>> \in R <=> Outranks(dense, sparse, a, b)
                /\ ~(Outranks(dense, sparse, a, b) /\ Outranks(dense, sparse, b, a))
<1> DEFINE all == Found(dense, sparse)
           score(c) == RrfScore(dense, sparse, c)
           place(c) == FirstSeen(dense, sparse, c)
<1>1. /\ \A c \in all : score(c) \in Nat /\ place(c) \in Nat
      /\ \A a, b \in all : place(a) = place(b) => a = b
      BY PlacesDiffer
<1>2. \A a, b \in all : Outranks(dense, sparse, a, b) <=>
        score(a) > score(b) \/ (score(a) = score(b) /\ place(a) < place(b))
      BY DEF Outranks
<1>3. \A a, b \in all : <<a, b>> \in R <=> Outranks(dense, sparse, a, b)
      OBVIOUS
<1> HIDE DEF all, score, place
<1>4. \A a, b \in all : ~(Outranks(dense, sparse, a, b) /\ Outranks(dense, sparse, b, a))
      BY <1>1, <1>2
<1>5. \A a, b \in all : a # b => <<a, b>> \in R \/ <<b, a>> \in R
      BY <1>1, <1>2, <1>3
<1>6. \A a, b, c \in all : <<a, b>> \in R /\ <<b, c>> \in R => <<a, c>> \in R
      BY <1>1, <1>2, <1>3
<1> QED BY <1>3, <1>4, <1>5, <1>6 DEF Orders, all

(* and it respects the ranks.                                              *)
LEMMA BetterOutranks ==
    ASSUME NEW dense, NEW sparse, IsRanking(dense), IsRanking(sparse),
           NEW a \in Found(dense, sparse), NEW b \in Found(dense, sparse),
           IsBetter(dense, sparse, a, b)
    PROVE  Outranks(dense, sparse, a, b)
<1> DEFINE D == ChunksOf(dense)
           S == ChunksOf(sparse)
<1>1. /\ \A c \in D : RankIn(dense, c) \in 1..PerPath
      /\ \A c \in S : RankIn(sparse, c) \in 1..PerPath
      BY RankingIs
<1>2. \A r \in 1..PerPath : Share(r) \in Nat /\ 0 < Share(r)
      BY ShareOfScale
<1>3. /\ \A c : RrfScore(dense, sparse, c) = Term(dense, c) + Term(sparse, c)
      /\ \A c : Term(dense, c) = IF c \in D THEN Share(RankIn(dense, c)) ELSE 0
      /\ \A c : Term(sparse, c) = IF c \in S THEN Share(RankIn(sparse, c)) ELSE 0
      BY TermIs DEF RrfScore
<1>4. CASE a \in D \cap S /\ b \notin D \cap S
  <2>1. \A t \in 1..PerPath :
          Share(t) < Share(RankIn(dense, a)) + Share(RankIn(sparse, a))
        BY <1>1, <1>4, TwoSharesWin
  <2>2. RrfScore(dense, sparse, a) = Share(RankIn(dense, a)) + Share(RankIn(sparse, a))
        BY <1>3, <1>4
  <2>3. \E t \in 1..PerPath : RrfScore(dense, sparse, b) = Share(t)
    <3>1. CASE b \in D
          BY <1>1, <1>2, <1>3, <1>4, <3>1
    <3>2. CASE b \in S
          BY <1>1, <1>2, <1>3, <1>4, <3>2
    <3> QED BY <3>1, <3>2 DEF Found
  <2>4. RrfScore(dense, sparse, b) < RrfScore(dense, sparse, a)
        BY <2>1, <2>2, <2>3
  <2>5. RrfScore(dense, sparse, a) \in Nat /\ RrfScore(dense, sparse, b) \in Nat
        BY PlacesDiffer
  <2> QED BY <2>4, <2>5 DEF Outranks
<1>5. CASE /\ b \in D => a \in D /\ RankIn(dense, a) < RankIn(dense, b)
           /\ b \in S => a \in S /\ RankIn(sparse, a) < RankIn(sparse, b)
  <2>1. \A r, s \in 1..PerPath : r < s => Share(s) <= Share(r)
        BY SharesFall
  <2>2. Term(dense, b) <= Term(dense, a) /\ Term(sparse, b) <= Term(sparse, a)
        BY <1>1, <1>2, <1>3, <1>5, <2>1
  <2>3. /\ Term(dense, a) \in Nat /\ Term(sparse, a) \in Nat
        /\ Term(dense, b) \in Nat /\ Term(sparse, b) \in Nat
        BY TermIs
  <2>4. RrfScore(dense, sparse, b) <= RrfScore(dense, sparse, a)
        BY <1>3, <2>2, <2>3
  <2>5. FirstSeen(dense, sparse, a) < FirstSeen(dense, sparse, b)
    <3>1. /\ Len(dense) \in Nat
          /\ \A c \in D : RankIn(dense, c) \in 1..Len(dense)
          /\ \A c \in S : RankIn(sparse, c) \in Nat /\ 1 <= RankIn(sparse, c)
      <4>1. \A c \in D : RankIn(dense, c) \in 1..Len(dense)
            BY RankingIs
      <4> QED BY <1>1, <4>1, RankingIs, RankingAssumption
    <3>2. CASE b \in D
          BY <1>5, <3>1, <3>2 DEF FirstSeen
    <3>3. CASE b \notin D
      <4>1. b \in S
            BY <3>3 DEF Found
      <4> QED BY <1>5, <3>1, <3>3, <4>1 DEF FirstSeen
    <3> QED BY <3>2, <3>3
  <2>6. RrfScore(dense, sparse, a) \in Nat /\ RrfScore(dense, sparse, b) \in Nat
        BY PlacesDiffer
  <2> QED BY <2>4, <2>5, <2>6 DEF Outranks
<1> QED BY <1>4, <1>5 DEF IsBetter

(* The beginning of a list.                                                *)
LEMMA TakeIs ==
    ASSUME NEW S, NEW list \in Seq(S), NEW n \in Nat
    PROVE  /\ Take(list, n) \in Seq(S)
           /\ Len(Take(list, n)) = IF Len(list) < n THEN Len(list) ELSE n
           /\ DOMAIN Take(list, n) = 1..Len(Take(list, n))
           /\ DOMAIN Take(list, n) \subseteq DOMAIN list
           /\ \A i \in DOMAIN Take(list, n) : Take(list, n)[i] = list[i]
<1> DEFINE m == IF Len(list) < n THEN Len(list) ELSE n
<1>1. Len(list) \in Nat /\ m \in Nat /\ m <= Len(list) /\ DOMAIN list = 1..Len(list)
      OBVIOUS
<1>2. Take(list, n) = SubSeq(list, 1, m)
      BY DEF Take
<1> HIDE DEF m
<1>3. /\ SubSeq(list, 1, m) \in Seq(S) /\ Len(SubSeq(list, 1, m)) = m
      /\ DOMAIN SubSeq(list, 1, m) = 1..m
      /\ \A i \in 1..m : SubSeq(list, 1, m)[i] = list[i]
      BY <1>1
<1>4. 1..m \subseteq 1..Len(list)
      BY <1>1
<1> QED BY <1>1, <1>2, <1>3, <1>4 DEF m

(* The chunks that were found, in their order.                             *)
LEMMA FusedSorted ==
    ASSUME NEW dense, NEW sparse, IsRanking(dense), IsRanking(sparse)
    PROVE  \E ids \in SetToSeqs(Found(dense, sparse)) :
             /\ \A i, j \in DOMAIN ids :
                  i < j => Outranks(dense, sparse, ids[i], ids[j])
             /\ \A n : Fuse(dense, sparse, n) =
                  Take([i \in DOMAIN ids |->
                          [chunk  |-> ids[i],
                           dense  |-> ScoreIn(dense, ids[i]),
                           sparse |-> ScoreIn(sparse, ids[i])]], n)
<1> DEFINE Ordered(list) == \A i, j \in DOMAIN list :
                               i < j => Outranks(dense, sparse, list[i], list[j])
           ids == CHOOSE list \in SetToSeqs(Found(dense, sparse)) : Ordered(list)
<1>1. \A n : Fuse(dense, sparse, n) =
        Take([i \in DOMAIN ids |-> [chunk  |-> ids[i],
                                    dense  |-> ScoreIn(dense, ids[i]),
                                    sparse |-> ScoreIn(sparse, ids[i])]], n)
      BY DEF Fuse, Sorted, Outranks, Found
<1>2. IsFiniteSet(Found(dense, sparse))
      BY RankingIs, FS_Union DEF Found
<1>3. PICK R : R = {p \in Found(dense, sparse) \X Found(dense, sparse) :
                      Outranks(dense, sparse, p[1], p[2])}
      OBVIOUS
<1>4. /\ Orders(R, Found(dense, sparse))
      /\ \A a, b \in Found(dense, sparse) :
           <<a, b>> \in R <=> Outranks(dense, sparse, a, b)
      BY <1>3, OutranksOrders
<1>5. PICK list \in SetToSeqs(Found(dense, sparse)) :
        \A i, j \in DOMAIN list : i < j => <<list[i], list[j]>> \in R
      BY <1>2, <1>4, SortExists
<1>6. \A i \in DOMAIN list : list[i] \in Found(dense, sparse)
      BY <1>2, ListsAre
<1>7. Ordered(list)
      BY <1>4, <1>5, <1>6
<1>8. ids \in SetToSeqs(Found(dense, sparse)) /\ Ordered(ids)
      BY <1>5, <1>7
<1> QED BY <1>1, <1>8

(* A list that holds each chunk once.                                      *)
Distinct(list) == \A i, j \in DOMAIN list : i # j => list[i].chunk # list[j].chunk

(* What fusion returns.                                                    *)
IsFusion(fused, dense, sparse, n) ==
    /\ fused \in Seq(Hit) /\ Len(fused) \in Nat /\ DOMAIN fused = 1..Len(fused)
    /\ ChunksOf(fused) \subseteq Found(dense, sparse)
    /\ Distinct(fused)
    /\ \/ Len(fused) = n
       \/ ChunksOf(fused) = Found(dense, sparse) /\ Len(fused) < n
    /\ \A i, j \in DOMAIN fused :
         i < j => Outranks(dense, sparse, fused[i].chunk, fused[j].chunk)
    /\ \A c \in Found(dense, sparse) \ ChunksOf(fused), i \in DOMAIN fused :
         Outranks(dense, sparse, fused[i].chunk, c)
    /\ \A i \in DOMAIN fused :
         /\ fused[i].dense  = ScoreIn(dense, fused[i].chunk)
         /\ fused[i].sparse = ScoreIn(sparse, fused[i].chunk)

(* Fusion takes the best of what the searches found, in order, each chunk  *)
(* once and with its own scores, and leaves a chunk out only when the pool *)
(* is full.  Code: HybridRetriever._fuse.                                  *)
THEOREM FuseIs ==
    ASSUME NEW dense, NEW sparse, IsRanking(dense), IsRanking(sparse),
           NEW n \in Nat \ {0}, NEW fused, fused = Fuse(dense, sparse, n)
    PROVE  IsFusion(fused, dense, sparse, n)
<1> DEFINE all == Found(dense, sparse)
<1>1. PICK ids \in SetToSeqs(all) :
        /\ \A i, j \in DOMAIN ids : i < j => Outranks(dense, sparse, ids[i], ids[j])
        /\ \A m : Fuse(dense, sparse, m) =
             Take([i \in DOMAIN ids |-> [chunk  |-> ids[i],
                                         dense  |-> ScoreIn(dense, ids[i]),
                                         sparse |-> ScoreIn(sparse, ids[i])]], m)
      BY FusedSorted
<1> DEFINE hits == [i \in DOMAIN ids |-> [chunk  |-> ids[i],
                                         dense  |-> ScoreIn(dense, ids[i]),
                                         sparse |-> ScoreIn(sparse, ids[i])]]
<1>2. fused = Take(hits, n)
      BY <1>1
<1>3. IsFiniteSet(all) /\ all \subseteq Chunks
      BY RankingIs, FS_Union DEF Found
<1>4. /\ ids \in Seq(all) /\ Len(ids) \in Nat /\ DOMAIN ids = 1..Len(ids)
      /\ \A i, j \in DOMAIN ids : i # j => ids[i] # ids[j]
      /\ \A c \in all : \E i \in DOMAIN ids : ids[i] = c
      BY <1>1, <1>3, ListsAre
<1>5. ASSUME NEW list, IsRanking(list), NEW c PROVE ScoreIn(list, c) \in Nat \cup {None}
      BY <1>5, RankingIs DEF ScoreIn
<1>6. \A i \in DOMAIN ids : ids[i] \in all
      BY <1>4
<1>7. hits \in [1..Len(ids) -> Hit]
      BY <1>3, <1>4, <1>5, <1>6 DEF Hit
<1>8. hits \in Seq(Hit) /\ Len(hits) = Len(ids) /\ DOMAIN hits = DOMAIN ids
      BY <1>4, <1>7
<1>9. \A i \in DOMAIN ids : /\ hits[i].chunk = ids[i]
                            /\ hits[i].dense = ScoreIn(dense, ids[i])
                            /\ hits[i].sparse = ScoreIn(sparse, ids[i])
      OBVIOUS
<1> HIDE DEF all, hits
<1>10. /\ fused \in Seq(Hit) /\ DOMAIN fused = 1..Len(fused)
       /\ Len(fused) = IF Len(ids) < n THEN Len(ids) ELSE n
       /\ DOMAIN fused \subseteq DOMAIN ids
       /\ \A i \in DOMAIN fused : fused[i] = hits[i]
       BY <1>2, <1>8, TakeIs
<1>11. /\ Len(fused) \in Nat /\ Len(fused) <= n
       /\ Len(fused) < n => Len(fused) = Len(ids)
  <2>1. Len(ids) \in Nat /\ n \in Nat
        BY <1>4
  <2> QED BY <1>10, <2>1
<1>12. \A i \in DOMAIN fused : i \in DOMAIN ids /\ fused[i].chunk = ids[i]
       BY <1>9, <1>10
<1>13. ChunksOf(fused) \subseteq all
       BY <1>6, <1>12 DEF ChunksOf
<1>14. Len(fused) < n => ChunksOf(fused) = all
  <2> SUFFICES ASSUME Len(fused) < n, NEW c \in all PROVE c \in ChunksOf(fused)
      BY <1>13
  <2>1. PICK i \in DOMAIN ids : ids[i] = c
        BY <1>4
  <2>2. i \in DOMAIN fused
        BY <1>4, <1>10, <1>11
  <2> QED BY <1>12, <2>1, <2>2 DEF ChunksOf
<1>15. ASSUME NEW c \in all \ ChunksOf(fused), NEW i \in DOMAIN fused
       PROVE  Outranks(dense, sparse, fused[i].chunk, c)
  <2>1. PICK j \in DOMAIN ids : ids[j] = c
        BY <1>4, <1>15
  <2>2. j \notin DOMAIN fused
        BY <1>12, <1>15, <2>1 DEF ChunksOf
  <2>3. i < j
    <3>1. j \in 1..Len(ids) /\ j \notin 1..Len(fused) /\ i \in 1..Len(fused)
          BY <1>4, <1>10, <1>15, <2>1, <2>2
    <3>2. Len(ids) \in Nat /\ Len(fused) \in Nat
          BY <1>4, <1>11
    <3> QED BY <3>1, <3>2
  <2>4. i \in DOMAIN ids /\ fused[i].chunk = ids[i]
        BY <1>12, <1>15
  <2>5. Outranks(dense, sparse, ids[i], ids[j])
        BY <1>1, <2>1, <2>3, <2>4
  <2> QED BY <2>1, <2>4, <2>5
<1>16. /\ \A i, j \in DOMAIN fused : i # j => fused[i].chunk # fused[j].chunk
       /\ \A i, j \in DOMAIN fused :
            i < j => Outranks(dense, sparse, fused[i].chunk, fused[j].chunk)
       BY <1>1, <1>4, <1>12
<1>17. \A i \in DOMAIN fused : /\ fused[i].dense  = ScoreIn(dense, fused[i].chunk)
                               /\ fused[i].sparse = ScoreIn(sparse, fused[i].chunk)
       BY <1>9, <1>10, <1>12
<1>18. Len(fused) = n \/ (ChunksOf(fused) = all /\ Len(fused) < n)
       BY <1>11, <1>14
<1> QED BY <1>10, <1>11, <1>13, <1>15, <1>16, <1>17, <1>18 DEF all, IsFusion, Distinct

(* What the reranking stage makes of it.                                   *)
IsSelection(hits, fused) ==
    /\ hits \in Seq(Hit) /\ Len(hits) \in Nat /\ DOMAIN hits = 1..Len(hits)
    /\ Distinct(hits)
    /\ \A i \in DOMAIN hits : \E j \in DOMAIN fused : hits[i] = fused[j]
    /\ hits = <<>> <=> fused = <<>>

(* Reranking moves hits about and cuts them off.                           *)
LEMMA RerankedIs ==
    ASSUME NEW fused \in Seq(Hit), NEW asked, NEW model, NEW k \in Nat \ {0},
           Distinct(fused), NEW hits \in Reranked(fused, asked, model, k)
    PROVE  IsSelection(hits, fused)
<1>0. /\ Len(fused) \in Nat /\ DOMAIN fused = 1..Len(fused)
      /\ \A i, j \in DOMAIN fused : i # j => fused[i].chunk # fused[j].chunk
      BY DEF Distinct
<1>1. PICK list : /\ list \in Reorderings(fused) \cup {fused} /\ hits = Take(list, k)
      BY DEF Reranked
<1>2. /\ list \in Seq(Hit) /\ Len(list) = Len(fused) /\ DOMAIN list = DOMAIN fused
      /\ \A i, j \in DOMAIN list : i # j => list[i].chunk # list[j].chunk
      /\ \A i \in DOMAIN list : \E j \in DOMAIN fused : list[i] = fused[j]
  <2>1. CASE list = fused
        BY <1>0, <2>1
  <2>2. CASE list \in Reorderings(fused)
    <3>1. PICK p \in SetToSeqs(DOMAIN fused) : list = [i \in DOMAIN fused |-> fused[p[i]]]
          BY <2>2 DEF Reorderings
    <3>2. IsFiniteSet(DOMAIN fused) /\ Cardinality(DOMAIN fused) = Len(fused)
          BY <1>0, IntervalIs
    <3>3. /\ p \in Seq(DOMAIN fused) /\ DOMAIN p = DOMAIN fused
          /\ \A i, j \in DOMAIN p : i # j => p[i] # p[j]
          BY <1>0, <3>2, ListsAre
    <3>4. \A i \in DOMAIN fused : p[i] \in DOMAIN fused
          BY <3>3
    <3>5. list \in [1..Len(fused) -> Hit]
          BY <1>0, <3>1, <3>4
    <3>6. list \in Seq(Hit) /\ Len(list) = Len(fused) /\ DOMAIN list = DOMAIN fused
          BY <1>0, <3>5
    <3>7. \A i \in DOMAIN list : list[i] = fused[p[i]]
          BY <3>1
    <3> QED BY <1>0, <3>3, <3>4, <3>6, <3>7
  <2> QED BY <1>1, <2>1, <2>2
<1>3. /\ hits \in Seq(Hit)
      /\ Len(hits) = IF Len(list) < k THEN Len(list) ELSE k
      /\ DOMAIN hits = 1..Len(hits) /\ DOMAIN hits \subseteq DOMAIN list
      /\ \A i \in DOMAIN hits : hits[i] = list[i]
      BY <1>1, <1>2, TakeIs
<1>4. Len(hits) \in Nat /\ (Len(hits) = 0 <=> Len(fused) = 0)
      BY <1>0, <1>2, <1>3
<1>5. hits = <<>> <=> fused = <<>>
      BY <1>3, <1>4, EmptySeq
<1>6. Distinct(hits) /\ \A i \in DOMAIN hits : \E j \in DOMAIN fused : hits[i] = fused[j]
      BY <1>2, <1>3 DEF Distinct
<1> QED BY <1>3, <1>4, <1>5, <1>6 DEF IsSelection

-----------------------------------------------------------------------------
(* Folds from the left.                                                    *)

(* A finite set of numbers has a largest and a smallest one.               *)
LEMMA MaxIs ==
    ASSUME NEW S \in SUBSET Nat, IsFiniteSet(S), S # {}
    PROVE  Max(S) \in S /\ \A y \in S : y <= Max(S)
<1>1. PICK R : R = {p \in S \X S : p[1] <= p[2]}
      OBVIOUS
<1>2. Orders(R, S)
      BY <1>1 DEF Orders
<1>3. PICK x \in S : \A y \in S : y # x => <<y, x>> \in R
      BY <1>2, LastExists
<1>4. ASSUME NEW y \in S PROVE x >= y
  <2>1. y # x => y <= x
        BY <1>1, <1>3
  <2> QED BY <2>1
<1>5. Max(S) \in S /\ \A y \in S : Max(S) >= y
      BY <1>4 DEF Max
<1> QED BY <1>5

(* A finite set of numbers that is not empty has a least element.          *)
LEMMA LeastNumber ==
    ASSUME NEW S \in SUBSET Nat, IsFiniteSet(S), S # {}
    PROVE  \E x \in S : \A y \in S : x <= y
<1>1. PICK R : R = {p \in S \X S : p[1] >= p[2]}
      OBVIOUS
<1>2. Orders(R, S)
      BY <1>1 DEF Orders
<1>3. PICK x \in S : \A y \in S : y # x => <<y, x>> \in R
      BY <1>2, LastExists
<1>4. ASSUME NEW y \in S PROVE x <= y
  <2>1. y # x => y >= x
        BY <1>1, <1>3
  <2> QED BY <2>1
<1> QED BY <1>4

(* g takes the elements of a set of numbers one by one, the largest last.  *)
Folds(g, D, base, F) ==
    \A s \in SUBSET D :
        g[s] = IF s = {} THEN base ELSE F[<<Max(s), g[s \ {Max(s)}]>>]

(* There is such a g,                                                      *)
LEMMA FoldsExist ==
    ASSUME NEW D \in SUBSET Nat, IsFiniteSet(D), NEW C, NEW base \in C,
           NEW F \in [D \X C -> C]
    PROVE  \E g \in [SUBSET D -> C] : Folds(g, D, base, F)
<1> DEFINE Has(T) == \E g \in [SUBSET T -> C] : Folds(g, T, base, F)
           bad == {T \in SUBSET D : ~Has(T)}
<1> SUFFICES ASSUME bad # {} PROVE FALSE
    OBVIOUS
<1>1. PICK T \in bad : \A U \in SUBSET T : U # T => U \notin bad
  <2>1. bad \subseteq SUBSET D
        OBVIOUS
  <2> HIDE DEF bad
  <2> QED BY <2>1, LeastSubset
<1>2. T \in SUBSET D /\ ~\E g \in [SUBSET T -> C] : Folds(g, T, base, F)
      BY <1>1
<1>3. CASE T = {}
  <2>1. PICK g : g = [s \in SUBSET T |-> base]
        OBVIOUS
  <2>2. g \in [SUBSET T -> C] /\ Folds(g, T, base, F)
        BY <1>3, <2>1 DEF Folds
  <2> QED BY <1>2, <2>2
<1>4. CASE T # {}
  <2>1. PICK m, U : m = Max(T) /\ U = T \ {m}
        OBVIOUS
  <2>2. m \in T /\ \A y \in T : y <= m
        BY <1>2, <1>4, <2>1, FS_Subset, MaxIs
  <2>3. U \in SUBSET T /\ U # T
        BY <2>1, <2>2
  <2>4. PICK h \in [SUBSET U -> C] : Folds(h, U, base, F)
        BY <1>1, <1>2, <2>3
  <2> DEFINE g == [s \in SUBSET T |->
                     IF m \in s THEN F[<<m, h[s \ {m}]>>] ELSE h[s]]
  <2>5. g \in [SUBSET T -> C]
    <3>1. ASSUME NEW s \in SUBSET T PROVE g[s] \in C
      <4>1. CASE m \in s
        <5>1. s \ {m} \in SUBSET U /\ m \in D
              BY <1>2, <2>1, <2>2
        <5>2. h[s \ {m}] \in C
              BY <5>1
        <5> QED BY <4>1, <5>1, <5>2
      <4>2. CASE m \notin s
        <5>1. s \in SUBSET U
              BY <2>1, <4>2
        <5> QED BY <4>2, <5>1
      <4> QED BY <4>1, <4>2
    <3> QED BY <3>1
  <2>6. ASSUME NEW s \in SUBSET T
        PROVE  g[s] = IF s = {} THEN base ELSE F[<<Max(s), g[s \ {Max(s)}]>>]
    <3>1. CASE m \in s
      <4>1. Max(s) = m
        <5>1. s \in SUBSET Nat /\ IsFiniteSet(s) /\ s # {}
              BY <1>2, <3>1, FS_Subset
        <5>2. Max(s) \in s /\ m <= Max(s)
              BY <3>1, <5>1, MaxIs
        <5>3. Max(s) \in Nat /\ m \in Nat /\ Max(s) <= m
              BY <1>2, <2>2, <5>1, <5>2
        <5> QED BY <5>2, <5>3
      <4>2. PICK t : t = s \ {m}
            OBVIOUS
      <4>3. t \in SUBSET T /\ m \notin t /\ g[t] = h[t]
            BY <4>2
      <4> QED BY <3>1, <4>1, <4>2, <4>3
    <3>2. CASE m \notin s
      <4>1. s \in SUBSET U /\ g[s] = h[s]
            BY <2>1, <3>2
      <4>2. CASE s = {}
            BY <2>4, <4>1, <4>2 DEF Folds
      <4>3. CASE s # {}
        <5>1. PICK t : t = s \ {Max(s)}
              OBVIOUS
        <5>2. t \in SUBSET U /\ g[t] = h[t]
              BY <2>1, <3>2, <4>1, <5>1
        <5>3. h[s] = F[<<Max(s), h[t]>>]
              BY <2>4, <4>1, <4>3, <5>1 DEF Folds
        <5> HIDE DEF g
        <5> QED BY <4>1, <4>3, <5>1, <5>2, <5>3
      <4> QED BY <4>2, <4>3
    <3> QED BY <3>1, <3>2
  <2> HIDE DEF g
  <2>7. Folds(g, T, base, F)
        BY <2>6 DEF Folds
  <2> QED BY <1>2, <2>5, <2>7
<1> QED BY <1>3, <1>4

(* The values a loop runs through, from base on.                           *)
Runs(c, n, C, base, F) ==
    /\ c \in [0..n -> C] /\ c[0] = base
    /\ \A k \in 1..n : c[k] = F[<<k, c[k - 1]>>]

(* Along a list a fold goes step by step.                                  *)
LEMMA FoldSteps ==
    ASSUME NEW n \in Nat, NEW C, NEW base \in C, NEW F, NEW g,
           Folds(g, 1..n, base, F), g \in [SUBSET (1..n) -> C]
    PROVE  \E c : Runs(c, n, C, base, F) /\ c[n] = g[1..n]
<1> DEFINE c == [k \in 0..n |-> g[1..k]]
<1>1. \A k \in 0..n : 1..k \in SUBSET (1..n)
      OBVIOUS
<1>2. c \in [0..n -> C]
      BY <1>1
<1>3. c[0] = base /\ c[n] = g[1..n]
  <2>1. 1..0 = {} /\ 0 \in 0..n /\ n \in 0..n
        OBVIOUS
  <2> QED BY <1>1, <2>1 DEF Folds
<1>4. ASSUME NEW k \in 1..n PROVE c[k] = F[<<k, c[k - 1]>>]
  <2>1. k \in 0..n /\ k - 1 \in 0..n /\ k \in 1..k /\ k \in Nat
        OBVIOUS
  <2>2. Max(1..k) = k
    <3>1. 1..k \in SUBSET Nat /\ IsFiniteSet(1..k) /\ 1..k # {}
      <4>1. IsFiniteSet(1..k)
            BY <2>1, FS_Interval
      <4> QED BY <2>1, <4>1
    <3>2. Max(1..k) \in 1..k /\ k <= Max(1..k)
          BY <2>1, <3>1, MaxIs
    <3> QED BY <2>1, <3>2
  <2>3. (1..k) \ {k} = 1..(k - 1)
        BY <2>1
  <2>4. g[1..k] = F[<<k, g[1..(k - 1)]>>]
    <3>1. g[1..k] = F[<<Max(1..k), g[(1..k) \ {Max(1..k)}]>>]
          BY <1>1, <2>1 DEF Folds
    <3> QED BY <2>2, <2>3, <3>1
  <2> QED BY <2>1, <2>4
<1>5. Runs(c, n, C, base, F)
      BY <1>2, <1>3, <1>4 DEF Runs
<1> HIDE DEF c
<1> QED BY <1>3, <1>5

(* Two functions of the parts agree that take the same steps.              *)
SameSteps(g, h, D) ==
    /\ h[{}] = g[{}]
    /\ \A s \in SUBSET D : s # {} =>
          (h[s \ {Max(s)}] = g[s \ {Max(s)}] => h[s] = g[s])

(* By the least part on which they differ, there is none.                  *)
LEMMA FoldsAgree ==
    ASSUME NEW D \in SUBSET Nat, IsFiniteSet(D), NEW g, NEW h, SameSteps(g, h, D)
    PROVE  \A s \in SUBSET D : h[s] = g[s]
<1> DEFINE bad == {s \in SUBSET D : h[s] # g[s]}
<1>1. CASE bad = {}
      BY <1>1
<1>2. CASE bad # {}
  <2>1. PICK s \in bad : \A t \in SUBSET s : t # s => t \notin bad
    <3>1. bad \subseteq SUBSET D
          OBVIOUS
    <3> HIDE DEF bad
    <3> QED BY <1>2, <3>1, LeastSubset
  <2>2. s \in SUBSET D /\ h[s] # g[s]
        BY <2>1
  <2>3. s # {}
        BY <2>2 DEF SameSteps
  <2>4. PICK t : t = s \ {Max(s)}
        OBVIOUS
  <2>5. t \in SUBSET s /\ t # s
    <3>1. s \in SUBSET Nat /\ IsFiniteSet(s)
          BY <2>2, FS_Subset
    <3> QED BY <2>3, <2>4, <3>1, MaxIs
  <2>6. h[t] = g[t]
        BY <2>1, <2>2, <2>5
  <2> QED BY <2>2, <2>3, <2>4, <2>6 DEF SameSteps
<1> QED BY <1>1, <1>2

-----------------------------------------------------------------------------
(* Packing the context.                                                    *)

Ctx == [included : Seq(Hit), dropped : Seq(Hit), tokens : Nat]

(* What Assemble is defined from.                                          *)
Packing(hits) ==
    CHOOSE iter : iter = [s \in SUBSET DOMAIN hits |->
        IF s = {} THEN Empty
        ELSE LET x == Max(s) IN Consider(iter[s \ {x}], hits[x])]

(* The fold of assemble_context is that function at all of the positions.  *)
LEMMA AssembleIs ==
    ASSUME NEW hits PROVE Assemble(hits) = Packing(hits)[DOMAIN hits]
BY DEF Assemble, FoldLeft, MapThenFoldSet, Packing

(* One turn of the loop leads from context to context.                     *)
LEMMA ConsiderIs ==
    ASSUME NEW ctx \in Ctx, NEW hit \in Hit
    PROVE  /\ Consider(ctx, hit) \in Ctx
           /\ Cost(hit.chunk) \in Nat /\ Separator \in Nat /\ Budget \in Nat
           /\ \/ /\ Consider(ctx, hit).included = Append(ctx.included, hit)
                 /\ Consider(ctx, hit).dropped = ctx.dropped
                 /\ Consider(ctx, hit).tokens = Projected(ctx, hit)
                 /\ ctx.included = <<>> \/ Projected(ctx, hit) <= Budget
              \/ /\ Consider(ctx, hit).included = ctx.included
                 /\ Consider(ctx, hit).dropped = Append(ctx.dropped, hit)
                 /\ Consider(ctx, hit).tokens = ctx.tokens
                 /\ ctx.included # <<>> /\ Projected(ctx, hit) > Budget
<1>1. Cost(hit.chunk) \in Nat /\ Separator \in Nat /\ Budget \in Nat
      BY DetectionAssumption, AssemblyAssumption DEF Hit
<1>2. /\ ctx.included \in Seq(Hit) /\ ctx.dropped \in Seq(Hit) /\ ctx.tokens \in Nat
      /\ Projected(ctx, hit) \in Nat
      BY <1>1 DEF Ctx, Projected
<1>3. Append(ctx.included, hit) \in Seq(Hit) /\ Append(ctx.dropped, hit) \in Seq(Hit)
      BY <1>2
<1>4. CASE ctx.included = <<>> \/ Projected(ctx, hit) <= Budget
  <2>1. Consider(ctx, hit) = [ctx EXCEPT !.included = Append(@, hit),
                                         !.tokens = Projected(ctx, hit)]
        BY <1>4 DEF Consider, Include
  <2>2. Consider(ctx, hit) = [included |-> Append(ctx.included, hit),
                              dropped |-> ctx.dropped,
                              tokens |-> Projected(ctx, hit)]
        BY <2>1 DEF Ctx
  <2> QED BY <1>1, <1>2, <1>3, <1>4, <2>2 DEF Ctx
<1>5. CASE ~(ctx.included = <<>> \/ Projected(ctx, hit) <= Budget)
  <2>1. Consider(ctx, hit) = [ctx EXCEPT !.dropped = Append(@, hit)]
        BY <1>5 DEF Consider, Drop
  <2>2. Consider(ctx, hit) = [included |-> ctx.included,
                              dropped |-> Append(ctx.dropped, hit),
                              tokens |-> ctx.tokens]
        BY <2>1 DEF Ctx
  <2>3. Projected(ctx, hit) > Budget
        BY <1>1, <1>2, <1>5
  <2> QED BY <1>1, <1>2, <1>3, <1>5, <2>2, <2>3 DEF Ctx
<1> QED BY <1>4, <1>5

(* The context is packed hit by hit.                                       *)
LEMMA AssembleSteps ==
    ASSUME NEW hits
    PROVE  hits \in Seq(Hit) =>
           \E c \in [0..Len(hits) -> Ctx] :
               /\ c[0] = Empty /\ c[Len(hits)] = Assemble(hits)
               /\ \A k \in 1..Len(hits) : c[k] = Consider(c[k - 1], hits[k])
<1>0. HAVE hits \in Seq(Hit)
<1> DEFINE D == DOMAIN hits
           F == [p \in D \X Ctx |-> Consider(p[2], hits[p[1]])]
           Body(h) == [s \in SUBSET D |->
                         IF s = {} THEN Empty
                         ELSE Consider(h[s \ {Max(s)}], hits[Max(s)])]
<1>1. /\ Len(hits) \in Nat /\ D = 1..Len(hits) /\ IsFiniteSet(D) /\ D \in SUBSET Nat
      /\ \A i \in D : hits[i] \in Hit
      BY <1>0, IntervalIs
<1>2. Empty \in Ctx
      BY EmptySeq DEF Empty, Ctx
<1>3. /\ F \in [D \X Ctx -> Ctx]
      /\ \A i \in D, v \in Ctx : F[<<i, v>>] = Consider(v, hits[i])
      BY <1>1, ConsiderIs
<1> HIDE DEF D, F
<1>4. PICK g : g \in [SUBSET D -> Ctx] /\ Folds(g, D, Empty, F)
      BY <1>1, <1>2, <1>3, FoldsExist
<1>5. ASSUME NEW s \in SUBSET D, s # {}
      PROVE  /\ Max(s) \in D /\ s \ {Max(s)} \in SUBSET D
             /\ F[<<Max(s), g[s \ {Max(s)}]>>] = Consider(g[s \ {Max(s)}], hits[Max(s)])
  <2>1. s \in SUBSET Nat /\ IsFiniteSet(s)
        BY <1>1, FS_Subset
  <2>2. Max(s) \in D
        BY <1>5, <2>1, MaxIs
  <2>3. g[s \ {Max(s)}] \in Ctx
        BY <1>4
  <2> QED BY <1>3, <2>2, <2>3
<1>6. g = Body(g)
  <2>1. \A s \in SUBSET D :
          g[s] = IF s = {} THEN Empty ELSE Consider(g[s \ {Max(s)}], hits[Max(s)])
        BY <1>4, <1>5 DEF Folds
  <2> QED BY <1>4, <2>1
<1>7. PICK h : h = Packing(hits)
      OBVIOUS
<1>8. h = Body(h)
  <2>1. Packing(hits) = CHOOSE iter : iter = Body(iter)
        BY DEF Packing, D
  <2> HIDE DEF Body
  <2> QED BY <1>6, <1>7, <2>1
<1>9. h[D] = g[D]
  <2>1. h[{}] = g[{}]
        BY <1>6, <1>8
  <2>2. ASSUME NEW s \in SUBSET D, s # {}, h[s \ {Max(s)}] = g[s \ {Max(s)}]
        PROVE  h[s] = g[s]
        BY <1>6, <1>8, <2>2
  <2>3. SameSteps(g, h, D)
        BY <2>1, <2>2 DEF SameSteps
  <2>4. IsFiniteSet(D) /\ D \in SUBSET Nat
        BY <1>1
  <2>5. \A s \in SUBSET D : h[s] = g[s]
    <3> HIDE DEF Body
    <3> QED BY <2>3, <2>4, FoldsAgree, ZenonT(30)
  <2> QED BY <2>5
<1>10. PICK c : Runs(c, Len(hits), Ctx, Empty, F) /\ c[Len(hits)] = g[D]
  <2>1. PICK n \in Nat : n = Len(hits)
        BY <1>1
  <2>2. PICK f, G : f = g /\ G = F
        OBVIOUS
  <2>3. Folds(f, 1..n, Empty, G) /\ f \in [SUBSET (1..n) -> Ctx]
        BY <1>1, <1>4, <2>1, <2>2
  <2>4. \E c : Runs(c, n, Ctx, Empty, G) /\ c[n] = f[1..n]
        BY <1>2, <2>3, FoldSteps
  <2> QED BY <1>1, <2>1, <2>2, <2>4
<1>11. c[Len(hits)] = Assemble(hits)
       BY <1>1, <1>7, <1>9, <1>10, AssembleIs DEF D
<1>12. ASSUME NEW k \in 1..Len(hits) PROVE c[k] = Consider(c[k - 1], hits[k])
  <2>1. k - 1 \in 0..Len(hits) /\ k \in D
        BY <1>1
  <2> QED BY <1>3, <1>10, <2>1 DEF Runs
<1> QED BY <1>10, <1>11, <1>12 DEF Runs

(* The tokens of a list of chunks, separators aside.                       *)
Spent(list) == FoldLeft(LAMBDA sum, h : sum + Cost(h.chunk), 0, list)

(* What Spent is defined from.                                             *)
Spending(list) ==
    CHOOSE iter : iter = [s \in SUBSET DOMAIN list |->
        IF s = {} THEN 0
        ELSE LET x == Max(s) IN iter[s \ {x}] + Cost(list[x].chunk)]

(* The sum is that function at all of the positions.                       *)
LEMMA SpentIs ==
    ASSUME NEW list PROVE Spent(list) = Spending(list)[DOMAIN list]
BY DEF Spent, FoldLeft, MapThenFoldSet, Spending

(* The tokens are added up chunk by chunk.                                 *)
LEMMA SpentSteps ==
    ASSUME NEW hits
    PROVE  hits \in Seq(Hit) =>
           \E c \in [0..Len(hits) -> Nat] :
               /\ c[0] = 0 /\ c[Len(hits)] = Spent(hits)
               /\ \A k \in 1..Len(hits) : c[k] = c[k - 1] + Cost(hits[k].chunk)
<1>0. HAVE hits \in Seq(Hit)
<1> DEFINE D == DOMAIN hits
           F == [p \in D \X Nat |-> p[2] + Cost(hits[p[1]].chunk)]
           Body(h) == [s \in SUBSET D |->
                         IF s = {} THEN 0
                         ELSE h[s \ {Max(s)}] + Cost(hits[Max(s)].chunk)]
<1>1. /\ Len(hits) \in Nat /\ D = 1..Len(hits) /\ IsFiniteSet(D) /\ D \in SUBSET Nat
      /\ \A i \in D : hits[i] \in Hit /\ Cost(hits[i].chunk) \in Nat
  <2>1. ASSUME NEW hit \in Hit PROVE Cost(hit.chunk) \in Nat
        BY DetectionAssumption DEF Hit
  <2>2. /\ Len(hits) \in Nat /\ D = 1..Len(hits) /\ IsFiniteSet(D) /\ D \in SUBSET Nat
        /\ \A i \in D : hits[i] \in Hit
        BY <1>0, IntervalIs
  <2> HIDE DEF D
  <2> QED BY <2>1, <2>2
<1>2. /\ F \in [D \X Nat -> Nat]
      /\ \A i \in D, v \in Nat : F[<<i, v>>] = v + Cost(hits[i].chunk)
      BY <1>1
<1> HIDE DEF D, F
<1>3. PICK g : g \in [SUBSET D -> Nat] /\ Folds(g, D, 0, F)
      BY <1>1, <1>2, FoldsExist
<1>4. ASSUME NEW s \in SUBSET D, s # {}
      PROVE  F[<<Max(s), g[s \ {Max(s)}]>>] = g[s \ {Max(s)}] + Cost(hits[Max(s)].chunk)
  <2>1. s \in SUBSET Nat /\ IsFiniteSet(s)
        BY <1>1, FS_Subset
  <2>2. Max(s) \in D
        BY <1>4, <2>1, MaxIs
  <2>3. g[s \ {Max(s)}] \in Nat
        BY <1>3
  <2> QED BY <1>2, <2>2, <2>3
<1>5. g = Body(g)
  <2>1. \A s \in SUBSET D :
          g[s] = IF s = {} THEN 0 ELSE g[s \ {Max(s)}] + Cost(hits[Max(s)].chunk)
        BY <1>3, <1>4 DEF Folds
  <2> QED BY <1>3, <2>1
<1>6. PICK h : h = Spending(hits)
      OBVIOUS
<1>7. h = Body(h)
  <2>1. Spending(hits) = CHOOSE iter : iter = Body(iter)
        BY DEF Spending, D
  <2> HIDE DEF Body
  <2> QED BY <1>5, <1>6, <2>1
<1>8. h[D] = g[D]
  <2>1. h[{}] = g[{}]
        BY <1>5, <1>7
  <2>2. ASSUME NEW s \in SUBSET D, s # {}, h[s \ {Max(s)}] = g[s \ {Max(s)}]
        PROVE  h[s] = g[s]
        BY <1>5, <1>7, <2>2
  <2>3. SameSteps(g, h, D)
        BY <2>1, <2>2 DEF SameSteps
  <2>4. IsFiniteSet(D) /\ D \in SUBSET Nat
        BY <1>1
  <2>5. \A s \in SUBSET D : h[s] = g[s]
    <3> HIDE DEF Body
    <3> QED BY <2>3, <2>4, FoldsAgree, ZenonT(30)
  <2> QED BY <2>5
<1>9. PICK c : Runs(c, Len(hits), Nat, 0, F) /\ c[Len(hits)] = g[D]
  <2>1. PICK n \in Nat : n = Len(hits)
        BY <1>1
  <2>2. PICK N, zero : N = Nat /\ zero = 0
        OBVIOUS
  <2>3. zero \in N /\ Folds(g, 1..n, zero, F) /\ g \in [SUBSET (1..n) -> N]
        BY <1>1, <1>3, <2>1, <2>2
  <2>4. \E c : Runs(c, n, N, zero, F) /\ c[n] = g[1..n]
        BY <2>3, FoldSteps
  <2> QED BY <1>1, <2>1, <2>2, <2>4
<1>10. c[Len(hits)] = Spent(hits)
       BY <1>1, <1>6, <1>8, <1>9, SpentIs DEF D
<1>11. ASSUME NEW k \in 1..Len(hits) PROVE c[k] = c[k - 1] + Cost(hits[k].chunk)
  <2>1. k - 1 \in 0..Len(hits) /\ k \in D
        BY <1>1
  <2> QED BY <1>2, <1>9, <2>1 DEF Runs
<1> QED BY <1>9, <1>10, <1>11 DEF Runs

(* A claim about the steps of a loop that holds at the start and is kept   *)
(* by every step holds throughout.                                         *)
LEMMA LoopHolds ==
    ASSUME NEW n \in Nat, NEW good \in SUBSET (0..n), 0 \in good,
           \A k \in 1..n : (k - 1) \in good => k \in good
    PROVE  good = 0..n
<1> DEFINE bad == (0..n) \ good
<1>1. CASE bad = {}
      BY <1>1
<1>2. CASE bad # {}
  <2>1. bad \in SUBSET Nat /\ IsFiniteSet(bad)
    <3>1. IsFiniteSet(0..n)
          BY FS_Interval
    <3>2. bad \subseteq 0..n /\ 0..n \subseteq Nat
          OBVIOUS
    <3> QED BY <3>1, <3>2, FS_Subset
  <2>2. PICK k \in bad : \A j \in bad : k <= j
        BY <1>2, <2>1, LeastNumber
  <2>3. k \in 1..n
        BY <2>2
  <2>4. (k - 1) \in 0..n /\ ~(k <= k - 1)
        BY <2>3
  <2>5. (k - 1) \in good
        BY <2>2, <2>4
  <2> QED BY <2>2, <2>3, <2>5
<1> QED BY <1>1, <1>2

(* One more chunk costs what it costs, whatever is before it.              *)
LEMMA SpentAppend ==
    ASSUME NEW list \in Seq(Hit), NEW hit \in Hit
    PROVE  /\ Spent(list) \in Nat /\ Spent(<<>>) = 0
           /\ Spent(Append(list, hit)) = Spent(list) + Cost(hit.chunk)
<1>1. PICK n \in Nat : n = Len(list)
      OBVIOUS
<1>2. PICK long : /\ long = Append(list, hit) /\ long \in Seq(Hit)
                  /\ Len(long) = n + 1 /\ long[n + 1] = hit
                  /\ \A k \in 1..n : long[k] = list[k]
  <2>1. PICK long : long = Append(list, hit)
        OBVIOUS
  <2>2. long \in Seq(Hit) /\ Len(long) = n + 1
        BY <1>1, <2>1
  <2>3. long[n + 1] = hit /\ \A k \in 1..n : long[k] = list[k]
        BY <1>1, <2>1
  <2> QED BY <2>1, <2>2, <2>3
<1>3. PICK c \in [0..n -> Nat] :
        /\ c[0] = 0 /\ c[n] = Spent(list)
        /\ \A k \in 1..n : c[k] = c[k - 1] + Cost(list[k].chunk)
      BY <1>1, SpentSteps
<1>4. PICK d \in [0..n + 1 -> Nat] :
        /\ d[0] = 0 /\ d[n + 1] = Spent(long)
        /\ \A k \in 1..n + 1 : d[k] = d[k - 1] + Cost(long[k].chunk)
  <2>1. \E d \in [0..Len(long) -> Nat] :
          /\ d[0] = 0 /\ d[Len(long)] = Spent(long)
          /\ \A k \in 1..Len(long) : d[k] = d[k - 1] + Cost(long[k].chunk)
        BY <1>2, SpentSteps
  <2> QED BY <1>2, <2>1
<1> DEFINE good == {k \in 0..n : c[k] = d[k]}
<1>5. good = 0..n
  <2>1. 0 \in good
        BY <1>3, <1>4
  <2>2. ASSUME NEW k \in 1..n, (k - 1) \in good PROVE k \in good
    <3>1. k \in 1..n + 1 /\ k \in 0..n
          OBVIOUS
    <3>2. c[k] = c[k - 1] + Cost(list[k].chunk) /\ d[k] = d[k - 1] + Cost(list[k].chunk)
          BY <1>2, <1>3, <1>4, <3>1
    <3> QED BY <2>2, <3>1, <3>2
  <2>3. good \in SUBSET (0..n)
        OBVIOUS
  <2> HIDE DEF good
  <2> QED BY <2>1, <2>2, <2>3, LoopHolds
<1>6. d[n + 1] = d[n] + Cost(hit.chunk)
  <2>1. n + 1 \in 1..n + 1 /\ (n + 1) - 1 = n
        OBVIOUS
  <2> QED BY <1>2, <1>4, <2>1
<1>7. d[n] = c[n]
  <2>1. n \in 0..n
        OBVIOUS
  <2> QED BY <1>5, <2>1
<1>8. Spent(<<>>) = 0
  <2>0. \E none : none = <<>> /\ none \in Seq(Hit) /\ Len(none) = 0
        BY EmptySeq
  <2>1. PICK none : none = <<>>
        OBVIOUS
  <2>3. none \in Seq(Hit)
        BY <2>0, <2>1
  <2>4. Len(none) = 0
        BY <2>1
  <2>2. \E e \in [0..Len(none) -> Nat] :
          /\ e[0] = 0 /\ e[Len(none)] = Spent(none)
          /\ \A k \in 1..Len(none) : e[k] = e[k - 1] + Cost(none[k].chunk)
        BY <2>3, SpentSteps
  <2> QED BY <2>1, <2>2, <2>4
<1>9. Spent(list) \in Nat
  <2>1. n \in 0..n
        OBVIOUS
  <2> QED BY <1>3, <2>1
<1> QED BY <1>2, <1>3, <1>4, <1>6, <1>7, <1>8, <1>9

(* A list with one element more, position by position.                     *)
LEMMA AppendIs ==
    ASSUME NEW list \in Seq(Hit), NEW hit \in Hit, NEW long, long = Append(list, hit)
    PROVE  /\ long \in Seq(Hit) /\ Len(list) \in Nat /\ Len(long) = Len(list) + 1
           /\ DOMAIN list = 1..Len(list) /\ DOMAIN long = 1..(Len(list) + 1)
           /\ long[Len(list) + 1] = hit
           /\ \A i \in 1..Len(list) : long[i] = list[i]
           /\ long # <<>> /\ (list = <<>> <=> Len(list) = 0)
<1>1. long \in Seq(Hit) /\ Len(list) \in Nat /\ Len(long) = Len(list) + 1
      OBVIOUS
<1>2. DOMAIN list = 1..Len(list) /\ DOMAIN long = 1..(Len(list) + 1)
      BY <1>1
<1>3. long[Len(list) + 1] = hit /\ \A i \in 1..Len(list) : long[i] = list[i]
      BY <1>1
<1>4. long # <<>>
  <2>1. Len(long) # 0
        BY <1>1
  <2> QED BY <2>1, EmptySeq
<1>5. list = <<>> <=> Len(list) = 0
      BY EmptySeq
<1> QED BY <1>1, <1>2, <1>3, <1>4, <1>5

(* A list that holds some of the first k hits, in their order.             *)
From(list, hits, k) ==
    /\ \A i \in DOMAIN list : \E m \in 1..k : hits[m] = list[i]
    /\ \A i, j \in DOMAIN list : i < j =>
          \E m, n \in 1..k : m < n /\ hits[m] = list[i] /\ hits[n] = list[j]

(* One hit further on, the list and the list with that hit are still such. *)
LEMMA FromGrows ==
    ASSUME NEW hits, NEW k \in Nat \ {0}, hits[k] \in Hit,
           NEW list \in Seq(Hit), From(list, hits, k - 1)
    PROVE  From(list, hits, k) /\ From(Append(list, hits[k]), hits, k)
<1>1. /\ k \in 1..k /\ k \in Nat
      /\ \A m \in 1..(k - 1) : m \in 1..k /\ m < k
      OBVIOUS
<1>2. From(list, hits, k)
  <2>1. ASSUME NEW i \in DOMAIN list PROVE \E m \in 1..k : hits[m] = list[i]
        BY <1>1 DEF From
  <2>2. ASSUME NEW i \in DOMAIN list, NEW j \in DOMAIN list, i < j
        PROVE  \E m, n \in 1..k : m < n /\ hits[m] = list[i] /\ hits[n] = list[j]
    <3>1. PICK m \in 1..(k - 1), n \in 1..(k - 1) :
            m < n /\ hits[m] = list[i] /\ hits[n] = list[j]
          BY <2>2 DEF From
    <3> QED BY <1>1, <3>1
  <2> QED BY <2>1, <2>2 DEF From
<1>3. PICK long : long = Append(list, hits[k])
      OBVIOUS
<1>4. PICK l \in Nat : l = Len(list)
      OBVIOUS
<1>5. /\ DOMAIN list = 1..l /\ DOMAIN long = 1..(l + 1)
      /\ long[l + 1] = hits[k] /\ \A i \in 1..l : long[i] = list[i]
      BY <1>3, <1>4, AppendIs
<1>6. \A i \in 1..(l + 1) : i \in 1..l \/ i = l + 1
      OBVIOUS
<1>7. From(long, hits, k)
  <2>1. ASSUME NEW i \in DOMAIN long PROVE \E m \in 1..k : hits[m] = long[i]
    <3>1. CASE i \in 1..l
          BY <1>2, <1>5, <3>1 DEF From
    <3>2. CASE i = l + 1
          BY <1>1, <1>5, <3>2
    <3> QED BY <1>5, <1>6, <2>1, <3>1, <3>2
  <2>2. ASSUME NEW i \in DOMAIN long, NEW j \in DOMAIN long, i < j
        PROVE  \E m, n \in 1..k : m < n /\ hits[m] = long[i] /\ hits[n] = long[j]
    <3>1. i \in 1..l
          BY <1>5, <2>2
    <3>2. CASE j \in 1..l
          BY <1>2, <1>5, <2>2, <3>1, <3>2 DEF From
    <3>3. CASE j = l + 1
      <4>1. PICK m \in 1..(k - 1) : hits[m] = list[i]
            BY <1>5, <3>1 DEF From
      <4> QED BY <1>1, <1>5, <3>1, <3>3, <4>1
    <3> QED BY <1>5, <1>6, <2>2, <3>2, <3>3
  <2> QED BY <2>1, <2>2 DEF From
<1> QED BY <1>2, <1>3, <1>7

(* The context after k of the hits.                                        *)
Packed(ctx, hits, k) ==
    /\ From(ctx.included, hits, k) /\ From(ctx.dropped, hits, k)
    /\ \A m \in 1..k : \/ \E i \in DOMAIN ctx.included : ctx.included[i] = hits[m]
                       \/ \E i \in DOMAIN ctx.dropped : ctx.dropped[i] = hits[m]
    /\ k = Len(ctx.included) + Len(ctx.dropped)
    /\ k # 0 => ctx.included # <<>> /\ ctx.included[1] = hits[1]
    /\ ctx.tokens = IF ctx.included = <<>> THEN 0
                    ELSE Spent(ctx.included) + Separator * (Len(ctx.included) - 1)
    /\ Len(ctx.included) > 1 => ctx.tokens <= Budget
    /\ ctx.dropped = <<>> =>
          \A i \in DOMAIN ctx.included : ctx.included[i] = hits[i]

(* The invariant of the loop survives a hit that is taken, as the first    *)
(* one or because it fits.                                                 *)
LEMMA PackedByInclusion ==
    ASSUME NEW hits, NEW k \in Nat \ {0}, NEW hit \in Hit, hits[k] = hit,
           NEW ctx \in Ctx, Packed(ctx, hits, k - 1),
           NEW next \in Ctx, next.included = Append(ctx.included, hit),
           next.dropped = ctx.dropped, next.tokens = Projected(ctx, hit),
           ctx.included = <<>> \/ Projected(ctx, hit) <= Budget
    PROVE  Packed(next, hits, k)
<1>1. /\ Cost(hit.chunk) \in Nat /\ Separator \in Nat /\ Budget \in Nat
      /\ Projected(ctx, hit) =
           ctx.tokens + Cost(hit.chunk) + (IF ctx.included = <<>> THEN 0 ELSE Separator)
      BY ConsiderIs DEF Projected
<1>2. PICK list, long, rest, old, new :
        /\ list = ctx.included /\ long = next.included /\ rest = ctx.dropped
        /\ old = ctx.tokens /\ new = next.tokens
      OBVIOUS
<1>3. /\ list \in Seq(Hit) /\ rest \in Seq(Hit) /\ old \in Nat /\ new \in Nat
      /\ long = Append(list, hit) /\ next.dropped = rest
      BY <1>2 DEF Ctx
<1>4. PICK l \in Nat, d \in Nat : l = Len(list) /\ d = Len(rest)
      BY <1>3
<1>5. /\ Len(long) = l + 1 /\ DOMAIN list = 1..l /\ DOMAIN long = 1..(l + 1)
      /\ long[l + 1] = hit /\ \A i \in 1..l : long[i] = list[i]
      /\ long # <<>> /\ (list = <<>> <=> l = 0)
  <2>1. /\ Len(long) = Len(list) + 1
        /\ DOMAIN list = 1..Len(list) /\ DOMAIN long = 1..(Len(list) + 1)
        /\ long[Len(list) + 1] = hit /\ \A i \in 1..Len(list) : long[i] = list[i]
        /\ long # <<>> /\ (list = <<>> <=> Len(list) = 0)
        BY <1>3, AppendIs
  <2> QED BY <1>4, <2>1
<1>6. /\ From(list, hits, k - 1) /\ From(rest, hits, k - 1)
      /\ \A m \in 1..(k - 1) : \/ \E i \in DOMAIN list : list[i] = hits[m]
                               \/ \E i \in DOMAIN rest : rest[i] = hits[m]
      /\ k - 1 = l + d
      /\ k - 1 # 0 => list # <<>> /\ list[1] = hits[1]
      /\ old = IF list = <<>> THEN 0 ELSE Spent(list) + Separator * (l - 1)
      /\ rest = <<>> => \A i \in DOMAIN list : list[i] = hits[i]
      BY <1>2, <1>4 DEF Packed
<1>7. new = old + Cost(hit.chunk) + (IF list = <<>> THEN 0 ELSE Separator)
      BY <1>1, <1>2
<1>8. From(long, hits, k) /\ From(rest, hits, k)
      BY <1>3, <1>6, FromGrows
<1>9. ASSUME NEW m \in 1..k
      PROVE  \/ \E i \in DOMAIN long : long[i] = hits[m]
             \/ \E i \in DOMAIN rest : rest[i] = hits[m]
  <2>1. m = k \/ m \in 1..(k - 1)
        OBVIOUS
  <2>2. l + 1 \in 1..(l + 1) /\ \A i \in 1..l : i \in 1..(l + 1)
        OBVIOUS
  <2>3. CASE m = k
        BY <1>5, <2>2, <2>3
  <2>4. CASE m \in 1..(k - 1)
    <3>1. CASE \E i \in DOMAIN list : list[i] = hits[m]
          BY <1>5, <2>2, <3>1
    <3> QED BY <1>6, <2>4, <3>1
  <2> QED BY <2>1, <2>3, <2>4
<1>10. k = Len(long) + Len(rest)
       BY <1>4, <1>5, <1>6
<1>11. long # <<>> /\ long[1] = hits[1]
  <2>1. CASE l = 0
    <3>1. k = 1
      <4>1. ~(k - 1 # 0)
            BY <1>5, <1>6, <2>1
      <4> QED BY <4>1
    <3> QED BY <1>5, <2>1, <3>1
  <2>2. CASE l # 0
    <3>1. k - 1 # 0 /\ 1 \in 1..l
          BY <1>6, <2>2
    <3> QED BY <1>5, <1>6, <3>1
  <2> QED BY <2>1, <2>2
<1>12. new = Spent(long) + Separator * (Len(long) - 1)
  <2>1. PICK s \in Nat, t \in Nat, c \in Nat :
          s = Spent(list) /\ t = Spent(long) /\ c = Cost(hit.chunk)
    <3>1. Spent(list) \in Nat /\ Spent(long) = Spent(list) + Cost(hit.chunk)
          BY <1>3, SpentAppend
    <3> QED BY <1>1, <3>1
  <2>2. t = s + c /\ (l = 0 => s = 0)
        BY <1>3, <1>5, <2>1, SpentAppend
  <2>3. PICK sep \in Nat : sep = Separator
        BY <1>1
  <2>4. new = old + c + (IF l = 0 THEN 0 ELSE sep)
        BY <1>5, <1>7, <2>1, <2>3
  <2>5. old = IF l = 0 THEN 0 ELSE s + sep * (l - 1)
        BY <1>5, <1>6, <2>1, <2>3
  <2>6. new = t + sep * ((l + 1) - 1)
    <3>1. sep * ((l + 1) - 1) = IF l = 0 THEN 0 ELSE sep * (l - 1) + sep
          OBVIOUS
    <3>2. sep * (l - 1) \in Int /\ sep * ((l + 1) - 1) \in Int
          OBVIOUS
    <3>3. PICK p \in Int, q \in Int :
             p = sep * (l - 1) /\ q = sep * ((l + 1) - 1)
          BY <3>2
    <3>4. q = IF l = 0 THEN 0 ELSE p + sep
          BY <3>1, <3>3
    <3>5. new = t + q
      <4>1. old = IF l = 0 THEN 0 ELSE s + p
            BY <2>5, <3>3
      <4> QED BY <1>3, <2>2, <2>4, <3>4, <4>1
    <3> QED BY <3>3, <3>5
  <2> QED BY <1>5, <2>1, <2>3, <2>6
<1>13. Len(long) > 1 => new <= Budget
  <2>1. ASSUME Len(long) > 1 PROVE new <= Budget
    <3>1. list # <<>>
          BY <1>5, <2>1
    <3> QED BY <1>1, <1>2, <3>1
  <2> QED BY <2>1
<1>14. ASSUME rest = <<>>, NEW i \in DOMAIN long PROVE long[i] = hits[i]
  <2>1. d = 0
        BY <1>3, <1>4, <1>14, EmptySeq
  <2>2. i \in 1..l \/ i = l + 1
        BY <1>5
  <2>3. l + 1 = k
        BY <1>6, <2>1
  <2>4. CASE i \in 1..l
        BY <1>5, <1>6, <1>14, <2>4
  <2>5. CASE i = l + 1
        BY <1>5, <2>3, <2>5
  <2> QED BY <2>2, <2>4, <2>5
<1>15. /\ next.included = long /\ next.dropped = rest /\ next.tokens = new
       BY <1>2, <1>3
<1> QED BY <1>8, <1>9, <1>10, <1>11, <1>12, <1>13, <1>14, <1>15 DEF Packed

(* It survives a hit that is dropped because it does not fit.              *)
LEMMA PackedByOmission ==
    ASSUME NEW hits, NEW k \in Nat \ {0}, NEW hit \in Hit, hits[k] = hit,
           NEW ctx \in Ctx, Packed(ctx, hits, k - 1),
           NEW next \in Ctx, next.included = ctx.included,
           next.dropped = Append(ctx.dropped, hit), next.tokens = ctx.tokens,
           ctx.included # <<>>, Projected(ctx, hit) > Budget
    PROVE  Packed(next, hits, k)
<1>1. /\ Cost(hit.chunk) \in Nat /\ Separator \in Nat /\ Budget \in Nat
      /\ Projected(ctx, hit) = ctx.tokens + Cost(hit.chunk) + Separator
      BY ConsiderIs DEF Projected
<1>2. PICK list, rest, long, old :
        /\ list = ctx.included /\ rest = ctx.dropped /\ long = next.dropped
        /\ old = ctx.tokens
      OBVIOUS
<1>3. /\ list \in Seq(Hit) /\ rest \in Seq(Hit) /\ old \in Nat /\ list # <<>>
      /\ long = Append(rest, hit)
      /\ next.included = list /\ next.dropped = long /\ next.tokens = old
      BY <1>2 DEF Ctx
<1>4. PICK l \in Nat, d \in Nat : l = Len(list) /\ d = Len(rest)
      BY <1>3
<1>5. /\ Len(long) = d + 1 /\ DOMAIN rest = 1..d /\ DOMAIN long = 1..(d + 1)
      /\ long[d + 1] = hit /\ \A i \in 1..d : long[i] = rest[i]
  <2>1. /\ Len(long) = Len(rest) + 1
        /\ DOMAIN rest = 1..Len(rest) /\ DOMAIN long = 1..(Len(rest) + 1)
        /\ long[Len(rest) + 1] = hit /\ \A i \in 1..Len(rest) : long[i] = rest[i]
        BY <1>3, AppendIs
  <2> QED BY <1>4, <2>1
<1>6. /\ From(list, hits, k - 1) /\ From(rest, hits, k - 1)
      /\ \A m \in 1..(k - 1) : \/ \E i \in DOMAIN list : list[i] = hits[m]
                               \/ \E i \in DOMAIN rest : rest[i] = hits[m]
      /\ k - 1 = l + d
      /\ k - 1 # 0 => list[1] = hits[1]
      /\ old = Spent(list) + Separator * (l - 1)
      /\ l > 1 => old <= Budget
      BY <1>2, <1>3, <1>4 DEF Packed
<1>7. From(list, hits, k) /\ From(long, hits, k)
      BY <1>3, <1>6, FromGrows
<1>8. ASSUME NEW m \in 1..k
      PROVE  \/ \E i \in DOMAIN list : list[i] = hits[m]
             \/ \E i \in DOMAIN long : long[i] = hits[m]
  <2>1. m = k \/ m \in 1..(k - 1)
        OBVIOUS
  <2>2. d + 1 \in 1..(d + 1) /\ \A i \in 1..d : i \in 1..(d + 1)
        OBVIOUS
  <2> QED BY <1>5, <1>6, <2>1, <2>2
<1>9. k = Len(list) + Len(long)
  <2>1. k = l + (d + 1)
        BY <1>6
  <2> QED BY <1>4, <1>5, <2>1
<1>10. list[1] = hits[1]
  <2>1. l # 0
        BY <1>3, <1>4, EmptySeq
  <2>2. k - 1 # 0
        BY <1>6, <2>1
  <2> QED BY <1>6, <2>2
<1>11. next.dropped # <<>>
       BY <1>3, <1>5, EmptySeq
<1>12. /\ old = IF list = <<>> THEN 0 ELSE Spent(list) + Separator * (Len(list) - 1)
       /\ Len(list) > 1 => old <= Budget
       BY <1>3, <1>4, <1>6
<1>13. /\ From(next.included, hits, k) /\ From(next.dropped, hits, k)
       /\ k = Len(next.included) + Len(next.dropped)
       /\ next.included # <<>> /\ next.included[1] = hits[1]
       BY <1>3, <1>7, <1>9, <1>10
<1>14. \A m \in 1..k : \/ \E i \in DOMAIN next.included : next.included[i] = hits[m]
                       \/ \E i \in DOMAIN next.dropped : next.dropped[i] = hits[m]
       BY <1>3, <1>8
<1>15. /\ next.tokens = IF next.included = <<>> THEN 0
                        ELSE Spent(next.included) + Separator * (Len(next.included) - 1)
       /\ Len(next.included) > 1 => next.tokens <= Budget
       BY <1>3, <1>12
<1> QED BY <1>11, <1>13, <1>14, <1>15 DEF Packed

(* Tokens of the first k hits, joined.                                     *)
Joined(hits, k) == Spent(SubSeq(hits, 1, k)) + Separator * (k - 1)

(* The first chunk left out did not fit after those in front of it.        *)
Overflows(ctx, hits, k) ==
    ctx.dropped # <<>> =>
        \E m \in 1..k : hits[m] = ctx.dropped[1] /\ Joined(hits, m) > Budget

(* The first hits, put together.                                           *)
LEMMA JoinedIs ==
    ASSUME NEW hits \in Seq(Hit), NEW k \in 1..Len(hits), NEW list \in Seq(Hit),
           Len(list) = k - 1, \A i \in DOMAIN list : list[i] = hits[i]
    PROVE  Joined(hits, k) = Spent(list) + Cost(hits[k].chunk) + Separator * (k - 1)
<1>1. PICK front : front = SubSeq(hits, 1, k)
      OBVIOUS
<1>2. PICK long : long = Append(list, hits[k])
      OBVIOUS
<1>3. hits[k] \in Hit
      OBVIOUS
<1>4. /\ front \in Seq(Hit) /\ Len(front) = k
      /\ \A i \in 1..k : front[i] = hits[i]
  <2>1. 1 \in 1..(Len(hits) + 1) /\ k \in 0..Len(hits) /\ 1 <= k /\ k - 1 + 1 = k
        OBVIOUS
  <2>2. /\ SubSeq(hits, 1, k) \in Seq(Hit)
        /\ Len(SubSeq(hits, 1, k)) = k
        /\ \A i \in 1..k : SubSeq(hits, 1, k)[i] = hits[i]
        BY <2>1, SMT
  <2> QED BY <1>1, <2>2
<1>5. /\ long \in Seq(Hit) /\ Len(long) = k /\ long[k] = hits[k]
      /\ \A i \in 1..(k - 1) : long[i] = list[i] /\ i \in DOMAIN list
  <2>1. /\ long \in Seq(Hit) /\ Len(long) = Len(list) + 1
        /\ long[Len(list) + 1] = hits[k] /\ DOMAIN list = 1..Len(list)
        /\ \A i \in 1..Len(list) : long[i] = list[i]
        BY <1>2, <1>3, AppendIs
  <2> QED BY <2>1
<1>6. ASSUME NEW i \in 1..k PROVE front[i] = long[i]
  <2>1. i = k \/ i \in 1..(k - 1)
        OBVIOUS
  <2> QED BY <1>4, <1>5, <2>1
<1>7. front = long
      BY <1>4, <1>5, <1>6, SeqEqual
<1> QED BY <1>1, <1>2, <1>3, <1>7, SpentAppend DEF Joined

(* It stays so, whether the next hit is taken ...                          *)
LEMMA OverflowByInclusion ==
    ASSUME NEW hits, NEW k \in Nat \ {0}, NEW ctx, Overflows(ctx, hits, k - 1),
           NEW next, next.dropped = ctx.dropped
    PROVE  Overflows(next, hits, k)
BY DEF Overflows

(* ... or is the first or a later one to be dropped.                       *)
LEMMA OverflowByOmission ==
    ASSUME NEW hits \in Seq(Hit), NEW k \in 1..Len(hits), NEW hit, hits[k] = hit,
           NEW ctx \in Ctx, Packed(ctx, hits, k - 1), Overflows(ctx, hits, k - 1),
           NEW next, next.dropped = Append(ctx.dropped, hit),
           ctx.included # <<>>, Projected(ctx, hit) > Budget
    PROVE  Overflows(next, hits, k)
<1>1. PICK list, rest : list = ctx.included /\ rest = ctx.dropped
      OBVIOUS
<1>2. list \in Seq(Hit) /\ rest \in Seq(Hit) /\ hit \in Hit
      BY <1>1 DEF Ctx
<1>3. /\ next.dropped # <<>>
      /\ next.dropped[1] = IF rest = <<>> THEN hit ELSE rest[1]
  <2>1. PICK long, r : long = next.dropped /\ r = Len(rest)
        OBVIOUS
  <2>2. /\ r \in Nat /\ long[r + 1] = hit /\ \A i \in 1..r : long[i] = rest[i]
        /\ long # <<>> /\ (rest = <<>> <=> r = 0)
        BY <1>1, <1>2, <2>1, AppendIs
  <2>3. r = 0 => r + 1 = 1
        BY <2>2
  <2>4. r # 0 => 1 \in 1..r
        BY <2>2
  <2> QED BY <2>1, <2>2, <2>3, <2>4
<1>4. CASE rest # <<>>
  <2>1. PICK m \in 1..(k - 1) : hits[m] = rest[1] /\ Joined(hits, m) > Budget
        BY <1>1, <1>4 DEF Overflows
  <2>2. m \in 1..k
        OBVIOUS
  <2> QED BY <1>3, <1>4, <2>1, <2>2 DEF Overflows
<1>5. CASE rest = <<>>
  <2>1. /\ k - 1 = Len(list) + Len(rest) /\ \A i \in DOMAIN list : list[i] = hits[i]
        /\ ctx.tokens = Spent(list) + Separator * (Len(list) - 1)
        BY <1>1, <1>5 DEF Packed
  <2>2. Len(list) = k - 1
        BY <1>2, <1>5, <2>1, EmptySeq
  <2>3. Joined(hits, k) = Spent(list) + Cost(hit.chunk) + Separator * (k - 1)
        BY <1>2, <2>1, <2>2, JoinedIs
  <2>4. PICK s \in Nat, c \in Nat, sep \in Nat, n \in Nat :
          /\ s = Spent(list) /\ c = Cost(hit.chunk) /\ sep = Separator
          /\ n = k - 1 /\ Budget \in Nat
    <3>1. Spent(list) \in Nat
          BY <1>2, SpentAppend
    <3>2. Cost(hit.chunk) \in Nat
          BY <1>2, ConsiderIs
    <3>3. Separator \in Nat /\ Budget \in Nat
          BY AssemblyAssumption
    <3>4. k - 1 \in Nat
          OBVIOUS
    <3> QED BY <3>1, <3>2, <3>3, <3>4
  <2>5. (s + sep * (n - 1)) + c + sep > Budget
        BY <1>1, <2>1, <2>2, <2>4 DEF Projected
  <2>6. sep * n = sep * (n - 1) + sep
        OBVIOUS
  <2>7. s + c + sep * n > Budget
        BY <2>4, <2>5, <2>6
  <2>8. k \in 1..k /\ Joined(hits, k) > Budget
        BY <2>3, <2>4, <2>7
  <2> QED BY <1>3, <1>5, <2>8 DEF Overflows
<1> QED BY <1>4, <1>5

(* What the assembly returns.                                              *)
THEOREM AssemblePacks ==
    ASSUME NEW hits \in Seq(Hit)
    PROVE  /\ Assemble(hits) \in Ctx
           /\ Packed(Assemble(hits), hits, Len(hits))
           /\ Overflows(Assemble(hits), hits, Len(hits))
<1>1. PICK n \in Nat : /\ n = Len(hits) /\ DOMAIN hits = 1..n
                       /\ \A k \in 1..n : hits[k] \in Hit
      OBVIOUS
<1>2. PICK c \in [0..n -> Ctx] :
        /\ c[0] = Empty /\ c[n] = Assemble(hits)
        /\ \A k \in 1..n : c[k] = Consider(c[k - 1], hits[k])
      BY <1>1, AssembleSteps
<1> DEFINE good == {k \in 0..n : Packed(c[k], hits, k) /\ Overflows(c[k], hits, k)}
<1>3. 0 \in good
  <2>1. Packed(Empty, hits, 0) /\ Overflows(Empty, hits, 0)
    <3>1. /\ Empty.included = <<>> /\ Empty.dropped = <<>> /\ Empty.tokens = 0
          BY DEF Empty
    <3>2. DOMAIN <<>> = {} /\ Len(<<>>) = 0
          OBVIOUS
    <3> QED BY <3>1, <3>2 DEF Packed, From, Overflows
  <2> QED BY <1>2, <2>1
<1>4. ASSUME NEW k \in 1..n, (k - 1) \in good PROVE k \in good
  <2>1. /\ k \in Nat \ {0} /\ k \in 0..n /\ k - 1 \in 0..n /\ hits[k] \in Hit
        /\ c[k] = Consider(c[k - 1], hits[k]) /\ Packed(c[k - 1], hits, k - 1)
        /\ Overflows(c[k - 1], hits, k - 1)
        BY <1>1, <1>2, <1>4
  <2>2. PICK ctx, next, hit : ctx = c[k - 1] /\ next = c[k] /\ hit = hits[k]
        OBVIOUS
  <2>3. /\ ctx \in Ctx /\ next \in Ctx /\ hit \in Hit /\ hits[k] = hit
        /\ next = Consider(ctx, hit) /\ Packed(ctx, hits, k - 1)
        /\ Overflows(ctx, hits, k - 1)
        BY <1>2, <2>1, <2>2
  <2>4. \/ /\ next.included = Append(ctx.included, hit)
           /\ next.dropped = ctx.dropped
           /\ next.tokens = Projected(ctx, hit)
           /\ ctx.included = <<>> \/ Projected(ctx, hit) <= Budget
        \/ /\ next.included = ctx.included
           /\ next.dropped = Append(ctx.dropped, hit)
           /\ next.tokens = ctx.tokens
           /\ ctx.included # <<>> /\ Projected(ctx, hit) > Budget
        BY <2>3, ConsiderIs
  <2>5. Packed(next, hits, k)
        BY <2>1, <2>3, <2>4, PackedByInclusion, PackedByOmission
  <2>6. Overflows(next, hits, k)
        BY <1>1, <2>1, <2>3, <2>4, OverflowByInclusion, OverflowByOmission
  <2> QED BY <2>1, <2>2, <2>5, <2>6
<1>5. good = 0..n
  <2>1. good \in SUBSET (0..n)
        OBVIOUS
  <2> HIDE DEF good
  <2> QED BY <1>3, <1>4, <2>1, LoopHolds
<1>6. n \in 0..n
      OBVIOUS
<1> QED BY <1>1, <1>2, <1>5, <1>6

-----------------------------------------------------------------------------
(* The defects of an answer.                                               *)

(* The order that Detect sorts by.                                         *)
Earlier(i, j) ==
    \/ Severity(Checks[i]) < Severity(Checks[j])
    \/ Severity(Checks[i]) = Severity(Checks[j]) /\ i < j

(* The positions of the checks that raise their defect.                    *)
IsRaised(hits, ctx, answer) ==
    {i \in DOMAIN Checks : Raised(Checks[i], hits, ctx, answer)}

(* The five checks, and that the code of each is a defect.                 *)
LEMMA ChecksAre ==
    /\ DOMAIN Checks = 1..5 /\ IsFiniteSet(DOMAIN Checks)
    /\ \A i \in 1..5 : Severity(Checks[i]) \in Nat
    /\ Checks[1] = "EMPTY_RETRIEVAL" /\ Checks[2] = "LOW_RETRIEVAL_QUALITY"
    /\ Checks[3] = "CONTEXT_TRUNCATED" /\ Checks[4] = "LOW_CHUNK_DIVERSITY"
    /\ Checks[5] = "HALLUCINATION_SIGNAL"
    /\ \A i \in 1..5 : Checks[i] \in Defects
<1>1. DOMAIN Checks = 1..5
      BY DEF Checks
<1>2. /\ Checks[1] = "EMPTY_RETRIEVAL" /\ Checks[2] = "LOW_RETRIEVAL_QUALITY"
      /\ Checks[3] = "CONTEXT_TRUNCATED" /\ Checks[4] = "LOW_CHUNK_DIVERSITY"
      /\ Checks[5] = "HALLUCINATION_SIGNAL"
      BY DEF Checks
<1>3. IsFiniteSet(1..5)
  <2>1. PICK n \in Nat : n = 5
        OBVIOUS
  <2> QED BY <2>1, IntervalIs
<1>4. \A i \in 1..5 : Severity(Checks[i]) \in Nat
  <2>1. \A i \in 1..5 : i = 1 \/ i = 2 \/ i = 3 \/ i = 4 \/ i = 5
        OBVIOUS
  <2> QED BY <1>2, <2>1 DEF Severity
<1>5. \A i \in 1..5 : Checks[i] \in Defects
      BY <1>1 DEF Defects, ToSet
<1> QED BY <1>1, <1>2, <1>3, <1>4, <1>5

(* Each defect that is raised is reported, no other is, the most severe    *)
(* comes first.                                                            *)
LEMMA DetectIs ==
    ASSUME NEW hits, NEW ctx, NEW answer,
           NEW found, found = Detect(hits, ctx, answer)
    PROVE  /\ \A i \in 1..5 :
                Checks[i] \in ToSet(found) <=> Raised(Checks[i], hits, ctx, answer)
           /\ \A i, j \in DOMAIN found :
                i < j => Severity(found[i]) <= Severity(found[j])
           /\ \A i \in DOMAIN found : found[i] \in Defects
<1> DEFINE S == IsRaised(hits, ctx, answer)
           Ordered(list) == \A i, j \in DOMAIN list : i < j => Earlier(list[i], list[j])
           sorted == CHOOSE list \in SetToSeqs(S) : Ordered(list)
<1>1. found = [i \in DOMAIN sorted |-> Checks[sorted[i]]]
      BY DEF Detect, Sorted, Earlier, IsRaised
<1>2. S \subseteq 1..5 /\ IsFiniteSet(S)
      BY ChecksAre, FS_Subset DEF IsRaised
<1>3. PICK R : R = {p \in S \X S : Earlier(p[1], p[2])}
      OBVIOUS
<1>4. \A a, b \in S : <<a, b>> \in R <=> Earlier(a, b)
      BY <1>3
<1> HIDE DEF S
<1>5. Orders(R, S)
  <2>1. PICK sev : sev = [i \in 1..5 |-> Severity(Checks[i])]
        OBVIOUS
  <2>2. /\ \A a \in S : a \in Nat /\ sev[a] \in Nat
        /\ \A a, b \in S : Earlier(a, b) <=>
             sev[a] < sev[b] \/ (sev[a] = sev[b] /\ a < b)
    <3>1. \A a \in S : a \in 1..5 /\ a \in Nat /\ sev[a] = Severity(Checks[a])
          BY <1>2, <2>1
    <3> QED BY <3>1, ChecksAre DEF Earlier
  <2>3. \A a, b \in S : a # b => <<a, b>> \in R \/ <<b, a>> \in R
        BY <1>4, <2>2
  <2>4. \A a, b, c \in S : <<a, b>> \in R /\ <<b, c>> \in R => <<a, c>> \in R
        BY <1>4, <2>2
  <2> QED BY <2>3, <2>4 DEF Orders
<1>6. PICK list \in SetToSeqs(S) :
        \A i, j \in DOMAIN list : i < j => <<list[i], list[j]>> \in R
      BY <1>2, <1>5, SortExists
<1>7. \A i \in DOMAIN list : list[i] \in S
      BY <1>2, ListsAre
<1>8. sorted \in SetToSeqs(S) /\ Ordered(sorted)
  <2>1. Ordered(list)
        BY <1>4, <1>6, <1>7
  <2> QED BY <1>6, <2>1
<1> HIDE DEF sorted
<1>9. /\ \A i \in DOMAIN sorted : sorted[i] \in S
      /\ \A x \in S : \E i \in DOMAIN sorted : sorted[i] = x
      BY <1>2, <1>8, ListsAre
<1>10. /\ DOMAIN found = DOMAIN sorted
       /\ \A i \in DOMAIN found : found[i] = Checks[sorted[i]]
       BY <1>1
<1>11. \A i \in 1..5 : i \in S <=> Raised(Checks[i], hits, ctx, answer)
       BY ChecksAre DEF S, IsRaised
<1>12. ASSUME NEW i \in 1..5
       PROVE  Checks[i] \in ToSet(found) <=> Raised(Checks[i], hits, ctx, answer)
  <2>1. CASE i \in S
        BY <1>9, <1>10, <1>11, <2>1 DEF ToSet
  <2>2. ASSUME Checks[i] \in ToSet(found) PROVE i \in S
    <3>1. PICK n \in DOMAIN found : found[n] = Checks[i]
          BY <2>2 DEF ToSet
    <3>2. sorted[n] \in S /\ Checks[sorted[n]] = Checks[i]
          BY <1>9, <1>10, <3>1
    <3>3. sorted[n] \in 1..5
          BY <1>2, <3>2
    <3> QED BY <1>11, <3>2, <3>3
  <2> QED BY <1>11, <2>1, <2>2
<1>13. ASSUME NEW i \in DOMAIN found, NEW j \in DOMAIN found, i < j
       PROVE  Severity(found[i]) <= Severity(found[j])
  <2>1. Earlier(sorted[i], sorted[j])
        BY <1>8, <1>10, <1>13
  <2>2. sorted[i] \in 1..5 /\ sorted[j] \in 1..5
        BY <1>2, <1>9, <1>10
  <2>3. Severity(Checks[sorted[i]]) \in Nat /\ Severity(Checks[sorted[j]]) \in Nat
        BY <2>2, ChecksAre
  <2>4. Severity(Checks[sorted[i]]) <= Severity(Checks[sorted[j]])
        BY <2>1, <2>3 DEF Earlier
  <2> QED BY <1>10, <2>4
<1>14. \A i \in DOMAIN found : found[i] \in Defects
       BY <1>2, <1>9, <1>10, ChecksAre
<1> QED BY <1>12, <1>13, <1>14

(* Such a list is as long as it holds chunks.                              *)
LEMMA DistinctCount ==
    ASSUME NEW list \in Seq(Hit), Distinct(list)
    PROVE  Len(list) = Cardinality(ChunksOf(list)) /\ IsFiniteSet(ChunksOf(list))
<1>1. PICK n \in Nat : n = Len(list) /\ DOMAIN list = 1..n
      OBVIOUS
<1>2. PICK f : f = [i \in 1..n |-> list[i].chunk]
      OBVIOUS
<1>3. f \in Injection(1..n, ChunksOf(list))
  <2>1. f \in [1..n -> ChunksOf(list)]
        BY <1>1, <1>2 DEF ChunksOf
  <2>2. \A i, j \in 1..n : f[i] = f[j] => i = j
        BY <1>1, <1>2 DEF Distinct
  <2> QED BY <2>1, <2>2 DEF Injection, IsInjective
<1>4. f \in Surjection(1..n, ChunksOf(list))
  <2>1. f \in [1..n -> ChunksOf(list)]
        BY <1>1, <1>2 DEF ChunksOf
  <2>2. \A c \in ChunksOf(list) : \E i \in 1..n : f[i] = c
        BY <1>1, <1>2 DEF ChunksOf
  <2> QED BY <2>1, <2>2 DEF Surjection
<1>5. IsFiniteSet(1..n) /\ Cardinality(1..n) = n
      BY IntervalIs
<1>6. /\ IsFiniteSet(ChunksOf(list))
      /\ Cardinality(ChunksOf(list)) = Cardinality(1..n)
      BY <1>3, <1>4, <1>5, FS_Surjection
<1> QED BY <1>1, <1>5, <1>6

(* Chunks were dropped exactly if some are missing from the context.       *)
LEMMA DroppedAreMissing ==
    ASSUME NEW hits \in Seq(Hit), Distinct(hits), NEW ctx, ctx = Assemble(hits)
    PROVE  /\ WasTruncated(ctx) <=> ChunksOf(hits) # ChunksOf(ctx.included)
           /\ HasText(ctx) => ChunksOf(hits) # {}
<1>1. PICK n \in Nat : n = Len(hits) /\ DOMAIN hits = 1..n
      OBVIOUS
<1>2. ctx \in Ctx /\ Packed(ctx, hits, n)
      BY <1>1, AssemblePacks
<1>3. PICK list, rest : list = ctx.included /\ rest = ctx.dropped
      OBVIOUS
<1>4. /\ list \in Seq(Hit) /\ rest \in Seq(Hit) /\ From(list, hits, n)
      /\ \A m \in 1..n : \/ \E i \in DOMAIN list : list[i] = hits[m]
                         \/ \E i \in DOMAIN rest : rest[i] = hits[m]
      /\ n = Len(list) + Len(rest)
      BY <1>2, <1>3 DEF Packed, Ctx
<1>5. \A i \in DOMAIN list : \E m \in 1..n : hits[m] = list[i]
      BY <1>4 DEF From
<1>6. Distinct(list)
  <2>1. ASSUME NEW i \in DOMAIN list, NEW j \in DOMAIN list, i < j
        PROVE  list[i].chunk # list[j].chunk
    <3>1. PICK p \in 1..n, q \in 1..n : p < q /\ hits[p] = list[i] /\ hits[q] = list[j]
          BY <1>4, <2>1 DEF From
    <3>2. hits[p].chunk # hits[q].chunk
          BY <1>1, <3>1 DEF Distinct
    <3> QED BY <3>1, <3>2
  <2>2. \A i, j \in DOMAIN list : i # j => i < j \/ j < i
        BY <1>4
  <2> QED BY <2>1, <2>2 DEF Distinct
<1>7. /\ Len(list) = Cardinality(ChunksOf(list))
      /\ n = Cardinality(ChunksOf(hits))
      BY <1>1, <1>4, <1>6, DistinctCount
<1>8. ASSUME rest = <<>> PROVE ChunksOf(hits) = ChunksOf(list)
  <2>1. DOMAIN rest = {}
        BY <1>8
  <2>2. \A m \in 1..n : \E i \in DOMAIN list : list[i] = hits[m]
        BY <1>4, <2>1
  <2> QED BY <1>1, <1>5, <2>2 DEF ChunksOf
<1>9. ASSUME ChunksOf(hits) = ChunksOf(list) PROVE rest = <<>>
  <2>1. n = Len(list)
        BY <1>7, <1>9
  <2>2. Len(rest) = 0
        BY <1>4, <2>1
  <2> QED BY <1>4, <2>2, EmptySeq
<1>10. ASSUME list # <<>> PROVE ChunksOf(hits) # {}
  <2>1. Len(list) # 0
        BY <1>4, <1>10, EmptySeq
  <2>2. 1 \in DOMAIN list
        BY <1>4, <2>1
  <2>3. PICK m \in 1..n : hits[m] = list[1]
        BY <1>5, <2>2
  <2> QED BY <1>1, <2>3 DEF ChunksOf
<1> QED BY <1>3, <1>8, <1>9, <1>10 DEF WasTruncated, HasText

(* Too small a share of the answer in the prompt leaves a large one out.   *)
LEMMA AnswerSplits ==
    ASSUME NEW answer, IsFiniteSet(answer), NEW prompt,
           100 * Cardinality(answer \cap prompt) < Overlap * Cardinality(answer)
    PROVE  100 * Cardinality(answer \ prompt) > (100 - Overlap) * Cardinality(answer)
<1>1. PICK shared, left : shared = answer \cap prompt /\ left = answer \ prompt
      OBVIOUS
<1>2. /\ IsFiniteSet(shared) /\ IsFiniteSet(left)
      /\ Cardinality(left) = Cardinality(answer) - Cardinality(shared)
  <2>1. /\ IsFiniteSet(answer \ prompt)
        /\ Cardinality(answer \ prompt)
             = Cardinality(answer) - Cardinality(answer \cap prompt)
        BY FS_Difference
  <2>2. shared \in SUBSET answer
        BY <1>1
  <2> QED BY <1>1, <2>1, <2>2, FS_Subset
<1>3. PICK a \in Nat, s \in Nat, l \in Nat, o \in Nat :
        /\ a = Cardinality(answer) /\ s = Cardinality(shared)
        /\ l = Cardinality(left) /\ o = Overlap
      BY <1>2, FS_CardinalityType, DetectionAssumption
<1>4. l = a - s /\ 100 * s < o * a
      BY <1>1, <1>2, <1>3
<1>5. (100 - o) * a = 100 * a - o * a
      OBVIOUS
<1>6. PICK p \in Nat : p = o * a
      OBVIOUS
<1>7. 100 * l > (100 - o) * a
  <2>1. 100 * l = 100 * a - 100 * s
        BY <1>4
  <2>2. 100 * s < p /\ (100 - o) * a = 100 * a - p
        BY <1>4, <1>5, <1>6
  <2> QED BY <2>1, <2>2
<1> QED BY <1>1, <1>3, <1>7

(* What the chunks that are kept know of the searches.                     *)
LEMMA KeptAre ==
    ASSUME NEW dense, NEW sparse, IsRanking(dense), IsRanking(sparse),
           NEW n \in Nat \ {0}, NEW fused, fused = Fuse(dense, sparse, n),
           NEW asked, NEW model, NEW k \in Nat \ {0},
           NEW hits \in Reranked(fused, asked, model, k)
    PROVE  /\ hits \in Seq(Hit) /\ Distinct(hits)
           /\ hits = <<>> <=> dense = <<>> /\ sparse = <<>>
           /\ \A i \in DOMAIN hits :
                Quality(hits[i]) =
                    IF hits[i].chunk \in ChunksOf(dense)
                    THEN ScoreIn(dense, hits[i].chunk)
                    ELSE ScoreIn(sparse, hits[i].chunk)
           /\ \A i \in DOMAIN hits : Quality(hits[i]) \in Nat
<1>1. /\ fused \in Seq(Hit) /\ Len(fused) \in Nat /\ DOMAIN fused = 1..Len(fused)
      /\ ChunksOf(fused) \subseteq Found(dense, sparse)
      /\ Distinct(fused)
      /\ Len(fused) = n \/ ChunksOf(fused) = Found(dense, sparse)
      /\ \A i \in DOMAIN fused :
           /\ fused[i].dense  = ScoreIn(dense, fused[i].chunk)
           /\ fused[i].sparse = ScoreIn(sparse, fused[i].chunk)
  <2>1. IsFusion(fused, dense, sparse, n)
        BY FuseIs
  <2> QED BY <2>1 DEF IsFusion
<1>2. /\ hits \in Seq(Hit)
      /\ Distinct(hits)
      /\ \A i \in DOMAIN hits : \E j \in DOMAIN fused : hits[i] = fused[j]
      /\ hits = <<>> <=> fused = <<>>
  <2>1. IsSelection(hits, fused)
        BY <1>1, RerankedIs
  <2> QED BY <2>1 DEF IsSelection
<1>3. fused = <<>> <=> dense = <<>> /\ sparse = <<>>
  <2>1. ASSUME fused = <<>> PROVE dense = <<>> /\ sparse = <<>>
    <3>1. Len(fused) = 0 /\ DOMAIN fused = {}
          BY <2>1
    <3>2. ChunksOf(fused) = {}
          BY <3>1 DEF ChunksOf
    <3>3. Found(dense, sparse) = {}
          BY <1>1, <3>1, <3>2
    <3>4. DOMAIN dense = {} /\ DOMAIN sparse = {}
          BY <3>3 DEF Found, ChunksOf
    <3>5. /\ dense \in Seq([chunk : Chunks, score : Nat])
          /\ sparse \in Seq([chunk : Chunks, score : Nat])
          BY DEF IsRanking
    <3> QED BY <3>4, <3>5
  <2>2. ASSUME dense = <<>>, sparse = <<>> PROVE fused = <<>>
    <3>1. DOMAIN dense = {} /\ DOMAIN sparse = {}
          BY <2>2
    <3>2. Found(dense, sparse) = {}
          BY <3>1 DEF Found, ChunksOf
    <3>3. DOMAIN fused = {}
      <4>1. ChunksOf(fused) = {}
            BY <1>1, <3>2
      <4> QED BY <4>1 DEF ChunksOf
    <3>4. Len(fused) = 0
          BY <1>1, <3>3
    <3> QED BY <1>1, <3>4, EmptySeq
  <2> QED BY <2>1, <2>2
<1>4. ASSUME NEW i \in DOMAIN hits
      PROVE  /\ Quality(hits[i]) = IF hits[i].chunk \in ChunksOf(dense)
                                   THEN ScoreIn(dense, hits[i].chunk)
                                   ELSE ScoreIn(sparse, hits[i].chunk)
             /\ Quality(hits[i]) \in Nat
  <2>1. PICK c : c = hits[i].chunk
        OBVIOUS
  <2>2. /\ hits[i].dense = ScoreIn(dense, c) /\ hits[i].sparse = ScoreIn(sparse, c)
        /\ c \in ChunksOf(dense) \/ c \in ChunksOf(sparse)
    <3>1. PICK j \in DOMAIN fused : hits[i] = fused[j]
          BY <1>2
    <3>2. fused[j].chunk \in Found(dense, sparse)
          BY <1>1 DEF ChunksOf
    <3> QED BY <1>1, <2>1, <3>1, <3>2 DEF Found
  <2>3. \A list : IsRanking(list) =>
          ScoreIn(list, c) = None \/ ScoreIn(list, c) \in Nat
    <3>1. ASSUME NEW list, IsRanking(list), c \in ChunksOf(list)
          PROVE  ScoreIn(list, c) \in Nat
      <4>1. RankIn(list, c) \in DOMAIN list
            BY <3>1, RankingIs
      <4>2. list[RankIn(list, c)] \in [chunk : Chunks, score : Nat]
            BY <3>1, <4>1, RankingIs
      <4>3. ScoreIn(list, c) = list[RankIn(list, c)].score
            BY <3>1 DEF ScoreIn
      <4> QED BY <4>2, <4>3
    <3> QED BY <3>1 DEF ScoreIn
  <2>4. \A list : IsRanking(list) =>
          (c \in ChunksOf(list) <=> ScoreIn(list, c) # None)
    <3>1. ASSUME NEW list, IsRanking(list), c \in ChunksOf(list)
          PROVE  ScoreIn(list, c) # None
      <4>1. RankIn(list, c) \in DOMAIN list
            BY <3>1, RankingIs
      <4>2. list[RankIn(list, c)] \in [chunk : Chunks, score : Nat]
            BY <3>1, <4>1, RankingIs
      <4>3. ScoreIn(list, c) = list[RankIn(list, c)].score
            BY <3>1 DEF ScoreIn
      <4> QED BY <4>2, <4>3, RankingAssumption
    <3> QED BY <3>1 DEF ScoreIn
  <2>5. Quality(hits[i]) = IF c \in ChunksOf(dense) THEN ScoreIn(dense, c)
                                                    ELSE ScoreIn(sparse, c)
        BY <2>2, <2>4 DEF Quality
  <2> QED BY <2>1, <2>2, <2>3, <2>4, <2>5
<1> QED BY <1>2, <1>3, <1>4

(* The claims of DefectsTellTheTruth, of one answer.                       *)
TellsTruth(dense, sparse, hits, ctx, answer, defects) ==
    LET raised  == ToSet(defects)
        kept    == ChunksOf(hits)
        good(c) == IF c \in ChunksOf(dense)
                   THEN ScoreIn(dense, c) >= Similarity
                   ELSE ScoreIn(sparse, c) >= Similarity
        prompt  == UNION {Words(c) : c \in ChunksOf(ctx.included)}
    IN  /\ ("EMPTY_RETRIEVAL" \in raised) <=> (dense = <<>> /\ sparse = <<>>)
        /\ ("LOW_RETRIEVAL_QUALITY" \in raised)
              <=> (kept # {} /\ ~\E c \in kept : good(c))
        /\ ("CONTEXT_TRUNCATED" \in raised) <=> (kept # ChunksOf(ctx.included))
        /\ ("LOW_CHUNK_DIVERSITY" \in raised)
              <=> (Cardinality(kept) > 1 /\ Cardinality({Source(c) : c \in kept}) = 1)
        /\ ("HALLUCINATION_SIGNAL" \in raised) =>
              (kept # {} /\ 100 * Cardinality(answer \ prompt)
                  > (100 - Overlap) * Cardinality(answer))
        /\ \A i, j \in DOMAIN defects :
              i < j => Severity(defects[i]) <= Severity(defects[j])

(* What Detect returns for lists that come from the searches by way of     *)
(* fusion, reranking and packing is true of them, and the worst comes      *)
(* first.  Code: RAGPipeline.run and DefectDetector.detect.                *)
THEOREM DefectsAre ==
    ASSUME NEW dense, NEW sparse, IsRanking(dense), IsRanking(sparse),
           NEW n \in Nat \ {0}, NEW fused, fused = Fuse(dense, sparse, n),
           NEW asked, NEW model, NEW k \in Nat \ {0},
           NEW hits \in Reranked(fused, asked, model, k),
           NEW ctx, ctx = Assemble(hits), NEW answer, IsFiniteSet(answer),
           NEW defects, defects = Detect(hits, ctx, answer)
    PROVE  TellsTruth(dense, sparse, hits, ctx, answer, defects)
<1> DEFINE raised  == ToSet(defects)
           kept    == ChunksOf(hits)
           good(c) == IF c \in ChunksOf(dense)
                      THEN ScoreIn(dense, c) >= Similarity
                      ELSE ScoreIn(sparse, c) >= Similarity
           prompt  == UNION {Words(c) : c \in ChunksOf(ctx.included)}
<1>1. /\ hits \in Seq(Hit) /\ Distinct(hits)
      /\ hits = <<>> <=> dense = <<>> /\ sparse = <<>>
      /\ \A i \in DOMAIN hits :
           Quality(hits[i]) = IF hits[i].chunk \in ChunksOf(dense)
                              THEN ScoreIn(dense, hits[i].chunk)
                              ELSE ScoreIn(sparse, hits[i].chunk)
      /\ \A i \in DOMAIN hits : Quality(hits[i]) \in Nat
      BY KeptAre
<1>2. /\ \A i \in 1..5 :
           Checks[i] \in raised <=> Raised(Checks[i], hits, ctx, answer)
      /\ \A i, j \in DOMAIN defects :
           i < j => Severity(defects[i]) <= Severity(defects[j])
      BY DetectIs
<1>3. /\ ("EMPTY_RETRIEVAL" \in raised) <=> hits = <<>>
      /\ ("LOW_RETRIEVAL_QUALITY" \in raised) <=> LowQuality(hits)
      /\ ("CONTEXT_TRUNCATED" \in raised) <=> WasTruncated(ctx)
      /\ ("LOW_CHUNK_DIVERSITY" \in raised) <=> LowDiversity(hits)
      /\ ("HALLUCINATION_SIGNAL" \in raised) <=> LowOverlap(ctx, answer)
  <2>1. 1 \in 1..5 /\ 2 \in 1..5 /\ 3 \in 1..5 /\ 4 \in 1..5 /\ 5 \in 1..5
        OBVIOUS
  <2>2. /\ Checks[1] = "EMPTY_RETRIEVAL" /\ Checks[2] = "LOW_RETRIEVAL_QUALITY"
        /\ Checks[3] = "CONTEXT_TRUNCATED" /\ Checks[4] = "LOW_CHUNK_DIVERSITY"
        /\ Checks[5] = "HALLUCINATION_SIGNAL"
        BY ChecksAre
  <2> HIDE DEF raised
  <2> QED BY <1>2, <2>1, <2>2 DEF Raised
<1>4. PICK l \in Nat : l = Len(hits) /\ DOMAIN hits = 1..l
      BY <1>1
<1>5. /\ kept = {hits[i].chunk : i \in DOMAIN hits}
      /\ kept = {} <=> hits = <<>>
  <2>1. kept = {hits[i].chunk : i \in DOMAIN hits}
        BY DEF ChunksOf
  <2>2. ASSUME hits # <<>> PROVE kept # {}
    <3>1. l # 0
          BY <1>1, <1>4, <2>2, EmptySeq
    <3>2. 1 \in DOMAIN hits
          BY <1>4, <3>1
    <3> QED BY <2>1, <3>2
  <2>3. ASSUME hits = <<>> PROVE kept = {}
    <3>1. DOMAIN hits = {}
          BY <2>3
    <3> QED BY <2>1, <3>1
  <2> QED BY <2>1, <2>2, <2>3
<1>6. Cardinality(kept) = l
      BY <1>1, <1>4, DistinctCount
<1>7. LowQuality(hits) <=> (kept # {} /\ ~\E c \in kept : good(c))
  <2>1. ASSUME NEW i \in DOMAIN hits
        PROVE  Quality(hits[i]) < Similarity <=> ~good(hits[i].chunk)
    <3>1. Quality(hits[i]) \in Nat /\ Similarity \in Nat
          BY <1>1, DetectionAssumption
    <3>2. PICK q : q = Quality(hits[i])
          OBVIOUS
    <3>3. good(hits[i].chunk) <=> q >= Similarity
          BY <1>1, <3>2
    <3> QED BY <3>1, <3>2, <3>3
  <2> HIDE DEF good, kept
  <2> QED BY <1>5, <2>1 DEF LowQuality
<1>8. WasTruncated(ctx) <=> kept # ChunksOf(ctx.included)
      BY <1>1, DroppedAreMissing
<1>9. LowDiversity(hits)
        <=> (Cardinality(kept) > 1 /\ Cardinality({Source(c) : c \in kept}) = 1)
  <2>1. {Source(hits[i].chunk) : i \in DOMAIN hits} = {Source(c) : c \in kept}
        BY <1>5
  <2>2. Len(hits) >= 2 <=> Cardinality(kept) > 1
        BY <1>4, <1>6
  <2> HIDE DEF kept
  <2> QED BY <2>1, <2>2 DEF LowDiversity
<1>10. LowOverlap(ctx, answer) =>
         kept # {} /\ 100 * Cardinality(answer \ prompt)
                        > (100 - Overlap) * Cardinality(answer)
  <2>1. ASSUME LowOverlap(ctx, answer)
        PROVE  kept # {} /\ 100 * Cardinality(answer \ prompt)
                              > (100 - Overlap) * Cardinality(answer)
    <3>1. kept # {}
          BY <1>1, <2>1, DroppedAreMissing DEF LowOverlap
    <3>2. ContextWords(ctx) = prompt
          BY DEF ContextWords, ChunksOf
    <3> HIDE DEF prompt
    <3>3. 100 * Cardinality(answer \cap prompt) < Overlap * Cardinality(answer)
          BY <2>1, <3>2 DEF LowOverlap
    <3>4. 100 * Cardinality(answer \ prompt) > (100 - Overlap) * Cardinality(answer)
          BY <3>3, AnswerSplits
    <3> QED BY <3>1, <3>4
  <2> HIDE DEF prompt, kept
  <2> QED BY <2>1
<1> HIDE DEF raised, kept, prompt, good
<1>11. /\ ("EMPTY_RETRIEVAL" \in raised) <=> (dense = <<>> /\ sparse = <<>>)
       /\ ("LOW_RETRIEVAL_QUALITY" \in raised)
             <=> (kept # {} /\ ~\E c \in kept : good(c))
       /\ ("CONTEXT_TRUNCATED" \in raised) <=> (kept # ChunksOf(ctx.included))
       /\ ("LOW_CHUNK_DIVERSITY" \in raised)
             <=> (Cardinality(kept) > 1 /\ Cardinality({Source(c) : c \in kept}) = 1)
       /\ ("HALLUCINATION_SIGNAL" \in raised) =>
             (kept # {} /\ 100 * Cardinality(answer \ prompt)
                 > (100 - Overlap) * Cardinality(answer))
  <2>1. ("EMPTY_RETRIEVAL" \in raised) <=> (dense = <<>> /\ sparse = <<>>)
        BY <1>1, <1>3
  <2>2. ("LOW_RETRIEVAL_QUALITY" \in raised)
             <=> (kept # {} /\ ~\E c \in kept : good(c))
        BY <1>3, <1>7
  <2>3. ("CONTEXT_TRUNCATED" \in raised) <=> (kept # ChunksOf(ctx.included))
        BY <1>3, <1>8
  <2>4. ("LOW_CHUNK_DIVERSITY" \in raised)
             <=> (Cardinality(kept) > 1 /\ Cardinality({Source(c) : c \in kept}) = 1)
        BY <1>3, <1>9
  <2>5. ("HALLUCINATION_SIGNAL" \in raised) =>
             (kept # {} /\ 100 * Cardinality(answer \ prompt)
                 > (100 - Overlap) * Cardinality(answer))
        BY <1>3, <1>10
  <2> QED BY <2>1, <2>2, <2>3, <2>4, <2>5
<1> QED BY <1>2, <1>11 DEF TellsTruth, raised, kept, prompt, good
=============================================================================
