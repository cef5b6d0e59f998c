-------------------------- MODULE BrowsePageProofs --------------------------
(***************************************************************************)
(* Proofs about the home page: the listing (Browse, with Search) and the   *)
(* grid it is shown in (WallpaperGrid, with MuuriGrid).                    *)
(*                                                                         *)
(* The children of the grid and the hits of a search are sequences made by *)
(* rank (Ordered); the first part says what those hold. The provers have   *)
(* no induction, so what a recursive definition computes is shown of the   *)
(* least number for which it could be wrong.                               *)
(***************************************************************************)
EXTENDS Browse, WallpaperGrid, FiniteSetTheorems, WellFoundedInduction, TLAPS

-----------------------------------------------------------------------------
(* Sequences by rank, and one after the other.                              *)

\* The order Z is a strict total order on S.
Orders(Z, S) ==
  /\ \A a \in S : <<a, a>> \notin Z
  /\ \A a, b, c \in S : <<a, b>> \in Z /\ <<b, c>> \in Z => <<a, c>> \in Z
  /\ \A a, b \in S : a # b => <<a, b>> \in Z \/ <<b, a>> \in Z

\* How many elements of S come before d.
Rank(Z, S, d) == Cardinality({e \in S : <<e, d>> \in Z})

\* An element that comes before another has the smaller rank.
LEMMA RankIncreases ==
  ASSUME NEW S, IsFiniteSet(S), NEW Z, Orders(Z, S),
         NEW a \in S, NEW b \in S, <<a, b>> \in Z
  PROVE  Rank(Z, S, a) < Rank(Z, S, b)
<1> DEFINE Before_a == {e \in S : <<e, a>> \in Z}
           Before_b == {e \in S : <<e, b>> \in Z}
<1>1. Before_a \subseteq Before_b /\ a \in Before_b /\ a \notin Before_a
  BY DEF Orders
<1>2. IsFiniteSet(Before_b)
  BY FS_Subset
<1>3. /\ IsFiniteSet(Before_a)
      /\ Cardinality(Before_a) <= Cardinality(Before_b)
      /\ Cardinality(Before_a) # Cardinality(Before_b)
  BY <1>1, <1>2, FS_Subset
<1>4. Cardinality(Before_a) \in Nat /\ Cardinality(Before_b) \in Nat
  BY <1>2, <1>3, FS_CardinalityType
<1> QED
  BY <1>3, <1>4 DEF Rank

\* The ranks are the numbers from zero to one less than the number of elements.
LEMMA RanksAreAll ==
  ASSUME NEW S, IsFiniteSet(S), NEW Z, Orders(Z, S)
  PROVE  /\ \A d \in S : Rank(Z, S, d) \in 0 .. Cardinality(S) - 1
         /\ \A k \in 0 .. Cardinality(S) - 1 : \E d \in S : Rank(Z, S, d) = k
<1> DEFINE n == Cardinality(S)
           rank == [d \in S |-> Rank(Z, S, d)]
<1>1. n \in Nat
  BY FS_CardinalityType
<1>2. ASSUME NEW d \in S
      PROVE  Rank(Z, S, d) \in 0 .. n - 1
  <2> DEFINE Earlier == {e \in S : <<e, d>> \in Z}
  <2>1. Earlier \subseteq S \ {d}
    BY DEF Orders
  <2>2. IsFiniteSet(S \ {d}) /\ Cardinality(S \ {d}) = n - 1
    BY FS_RemoveElement
  <2>3. IsFiniteSet(Earlier) /\ Cardinality(Earlier) <= Cardinality(S \ {d})
    BY <2>1, <2>2, FS_Subset
  <2>4. Cardinality(Earlier) \in Nat
    BY <2>3, FS_CardinalityType
  <2> QED
    BY <1>1, <2>2, <2>3, <2>4 DEF Rank
<1>3. rank \in [S -> 0 .. n - 1]
  BY <1>2
<1>4. \A a, b \in S : rank[a] = rank[b] => a = b
  <2> SUFFICES ASSUME NEW a \in S, NEW b \in S, a # b
               PROVE  rank[a] # rank[b]
    OBVIOUS
  <2>1. Rank(Z, S, a) < Rank(Z, S, b) \/ Rank(Z, S, b) < Rank(Z, S, a)
    BY RankIncreases DEF Orders
  <2>2. Rank(Z, S, a) \in Int /\ Rank(Z, S, b) \in Int
    BY <1>2
  <2> QED
    BY <2>1, <2>2
<1>5. IsFiniteSet(0 .. n - 1) /\ Cardinality(0 .. n - 1) = n
  BY <1>1, FS_Interval, SMTT(60)
<1>6. ASSUME NEW k \in 0 .. n - 1, \A d \in S : rank[d] # k
      PROVE  FALSE
  <2> DEFINE Other == (0 .. n - 1) \ {k}
  <2>1. IsFiniteSet(Other) /\ Cardinality(Other) = n - 1
    BY <1>5, FS_RemoveElement
  <2>2. rank \in [S -> Other]
    BY <1>3, <1>6
  <2>3. Cardinality(Other) < Cardinality(S)
    BY <1>1, <2>1
  <2> HIDE DEF Other, rank
  <2>4. \E a, b \in S : a # b /\ rank[a] = rank[b]
    BY <2>1, <2>2, <2>3, FS_PigeonHole
  <2> QED
    BY <1>4, <2>4
<1> QED
  BY <1>2, <1>6

\* s holds every element of S, once, in the order Z.
Lists(s, S, Z) ==
  /\ s \in Seq(S) /\ Len(s) = Cardinality(S)
  /\ \A d \in S : \E i \in 1 .. Len(s) : s[i] = d
  /\ \A i, j \in 1 .. Len(s) : s[i] = s[j] => i = j
  /\ \A i, j \in 1 .. Len(s) : i < j <=> <<s[i], s[j]>> \in Z

\* A sequence of the elements of S by rank is S in the order Z.
LEMMA ByRank ==
  ASSUME NEW S, IsFiniteSet(S), NEW Z, Orders(Z, S),
         NEW s \in [1 .. Cardinality(S) -> S],
         \A i \in 1 .. Cardinality(S) : Rank(Z, S, s[i]) = i - 1
  PROVE  Lists(s, S, Z)
<1>1. Cardinality(S) \in Nat
  BY FS_CardinalityType
<1>2. s \in Seq(S) /\ Len(s) = Cardinality(S)
  BY <1>1
<1>3. \A i, j \in 1 .. Len(s) : s[i] = s[j] => i = j
  BY <1>1, <1>2
<1>4. ASSUME NEW i \in 1 .. Len(s), NEW j \in 1 .. Len(s), <<s[i], s[j]>> \in Z
      PROVE  i < j
  BY <1>1, <1>2, <1>4, RankIncreases
<1>5. ASSUME NEW i \in 1 .. Len(s), NEW j \in 1 .. Len(s), i < j
      PROVE  <<s[i], s[j]>> \in Z
  <2>1. s[i] \in S /\ s[j] \in S /\ s[i] # s[j]
    BY <1>1, <1>2, <1>3, <1>5
  <2>2. CASE <<s[j], s[i]>> \in Z
    BY <1>1, <1>2, <1>4, <1>5, <2>2
  <2> QED
    BY <2>1, <2>2 DEF Orders
<1>6. ASSUME NEW d \in S
      PROVE  \E i \in 1 .. Len(s) : s[i] = d
  <2>1. Rank(Z, S, d) \in 0 .. Cardinality(S) - 1
    BY RanksAreAll
  <2> DEFINE i == Rank(Z, S, d) + 1
  <2>2. i \in 1 .. Len(s) /\ Rank(Z, S, s[i]) = Rank(Z, S, d)
    BY <1>1, <1>2, <2>1
  <2> HIDE DEF i
  <2>3. s[i] \in S
    BY <1>2, <2>2
  <2>4. ~(<<s[i], d>> \in Z) /\ ~(<<d, s[i]>> \in Z)
    BY <2>1, <2>2, <2>3, RankIncreases
  <2> QED
    BY <2>2, <2>3, <2>4 DEF Orders
<1> QED
  BY <1>2, <1>3, <1>4, <1>5, <1>6 DEF Lists

\* What is left of a sequence at the indices in I: those elements, in their order.
LEMMA AtIndices ==
  ASSUME NEW T, NEW s \in Seq(T), NEW I \in SUBSET DOMAIN s
  PROVE  /\ At(s, I) \in Seq(T)
         /\ Len(At(s, I)) = Cardinality(I)
         /\ Sorted(I, <) \in [1 .. Cardinality(I) -> I]
         /\ \A k \in 1 .. Cardinality(I) : At(s, I)[k] = s[Sorted(I, <)[k]]
         /\ \A i \in I : \E k \in 1 .. Cardinality(I) : Sorted(I, <)[k] = i
         /\ \A k, l \in 1 .. Cardinality(I) : k < l <=> Sorted(I, <)[k] < Sorted(I, <)[l]
<1> DEFINE Z == {p \in I \X I : p[1] < p[2]}
           index == Sorted(I, <)
           n == Cardinality(I)
<1>1. DOMAIN s = 1 .. Len(s) /\ Len(s) \in Nat /\ I \subseteq Nat
  OBVIOUS
<1>2. IsFiniteSet(I) /\ n \in Nat
  <2>1. IsFiniteSet(1 .. Len(s))
    BY <1>1, FS_Interval
  <2>2. IsFiniteSet(I)
    BY <1>1, <2>1, FS_Subset
  <2> QED
    BY <2>2, FS_CardinalityType
<1>3. Orders(Z, I)
  BY <1>1 DEF Orders
<1>4. \A d \in I : Rank(Z, I, d) = Cardinality({e \in I : e < d})
  <2> SUFFICES ASSUME NEW d \in I
               PROVE  {e \in I : <<e, d>> \in Z} = {e \in I : e < d}
    BY DEF Rank
  <2> QED
    OBVIOUS
<1>5. ASSUME NEW k \in 1 .. n
      PROVE  \E d \in I : Rank(Z, I, d) = k - 1
  <2>1. k - 1 \in 0 .. Cardinality(I) - 1
    BY <1>2
  <2> HIDE DEF Z
  <2> QED
    BY <1>2, <1>3, <2>1, RanksAreAll
<1>6. \A k \in 1 .. n : \E d \in I : Cardinality({e \in I : e < d}) = k - 1
  BY <1>4, <1>5
<1>7. /\ index \in [1 .. n -> I]
      /\ \A k \in 1 .. n : Cardinality({e \in I : e < index[k]}) = k - 1
  BY <1>6 DEF Sorted
<1> HIDE DEF Z, index
<1>8. \A k \in 1 .. n : Rank(Z, I, index[k]) = k - 1
  BY <1>4, <1>7
<1>9. /\ Len(index) = n
      /\ \A d \in I : \E k \in 1 .. Len(index) : index[k] = d
      /\ \A k, l \in 1 .. Len(index) : k < l <=> <<index[k], index[l]>> \in Z
  <2>1. index \in [1 .. Cardinality(I) -> I]
    BY <1>7
  <2>2. Len(index) = n
    BY <1>2, <2>1
  <2>3. \A k \in 1 .. Cardinality(I) : Rank(Z, I, index[k]) = k - 1
    BY <1>8
  <2>4. Lists(index, I, Z)
    BY <1>2, <1>3, <2>1, <2>3, ByRank
  <2> QED
    BY <2>2, <2>4 DEF Lists
<1>10. \A k, l \in 1 .. n : k < l <=> index[k] < index[l]
  BY <1>7, <1>9 DEF Z
<1>11. At(s, I) = [k \in 1 .. n |-> s[index[k]]]
  <2>1. At(s, I) = [k \in DOMAIN index |-> s[index[k]]]
    BY DEF At, index
  <2> QED
    BY <1>7, <2>1
<1>12. At(s, I) \in Seq(T) /\ Len(At(s, I)) = n
  <2>1. \A k \in 1 .. n : s[index[k]] \in T
    BY <1>1, <1>7
  <2> HIDE DEF n
  <2> QED
    BY <1>2, <1>11, <2>1
<1> QED
  BY <1>7, <1>9, <1>10, <1>11, <1>12 DEF index

\* They are what s holds at those indices, each once, so no two are one if no two
\* of s are.
LEMMA AtHolds ==
  ASSUME NEW T, NEW s \in Seq(T), NEW I \in SUBSET DOMAIN s
  PROVE  /\ At(s, I) \in Seq(T)
         /\ Range(At(s, I)) = {s[i] : i \in I}
         /\ \A k, l \in 1 .. Len(At(s, I)) : k # l =>
              \E i, j \in I : i # j /\ At(s, I)[k] = s[i] /\ At(s, I)[l] = s[j]
         /\ IsInjective(s) => IsInjective(At(s, I))
<1> DEFINE index == Sorted(I, <)
           n == Cardinality(I)
           w == At(s, I)
<1>1. /\ w \in Seq(T) /\ Len(w) = n
      /\ index \in [1 .. n -> I]
      /\ \A k \in 1 .. n : w[k] = s[index[k]]
      /\ \A i \in I : \E k \in 1 .. n : index[k] = i
      /\ \A k, l \in 1 .. n : k < l <=> index[k] < index[l]
  BY AtIndices, ZenonT(90)
<1>2. DOMAIN w = 1 .. n /\ n \in Nat /\ \A i \in I : i \in Nat
  <2> HIDE DEF index, w, n
  <2> QED
    BY <1>1
<1> HIDE DEF index, w, n
<1>3. Range(w) = {s[i] : i \in I}
  <2>1. ASSUME NEW k \in 1 .. n
        PROVE  w[k] \in {s[i] : i \in I}
    BY <1>1
  <2>2. ASSUME NEW i \in I
        PROVE  \E k \in 1 .. n : w[k] = s[i]
    BY <1>1
  <2> QED
    BY <1>2, <2>1, <2>2 DEF Range
<1>4. \A k, l \in 1 .. n : index[k] = index[l] => k = l
  <2> SUFFICES ASSUME NEW k \in 1 .. n, NEW l \in 1 .. n, index[k] = index[l]
               PROVE  k = l
    OBVIOUS
  <2>1. index[k] \in Nat /\ index[l] \in Nat
    BY <1>1, <1>2
  <2>2. ~(index[k] < index[l]) /\ ~(index[l] < index[k])
    BY <2>1
  <2> QED
    BY <1>1, <1>2, <2>2
<1>5. \A k, l \in 1 .. n : k # l => \E i, j \in I : i # j /\ w[k] = s[i] /\ w[l] = s[j]
  BY <1>1, <1>4, SMTT(60)
<1>6. IsInjective(s) => IsInjective(w)
  BY <1>1, <1>2, <1>5 DEF IsInjective
<1> QED
  BY <1>1, <1>3, <1>5, <1>6 DEF w

\* Without(s, S) holds what s holds outside S, and no element twice if s does not.
LEMMA WithoutProperties ==
  ASSUME NEW T, NEW s \in Seq(T), NEW S
  PROVE  /\ Without(s, S) \in Seq(T)
         /\ Range(Without(s, S)) = Range(s) \ S
         /\ IsInjective(s) => IsInjective(Without(s, S))
<1> DEFINE I == {i \in DOMAIN s : s[i] \notin S}
<1>1. I \in SUBSET DOMAIN s
  OBVIOUS
<1>2. Without(s, S) = At(s, I)
  BY DEF Without
<1>3. {s[i] : i \in I} = Range(s) \ S
  BY DEF Range
<1> HIDE DEF I
<1> QED
  BY <1>1, <1>2, <1>3, AtHolds

\* Within(s, S) holds what s holds of S, and no element twice if s does not.
LEMMA WithinProperties ==
  ASSUME NEW T, NEW s \in Seq(T), NEW S
  PROVE  /\ Within(s, S) \in Seq(T)
         /\ Range(Within(s, S)) = Range(s) \cap S
         /\ IsInjective(s) => IsInjective(Within(s, S))
<1> DEFINE R == Range(s) \ S
<1>1. {i \in DOMAIN s : s[i] \in S} = {i \in DOMAIN s : s[i] \notin R}
  BY DEF Range
<1>2. Within(s, S) = Without(s, R)
  BY <1>1 DEF Within, Without
<1>3. Range(s) \ R = Range(s) \cap S
  OBVIOUS
<1> HIDE DEF R
<1> QED
  BY <1>2, <1>3, WithoutProperties

\* The empty sequence holds nothing.
LEMMA EmptyDistinct ==
  ASSUME NEW T
  PROVE  <<>> \in Seq(T) /\ Range(<<>>) = {} /\ IsInjective(<<>>)
<1>1. <<>> \in Seq(T) /\ DOMAIN <<>> = {}
  OBVIOUS
<1> QED
  BY <1>1 DEF Range, IsInjective

\* s \o t holds what s and t hold, and no element twice if neither does and they
\* have none in common.
LEMMA ConcatDistinct ==
  ASSUME NEW T, NEW s \in Seq(T), NEW t \in Seq(T)
  PROVE  /\ s \o t \in Seq(T)
         /\ Range(s \o t) = Range(s) \cup Range(t)
         /\ IsInjective(s) /\ IsInjective(t) /\ Range(s) \cap Range(t) = {}
              => IsInjective(s \o t)
<1>1. /\ s \o t \in Seq(T)
      /\ DOMAIN (s \o t) = 1 .. Len(s) + Len(t)
      /\ DOMAIN s = 1 .. Len(s) /\ DOMAIN t = 1 .. Len(t)
      /\ Len(s) \in Nat /\ Len(t) \in Nat
      /\ \A i \in 1 .. Len(s) + Len(t) :
           (s \o t)[i] = IF i <= Len(s) THEN s[i] ELSE t[i - Len(s)]
  OBVIOUS
<1>2. Range(s \o t) = Range(s) \cup Range(t)
  <2>1. ASSUME NEW i \in 1 .. Len(t)
        PROVE  t[i] = (s \o t)[Len(s) + i] /\ Len(s) + i \in 1 .. Len(s) + Len(t)
    BY <1>1
  <2>2. ASSUME NEW i \in 1 .. Len(s)
        PROVE  s[i] = (s \o t)[i] /\ i \in 1 .. Len(s) + Len(t)
    BY <1>1
  <2>3. ASSUME NEW i \in 1 .. Len(s) + Len(t)
        PROVE  \/ i \in 1 .. Len(s) /\ (s \o t)[i] = s[i]
               \/ i - Len(s) \in 1 .. Len(t) /\ (s \o t)[i] = t[i - Len(s)]
    BY <1>1
  <2>4. ASSUME NEW x \in Range(s) \cup Range(t)
        PROVE  x \in Range(s \o t)
    <3>1. CASE x \in Range(s)
      BY <1>1, <2>2, <3>1 DEF Range
    <3>2. CASE x \in Range(t)
      BY <1>1, <2>1, <3>2 DEF Range
    <3> QED
      BY <3>1, <3>2
  <2>5. ASSUME NEW x \in Range(s \o t)
        PROVE  x \in Range(s) \cup Range(t)
    <3>1. PICK i \in 1 .. Len(s) + Len(t) : x = (s \o t)[i]
      BY <1>1 DEF Range
    <3> QED
      BY <1>1, <2>3, <3>1 DEF Range
  <2> QED
    BY <2>4, <2>5
<1>3. ASSUME IsInjective(s), IsInjective(t), Range(s) \cap Range(t) = {}
      PROVE  IsInjective(s \o t)
  <2> SUFFICES ASSUME NEW i \in 1 .. Len(s) + Len(t), NEW j \in 1 .. Len(s) + Len(t),
                      (s \o t)[i] = (s \o t)[j]
               PROVE  i = j
    BY <1>1 DEF IsInjective
  <2>1. CASE i <= Len(s) /\ j <= Len(s)
    BY <1>1, <1>3, <2>1 DEF IsInjective
  <2>2. CASE i > Len(s) /\ j > Len(s)
    <3>1. i - Len(s) \in DOMAIN t /\ j - Len(s) \in DOMAIN t
      BY <1>1, <2>2
    <3>2. t[i - Len(s)] = t[j - Len(s)]
      BY <1>1, <2>2
    <3>3. i - Len(s) = j - Len(s)
      BY <1>3, <3>1, <3>2 DEF IsInjective
    <3> QED
      BY <1>1, <3>3
  <2>3. ASSUME NEW k \in 1 .. Len(s), NEW l \in 1 .. Len(t)
        PROVE  s[k] # t[l]
    BY <1>1, <1>3 DEF Range
  <2>4. CASE i <= Len(s) /\ j > Len(s)
    BY <1>1, <2>3, <2>4
  <2>5. CASE i > Len(s) /\ j <= Len(s)
    BY <1>1, <2>3, <2>5
  <2> QED
    BY <1>1, <2>1, <2>2, <2>4, <2>5
<1> QED
  BY <1>1, <1>2, <1>3

\* A sequence without an element twice is as long as the set of what it holds.
LEMMA DistinctCardinality ==
  ASSUME NEW T, NEW s \in Seq(T), IsInjective(s)
  PROVE  Cardinality(Range(s)) = Len(s)
<1>1. DOMAIN s = 1 .. Len(s) /\ Len(s) \in Nat
  OBVIOUS
<1>2. s \in Bijection(1 .. Len(s), Range(s))
  BY <1>1 DEF IsInjective, Range, Bijection, Injection, Surjection
<1>3. IsFiniteSet(1 .. Len(s)) /\ Cardinality(1 .. Len(s)) = Len(s)
  BY <1>1, FS_Interval, SMTT(60)
<1> QED
  BY <1>2, <1>3, FS_Bijection DEF ExistsBijection

\* A sequence that holds all of S and goes up in the order Z lists S.
LEMMA GoesUp ==
  ASSUME NEW S, IsFiniteSet(S), NEW Z, Orders(Z, S), NEW s \in Seq(S),
         \A d \in S : \E i \in 1 .. Len(s) : s[i] = d,
         \A i, j \in 1 .. Len(s) : i < j => <<s[i], s[j]>> \in Z
  PROVE  Lists(s, S, Z)
<1>1. Len(s) \in Nat /\ DOMAIN s = 1 .. Len(s) /\ \A i \in 1 .. Len(s) : s[i] \in S
  OBVIOUS
<1>2. \A i, j \in 1 .. Len(s) : s[i] = s[j] => i = j
  <2> SUFFICES ASSUME NEW i \in 1 .. Len(s), NEW j \in 1 .. Len(s), i < j
               PROVE  s[i] # s[j]
    BY <1>1
  <2> QED
    BY <1>1 DEF Orders
<1>3. \A i, j \in 1 .. Len(s) : <<s[i], s[j]>> \in Z => i < j
  <2> SUFFICES ASSUME NEW i \in 1 .. Len(s), NEW j \in 1 .. Len(s), ~(i < j), <<s[i], s[j]>> \in Z
               PROVE  FALSE
    OBVIOUS
  <2>1. i = j \/ <<s[j], s[i]>> \in Z
    BY <1>1
  <2> QED
    BY <1>1, <2>1 DEF Orders
<1>4. Range(s) = S /\ IsInjective(s)
  BY <1>1, <1>2 DEF Range, IsInjective
<1>5. Len(s) = Cardinality(S)
  BY <1>4, DistinctCardinality
<1> QED
  BY <1>2, <1>3, <1>5 DEF Lists

\* S is listed in the order Z in one way.
LEMMA ListedOnce ==
  ASSUME NEW S, IsFiniteSet(S), NEW Z, Orders(Z, S),
         NEW s, Lists(s, S, Z), NEW t, Lists(t, S, Z)
  PROVE  s = t
<1> DEFINE n == Cardinality(S)
<1>1. n \in Nat
  BY FS_CardinalityType
<1>2. ASSUME NEW u, Lists(u, S, Z), NEW i \in 1 .. n
      PROVE  Rank(Z, S, u[i]) = i - 1
  <2> DEFINE E == {e \in S : <<e, u[i]>> \in Z}
             v == [j \in 1 .. i - 1 |-> u[j]]
  <2>1. u \in Seq(S) /\ Len(u) = n /\ \A j \in 1 .. n : u[j] \in S
    BY <1>2 DEF Lists
  <2>2. \A j \in 1 .. i - 1 : j \in 1 .. n /\ j < i
    BY <1>1
  <2>3. v \in Seq(E) /\ Len(v) = i - 1
    BY <1>1, <1>2, <2>1, <2>2 DEF Lists
  <2>4. \A e \in E : \E j \in 1 .. i - 1 : v[j] = e
    <3> SUFFICES ASSUME NEW e \in E
                 PROVE  \E j \in 1 .. i - 1 : u[j] = e
      OBVIOUS
    <3>1. PICK j \in 1 .. n : u[j] = e
      BY <1>2, <2>1 DEF Lists
    <3>2. j < i
      BY <1>2, <2>1, <3>1 DEF Lists
    <3> QED
      BY <1>1, <3>1, <3>2
  <2>5. \A j, k \in 1 .. i - 1 : v[j] = v[k] => j = k
    BY <1>2, <2>1, <2>2 DEF Lists
  <2> HIDE DEF v, E
  <2>6. Range(v) = E /\ IsInjective(v)
    BY <2>3, <2>4, <2>5 DEF Range, IsInjective
  <2>7. Cardinality(E) = i - 1
    BY <2>3, <2>6, DistinctCardinality
  <2> QED
    BY <2>7 DEF Rank, E
<1>3. /\ s \in Seq(S) /\ Len(s) = n /\ t \in Seq(S) /\ Len(t) = n
      /\ \A i \in 1 .. n : s[i] \in S /\ t[i] \in S
  BY DEF Lists
<1>4. ASSUME NEW i \in 1 .. n
      PROVE  s[i] = t[i]
  <2>1. Rank(Z, S, s[i]) = i - 1 /\ Rank(Z, S, t[i]) = i - 1
    BY <1>2
  <2>2. ~(<<s[i], t[i]>> \in Z) /\ ~(<<t[i], s[i]>> \in Z)
    BY <1>1, <1>3, <2>1, RankIncreases
  <2> QED
    BY <1>3, <2>2 DEF Orders
<1> QED
  BY <1>3, <1>4

\* Of every set of numbers that is not empty one is the least.
LEMMA LeastNumber ==
  ASSUME NEW T, T \subseteq Nat, T # {}
  PROVE  \E m \in T : \A n \in T : m <= n
<1> DEFINE R == OpToRel(<, Nat)
<1>1. IsWellFoundedOn(R, Nat)
  BY NatLessThanWellFounded
<1>2. \A x, y \in Nat : <<x, y>> \in R <=> x < y
  BY DEF OpToRel
<1> HIDE DEF R
<1>3. PICK m \in T : \A y \in T : ~ (<<y, m>> \in R)
  BY <1>1, WFMin
<1>4. \A y \in T : ~(y < m)
  BY <1>2, <1>3
<1>5. m \in Nat /\ \A y \in T : y \in Nat
  BY <1>3
<1> QED
  BY <1>3, <1>4, <1>5

\* f[i] is what the first i sequences of s are one after the other.
Flattens(f, s, n) ==
  f = [i \in 1 .. n |-> IF i = 1 THEN s[i] ELSE f[i - 1] \o s[i]]

\* There is such a function: it grows by one sequence at a time.
LEMMA FlattensExists ==
  ASSUME NEW s
  PROVE  \A n \in Nat : \E f : Flattens(f, s, n)
<1> DEFINE T == {n \in Nat : ~ \E f : Flattens(f, s, n)}
<1> SUFFICES ASSUME T # {} PROVE FALSE
  OBVIOUS
<1>1. PICK m \in T : \A n \in T : m <= n
  BY LeastNumber
<1>2. m \in Nat /\ ~ \E f : Flattens(f, s, m)
  OBVIOUS
<1>3. CASE m = 0
  <2>1. Flattens([i \in 1 .. 0 |-> i], s, 0)
    BY DEF Flattens
  <2> QED
    BY <1>2, <1>3, <2>1
<1>4. CASE m # 0
  <2>1. m - 1 \in Nat /\ m - 1 \notin T
    BY <1>1, <1>2, <1>4
  <2>2. PICK f : Flattens(f, s, m - 1)
    BY <2>1
  <2>3. /\ DOMAIN f = 1 .. m - 1
        /\ \A i \in 1 .. m - 1 : f[i] = IF i = 1 THEN s[i] ELSE f[i - 1] \o s[i]
    BY <2>2 DEF Flattens
  <2> DEFINE g == [i \in 1 .. m |-> IF i < m THEN f[i]
                                    ELSE IF i = 1 THEN s[i] ELSE f[i - 1] \o s[i]]
  <2>4. ASSUME NEW i \in 1 .. m
        PROVE  g[i] = IF i = 1 THEN s[i] ELSE g[i - 1] \o s[i]
    <3>1. CASE i < m
      <4>1. g[i] = f[i] /\ i \in 1 .. m - 1
        BY <1>2, <1>4, <3>1
      <4>2. i # 1 => g[i - 1] = f[i - 1]
        BY <1>2, <3>1
      <4> QED
        BY <2>3, <4>1, <4>2
    <3>2. CASE i = m
      BY <1>2, <1>4, <3>2
    <3> QED
      BY <1>2, <3>1, <3>2
  <2>5. g = [i \in 1 .. m |-> g[i]]
    OBVIOUS
  <2> HIDE DEF g
  <2>6. Flattens(g, s, m)
    BY <2>4, <2>5 DEF Flattens
  <2> QED
    BY <1>2, <2>6
<1> QED
  BY <1>3, <1>4

\* No sequence of s holds anything twice, and no two have anything in common.
Separate(s) ==
  /\ \A k \in 1 .. Len(s) : IsInjective(s[k])
  /\ \A k, l \in 1 .. Len(s) : k < l => Range(s[k]) \cap Range(s[l]) = {}

\* A sequence of sequences, one after the other, holds what they hold, and nothing
\* twice if none of them does and no two have anything in common.
LEMMA FlattenSeqHolds ==
  ASSUME NEW T, NEW s \in Seq(Seq(T))
  PROVE  /\ FlattenSeq(s) \in Seq(T)
         /\ \A k \in 1 .. Len(s) : Range(s[k]) \subseteq Range(FlattenSeq(s))
         /\ \A x \in Range(FlattenSeq(s)) : \E k \in 1 .. Len(s) : x \in Range(s[k])
         /\ Separate(s) => IsInjective(FlattenSeq(s))
<1>1. Len(s) \in Nat /\ \A k \in 1 .. Len(s) : s[k] \in Seq(T)
  OBVIOUS
<1>2. CASE Len(s) = 0
  <2>1. s = <<>> /\ FlattenSeq(s) = s
    BY <1>2 DEF FlattenSeq
  <2>2. /\ FlattenSeq(s) \in Seq(T) /\ Range(FlattenSeq(s)) = {}
        /\ IsInjective(FlattenSeq(s))
    BY <2>1, EmptyDistinct
  <2>3. 1 .. Len(s) = {}
    BY <1>2
  <2> QED
    BY <2>2, <2>3
<1>3. CASE Len(s) # 0
  <2> DEFINE f == CHOOSE g : Flattens(g, s, Len(s))
             Joined(n) == /\ f[n] \in Seq(T)
                          /\ \A k \in 1 .. n : Range(s[k]) \subseteq Range(f[n])
                          /\ \A x \in Range(f[n]) : \E k \in 1 .. n : x \in Range(s[k])
                          /\ Separate(s) => IsInjective(f[n])
             Wrong == {n \in 1 .. Len(s) : ~Joined(n)}
  <2>1. FlattenSeq(s) = f[Len(s)]
    BY <1>3, Zenon DEF FlattenSeq, Flattens
  <2>2. Flattens(f, s, Len(s))
    BY <1>1, FlattensExists
  <2> HIDE DEF f
  <2>3. \A i \in 1 .. Len(s) : f[i] = IF i = 1 THEN s[i] ELSE f[i - 1] \o s[i]
    <3> DEFINE F == [i \in 1 .. Len(s) |-> IF i = 1 THEN s[i] ELSE f[i - 1] \o s[i]]
    <3>1. f = F
      BY <2>2 DEF Flattens
    <3>2. \A i \in 1 .. Len(s) : F[i] = IF i = 1 THEN s[i] ELSE f[i - 1] \o s[i]
      OBVIOUS
    <3> HIDE DEF F
    <3> QED
      BY <3>1, <3>2
  <2>4. Wrong = {}
    <3> SUFFICES ASSUME Wrong # {} PROVE FALSE
      OBVIOUS
    <3>0. \A n : n \in Wrong <=> n \in 1 .. Len(s) /\ ~Joined(n)
      OBVIOUS
    <3> HIDE DEF Wrong, Joined
    <3>1. Wrong \subseteq Nat
      BY <3>0
    <3>2. PICK m \in Wrong : \A n \in Wrong : m <= n
      BY <3>1, LeastNumber
    <3>3. m \in 1 .. Len(s) /\ ~Joined(m)
      BY <3>0, <3>2
    <3>4. CASE m = 1
      <4>1. f[1] = s[1] /\ s[1] \in Seq(T)
        BY <1>1, <2>3, <3>3, <3>4
      <4> QED
        <5>1. 1 \in 1 .. Len(s) /\ \A k \in 1 .. 1 : k = 1
          BY <1>1, <1>3
        <5>2. Separate(s) => IsInjective(f[1])
          BY <4>1, <5>1 DEF Separate
        <5>3. Joined(1)
          BY <4>1, <5>1, <5>2 DEF Joined
        <5> QED
          BY <3>3, <3>4, <5>3
    <3>5. CASE m # 1
      <4>1. m - 1 \in 1 .. Len(s) /\ m - 1 \notin Wrong
        BY <1>1, <3>1, <3>2, <3>3, <3>5
      <4>2. Joined(m - 1)
        BY <3>0, <4>1
      <4> DEFINE before == f[m - 1]
      <4>3. f[m] = before \o s[m] /\ s[m] \in Seq(T) /\ before \in Seq(T)
        BY <1>1, <2>3, <3>3, <3>5, <4>2 DEF Joined
      <4>4. /\ \A k \in 1 .. m - 1 : Range(s[k]) \subseteq Range(before)
            /\ \A x \in Range(before) : \E k \in 1 .. m - 1 : x \in Range(s[k])
            /\ Separate(s) => IsInjective(before)
        BY <4>2 DEF Joined
      <4> HIDE DEF before
      <4>5. /\ f[m] \in Seq(T)
            /\ Range(f[m]) = Range(before) \cup Range(s[m])
            /\ IsInjective(before) /\ IsInjective(s[m]) /\ Range(before) \cap Range(s[m]) = {}
                 => IsInjective(f[m])
        BY <4>3, ConcatDistinct
      <4>6. Separate(s) => IsInjective(f[m])
        <5> SUFFICES ASSUME Separate(s) PROVE IsInjective(f[m])
          OBVIOUS
        <5>1. \A k \in 1 .. m - 1 : Range(s[k]) \cap Range(s[m]) = {}
          <6> SUFFICES ASSUME NEW k \in 1 .. m - 1
                       PROVE  Range(s[k]) \cap Range(s[m]) = {}
            OBVIOUS
          <6>1. k \in 1 .. Len(s) /\ k < m
            BY <1>1, <3>3
          <6> QED
            BY <3>3, <6>1 DEF Separate
        <5>2. Range(before) \cap Range(s[m]) = {}
          BY <4>4, <5>1
        <5>3. IsInjective(s[m])
          BY <3>3 DEF Separate
        <5> QED
          BY <4>4, <4>5, <5>2, <5>3
      <4>7. \A k \in 1 .. m : k \in 1 .. m - 1 \/ k = m
        BY <1>1, <3>3
      <4>8. \A k \in 1 .. m : Range(s[k]) \subseteq Range(f[m])
        BY <4>4, <4>5, <4>7
      <4>9. \A x \in Range(f[m]) : \E k \in 1 .. m : x \in Range(s[k])
        <5>1. m \in 1 .. m /\ \A k \in 1 .. m - 1 : k \in 1 .. m
          BY <1>1, <3>3
        <5> QED
          BY <4>4, <4>5, <5>1
      <4> QED
        BY <3>3, <4>5, <4>6, <4>8, <4>9 DEF Joined
    <3> QED
      BY <3>4, <3>5
  <2>5. Joined(Len(s))
    <3>1. \A n \in 1 .. Len(s) : n \notin Wrong => Joined(n)
      OBVIOUS
    <3> HIDE DEF Wrong, Joined
    <3>2. Len(s) \in 1 .. Len(s)
      BY <1>1, <1>3
    <3> QED
      BY <2>4, <3>1, <3>2
  <2>6. /\ FlattenSeq(s) \in Seq(T)
        /\ \A k \in 1 .. Len(s) : Range(s[k]) \subseteq Range(FlattenSeq(s))
        /\ \A x \in Range(FlattenSeq(s)) : \E k \in 1 .. Len(s) : x \in Range(s[k])
        /\ Separate(s) => IsInjective(FlattenSeq(s))
    BY <2>1, <2>5
  <2> QED
    BY <2>6
<1> QED
  BY <1>2, <1>3

-----------------------------------------------------------------------------
(* MuuriGrid.                                                               *)

Registered(r) == {e \in Element : r.registered[e] # "none"}

\* The elements queued are registered, without an item, and queued once.
GoodRefs(r) ==
  /\ r \in [placed : [Attempt -> Seq(Element)], pending : Seq(Element),
            registered : [Element -> {"none", "element", "item"}]]
  /\ IsInjective(r.pending)
  /\ \A e \in Range(r.pending) : r.registered[e] = "element"

\* Elements that go leave the map and the queue; and the instance, if they had an
\* item and their closures know it.
LEMMA UnregisterGood ==
  ASSUME NEW r, GoodRefs(r), NEW S \in SUBSET Element
  PROVE  LET u == Unregister(r, S) IN
         /\ GoodRefs(u)
         /\ Registered(u) = Registered(r) \ S
         /\ \A e \in Element \ S : u.registered[e] = r.registered[e]
         /\ \A a \in Attempt :
              /\ Range(u.placed[a]) =
                   Range(r.placed[a]) \ {e \in Removable(r, S) : knows[e] = a}
              /\ IsInjective(r.placed[a]) => IsInjective(u.placed[a])
<1> DEFINE u == Unregister(r, S)
           gone(a) == {e \in Removable(r, S) : knows[e] = a}
<1>1. /\ r.placed \in [Attempt -> Seq(Element)] /\ r.pending \in Seq(Element)
      /\ r.registered \in [Element -> {"none", "element", "item"}]
      /\ IsInjective(r.pending)
      /\ \A e \in Range(r.pending) : r.registered[e] = "element"
  BY DEF GoodRefs
<1>2. /\ u \in [placed : {u.placed}, pending : {u.pending}, registered : {u.registered}]
      /\ u.placed = [a \in Attempt |-> Without(r.placed[a], gone(a))]
      /\ u.pending = Without(r.pending, S \ Removable(r, S))
      /\ u.registered = [e \in Element |-> IF e \in S THEN "none" ELSE r.registered[e]]
  BY DEF GoodRefs, Unregister
<1> HIDE DEF u, gone
<1>3. \A a \in Attempt :
        /\ u.placed[a] \in Seq(Element)
        /\ Range(u.placed[a]) = Range(r.placed[a]) \ gone(a)
        /\ IsInjective(r.placed[a]) => IsInjective(u.placed[a])
  BY <1>1, <1>2, WithoutProperties
<1>4. /\ u.pending \in Seq(Element)
      /\ Range(u.pending) = Range(r.pending) \ (S \ Removable(r, S))
      /\ IsInjective(u.pending)
  BY <1>1, <1>2, WithoutProperties
<1>5. \A e \in Range(u.pending) : e \in Element /\ u.registered[e] = "element"
  <2>1. \A e \in Range(u.pending) : e \in Element
    BY <1>4 DEF Range
  <2> QED
    BY <1>1, <1>2, <1>4, <2>1 DEF Removable
<1>6. GoodRefs(u)
  BY <1>1, <1>2, <1>3, <1>4, <1>5 DEF GoodRefs
<1> QED
  BY <1>1, <1>2, <1>3, <1>6, ZenonT(60) DEF Registered, u, gone

\* What r becomes when the elements of s come: they are registered, and the new
\* ones of them are added to the instance that is ready, if there is one.
Registers(r, s, g, ready, q) ==
  /\ GoodRefs(q)
  /\ Registered(q) = Registered(r) \cup Range(s)
  /\ \A e \in Registered(r) : q.registered[e] = r.registered[e]
  /\ \A a \in Attempt : IsInjective(r.placed[a]) => IsInjective(q.placed[a])
  /\ g # None /\ ready =>
       /\ Range(q.placed[g]) = Range(r.placed[g]) \cup (Range(s) \ Registered(r))
       /\ \A e \in Range(s) \ Registered(r) : q.registered[e] = "item"

\* registerItem for every element that comes, with or without an instance.
LEMMA RegisterGood ==
  ASSUME NEW r, GoodRefs(r), NEW s \in Seq(Element), IsInjective(s),
         NEW g \in Attempt \cup {None}, NEW ready \in BOOLEAN
  PROVE  Registers(r, s, g, ready, Register(r, s, g, ready))
<1> DEFINE q == Register(r, s, g, ready)
           new == Without(s, {e \in Element : r.registered[e] # "none"})
<1>1. /\ r.placed \in [Attempt -> Seq(Element)] /\ r.pending \in Seq(Element)
      /\ r.registered \in [Element -> {"none", "element", "item"}]
      /\ IsInjective(r.pending)
      /\ \A e \in Range(r.pending) : r.registered[e] = "element"
  BY DEF GoodRefs
<1>2. /\ new \in Seq(Element) /\ IsInjective(new)
      /\ Range(new) = Range(s) \ Registered(r)
  BY WithoutProperties DEF Registered
<1>3. Range(s) \subseteq Element /\ Range(r.pending) \subseteq Element
  BY <1>1 DEF Range
<1>4. CASE g # None /\ ready
  <2> DEFINE more == Without(new, Range(r.placed[g]))
  <2>1. g \in Attempt /\ r.placed[g] \in Seq(Element)
    BY <1>1, <1>4
  <2>2. /\ q \in [placed : {q.placed}, pending : {q.pending}, registered : {q.registered}]
        /\ q.placed = [r.placed EXCEPT ![g] = @ \o more]
        /\ q.pending = r.pending
        /\ q.registered =
             [e \in Element |-> IF e \in Range(new) THEN "item" ELSE r.registered[e]]
    BY <1>4 DEF GoodRefs, Register
  <2>3. /\ more \in Seq(Element) /\ IsInjective(more)
        /\ Range(more) = Range(new) \ Range(r.placed[g])
    BY <1>2, WithoutProperties
  <2> HIDE DEF q, new, more
  <2>4. /\ r.placed[g] \o more \in Seq(Element)
        /\ Range(r.placed[g] \o more) = Range(r.placed[g]) \cup Range(new)
        /\ IsInjective(r.placed[g]) => IsInjective(r.placed[g] \o more)
    BY <2>1, <2>3, ConcatDistinct
  <2>5. \A e \in Range(q.pending) : q.registered[e] = "element"
    <3> SUFFICES ASSUME NEW e \in Range(r.pending)
                 PROVE  q.registered[e] = "element"
      BY <2>2
    <3>1. e \in Element /\ r.registered[e] = "element"
      BY <1>1, <1>3
    <3>2. e \notin Range(new)
      BY <1>2, <3>1 DEF Registered
    <3> QED
      BY <2>2, <3>1, <3>2
  <2>6. GoodRefs(q)
    <3>1. /\ q.placed \in [Attempt -> Seq(Element)]
          /\ q.registered \in [Element -> {"none", "element", "item"}]
      BY <1>1, <2>1, <2>2, <2>4
    <3> QED
      BY <1>1, <2>2, <2>5, <3>1 DEF GoodRefs
  <2>7. Registered(q) = Registered(r) \cup Range(s)
    BY <1>1, <1>2, <1>3, <2>2 DEF Registered
  <2>8. \A a \in Attempt : IsInjective(r.placed[a]) => IsInjective(q.placed[a])
    BY <1>1, <2>1, <2>2, <2>4
  <2> QED
    BY <1>1, <1>2, <1>3, <1>4, <2>1, <2>2, <2>4, <2>6, <2>7, <2>8
    DEF Registered, Registers, q
<1>5. CASE ~(g # None /\ ready)
  <2>1. /\ q \in [placed : {q.placed}, pending : {q.pending}, registered : {q.registered}]
        /\ q.placed = r.placed
        /\ q.pending = r.pending \o new
        /\ q.registered =
             [e \in Element |-> IF e \in Range(new) THEN "element" ELSE r.registered[e]]
    BY <1>5 DEF GoodRefs, Register
  <2> HIDE DEF q, new
  <2>2. Range(r.pending) \cap Range(new) = {}
    BY <1>1, <1>2, <1>3 DEF Registered
  <2>3. /\ q.pending \in Seq(Element) /\ IsInjective(q.pending)
        /\ Range(q.pending) = Range(r.pending) \cup Range(new)
    BY <1>1, <1>2, <2>1, <2>2, ConcatDistinct
  <2>4. GoodRefs(q)
    BY <1>1, <1>2, <1>3, <2>1, <2>3 DEF GoodRefs
  <2>5. Registered(q) = Registered(r) \cup Range(s)
    BY <1>1, <1>2, <1>3, <2>1 DEF Registered
  <2> QED
    BY <1>2, <1>5, <2>1, <2>4, <2>5 DEF Registered, Registers, q
<1> QED
  BY <1>4, <1>5

\* The one instance there may be is that of the last run of the effect. It lives
\* from its import until the component goes; the children know it as soon as it
\* is in the state of the component.
Instances ==
  /\ live \subseteq {LastAttempt}
  /\ \A a \in Attempt \ {LastAttempt} : imports[a] # "pending"
  /\ life = "new" =>
       /\ \A a \in Attempt : imports[a] = "unused"
       /\ live = {} /\ ~initialized /\ queued = None /\ grid = None
       /\ \A e \in Element : knows[e] = None /\ registered[e] = "none"
  /\ life = "mounted" /\ imports[LastAttempt] = "pending" =>
       live = {} /\ ~initialized /\ queued = None /\ grid = None
  /\ life = "mounted" /\ imports[LastAttempt] # "pending" =>
       initialized /\ {queued, grid} = {None, LastAttempt}
  /\ life = "mounted" => \A e \in Range(rendered) : knows[e] = grid
  /\ life = "unmounted" => live = {} /\ imports[LastAttempt] # "pending"

\* Each child has an item from the commit that brings the instance on.
Items ==
  /\ \A a \in Attempt : IsInjective(placed[a])
  /\ life = "mounted" /\ grid # None =>
       \A e \in Range(rendered) : registered[e] = "item" /\ e \in Range(placed[grid])

\* The children are the elements mounted last and not dropped since.
Children == IsInjective(rendered) /\ Range(rendered) \subseteq 1 .. mounts

GridInv == MuuriTypeOK /\ GoodRefs(Refs) /\ Instances /\ Items /\ Children

\* Without children, imports and instances the invariant holds.
LEMMA GridInitInv == ASSUME MuuriInit PROVE GridInv
<1>1. /\ rendered \in Seq(Element) /\ Range(rendered) = {}
      /\ pending \in Seq(Element) /\ Range(pending) = {}
      /\ IsInjective(rendered) /\ IsInjective(pending)
      /\ \A a \in Attempt : placed[a] \in Seq(Element) /\ IsInjective(placed[a])
  <2>1. <<>> \in Seq(Element) /\ Range(<<>>) = {} /\ IsInjective(<<>>)
    BY EmptyDistinct
  <2>2. rendered = <<>> /\ pending = <<>> /\ \A a \in Attempt : placed[a] = <<>>
    BY DEF MuuriInit
  <2> QED
    BY <2>1, <2>2
<1>2. MuuriTypeOK
  <2>1. /\ life = "new" /\ mounts = 0 /\ live = {} /\ initialized = FALSE
        /\ queued = None /\ grid = None
    BY DEF MuuriInit
  <2>2. /\ imports \in [Attempt -> {"unused", "pending", "cancelled", "over"}]
        /\ placed \in [Attempt -> Seq(Element)]
        /\ knows \in [Element -> Attempt \union {None}]
        /\ registered \in [Element -> {"none", "element", "item"}]
    <3>1. <<>> \in Seq(Element)
      OBVIOUS
    <3> QED
      BY <3>1 DEF MuuriInit
  <2>3. mounts \in 0 .. MaxElements
    BY <2>1, MuuriGridAssumption
  <2> QED
    BY <1>1, <2>1, <2>2, <2>3 DEF MuuriTypeOK
<1>3. GoodRefs(Refs)
  BY <1>1 DEF MuuriInit, GoodRefs, Refs
<1>4. Instances
  BY <1>1 DEF MuuriInit, Instances, Attempt, LastAttempt
<1>5. Items /\ Children
  BY <1>1 DEF MuuriInit, Items, Children
<1> QED
  BY <1>2, <1>3, <1>4, <1>5 DEF GridInv

\* What the refs hold after a step.
LEMMA RefsOf ==
  ASSUME NEW r, GoodRefs(r), SetRefs(r)
  PROVE  Refs' = r
  BY DEF GoodRefs, SetRefs, Refs

\* Every child is queued once when the grid is mounted, in strict mode too.
LEMMA MountGridInv ==
  ASSUME GridInv, NEW n \in 0 .. MaxElements, MountGrid(n)
  PROVE  GridInv'
<1> DEFINE children == [k \in 1 .. n |-> k]
           once == Register(Refs, children, None, FALSE)
           gone == Unregister(once, Range(children))
           again == Register(gone, children, None, FALSE)
           r == IF StrictMode THEN again ELSE once
<1>1. /\ life = "new" /\ life' = "mounted" /\ rendered' = children /\ mounts' = n
      /\ SetRefs(r)
      /\ imports' = IF StrictMode THEN [imports EXCEPT ![1] = "cancelled", ![2] = "pending"]
                    ELSE [imports EXCEPT ![1] = "pending"]
      /\ UNCHANGED <<live, initialized, queued, grid, knows>>
  BY DEF MountGrid
<1>2. /\ children \in Seq(Element) /\ IsInjective(children) /\ Range(children) = 1 .. n
      /\ Range(children) \in SUBSET Element
      /\ FALSE \in BOOLEAN /\ None \in Attempt \cup {None}
  BY MuuriGridAssumption DEF Element, IsInjective, Range
<1> HIDE DEF children
<1>3. GoodRefs(Refs) /\ Registered(Refs) = {}
  BY <1>1 DEF GridInv, Instances, Registered, Refs
<1>4. /\ GoodRefs(once) /\ Registered(once) = Registered(Refs) \cup Range(children)
      /\ \A a \in Attempt : IsInjective(Refs.placed[a]) => IsInjective(once.placed[a])
  BY <1>2, <1>3, RegisterGood DEF Registers
<1> HIDE DEF once
<1>5. /\ GoodRefs(gone) /\ Registered(gone) = Registered(once) \ Range(children)
      /\ \A a \in Attempt : IsInjective(once.placed[a]) => IsInjective(gone.placed[a])
  BY <1>2, <1>4, UnregisterGood
<1> HIDE DEF gone
<1>6. /\ GoodRefs(again) /\ Registered(again) = Registered(gone) \cup Range(children)
      /\ \A a \in Attempt : IsInjective(gone.placed[a]) => IsInjective(again.placed[a])
  BY <1>2, <1>5, RegisterGood DEF Registers
<1> HIDE DEF again
<1>7. /\ GoodRefs(r) /\ Registered(r) = Range(children)
      /\ \A a \in Attempt : IsInjective(Refs.placed[a]) => IsInjective(r.placed[a])
  BY <1>3, <1>4, <1>5, <1>6
<1> HIDE DEF r
<1>8. Refs' = r
  BY <1>1, <1>7, RefsOf
<1>9. GoodRefs(Refs)' /\ Registered(Refs)' = Range(children)
  BY <1>7, <1>8 DEF GoodRefs, Registered
<1>10. MuuriTypeOK'
  <2>1. /\ placed' \in [Attempt -> Seq(Element)] /\ pending' \in Seq(Element)
        /\ registered' \in [Element -> {"none", "element", "item"}]
        /\ {e \in Element : registered[e] # "none"}' = Range(children)
    BY <1>9 DEF GoodRefs, Refs, Registered
  <2> QED
    BY <1>1, <1>2, <2>1, MuuriGridAssumption DEF GridInv, MuuriTypeOK, Attempt
<1>11. Instances'
  BY <1>1, <1>2, MuuriGridAssumption
  DEF GridInv, Instances, LastAttempt, Attempt, MuuriTypeOK, Element, None
<1>12. Items'
  BY <1>1, <1>7, <1>8 DEF GridInv, Items, Instances, Refs
<1>13. Children'
  BY <1>1, <1>2 DEF Children
<1> QED
  BY <1>9, <1>10, <1>11, <1>12, <1>13 DEF GridInv

\* The instance takes what is queued; a run that was cancelled makes none.
LEMMA InitMuuriInv ==
  ASSUME GridInv, NEW a \in Attempt, InitMuuri(a)
  PROVE  GridInv'
<1>1. /\ imports[a] \in {"pending", "cancelled"}
      /\ imports' = [imports EXCEPT ![a] = "over"]
      /\ UNCHANGED <<life, rendered, mounts, grid, knows>>
  BY DEF InitMuuri
<1>2. Children'
  BY <1>1 DEF GridInv, Children
<1>3. CASE Cancelled(a)
  <2>1. UNCHANGED <<placed, live, initialized, queued, pending, registered>>
    BY <1>3 DEF InitMuuri
  <2>2. MuuriTypeOK'
    BY <1>1, <2>1 DEF GridInv, MuuriTypeOK
  <2>3. Instances'
    <3>1. /\ LastAttempt \in Attempt
          /\ imports \in [Attempt -> {"unused", "pending", "cancelled", "over"}]
      BY DEF LastAttempt, Attempt, GridInv, MuuriTypeOK
    <3>2. \A b \in Attempt : imports'[b] = "pending" <=> imports[b] = "pending"
      BY <1>1, <1>3, <3>1 DEF Cancelled
    <3> HIDE DEF Attempt
    <3> QED
      BY <1>1, <1>3, <2>1, <3>1, <3>2 DEF GridInv, Instances, Cancelled
  <2> QED
    BY <1>1, <1>2, <2>1, <2>2, <2>3 DEF GridInv, GoodRefs, Refs, Items
<1>4. CASE ~Cancelled(a)
  <2>1. /\ live' = live \union {a}
        /\ placed' = [placed EXCEPT ![a] = pending]
        /\ pending' = <<>>
        /\ registered' = [e \in Element |->
             IF e \in Range(pending) /\ registered[e] = "element" THEN "item"
             ELSE registered[e]]
        /\ initialized' = TRUE
        /\ queued' = a
    BY <1>4 DEF InitMuuri
  <2>2. /\ a = LastAttempt /\ life = "mounted" /\ imports[a] = "pending"
        /\ live = {} /\ grid = None
    BY <1>1, <1>4 DEF GridInv, Instances, Cancelled, MuuriTypeOK
  <2>3. /\ placed \in [Attempt -> Seq(Element)] /\ pending \in Seq(Element)
        /\ registered \in [Element -> {"none", "element", "item"}]
        /\ IsInjective(pending)
    BY DEF GridInv, GoodRefs, Refs
  <2>4. /\ placed' \in [Attempt -> Seq(Element)] /\ pending' \in Seq(Element)
        /\ registered' \in [Element -> {"none", "element", "item"}]
        /\ {e \in Element : registered'[e] # "none"} =
             {e \in Element : registered[e] # "none"}
    BY <2>1, <2>3
  <2>5. Range(pending') = {} /\ IsInjective(pending')
    BY <2>1 DEF Range, IsInjective
  <2>6. MuuriTypeOK'
    BY <1>1, <2>1, <2>4 DEF GridInv, MuuriTypeOK
  <2>7. GoodRefs(Refs)'
    BY <2>4, <2>5 DEF GoodRefs, Refs
  <2>8. Instances'
    BY <1>1, <2>1, <2>2 DEF GridInv, Instances, MuuriTypeOK, LastAttempt
  <2>9. Items'
    BY <1>1, <2>1, <2>2, <2>3 DEF GridInv, Items, None
  <2> QED
    BY <1>2, <2>6, <2>7, <2>8, <2>9 DEF GridInv
<1> QED
  BY <1>3, <1>4

\* The page is left: nothing lives on.
LEMMA UnmountGridInv ==
  ASSUME GridInv, UnmountGrid
  PROVE  GridInv'
<1>1. /\ life' = "unmounted"
      /\ imports' = [imports EXCEPT ![LastAttempt] = IF @ = "pending" THEN "cancelled" ELSE @]
      /\ live' = live \ {LastAttempt}
      /\ initialized' = FALSE /\ queued' = None /\ rendered' = <<>>
      /\ UNCHANGED <<mounts, placed, grid, knows, pending, registered>>
  BY DEF UnmountGrid
<1>2. LastAttempt \in Attempt
  BY DEF LastAttempt, Attempt
<1>3. rendered' \in Seq(Element) /\ Range(rendered') = {} /\ IsInjective(rendered')
  BY <1>1 DEF Range, IsInjective
<1>4. MuuriTypeOK'
  BY <1>1, <1>2, <1>3 DEF GridInv, MuuriTypeOK
<1>5. GoodRefs(Refs)'
  BY <1>1 DEF GridInv, GoodRefs, Refs
<1>6. Instances'
  BY <1>1, <1>2 DEF GridInv, Instances, MuuriTypeOK, LastAttempt
<1> QED
  BY <1>1, <1>3, <1>4, <1>5, <1>6 DEF GridInv, Items, Children

\* Elements mounted together are new and in the order of their numbers.
LEMMA FreshElements ==
  ASSUME NEW m \in Nat, NEW n \in Nat
  PROVE  LET f == [k \in 1 .. n |-> m + k] IN
         f \in Seq(Nat) /\ IsInjective(f) /\ Range(f) = m + 1 .. m + n
<1> DEFINE f == [k \in 1 .. n |-> m + k]
<1>1. f \in Seq(Nat) /\ DOMAIN f = 1 .. n
  OBVIOUS
<1>2. IsInjective(f)
  BY DEF IsInjective
<1>3. Range(f) = m + 1 .. m + n
  <2>1. ASSUME NEW e \in m + 1 .. m + n
        PROVE  e \in Range(f)
    <3>1. e - m \in 1 .. n /\ f[e - m] = e
      OBVIOUS
    <3> QED
      BY <1>1, <3>1 DEF Range
  <2>2. ASSUME NEW k \in 1 .. n
        PROVE  f[k] \in m + 1 .. m + n
    OBVIOUS
  <2> QED
    BY <1>1, <2>1, <2>2 DEF Range
<1> QED
  BY <1>1, <1>2, <1>3

\* The children of a commit: those kept, in their order, and new ones.
LEMMA CommitChildren ==
  ASSUME GridInv, NEW dropped \in SUBSET Range(rendered), NEW before \in Nat,
         NEW after \in Nat, mounts + before + after <= MaxElements
  PROVE  LET fresh(m, n) == [k \in 1 .. n |-> m + k]
             children == fresh(mounts, before) \o Without(rendered, dropped)
                           \o fresh(mounts + before, after)
         IN  /\ children \in Seq(Element) /\ IsInjective(children)
             /\ Range(children) =
                  (Range(rendered) \ dropped) \cup (mounts + 1 .. mounts + before + after)
<1> DEFINE first == [k \in 1 .. before |-> mounts + k]
           last == [k \in 1 .. after |-> (mounts + before) + k]
           kept == Without(rendered, dropped)
<1>1. /\ mounts \in Nat /\ mounts + before \in Nat
      /\ rendered \in Seq(Element) /\ IsInjective(rendered)
      /\ Range(rendered) \subseteq 1 .. mounts
  BY MuuriGridAssumption DEF GridInv, MuuriTypeOK, Children
<1>2. /\ kept \in Seq(Element) /\ IsInjective(kept)
      /\ Range(kept) = Range(rendered) \ dropped
  BY <1>1, WithoutProperties
<1>3. /\ first \in Seq(Nat) /\ IsInjective(first)
      /\ Range(first) = mounts + 1 .. mounts + before
  BY <1>1, FreshElements
<1>4. /\ last \in Seq(Nat) /\ IsInjective(last)
      /\ Range(last) = mounts + before + 1 .. mounts + before + after
  BY <1>1, FreshElements
<1>5. first \in Seq(Element) /\ last \in Seq(Element)
  BY <1>1, MuuriGridAssumption DEF Element
<1> HIDE DEF first, last, kept
<1>6. /\ first \o kept \in Seq(Element) /\ IsInjective(first \o kept)
      /\ Range(first \o kept) = Range(first) \cup Range(kept)
  <2>1. Range(first) \cap Range(kept) = {}
    BY <1>1, <1>2, <1>3
  <2> QED
    BY <1>2, <1>3, <1>5, <2>1, ConcatDistinct, ZenonT(90)
<1>7. /\ first \o kept \o last \in Seq(Element) /\ IsInjective(first \o kept \o last)
      /\ Range(first \o kept \o last) = Range(first) \cup Range(kept) \cup Range(last)
  <2> DEFINE start == first \o kept
  <2>1. start \in Seq(Element) /\ IsInjective(start) /\ Range(start) \cap Range(last) = {}
    BY <1>1, <1>2, <1>3, <1>4, <1>6
  <2>2. Range(start) = Range(first) \cup Range(kept)
    BY <1>6
  <2> HIDE DEF start
  <2>3. /\ start \o last \in Seq(Element) /\ IsInjective(start \o last)
        /\ Range(start \o last) = Range(start) \cup Range(last)
    <3>1. last \in Seq(Element) /\ IsInjective(last)
      BY <1>4, <1>5
    <3>2. /\ start \o last \in Seq(Element)
          /\ Range(start \o last) = Range(start) \cup Range(last)
          /\ IsInjective(start) /\ IsInjective(last) /\ Range(start) \cap Range(last) = {}
               => IsInjective(start \o last)
      BY <2>1, <3>1, ConcatDistinct, ZenonT(30)
    <3> QED
      BY <2>1, <3>1, <3>2
  <2> QED
    BY <2>2, <2>3 DEF start
<1>8. Range(first) \cup Range(last) = mounts + 1 .. mounts + before + after
  BY <1>1, <1>3, <1>4
<1> QED
  BY <1>2, <1>7, <1>8 DEF first, last, kept

\* A commit keeps the invariant: new children and, when the instance comes, all
\* of them are added to it, or queued; and those that go take their item along.
LEMMA CommitInv ==
  ASSUME GridInv, NEW dropped \in SUBSET Range(rendered), NEW before \in Nat,
         NEW after \in Nat, NEW brings \in BOOLEAN,
         Commit(dropped, before, after, brings)
  PROVE  /\ GridInv'
         /\ grid # None =>
              Range(rendered) \ Range(rendered') \subseteq Element \ Range(placed'[grid])
<1> DEFINE kept == Without(rendered, dropped)
           fresh(m, n) == [k \in 1 .. n |-> m + k]
           children == fresh(mounts, before) \o kept \o fresh(mounts + before, after)
           new == IF brings THEN queued ELSE grid
           renewed == RunAgain(Range(kept), new)
           started == renewed \union (Range(children) \ Range(kept))
           gone == dropped \union renewed
           cleaned == Unregister(Refs, gone)
           list == Within(children, started)
           r == Register(cleaned, list, new, initialized)
<1>1. /\ life = "mounted" /\ mounts + before + after <= MaxElements
      /\ brings => queued # None
      /\ rendered' = children /\ mounts' = mounts + before + after
      /\ grid' = new /\ queued' = IF brings THEN None ELSE queued
      /\ knows' = [e \in Element |-> IF e \in started THEN new ELSE knows[e]]
      /\ SetRefs(r)
      /\ UNCHANGED <<life, imports, live, initialized>>
  BY DEF Commit
<1>2. /\ children \in Seq(Element) /\ IsInjective(children)
      /\ Range(children) =
           (Range(rendered) \ dropped) \cup (mounts + 1 .. mounts + before + after)
  BY <1>1, CommitChildren
<1>3. /\ rendered \in Seq(Element) /\ Range(rendered) \subseteq 1 .. mounts
      /\ Range(rendered) \subseteq Element /\ mounts \in Nat
      /\ LastAttempt \in Attempt /\ LastAttempt # None
      /\ queued \in Attempt \cup {None} /\ grid \in Attempt \cup {None}
      /\ initialized \in BOOLEAN
  BY MuuriGridAssumption
  DEF GridInv, MuuriTypeOK, Children, Element, LastAttempt, Attempt, None
<1>4. Range(kept) = Range(rendered) \ dropped
  BY <1>3, WithoutProperties
<1>5. renewed = IF new # grid THEN Range(kept) ELSE {}
  BY DEF RunAgain
<1> HIDE DEF children, kept
<1>6. /\ Range(children) \subseteq Element /\ started \subseteq Range(children)
      /\ gone \in SUBSET Element
      /\ gone \subseteq Range(rendered)
      /\ (Range(rendered) \ gone) \cup started = Range(children)
      /\ (Range(rendered) \ gone) \cap started = {}
  <2>1. Range(children) \subseteq Element
    BY <1>2 DEF Range
  <2>2. Range(children) \ Range(kept) = mounts + 1 .. mounts + before + after
    BY <1>2, <1>3, <1>4
  <2> QED
    BY <1>2, <1>3, <1>4, <1>5, <2>1, <2>2
<1>7. new \in Attempt \cup {None}
  BY <1>3
<1> HIDE DEF started, new
<1>8. /\ list \in Seq(Element) /\ IsInjective(list) /\ Range(list) = started
  <2>1. children \in Seq(Element) /\ IsInjective(children)
    BY <1>2
  <2>2. /\ Within(children, started) \in Seq(Element)
        /\ Range(Within(children, started)) = Range(children) \cap started
        /\ IsInjective(Within(children, started))
    BY <2>1, WithinProperties, ZenonT(60)
  <2>3. Range(children) \cap started = started
    BY <1>6
  <2> QED
    BY <2>2, <2>3, ZenonT(60)
<1>9. GoodRefs(Refs) /\ Registered(Refs) = Range(rendered)
  BY <1>1 DEF GridInv, MuuriTypeOK, Registered, Refs
<1> HIDE DEF list, gone
<1>10. /\ GoodRefs(cleaned) /\ Registered(cleaned) = Registered(Refs) \ gone
       /\ \A e \in Element \ gone : cleaned.registered[e] = registered[e]
       /\ \A a \in Attempt :
            /\ Range(cleaned.placed[a]) =
                 Range(placed[a]) \ {e \in Removable(Refs, gone) : knows[e] = a}
            /\ IsInjective(placed[a]) => IsInjective(cleaned.placed[a])
  BY <1>6, <1>9, UnregisterGood DEF Refs
<1> HIDE DEF cleaned
<1>11. /\ GoodRefs(r) /\ Registered(r) = Registered(cleaned) \cup Range(list)
       /\ \A e \in Registered(cleaned) : r.registered[e] = cleaned.registered[e]
       /\ \A a \in Attempt : IsInjective(cleaned.placed[a]) => IsInjective(r.placed[a])
       /\ new # None /\ initialized =>
            /\ Range(r.placed[new]) =
                 Range(cleaned.placed[new]) \cup (Range(list) \ Registered(cleaned))
            /\ \A e \in Range(list) \ Registered(cleaned) : r.registered[e] = "item"
  <2>1. Registers(cleaned, list, new, initialized, r)
    BY <1>3, <1>7, <1>8, <1>10, RegisterGood
  <2> QED
    BY <2>1 DEF Registers
<1> HIDE DEF r
<1>12. Refs' = r
  BY <1>1, <1>11, RefsOf
<1>13. placed' = r.placed /\ registered' = r.registered
  BY <1>1 DEF SetRefs
<1>14. GoodRefs(Refs)' /\ Registered(Refs)' = Range(children)
  <2>1. Registered(r) = Range(children)
    BY <1>6, <1>8, <1>9, <1>10, <1>11
  <2> QED
    BY <1>11, <1>12, <2>1 DEF GoodRefs, Registered
<1>15. MuuriTypeOK'
  <2>1. /\ placed' \in [Attempt -> Seq(Element)] /\ pending' \in Seq(Element)
        /\ registered' \in [Element -> {"none", "element", "item"}]
        /\ {e \in Element : registered[e] # "none"}' = Range(children)
    BY <1>14 DEF GoodRefs, Refs, Registered
  <2>2. knows' \in [Element -> Attempt \cup {None}]
    BY <1>1, <1>7 DEF GridInv, MuuriTypeOK
  <2>3. mounts' \in 0 .. MaxElements
    BY <1>1, <1>3, MuuriGridAssumption
  <2> QED
    BY <1>1, <1>2, <1>7, <2>1, <2>2, <2>3 DEF GridInv, MuuriTypeOK
<1>16. Children'
  BY <1>1, <1>2, <1>3 DEF Children
<1>17. Instances'
  <2>1. ASSUME NEW e \in Range(children)
        PROVE  knows'[e] = new
    <3>1. CASE e \in started
      BY <1>1, <1>6, <3>1
    <3>2. CASE e \notin started
      <4>1. e \in Range(rendered) \ gone
        BY <1>6, <3>2
      <4>2. new = grid
        BY <1>4, <1>5, <4>1 DEF gone
      <4> QED
        BY <1>1, <1>3, <3>2, <4>1, <4>2 DEF GridInv, Instances
    <3> QED
      BY <3>1, <3>2
  <2> QED
    BY <1>1, <1>3, <2>1 DEF GridInv, Instances, new
<1>18. Items'
  <2>1. \A a \in Attempt : IsInjective(placed'[a])
    BY <1>10, <1>11, <1>13 DEF GridInv, Items
  <2>2. ASSUME new # None, NEW e \in Range(children)
        PROVE  registered'[e] = "item" /\ e \in Range(placed'[new])
    <3>1. initialized
      BY <1>1, <1>3, <2>2 DEF GridInv, Instances, new
    <3>2. CASE e \in started
      <4>1. e \notin Registered(cleaned)
        BY <1>6, <1>9, <1>10, <3>2
      <4> QED
        BY <1>8, <1>11, <1>13, <2>2, <3>1, <3>2, <4>1
    <3>3. CASE e \notin started
      <4>1. e \in Range(rendered) \ gone
        BY <1>6, <3>3
      <4>2. new = grid
        BY <1>4, <1>5, <4>1 DEF gone
      <4>3. registered[e] = "item" /\ e \in Range(placed[grid])
        BY <1>1, <2>2, <4>1, <4>2 DEF GridInv, Items
      <4>4. e \in Registered(cleaned) /\ cleaned.registered[e] = "item"
        BY <1>3, <1>9, <1>10, <4>1, <4>3
      <4>5. e \in Range(cleaned.placed[new])
        BY <1>7, <1>10, <2>2, <4>1, <4>2, <4>3 DEF Removable
      <4> QED
        BY <1>11, <1>13, <2>2, <3>1, <4>4, <4>5
    <3> QED
      BY <3>2, <3>3
  <2> QED
    BY <1>1, <2>1, <2>2 DEF Items
<1>19. ASSUME grid # None, NEW e \in Range(rendered), e \notin Range(children)
       PROVE  e \notin Range(placed'[grid])
  <2>1. e \in gone /\ e \notin started
    BY <1>6, <1>19
  <2>2. registered[e] = "item" /\ knows[e] = grid
    BY <1>1, <1>19 DEF GridInv, Items, Instances
  <2>3. e \in Removable(Refs, gone)
    BY <1>19, <2>1, <2>2 DEF Removable, Refs
  <2>4. new = grid /\ initialized
    BY <1>1, <1>3, <1>19 DEF GridInv, Instances, new
  <2>5. e \notin Range(cleaned.placed[grid])
    BY <1>3, <1>10, <1>19, <2>2, <2>3
  <2> QED
    BY <1>8, <1>11, <1>13, <1>19, <2>1, <2>4, <2>5
<1> QED
  BY <1>1, <1>3, <1>14, <1>15, <1>16, <1>17, <1>18, <1>19 DEF GridInv

\* A step of the page keeps the invariant, and takes the item of a child that goes.
LEMMA GridNextInv ==
  ASSUME GridInv, [GridNext]_pageVars
  PROVE  /\ GridInv'
         /\ life = "mounted" /\ life' = "mounted" /\ grid # None =>
              Range(rendered) \ Range(rendered') \subseteq Element \ Range(placed'[grid])
<1>1. CASE Mount
  BY <1>1, MountGridInv DEF Mount, MountGrid
<1>2. CASE Import
  <2>1. PICK a \in Attempt : InitMuuri(a)
    BY <1>2 DEF Import
  <2>2. rendered' = rendered
    BY <2>1 DEF InitMuuri
  <2> QED
    BY <2>1, <2>2, InitMuuriInv
<1>3. CASE ListingRenders
  <2>1. PICK dropped \in SUBSET Range(rendered), before \in 0 .. 1, after \in 0 .. 1,
             b \in BOOLEAN : Commit(dropped, before, after, b)
    BY <1>3 DEF ListingRenders
  <2>2. before \in Nat /\ after \in Nat
    OBVIOUS
  <2> QED
    BY <2>1, <2>2, CommitInv
<1>4. ASSUME NEW e \in Element, Click(e)
      PROVE  /\ GridInv'
             /\ grid # None =>
                  Range(rendered) \ Range(rendered') \subseteq Element \ Range(placed'[grid])
  <2>1. {} \in SUBSET Range(rendered) /\ 0 \in Nat /\ (queued # None) \in BOOLEAN
    OBVIOUS
  <2>2. Commit({}, 0, 0, queued # None)
    BY <1>4 DEF Click
  <2> QED
    BY <2>1, <2>2, CommitInv
<1>5. CASE LeaveGrid
  BY <1>5, UnmountGridInv DEF LeaveGrid, UnmountGrid
<1>6. CASE UNCHANGED pageVars
  <2>1. UNCHANGED gridVars
    BY <1>6 DEF pageVars
  <2> QED
    BY <2>1 DEF GridInv, gridVars, MuuriTypeOK, GoodRefs, Refs, Instances, Items, Children
<1> QED
  BY <1>1, <1>2, <1>3, <1>4, <1>5, <1>6 DEF GridNext

\* GridInv holds throughout.
LEMMA GridInvHolds == GridSpec => []GridInv
<1>1. GridInit => GridInv
  BY GridInitInv DEF GridInit
<1>2. GridInv /\ [GridNext]_pageVars => GridInv'
  BY GridNextInv
<1> QED
  BY <1>1, <1>2, PTL DEF GridSpec

\* Every variable has its type, and itemsMapRef holds the children, no more and no
\* less: each is registered as it mounts and unregistered as it goes.
THEOREM GridTypes == GridSpec => []GridTypeOK
<1>1. GridInit => GridTypeOK
  BY GridInitInv DEF GridInit, GridInv, GridTypeOK
<1>2. GridInv /\ GridTypeOK /\ [GridNext]_pageVars => GridTypeOK'
  <2> SUFFICES ASSUME GridInv, GridTypeOK, [GridNext]_pageVars
               PROVE  GridTypeOK'
    OBVIOUS
  <2>1. MuuriTypeOK'
    BY GridNextInv DEF GridInv
  <2>2. CASE UNCHANGED <<expanded, centre>>
    BY <2>1, <2>2 DEF GridTypeOK
  <2>3. ASSUME NEW e \in Element, Click(e)
        PROVE  expanded' \in Element \cup {None} /\ centre' \in Centres
    BY <2>3 DEF Click, GridTypeOK
  <2> QED
    BY <2>1, <2>2, <2>3
    DEF GridNext, pageVars, Mount, Import, ListingRenders, LeaveGrid, GridTypeOK
<1> QED
  BY <1>1, <1>2, GridInvHolds, PTL DEF GridSpec

\* Once the children know the instance, each of them is in it, once, however the
\* import, the commits and strict mode's remount interleave (MuuriGrid.tsx).
THEOREM ChildrenArePlaced == GridSpec => []EveryChildIsPlaced
<1>1. GridInv => EveryChildIsPlaced
  <2> SUFFICES ASSUME GridInv, life = "mounted", grid # None
               PROVE  /\ Range(rendered) \subseteq Range(placed[grid])
                      /\ Cardinality(Range(placed[grid])) = Len(placed[grid])
    BY DEF EveryChildIsPlaced
  <2>1. grid \in Attempt /\ placed[grid] \in Seq(Element)
    BY DEF GridInv, MuuriTypeOK
  <2> QED
    BY <2>1, DistinctCardinality DEF GridInv, Items
<1> QED
  BY <1>1, GridInvHolds, PTL

\* However often strict mode runs the effect, at most one instance lives, and none
\* without its component (the cancelled flag of the effect in MuuriGrid.tsx).
THEOREM InstanceIsOne == GridSpec => []OneInstance
<1>1. GridInv => OneInstance
  <2> SUFFICES ASSUME GridInv
               PROVE  OneInstance
    OBVIOUS
  <2>1. live \in SUBSET {LastAttempt}
    BY DEF GridInv, Instances
  <2>2. Cardinality(live) <= 1
    <3>1. IsFiniteSet({LastAttempt}) /\ Cardinality({LastAttempt}) = 1
      BY FS_Singleton
    <3>2. Cardinality(live) <= Cardinality({LastAttempt})
      BY <2>1, <3>1, FS_Subset
    <3> QED
      BY <3>1, <3>2
  <2> QED
    BY <2>2 DEF GridInv, Instances, OneInstance, MuuriTypeOK
<1> QED
  BY <1>1, GridInvHolds, PTL

\* A child that goes once the instance is known takes its item along
\* (unregisterItem).
THEOREM ItemsLeave == GridSpec => LeavesWithItsItem
<1>1. GridInv /\ [GridNext]_pageVars =>
        [life = "mounted" /\ life' = "mounted" /\ grid # None =>
           Range(rendered) \ Range(rendered') \subseteq Element \ Range(placed'[grid])]_gridVars
  BY GridNextInv
<1> QED
  BY <1>1, GridInvHolds, PTL DEF GridSpec, LeavesWithItsItem

-----------------------------------------------------------------------------
(* The layout (Packing).                                                    *)

\* Rectangles by their edges, with an inside or without.
Rectangle == [left : Int, top : Int, right : Int, bottom : Int]

\* One of the four pieces of r beside u.
Beside(r, u) ==
  {[r EXCEPT !.right = u.left], [r EXCEPT !.left = u.right],
   [r EXCEPT !.bottom = u.top], [r EXCEPT !.top = u.bottom]}

\* The pieces of a rectangle lie in it, apart from what is used, and all that lies so
\* lies in one of them. No two are equal.
LEMMA PiecesCover ==
  ASSUME NEW r \in Rectangle, Proper(r), NEW u \in Rectangle, Proper(u), ~Apart(u, r)
  PROVE  /\ Pieces(r, u) \in Seq(Rectangle)
         /\ IsInjective(Pieces(r, u))
         /\ Range(Pieces(r, u)) = {p \in Beside(r, u) : Proper(p)}
         /\ \A p \in Range(Pieces(r, u)) : Contained(p, r) /\ Apart(p, u)
         /\ \A p \in Rectangle : Proper(p) /\ Contained(p, r) /\ Apart(p, u)
              => \E q \in Range(Pieces(r, u)) : Contained(p, q)
<1> DEFINE beside == <<[r EXCEPT !.right = u.left], [r EXCEPT !.left = u.right],
                       [r EXCEPT !.bottom = u.top], [r EXCEPT !.top = u.bottom]>>
           I == {i \in DOMAIN beside : Proper(beside[i])}
           pieces == At(beside, I)
<1>1. /\ beside \in Seq(Rectangle) /\ Len(beside) = 4 /\ DOMAIN beside = 1 .. 4
      /\ beside[1] = [r EXCEPT !.right = u.left] /\ beside[2] = [r EXCEPT !.left = u.right]
      /\ beside[3] = [r EXCEPT !.bottom = u.top] /\ beside[4] = [r EXCEPT !.top = u.bottom]
  BY DEF Rectangle
<1>2. Range(beside) = Beside(r, u)
  BY <1>1 DEF Beside, Range
<1>3. IsInjective(beside)
  <2>1. /\ beside[1] # beside[2] /\ beside[1] # beside[3] /\ beside[1] # beside[4]
        /\ beside[2] # beside[3] /\ beside[2] # beside[4] /\ beside[3] # beside[4]
    BY <1>1 DEF Rectangle, Proper, Apart
  <2> HIDE DEF beside
  <2>2. \A i, j \in 1 .. 4 : beside[i] = beside[j] => i = j
    BY <2>1
  <2> QED
    BY <1>1, <2>2 DEF IsInjective
<1>4. Pieces(r, u) = pieces
  BY DEF Pieces
<1> HIDE DEF beside
<1>5. I \in SUBSET DOMAIN beside
  OBVIOUS
<1>6. /\ pieces \in Seq(Rectangle) /\ IsInjective(pieces)
      /\ Range(pieces) = {beside[i] : i \in I}
  <2>1. DOMAIN beside = 1 .. 4 /\ I \in SUBSET DOMAIN beside
    BY <1>1, <1>5
  <2> HIDE DEF I
  <2>2. /\ At(beside, I) \in Seq(Rectangle)
        /\ Range(At(beside, I)) = {beside[i] : i \in I}
        /\ IsInjective(beside) => IsInjective(At(beside, I))
    BY <1>1, <2>1, AtHolds
  <2> QED
    BY <1>3, <2>2 DEF pieces
<1>7. Range(pieces) = {p \in Beside(r, u) : Proper(p)}
  <2>1. {beside[i] : i \in I} = {p \in Beside(r, u) : Proper(p)}
    BY <1>2 DEF Range
  <2> HIDE DEF I, pieces
  <2> QED
    BY <1>6, <2>1
<1> HIDE DEF I, pieces
<1>8. \A p \in Beside(r, u) : Proper(p) => Contained(p, r) /\ Apart(p, u)
  BY DEF Beside, Rectangle, Proper, Apart, Contained
<1>9. ASSUME NEW p \in Rectangle, Proper(p), Contained(p, r), Apart(p, u)
      PROVE  \E q \in Beside(r, u) : Proper(q) /\ Contained(p, q)
  BY <1>9 DEF Beside, Rectangle, Proper, Apart, Contained
<1> QED
  BY <1>4, <1>6, <1>7, <1>8, <1>9

\* Proper and within the grid.
InGrid(r) ==
  /\ 0 <= r.left /\ r.left < r.right /\ r.right <= gridWidth
  /\ 0 <= r.top /\ r.top < r.bottom /\ r.bottom <= Infinity

\* Two rectangles neither of which is contained in the other leave different pieces.
LEMMA PiecesDiffer ==
  ASSUME NEW r \in Rectangle, NEW s \in Rectangle, NEW u \in Rectangle, Proper(u),
         ~Contained(r, s), ~Contained(s, r), ~Apart(u, r), ~Apart(u, s)
  PROVE  Beside(r, u) \cap Beside(s, u) = {}
  BY DEF Rectangle, Apart, Contained, Beside, Proper

\* What is contained in a rectangle is apart from all that the rectangle is apart from.
LEMMA ApartWithin ==
  ASSUME NEW r \in Rectangle, NEW s \in Rectangle, NEW u \in Rectangle,
         Contained(r, s)
  PROVE  /\ Apart(s, u) => Apart(r, u)
         /\ Apart(r, u) <=> Apart(u, r)
         /\ InGrid(s) /\ Proper(r) => InGrid(r)
         /\ InGrid(r) => Proper(r)
  BY PackingAssumption DEF Rectangle, Contained, Apart, InGrid, Proper

\* Half its circumference: with it, of two one of which holds the other, only equal
\* ones have the same.
Size(r) == (r.right - r.left) + (r.bottom - r.top)

\* Containment is an order, and what contains another is larger.
LEMMA ContainedOrder ==
  ASSUME NEW r \in Rectangle, NEW s \in Rectangle, NEW t \in Rectangle
  PROVE  /\ Contained(r, r)
         /\ Contained(r, s) /\ Contained(s, t) => Contained(r, t)
         /\ Contained(r, s) /\ Size(s) <= Size(r) => r = s
  BY DEF Rectangle, Contained, Size

\* Nothing in the grid is larger than the grid.
LEMMA SizeInGrid ==
  ASSUME NEW r \in Rectangle, InGrid(r)
  PROVE  Size(r) \in Int /\ gridWidth + Infinity - Size(r) \in Nat
  BY PackingAssumption DEF Rectangle, InGrid, Size

\* A list of rectangles none of which is contained in another.
Maximal(rects) ==
  /\ rects \in Seq(Rectangle)
  /\ \A i, j \in 1 .. Len(rects) : i # j => ~Contained(rects[i], rects[j])

\* Pruning leaves such a list of a list without duplicates, and loses no space.
LEMMA PruneRectsHolds ==
  ASSUME NEW rects \in Seq(Rectangle), IsInjective(rects),
         \A i \in 1 .. Len(rects) : InGrid(rects[i])
  PROVE  /\ Maximal(PruneRects(rects))
         /\ Range(PruneRects(rects)) \subseteq Range(rects)
         /\ \A i \in 1 .. Len(rects) :
              \E q \in Range(PruneRects(rects)) : Contained(rects[i], q)
<1> DEFINE I == {i \in DOMAIN rects :
                   \A j \in DOMAIN rects \ {i} : ~Contained(rects[i], rects[j])}
           kept == At(rects, I)
<1>1. PruneRects(rects) = kept
  BY DEF PruneRects
<1>2. /\ DOMAIN rects = 1 .. Len(rects) /\ Len(rects) \in Nat
      /\ \A i \in 1 .. Len(rects) : rects[i] \in Rectangle
  OBVIOUS
<1>3. I \in SUBSET DOMAIN rects
  OBVIOUS
<1>4. /\ kept \in Seq(Rectangle)
      /\ Range(kept) = {rects[i] : i \in I}
      /\ \A k, l \in 1 .. Len(kept) : k # l =>
           \E i, j \in I : i # j /\ kept[k] = rects[i] /\ kept[l] = rects[j]
  <2> HIDE DEF I
  <2> QED
    BY <1>3, AtHolds
<1>5. Maximal(kept)
  <2>1. \A i, j \in I : i # j => ~Contained(rects[i], rects[j])
    OBVIOUS
  <2> HIDE DEF I, kept
  <2> QED
    BY <1>4, <2>1 DEF Maximal
<1>6. Range(kept) \subseteq Range(rects)
  BY <1>3, <1>4 DEF Range
<1>7. ASSUME NEW i \in 1 .. Len(rects)
      PROVE  \E m \in I : Contained(rects[i], rects[m])
  <2> DEFINE Around == {j \in 1 .. Len(rects) : Contained(rects[i], rects[j])}
             Least == {gridWidth + Infinity - Size(rects[j]) : j \in Around}
  <2>1. i \in Around
    BY <1>2, ContainedOrder
  <2>2. \A j \in Around : j \in 1 .. Len(rects) /\ Contained(rects[i], rects[j])
    OBVIOUS
  <2> HIDE DEF Around
  <2>3. PICK m \in Around : \A j \in Around : Size(rects[j]) <= Size(rects[m])
    <3>1. \A j \in Around : /\ Size(rects[j]) \in Int
                            /\ gridWidth + Infinity - Size(rects[j]) \in Nat
      BY <1>2, <2>2, SizeInGrid
    <3>2. Least \subseteq Nat /\ Least # {}
      BY <2>1, <3>1
    <3>3. PICK n \in Least : \A k \in Least : n <= k
      <4> HIDE DEF Least
      <4> QED
        BY <3>2, LeastNumber
    <3>4. PICK m \in Around : n = gridWidth + Infinity - Size(rects[m])
      BY <3>3
    <3>5. ASSUME NEW j \in Around
          PROVE  Size(rects[j]) <= Size(rects[m])
      <4>1. gridWidth + Infinity - Size(rects[m]) <= gridWidth + Infinity - Size(rects[j])
        BY <3>3, <3>4, <3>5
      <4> QED
        BY <3>1, <4>1, PackingAssumption, SMTT(60)
    <3> QED
      BY <3>5
  <2>4. ASSUME NEW j \in 1 .. Len(rects), j # m
        PROVE  ~Contained(rects[m], rects[j])
    <3> SUFFICES ASSUME Contained(rects[m], rects[j]) PROVE FALSE
      OBVIOUS
    <3>1. /\ rects[i] \in Rectangle /\ rects[m] \in Rectangle /\ rects[j] \in Rectangle
          /\ Contained(rects[i], rects[m])
      BY <1>2, <2>2
    <3>2. j \in Around
      BY <3>1, ContainedOrder DEF Around
    <3>3. Size(rects[j]) <= Size(rects[m])
      BY <2>3, <3>2
    <3>4. rects[m] = rects[j]
      BY <3>1, <3>3, ContainedOrder
    <3> QED
      BY <1>2, <2>2, <2>4, <3>4 DEF IsInjective
  <2>5. m \in I
    BY <1>2, <2>2, <2>4
  <2> QED
    BY <2>2, <2>5
<1> QED
  BY <1>1, <1>4, <1>5, <1>6, <1>7

\* Apart from every rectangle of taken.
Clear(r, taken) == \A u \in taken : Apart(r, u)

\* The free rectangles lie in the grid clear of what is taken, and everything that
\* does so lies in one of them: they are the largest ones.
Free(rects, taken) ==
  /\ Maximal(rects)
  /\ \A r \in Range(rects) : InGrid(r) /\ Clear(r, taken)
  /\ \A p \in Rectangle : InGrid(p) /\ Clear(p, taken) =>
       \E r \in Range(rects) : Contained(p, r)

\* subtractRect takes the space of u, and no other.
LEMMA SubtractRectHolds ==
  ASSUME NEW rects, NEW taken \in SUBSET Rectangle, Free(rects, taken),
         NEW u \in Rectangle, Proper(u)
  PROVE  Free(SubtractRect(rects, u), taken \cup {u})
<1> DEFINE left == [i \in DOMAIN rects |->
                      IF Apart(u, rects[i]) THEN <<rects[i]>> ELSE Pieces(rects[i], u)]
           all == FlattenSeq(left)
           kept == PruneRects(all)
<1>1. SubtractRect(rects, u) = kept
  BY DEF SubtractRect
<1>2. /\ rects \in Seq(Rectangle) /\ DOMAIN rects = 1 .. Len(rects) /\ Len(rects) \in Nat
      /\ \A i \in 1 .. Len(rects) :
           /\ rects[i] \in Rectangle /\ InGrid(rects[i]) /\ Proper(rects[i])
           /\ Clear(rects[i], taken)
      /\ \A i, j \in 1 .. Len(rects) : i # j => ~Contained(rects[i], rects[j])
  <2>1. rects \in Seq(Rectangle) /\ DOMAIN rects = 1 .. Len(rects) /\ Len(rects) \in Nat
    BY DEF Free, Maximal
  <2>2. \A i \in 1 .. Len(rects) : rects[i] \in Rectangle /\ rects[i] \in Range(rects)
    BY <2>1 DEF Range
  <2>3. \A r \in Rectangle : InGrid(r) => Proper(r)
    BY PackingAssumption DEF Rectangle, InGrid, Proper
  <2> QED
    BY <2>1, <2>2, <2>3 DEF Free, Maximal
<1>3. ASSUME NEW i \in 1 .. Len(rects)
      PROVE  /\ left[i] \in Seq(Rectangle) /\ IsInjective(left[i])
             /\ Range(left[i]) = IF Apart(u, rects[i]) THEN {rects[i]}
                                 ELSE {p \in Beside(rects[i], u) : Proper(p)}
             /\ \A p \in Range(left[i]) :
                  p \in Rectangle /\ Proper(p) /\ Contained(p, rects[i]) /\ Apart(p, u)
             /\ \A p \in Rectangle : Proper(p) /\ Contained(p, rects[i]) /\ Apart(p, u)
                  => \E q \in Range(left[i]) : Contained(p, q)
  <2>1. CASE Apart(u, rects[i])
    <3>1. left[i] = <<rects[i]>>
      BY <1>2, <2>1
    <3> HIDE DEF left
    <3>2. left[i] \in Seq(Rectangle) /\ IsInjective(left[i]) /\ Range(left[i]) = {rects[i]}
      BY <1>2, <3>1 DEF IsInjective, Range
    <3>3. Contained(rects[i], rects[i]) /\ Apart(rects[i], u)
      BY <1>2, <2>1, ContainedOrder, ApartWithin
    <3> QED
      BY <1>2, <2>1, <3>2, <3>3
  <2>2. CASE ~Apart(u, rects[i])
    <3>1. left[i] = Pieces(rects[i], u)
      BY <1>2, <2>2
    <3> HIDE DEF left
    <3>2. /\ left[i] \in Seq(Rectangle)
          /\ IsInjective(left[i])
          /\ Range(left[i]) = {p \in Beside(rects[i], u) : Proper(p)}
          /\ \A p \in Range(left[i]) : Contained(p, rects[i]) /\ Apart(p, u)
          /\ \A p \in Rectangle : Proper(p) /\ Contained(p, rects[i]) /\ Apart(p, u)
               => \E q \in Range(left[i]) : Contained(p, q)
      BY <1>2, <2>2, <3>1, PiecesCover
    <3>3. \A p \in Range(left[i]) : p \in Rectangle
      BY <3>2 DEF Range
    <3> QED
      BY <2>2, <3>2, <3>3
  <2> HIDE DEF left
  <2> QED
    BY <2>1, <2>2
<1>4. left \in Seq(Seq(Rectangle)) /\ Len(left) = Len(rects)
  <2>1. DOMAIN left = 1 .. Len(rects)
    BY <1>2
  <2> HIDE DEF left
  <2>2. left = [i \in 1 .. Len(rects) |-> left[i]]
    BY <2>1 DEF left
  <2> QED
    BY <1>2, <1>3, <2>2
<1> HIDE DEF left
<1>5. Separate(left)
  <2>1. ASSUME NEW i \in 1 .. Len(rects), NEW j \in 1 .. Len(rects), i # j
        PROVE  Range(left[i]) \cap Range(left[j]) = {}
    <3>1. ~Contained(rects[i], rects[j]) /\ ~Contained(rects[j], rects[i])
      BY <1>2, <2>1
    <3>2. ~Apart(u, rects[i]) /\ ~Apart(u, rects[j]) =>
            Beside(rects[i], u) \cap Beside(rects[j], u) = {}
      BY <1>2, <3>1, PiecesDiffer
    <3>3. rects[i] # rects[j]
      BY <1>2, <3>1, ContainedOrder
    <3>4. CASE Apart(u, rects[i]) /\ Apart(u, rects[j])
      BY <1>3, <3>3, <3>4
    <3>5. CASE Apart(u, rects[i]) /\ ~Apart(u, rects[j])
      <4>1. Range(left[i]) = {rects[i]} /\ rects[i] \notin Range(left[j])
        BY <1>3, <3>1, <3>5
      <4> QED
        BY <4>1
    <3>6. CASE ~Apart(u, rects[i]) /\ Apart(u, rects[j])
      <4>1. Range(left[j]) = {rects[j]} /\ rects[j] \notin Range(left[i])
        BY <1>3, <3>1, <3>6
      <4> QED
        BY <4>1
    <3>7. CASE ~Apart(u, rects[i]) /\ ~Apart(u, rects[j])
      BY <1>3, <3>2, <3>7
    <3> QED
      BY <3>4, <3>5, <3>6, <3>7
  <2>2. \A i, j \in 1 .. Len(rects) : i < j => i # j
    BY <1>2
  <2>3. \A i \in 1 .. Len(left) : IsInjective(left[i])
    BY <1>3, <1>4
  <2>4. \A i, j \in 1 .. Len(left) : i < j => Range(left[i]) \cap Range(left[j]) = {}
    BY <1>4, <2>1, <2>2
  <2> QED
    BY <2>3, <2>4 DEF Separate
<1>6. /\ all \in Seq(Rectangle) /\ IsInjective(all)
      /\ \A i \in 1 .. Len(rects) : Range(left[i]) \subseteq Range(all)
      /\ \A p \in Range(all) : \E i \in 1 .. Len(rects) : p \in Range(left[i])
  BY <1>4, <1>5, FlattenSeqHolds
<1> HIDE DEF all
<1>7. \A p \in Range(all) : p \in Rectangle /\ InGrid(p) /\ Clear(p, taken \cup {u})
  <2> SUFFICES ASSUME NEW p \in Range(all)
               PROVE  p \in Rectangle /\ InGrid(p) /\ Clear(p, taken \cup {u})
    OBVIOUS
  <2>1. PICK i \in 1 .. Len(rects) : p \in Range(left[i])
    BY <1>6
  <2>2. p \in Rectangle /\ Proper(p) /\ Contained(p, rects[i]) /\ Apart(p, u)
    BY <1>3, <2>1
  <2>3. InGrid(p)
    BY <1>2, <2>2, ApartWithin
  <2>4. \A t \in taken : Apart(p, t)
    BY <1>2, <2>2, ApartWithin DEF Clear
  <2> QED
    BY <2>2, <2>3, <2>4 DEF Clear
<1>8. \A i \in 1 .. Len(all) : InGrid(all[i])
  BY <1>6, <1>7 DEF Range
<1>9. /\ Maximal(kept)
      /\ Range(kept) \subseteq Range(all)
      /\ \A i \in 1 .. Len(all) : \E q \in Range(kept) : Contained(all[i], q)
  BY <1>6, <1>8, PruneRectsHolds
<1> HIDE DEF kept
<1>10. ASSUME NEW p \in Rectangle, InGrid(p), Clear(p, taken \cup {u})
       PROVE  \E q \in Range(kept) : Contained(p, q)
  <2>1. PICK r \in Range(rects) : Contained(p, r)
    BY <1>10 DEF Free, Clear
  <2>2. PICK i \in 1 .. Len(rects) : r = rects[i]
    BY <1>2 DEF Range
  <2>3. Proper(p) /\ Apart(p, u)
    BY <1>10, ApartWithin, ContainedOrder DEF Clear
  <2>4. PICK s \in Range(left[i]) : Contained(p, s)
    BY <1>3, <2>1, <2>2, <2>3
  <2>5. s \in Range(all) /\ s \in Rectangle
    BY <1>3, <1>6
  <2>6. PICK k \in 1 .. Len(all) : s = all[k]
    BY <1>6, <2>5 DEF Range
  <2>7. PICK q \in Range(kept) : Contained(s, q)
    BY <1>9, <2>6
  <2>8. q \in Rectangle
    BY <1>7, <1>9
  <2> QED
    BY <2>4, <2>5, <2>7, <2>8, ContainedOrder
<1> QED
  BY <1>1, <1>7, <1>9, <1>10 DEF Free

\* The whole grid is free of nothing.
LEMMA WholeGridIsFree == Free(WholeGrid, {})
<1> DEFINE whole == [left |-> 0, top |-> 0, right |-> gridWidth, bottom |-> Infinity]
<1>1. whole \in Rectangle /\ InGrid(whole) /\ WholeGrid = <<whole>>
  BY PackingAssumption DEF WholeGrid, Rectangle, InGrid
<1>2. \A p \in Rectangle : InGrid(p) => Contained(p, whole)
  BY PackingAssumption DEF Rectangle, InGrid, Contained
<1> HIDE DEF whole
<1>3. /\ WholeGrid \in Seq(Rectangle) /\ Len(WholeGrid) = 1
      /\ Range(WholeGrid) = {whole}
  BY <1>1 DEF Range
<1>4. Maximal(WholeGrid)
  BY <1>3 DEF Maximal
<1> QED
  BY <1>1, <1>2, <1>3, <1>4 DEF Free, Clear

\* A set of numbers with a bound has a greatest one.
LEMMA MaxHolds ==
  ASSUME NEW S \in SUBSET Int, S # {}, NEW b \in Int, \A x \in S : x <= b
  PROVE  Max(S) \in S /\ \A x \in S : x <= Max(S)
<1> DEFINE T == {b - x : x \in S}
<1>1. T \subseteq Nat /\ T # {}
  <2>1. \A x \in S : b - x \in Nat
    OBVIOUS
  <2> QED
    BY <2>1
<1>2. PICK n \in T : \A k \in T : n <= k
  <2> HIDE DEF T
  <2> QED
    BY <1>1, LeastNumber
<1>3. PICK m \in S : n = b - m
  BY <1>2
<1>4. \A x \in S : b - m <= b - x
  BY <1>2, <1>3
<1>5. \A x \in S : m >= x
  BY <1>4
<1>6. /\ (CHOOSE x \in S : \A y \in S : x >= y) \in S
      /\ \A z \in S : (CHOOSE x \in S : \A y \in S : x >= y) >= z
  BY <1>3, <1>5
<1> QED
  BY <1>6 DEF Max

\* The sizes of items that fit in the grid.
ItemSize == [width : 1 .. gridWidth, height : Nat \ {0}]

\* The sizes of all items.
AnySize == [width : Nat \ {0}, height : Nat \ {0}]

\* The rectangle of an item at a place.
LEMMA RectType ==
  ASSUME NEW x \in Int, NEW y \in Int, NEW size \in ItemSize
  PROVE  /\ Rect(x, y, size) \in Rectangle
         /\ Rect(x, y, size).left = x /\ Rect(x, y, size).top = y
         /\ Rect(x, y, size).right = x + size.width
         /\ Rect(x, y, size).bottom = y + size.height
         /\ Proper(Rect(x, y, size))
  BY DEF Rect, Rectangle, ItemSize, Proper

\* The space where an item fits and that no other such space comes before is where it
\* is placed: there is one, and it is the first place that is clear.
LEMMA BestIsFirst ==
  ASSUME NEW rects, NEW taken \in SUBSET Rectangle, Free(rects, taken),
         NEW size \in ItemSize, NEW b \in Nat, b + size.height <= Infinity,
         \A r \in taken : r.bottom \in 0 .. b
  PROVE  /\ Best(size, rects) # {}
         /\ \A r \in Best(size, rects) :
              LET used == Rect(r.left, r.top, size)
              IN  /\ used \in Rectangle /\ Proper(used)
                  /\ used.bottom \in 0 .. b + size.height
                  /\ IsFirstPlace(used, size, taken)
<1> DEFINE rows == {0} \union {r.bottom : r \in taken}
           depth == Max(rows)
           clear == {p \in Places(size, depth) : \A r \in taken : Apart(p, r)}
           fitting == {i \in DOMAIN rects : Fits(size, rects[i])}
<1>1. depth \in 0 .. b /\ \A r \in taken : r.bottom <= depth
  <2>1. rows \in SUBSET Int /\ rows # {} /\ \A x \in rows : x <= b /\ 0 <= x
    OBVIOUS
  <2>2. \A r \in taken : r.bottom \in rows
    OBVIOUS
  <2> HIDE DEF rows
  <2>3. Max(rows) \in rows /\ \A x \in rows : x <= Max(rows)
    <3>1. b \in Int /\ rows \in SUBSET Int /\ rows # {} /\ \A x \in rows : x <= b
      BY <2>1
    <3> QED
      BY <3>1, MaxHolds
  <2>4. Max(rows) \in Int /\ Max(rows) <= b /\ 0 <= Max(rows)
    BY <2>1, <2>3
  <2> QED
    BY <2>2, <2>3, <2>4
<1>2. /\ rects \in Seq(Rectangle) /\ DOMAIN rects = 1 .. Len(rects) /\ Len(rects) \in Nat
      /\ \A i \in 1 .. Len(rects) : rects[i] \in Rectangle /\ rects[i] \in Range(rects)
  <2>1. rects \in Seq(Rectangle) /\ DOMAIN rects = 1 .. Len(rects) /\ Len(rects) \in Nat
    BY DEF Free, Maximal
  <2> QED
    BY <2>1 DEF Range
<1>3. ASSUME NEW r \in Range(rects)
      PROVE  r \in Rectangle /\ InGrid(r) /\ Clear(r, taken) /\ \E i \in 1 .. Len(rects) : r = rects[i]
  BY <1>2, <1>3 DEF Free, Range
<1>4. /\ size.width \in Nat /\ size.height \in Nat /\ 1 <= size.width /\ 1 <= size.height
      /\ size.width <= gridWidth
  BY PackingAssumption DEF ItemSize
<1> HIDE DEF depth
<1>5. ASSUME NEW p \in clear
      PROVE  \E r \in Range(rects) : Fits(size, r) /\ r.left <= p.left /\ r.top <= p.top
  <2>1. PICK x \in 0 .. gridWidth - size.width, y \in 0 .. depth : p = Rect(x, y, size)
    BY <1>5 DEF Places
  <2>2. p \in Rectangle /\ p.left = x /\ p.top = y
        /\ p.right = x + size.width /\ p.bottom = y + size.height
    BY <2>1, RectType
  <2>3. InGrid(p)
    BY <1>1, <1>4, <2>2, PackingAssumption DEF InGrid
  <2>4. PICK r \in Range(rects) : Contained(p, r)
    BY <1>5, <2>2, <2>3 DEF Free, Clear
  <2>5. r \in Rectangle
    BY <1>3
  <2> QED
    BY <1>4, <2>2, <2>4, <2>5 DEF Contained, Rectangle, Fits
<1>6. Rect(0, depth, size) \in clear
  <2> DEFINE p == Rect(0, depth, size)
  <2>1. p.top = depth
    BY <1>1, RectType
  <2>2. p \in Places(size, depth)
    BY <1>1, <1>4, PackingAssumption DEF Places
  <2> HIDE DEF p
  <2>3. \A r \in taken : Apart(p, r)
    BY <1>1, <2>1 DEF Apart
  <2> QED
    BY <2>2, <2>3 DEF p
<1>7. ASSUME NEW p \in clear
      PROVE  \E i \in fitting : rects[i].left <= p.left /\ rects[i].top <= p.top
  <2>1. PICK r \in Range(rects) : Fits(size, r) /\ r.left <= p.left /\ r.top <= p.top
    BY <1>5, <1>7
  <2>2. PICK i \in 1 .. Len(rects) : r = rects[i]
    BY <1>3
  <2> QED
    BY <1>2, <2>1, <2>2
<1>8. \A i \in fitting : /\ rects[i] \in Rectangle /\ InGrid(rects[i]) /\ Clear(rects[i], taken)
                         /\ rects[i].left \in Nat /\ rects[i].top \in Nat
                         /\ Fits(size, rects[i])
  <2>1. \A i \in fitting : rects[i] \in Range(rects) /\ Fits(size, rects[i])
    BY <1>2
  <2>2. \A r \in Rectangle : InGrid(r) => r.left \in Nat /\ r.top \in Nat
    BY DEF Rectangle, InGrid
  <2> QED
    BY <1>3, <2>1, <2>2
<1>9. Best(size, rects) =
        {rects[i] : i \in {i \in fitting : \A j \in fitting : ~Before(rects[j], rects[i])}}
  BY DEF Best
<1> HIDE DEF fitting
<1>10. \E i \in fitting : \A j \in fitting : ~Before(rects[j], rects[i])
  <2> DEFINE tops == {rects[i].top : i \in fitting}
  <2>1. PICK k \in fitting : TRUE
    BY <1>6, <1>7
  <2>2. tops \subseteq Nat /\ tops # {}
    BY <1>8, <2>1
  <2>3. PICK top \in tops : \A y \in tops : top <= y
    <3> HIDE DEF tops
    <3> QED
      BY <2>2, LeastNumber
  <2>4. \A j \in fitting : top <= rects[j].top
    BY <2>3
  <2> DEFINE lefts == {rects[i].left : i \in {j \in fitting : rects[j].top = top}}
  <2>5. lefts \subseteq Nat /\ lefts # {}
    BY <1>8, <2>3
  <2>6. PICK left \in lefts : \A x \in lefts : left <= x
    <3> HIDE DEF lefts
    <3> QED
      BY <2>5, LeastNumber
  <2>7. PICK i \in fitting : rects[i].top = top /\ rects[i].left = left
    BY <2>6
  <2>8. \A j \in fitting : rects[j].top = top => left <= rects[j].left
    BY <2>6
  <2> HIDE DEF tops, lefts
  <2>9. \A j \in fitting : ~Before(rects[j], rects[i])
    BY <1>8, <2>4, <2>7, <2>8 DEF Before
  <2> QED
    BY <2>7, <2>9
<1>11. Best(size, rects) # {}
  BY <1>9, <1>10
<1>12. ASSUME NEW r \in Best(size, rects)
       PROVE  /\ Rect(r.left, r.top, size) \in Rectangle
              /\ Proper(Rect(r.left, r.top, size))
              /\ Rect(r.left, r.top, size).bottom \in 0 .. b + size.height
              /\ IsFirstPlace(Rect(r.left, r.top, size), size, taken)
  <2> DEFINE used == Rect(r.left, r.top, size)
  <2>1. /\ r \in Rectangle /\ InGrid(r) /\ Clear(r, taken) /\ Fits(size, r)
        /\ r.left \in Nat /\ r.top \in Nat
        /\ \A j \in fitting : ~Before(rects[j], r)
    BY <1>8, <1>9
  <2>2. /\ used \in Rectangle /\ Proper(used)
        /\ used.left = r.left /\ used.top = r.top
        /\ used.right = r.left + size.width /\ used.bottom = r.top + size.height
    BY <2>1, RectType
  <2>3. r.top <= depth
    <3>1. PICK j \in fitting : rects[j].top <= Rect(0, depth, size).top
      BY <1>6, <1>7
    <3>2. Rect(0, depth, size).top = depth
      BY <1>1, RectType
    <3> QED
      BY <1>1, <1>8, <2>1, <3>1, <3>2 DEF Before
  <2>4. used \in Places(size, depth)
    <3>1. r.left \in 0 .. gridWidth - size.width /\ r.top \in 0 .. depth
      BY <1>1, <1>4, <2>1, <2>3, PackingAssumption DEF Rectangle, InGrid, Fits
    <3> QED
      BY <3>1 DEF Places
  <2>5. used.bottom \in 0 .. b + size.height
    BY <1>1, <1>4, <2>1, <2>2, <2>3
  <2> HIDE DEF used
  <2>6. Contained(used, r)
    BY <1>4, <2>1, <2>2 DEF Contained, Fits, Rectangle
  <2>7. \A t \in taken : Apart(used, t)
    BY <2>1, <2>2, <2>6, ApartWithin DEF Clear
  <2>8. used \in clear
    BY <2>4, <2>7
  <2>9. ASSUME NEW p \in clear
        PROVE  ~Before(p, used)
    <3>1. PICK i \in fitting : rects[i].left <= p.left /\ rects[i].top <= p.top
      BY <1>7
    <3>2. ~Before(rects[i], r)
      BY <2>1
    <3>3. p.left \in Int /\ p.top \in Int
      <4>1. \E x \in 0 .. gridWidth - size.width, y \in 0 .. depth : p = Rect(x, y, size)
        BY DEF Places
      <4> QED
        BY <1>1, <1>4, <4>1, RectType, PackingAssumption
    <3> QED
      BY <1>8, <2>1, <2>2, <3>1, <3>2, <3>3 DEF Before
  <2>10. IsFirstPlace(used, size, taken)
    BY <2>8, <2>9 DEF IsFirstPlace, depth
  <2> QED
    BY <2>2, <2>5, <2>10 DEF used
<1> QED
  BY <1>11, <1>12

\* After n rounds: the items placed, each that is not wider than the grid at the
\* first place clear of what was there before it, no deeper than b, and the free
\* rectangles around them.
Packed(acc, sizes, excluded, n, b) ==
  /\ acc \in [free : Seq(Rectangle), slots : Seq(Rectangle)]
  /\ Len(acc.slots) = n
  /\ \A r \in excluded \cup PutBefore(acc.slots, sizes, n + 1) : r.bottom \in 0 .. b
  /\ Free(acc.free, excluded \cup PutBefore(acc.slots, sizes, n + 1))
  /\ IsFirstFit(acc.slots, sizes, excluded)

\* One more item is put after those before it, or is too wide to be put.
LEMMA PutGrows ==
  ASSUME NEW slots \in Seq(Rectangle), NEW n \in Nat, Len(slots) = n, NEW r \in Rectangle,
         NEW sizes
  PROVE  LET more == Append(slots, r)
         IN  /\ \A i \in 1 .. n + 1 : PutBefore(more, sizes, i) = PutBefore(slots, sizes, i)
             /\ InWidth(sizes[n + 1]) =>
                  PutBefore(more, sizes, n + 2) = PutBefore(slots, sizes, n + 1) \cup {r}
             /\ ~InWidth(sizes[n + 1]) =>
                  PutBefore(more, sizes, n + 2) = PutBefore(slots, sizes, n + 1)
<1> DEFINE more == Append(slots, r)
<1>1. /\ \A i \in 1 .. n : more[i] = slots[i]
      /\ more[n + 1] = r
  OBVIOUS
<1> HIDE DEF more
<1>2. \A i \in 1 .. n + 1 : \A k \in 1 .. i - 1 : k \in 1 .. n
  OBVIOUS
<1>3. /\ (n + 2) - 1 = n + 1 /\ (n + 1) - 1 = n
      /\ \A k \in 1 .. n + 1 : k \in 1 .. n \/ k = n + 1
      /\ 1 .. n \subseteq 1 .. n + 1 /\ n + 1 \in 1 .. n + 1
  OBVIOUS
<1>4. ASSUME NEW i \in 1 .. n + 1
      PROVE  PutBefore(more, sizes, i) = PutBefore(slots, sizes, i)
  BY <1>1, <1>2 DEF PutBefore
<1>5. CASE InWidth(sizes[n + 1])
  <2>1. PutBefore(more, sizes, n + 2) = PutBefore(slots, sizes, n + 1) \cup {r}
    BY <1>1, <1>3, <1>5 DEF PutBefore
  <2> QED
    BY <1>4, <1>5, <2>1 DEF more
<1>6. CASE ~InWidth(sizes[n + 1])
  <2>1. PutBefore(more, sizes, n + 2) = PutBefore(slots, sizes, n + 1)
    BY <1>1, <1>3, <1>6 DEF PutBefore
  <2> QED
    BY <1>4, <1>6, <2>1 DEF more
<1> QED
  BY <1>5, <1>6

\* Where an item wider than the grid is shown.
LEMMA LowestIsInt ==
  ASSUME NEW rects, NEW taken, Free(rects, taken)
  PROVE  Lowest(rects) \in Int
<1> DEFINE tops == {0} \union {rects[i].top : i \in DOMAIN rects}
<1>1. \A i \in DOMAIN rects : rects[i].top \in Int /\ rects[i].top <= Infinity
  <2> TAKE i \in DOMAIN rects
  <2>1. rects[i] \in Range(rects) /\ rects[i] \in Rectangle
    BY DEF Free, Maximal, Range
  <2> QED
    BY <2>1, PackingAssumption DEF Free, InGrid, Rectangle
<1>2. tops \in SUBSET Int /\ tops # {} /\ Infinity \in Int /\ \A x \in tops : x <= Infinity
  BY <1>1, PackingAssumption
<1> HIDE DEF tops
<1>3. Max(tops) \in tops
  BY <1>2, MaxHolds
<1> QED
  BY <1>2, <1>3 DEF Lowest, tops

\* A round of binPackLayout places one more item.
LEMMA PlaceHolds ==
  ASSUME NEW acc, NEW sizes, NEW excluded \in SUBSET Rectangle, NEW n \in Nat, NEW b \in Nat,
         Packed(acc, sizes, excluded, n, b), NEW size \in AnySize, size = sizes[n + 1],
         b + size.height <= Infinity
  PROVE  Packed(Place(acc, size), sizes, excluded, n + 1, b + size.height)
<1> DEFINE put == PutBefore(acc.slots, sizes, n + 1)
           taken == excluded \cup put
           best == CHOOSE r \in Best(size, acc.free) : TRUE
           used == Rect(best.left, best.top, size)
           below == Rect(0, Lowest(acc.free), size)
           next == Place(acc, size)
<1>1. /\ acc \in [free : Seq(Rectangle), slots : Seq(Rectangle)]
      /\ Len(acc.slots) = n /\ DOMAIN acc.slots = 1 .. n
      /\ \A r \in taken : r.bottom \in 0 .. b
      /\ Free(acc.free, taken)
      /\ taken \in SUBSET Rectangle
      /\ IsFirstFit(acc.slots, sizes, excluded)
  <2>1. put \subseteq Rectangle
    <3>1. \A k \in 1 .. (n + 1) - 1 : acc.slots[k] \in Rectangle
      BY DEF Packed
    <3> QED
      BY <3>1 DEF PutBefore
  <2> QED
    BY <2>1 DEF Packed
<1> HIDE DEF put
<1>2. size.height \in Nat /\ \A x \in 0 .. b : x \in 0 .. b + size.height
  BY DEF AnySize
<1>3. ASSUME NEW r \in Rectangle, next.slots = Append(acc.slots, r),
             next.free \in Seq(Rectangle),
             next = [free |-> next.free, slots |-> next.slots],
             InWidth(size) => IsFirstPlace(r, size, taken) /\ r.bottom \in 0 .. b + size.height,
             InWidth(size) => Free(next.free, taken \cup {r}),
             ~InWidth(size) => Free(next.free, taken)
      PROVE  Packed(next, sizes, excluded, n + 1, b + size.height)
  <2> HIDE DEF next
  <2>1. /\ next.slots \in Seq(Rectangle) /\ Len(next.slots) = n + 1
        /\ DOMAIN next.slots = 1 .. n + 1
        /\ \A i \in 1 .. n : next.slots[i] = acc.slots[i]
        /\ next.slots[n + 1] = r
    BY <1>1, <1>3
  <2>2. /\ \A i \in 1 .. n + 1 : PutBefore(next.slots, sizes, i) = PutBefore(acc.slots, sizes, i)
        /\ excluded \cup PutBefore(next.slots, sizes, (n + 1) + 1)
             = IF InWidth(size) THEN taken \cup {r} ELSE taken
    <3>1. (n + 1) + 1 = n + 2 /\ acc.slots \in Seq(Rectangle)
      BY <1>1
    <3>2. /\ \A i \in 1 .. n + 1 : PutBefore(next.slots, sizes, i) = PutBefore(acc.slots, sizes, i)
          /\ InWidth(size) => PutBefore(next.slots, sizes, n + 2) = put \cup {r}
          /\ ~InWidth(size) => PutBefore(next.slots, sizes, n + 2) = put
      BY <1>1, <1>3, <3>1, PutGrows DEF put
    <3> QED
      BY <3>1, <3>2
  <2>3. \A u \in (IF InWidth(size) THEN taken \cup {r} ELSE taken) : u.bottom \in 0 .. b + size.height
    BY <1>1, <1>2, <1>3
  <2>4. Free(next.free, excluded \cup PutBefore(next.slots, sizes, (n + 1) + 1))
    BY <1>3, <2>2
  <2>5. ASSUME NEW i \in 1 .. n + 1, InWidth(sizes[i])
        PROVE  IsFirstPlace(next.slots[i], sizes[i], excluded \cup PutBefore(next.slots, sizes, i))
    <3>1. CASE i \in 1 .. n
      <4>1. IsFirstPlace(acc.slots[i], sizes[i], excluded \cup PutBefore(acc.slots, sizes, i))
        BY <1>1, <2>5, <3>1 DEF IsFirstFit
      <4> QED
        BY <2>1, <2>2, <3>1, <4>1
    <3>2. CASE i = n + 1
      BY <1>3, <2>1, <2>2, <2>5, <3>2 DEF put
    <3> QED
      BY <3>1, <3>2
  <2>6. IsFirstFit(next.slots, sizes, excluded)
    BY <2>1, <2>5 DEF IsFirstFit
  <2> QED
    BY <1>3, <2>1, <2>2, <2>3, <2>4, <2>6 DEF Packed
<1>4. CASE InWidth(size)
  <2>1. size \in ItemSize
    <3>1. size = [width |-> size.width, height |-> size.height]
      BY DEF AnySize
    <3>2. size.width \in 1 .. gridWidth /\ size.height \in Nat \ {0}
      BY <1>4, PackingAssumption DEF AnySize, InWidth
    <3> QED
      BY <3>1, <3>2 DEF ItemSize
  <2> HIDE DEF taken
  <2>2. /\ Best(size, acc.free) # {}
        /\ \A r \in Best(size, acc.free) :
             LET p == Rect(r.left, r.top, size)
             IN  /\ p \in Rectangle /\ Proper(p)
                 /\ p.bottom \in 0 .. b + size.height
                 /\ IsFirstPlace(p, size, taken)
    BY <1>1, <2>1, BestIsFirst
  <2>3. best \in Best(size, acc.free)
    BY <2>2
  <2>4. /\ next.free = SubtractRect(acc.free, used)
        /\ next.slots = Append(acc.slots, used)
        /\ next = [free |-> next.free, slots |-> next.slots]
    BY <2>2 DEF Place
  <2> HIDE DEF best, next
  <2>5. /\ used \in Rectangle /\ Proper(used)
        /\ used.bottom \in 0 .. b + size.height
        /\ IsFirstPlace(used, size, taken)
    BY <2>2, <2>3
  <2> HIDE DEF used
  <2>6. Free(next.free, taken \cup {used})
    <3>1. Free(SubtractRect(acc.free, used), taken \cup {used})
      BY <1>1, <2>5, SubtractRectHolds
    <3> QED
      BY <2>4, <3>1
  <2>7. next.free \in Seq(Rectangle)
    BY <2>6 DEF Free, Maximal
  <2> QED
    BY <1>3, <1>4, <2>4, <2>5, <2>6, <2>7 DEF next
<1>5. CASE ~InWidth(size)
  <2>1. Best(size, acc.free) = {}
    <3>1. ASSUME NEW i \in DOMAIN acc.free PROVE ~Fits(size, acc.free[i])
      <4>1. acc.free[i] \in Rectangle /\ InGrid(acc.free[i])
        BY <1>1 DEF Free, Range
      <4> QED
        BY <1>5, <4>1, PackingAssumption DEF InGrid, InWidth, Fits, Rectangle, AnySize
    <3> QED
      BY <3>1 DEF Best
  <2>2. /\ next.free = acc.free
        /\ next.slots = Append(acc.slots, below)
        /\ next = [free |-> next.free, slots |-> next.slots]
    BY <1>1, <2>1 DEF Place
  <2>3. below \in Rectangle
    <3>1. Lowest(acc.free) \in Int
      BY <1>1, LowestIsInt
    <3> HIDE DEF next
    <3> QED
      BY <3>1 DEF Rect, Rectangle, AnySize
  <2> HIDE DEF below, next, taken
  <2> QED
    BY <1>1, <1>3, <1>5, <2>2, <2>3 DEF next
<1> QED
  BY <1>4, <1>5

\* Multiplying by the height of an item.
LEMMA TimesGrows ==
  ASSUME NEW m \in Nat, NEW n \in Nat, m + 1 <= n, NEW h \in Nat
  PROVE  /\ m * h \in Nat /\ n * h \in Nat
         /\ (m + 1) * h = m * h + h
         /\ (m + 1) * h <= n * h
<1>1. m * h \in Nat /\ n * h \in Nat /\ (n - (m + 1)) * h \in Nat
  OBVIOUS
<1>2. (m + 1) * h = m * h + h /\ (n - (m + 1)) * h = n * h - (m + 1) * h
  OBVIOUS
<1> QED
  BY <1>1, <1>2

\* f[i] is what the first i rounds of binPackLayout give.
Rounds(f, sizes, excluded, n) ==
  f = [i \in 0 .. n |->
         IF i = 0 THEN [free |-> FreeAround(excluded), slots |-> <<>>]
         ELSE Place(f[i - 1], sizes[i])]

\* There is such a function: it grows by one round at a time.
LEMMA RoundsExist ==
  ASSUME NEW sizes, NEW excluded
  PROVE  \A n \in Nat : \E f : Rounds(f, sizes, excluded, n)
<1> DEFINE T == {n \in Nat : ~ \E f : Rounds(f, sizes, excluded, n)}
           start == [free |-> FreeAround(excluded), slots |-> <<>>]
<1> SUFFICES ASSUME T # {} PROVE FALSE
  OBVIOUS
<1>1. PICK m \in T : \A n \in T : m <= n
  BY LeastNumber
<1>2. m \in Nat /\ ~ \E f : Rounds(f, sizes, excluded, m)
  OBVIOUS
<1> HIDE DEF start
<1>3. CASE m = 0
  <2> DEFINE f == [i \in 0 .. 0 |-> start]
  <2>1. f = [i \in 0 .. 0 |-> IF i = 0 THEN start ELSE Place(f[i - 1], sizes[i])]
    OBVIOUS
  <2> HIDE DEF f
  <2>2. Rounds(f, sizes, excluded, 0)
    BY <2>1 DEF Rounds, start
  <2> QED
    BY <1>2, <1>3, <2>2
<1>4. CASE m # 0
  <2>1. m - 1 \in Nat /\ m - 1 \notin T
    BY <1>1, <1>2, <1>4
  <2>2. PICK f : Rounds(f, sizes, excluded, m - 1)
    BY <2>1
  <2>3. /\ DOMAIN f = 0 .. m - 1
        /\ \A i \in 0 .. m - 1 : f[i] = IF i = 0 THEN start ELSE Place(f[i - 1], sizes[i])
    BY <2>2 DEF Rounds, start
  <2> DEFINE g == [i \in 0 .. m |-> IF i < m THEN f[i] ELSE Place(f[i - 1], sizes[i])]
  <2>4. ASSUME NEW i \in 0 .. m
        PROVE  g[i] = IF i = 0 THEN start ELSE Place(g[i - 1], sizes[i])
    <3>1. CASE i < m
      <4>1. g[i] = f[i] /\ i \in 0 .. m - 1
        BY <1>2, <1>4, <3>1
      <4>2. i # 0 => g[i - 1] = f[i - 1]
        BY <1>2, <3>1
      <4> QED
        BY <2>3, <4>1, <4>2
    <3>2. CASE i = m
      <4>1. g[i] = Place(f[i - 1], sizes[i]) /\ g[i - 1] = f[i - 1]
        BY <1>2, <1>4, <3>2
      <4> QED
        BY <1>4, <3>2, <4>1
    <3> QED
      BY <1>2, <3>1, <3>2
  <2>5. g = [i \in 0 .. m |-> g[i]]
    OBVIOUS
  <2> HIDE DEF g
  <2>6. Rounds(g, sizes, excluded, m)
    BY <2>4, <2>5 DEF Rounds, start
  <2> QED
    BY <1>2, <2>6
<1> QED
  BY <1>3, <1>4

\* The layout is the one first fit means, for items of any sizes, around one rectangle or none: splitting and pruning lose no space.
LEMMA BinPackIsFirstFit ==
  ASSUME NEW excluded \in SUBSET Rectangle,
         \A r, s \in excluded : r = s,
         NEW b \in Nat, \A r \in excluded : Proper(r) /\ r.bottom \in 0 .. b,
         NEW sizes \in Seq(AnySize), NEW h \in Nat,
         \A i \in 1 .. Len(sizes) : sizes[i].height <= h,
         b + Len(sizes) * h <= Infinity
  PROVE  IsFirstFit(BinPack(sizes, excluded), sizes, excluded)
<1> DEFINE start == [free |-> FreeAround(excluded), slots |-> <<>>]
           f == CHOOSE g : Rounds(g, sizes, excluded, Len(sizes))
           Wrong == {n \in 0 .. Len(sizes) : ~Packed(f[n], sizes, excluded, n, b + n * h)}
<1>1. Len(sizes) \in Nat /\ \A i \in 1 .. Len(sizes) : sizes[i] \in AnySize
  OBVIOUS
<1>2. BinPack(sizes, excluded) = f[Len(sizes)].slots
  BY Zenon DEF BinPack, Rounds
<1>3. Rounds(f, sizes, excluded, Len(sizes))
  BY <1>1, RoundsExist
<1> HIDE DEF f, start
<1>4. /\ f[0] = start
      /\ \A i \in 1 .. Len(sizes) : f[i] = Place(f[i - 1], sizes[i])
  <2> DEFINE F == [i \in 0 .. Len(sizes) |->
                     IF i = 0 THEN start ELSE Place(f[i - 1], sizes[i])]
  <2>1. f = F
    BY <1>3 DEF Rounds, start
  <2>2. F[0] = start /\ \A i \in 1 .. Len(sizes) : F[i] = Place(f[i - 1], sizes[i])
    BY <1>1
  <2> HIDE DEF F
  <2> QED
    BY <2>1, <2>2
<1>5. Free(FreeAround(excluded), excluded)
  <2>1. CASE excluded = {}
    BY <2>1, WholeGridIsFree DEF FreeAround
  <2>2. CASE excluded # {}
    <3> DEFINE r == CHOOSE r \in excluded : TRUE
    <3>1. r \in excluded
      BY <2>2
    <3>2. FreeAround(excluded) = SubtractRect(WholeGrid, r)
      BY <2>2 DEF FreeAround
    <3> HIDE DEF r
    <3>3. excluded = {} \cup {r} /\ r \in Rectangle /\ Proper(r)
      BY <3>1
    <3>4. {} \in SUBSET Rectangle
      OBVIOUS
    <3>5. Free(SubtractRect(WholeGrid, r), {} \cup {r})
      BY <3>3, <3>4, WholeGridIsFree, SubtractRectHolds
    <3> QED
      BY <3>2, <3>3, <3>5
  <2> QED
    BY <2>1, <2>2
<1>6. Packed(f[0], sizes, excluded, 0, b)
  <2>1. <<>> \in Seq(Rectangle) /\ Len(<<>>) = 0 /\ DOMAIN <<>> = {}
        /\ PutBefore(<<>>, sizes, 0 + 1) = {}
    BY DEF PutBefore
  <2>2. FreeAround(excluded) \in Seq(Rectangle)
    BY <1>5 DEF Free, Maximal
  <2>3. IsFirstFit(<<>>, sizes, excluded)
    BY <2>1 DEF IsFirstFit
  <2>4. /\ start \in [free : Seq(Rectangle), slots : Seq(Rectangle)]
        /\ start.slots = <<>> /\ start.free = FreeAround(excluded)
    BY <2>1, <2>2 DEF start
  <2> QED
    BY <1>4, <1>5, <2>1, <2>3, <2>4 DEF Packed
<1>7. ASSUME NEW n \in 1 .. Len(sizes),
             Packed(f[n - 1], sizes, excluded, n - 1, b + (n - 1) * h)
      PROVE  Packed(f[n], sizes, excluded, n, b + n * h)
  <2> DEFINE c == b + (n - 1) * h
  <2>1. /\ n - 1 \in Nat /\ (n - 1) + 1 = n /\ n \in Nat
        /\ sizes[n] \in AnySize /\ sizes[n].height \in Nat /\ sizes[n].height <= h
    BY <1>1, SMTT(60) DEF AnySize
  <2>2. /\ (n - 1) * h \in Nat /\ n * h = (n - 1) * h + h /\ n * h <= Len(sizes) * h
        /\ Len(sizes) * h \in Nat
    <3> DEFINE m == n - 1
    <3>1. m \in Nat /\ m + 1 <= Len(sizes) /\ m + 1 = n
      BY <1>1, <2>1
    <3> HIDE DEF m
    <3>2. /\ m * h \in Nat /\ Len(sizes) * h \in Nat
          /\ (m + 1) * h = m * h + h
          /\ (m + 1) * h <= Len(sizes) * h
      BY <1>1, <3>1, TimesGrows
    <3> QED
      BY <3>1, <3>2 DEF m
  <2>3. c \in Nat /\ c + sizes[n].height <= b + n * h /\ c + sizes[n].height <= Infinity
        /\ c + sizes[n].height \in Nat /\ b + n * h \in Nat
    BY <2>1, <2>2, PackingAssumption, SMTT(60)
  <2> HIDE DEF c
  <2>4. Packed(f[n - 1], sizes, excluded, n - 1, c)
    BY <1>7 DEF c
  <2>5. Packed(Place(f[n - 1], sizes[n]), sizes, excluded, (n - 1) + 1, c + sizes[n].height)
    BY <2>1, <2>3, <2>4, PlaceHolds
  <2>6. Packed(f[n], sizes, excluded, n, c + sizes[n].height)
    BY <1>4, <2>1, <2>5
  <2>7. \A x \in 0 .. c + sizes[n].height : x \in 0 .. b + n * h
    BY <2>3, SMTT(60)
  <2> QED
    BY <2>6, <2>7 DEF Packed
<1>8. Wrong = {}
  <2> SUFFICES ASSUME Wrong # {} PROVE FALSE
    OBVIOUS
  <2>1. \A n : n \in Wrong <=> n \in 0 .. Len(sizes)
                                 /\ ~Packed(f[n], sizes, excluded, n, b + n * h)
    OBVIOUS
  <2> HIDE DEF Wrong
  <2>2. Wrong \subseteq Nat
    BY <2>1
  <2>3. PICK m \in Wrong : \A n \in Wrong : m <= n
    BY <2>2, LeastNumber
  <2>4. m # 0
    <3>1. b + 0 * h = b
      OBVIOUS
    <3> QED
      BY <1>6, <2>1, <2>3, <3>1
  <2>5. m \in 1 .. Len(sizes) /\ m - 1 \in 0 .. Len(sizes) /\ m - 1 \notin Wrong
    BY <1>1, <2>1, <2>2, <2>3, <2>4, SMTT(60)
  <2>6. Packed(f[m - 1], sizes, excluded, m - 1, b + (m - 1) * h)
    BY <2>1, <2>5
  <2> QED
    BY <1>7, <2>1, <2>3, <2>5, <2>6
<1>9. Packed(f[Len(sizes)], sizes, excluded, Len(sizes), b + Len(sizes) * h)
  <2>1. Len(sizes) \in 0 .. Len(sizes)
    BY <1>1
  <2> QED
    BY <1>8, <2>1
<1> QED
  BY <1>2, <1>9 DEF Packed

\* Quotients of numbers: the remainder is smaller than the divisor.
LEMMA QuotientBounds ==
  ASSUME NEW a \in Nat, NEW d \in Nat \ {0}
  PROVE  /\ a \div d \in Nat
         /\ (a \div d) * d <= a
         /\ a < (a \div d + 1) * d
<1> DEFINE q == a \div d
           m == a % d
<1>1. q \in Int /\ m \in 0 .. d - 1 /\ a = q * d + m
  OBVIOUS
<1> HIDE DEF q, m
<1>2. q >= 0
  <2> SUFFICES ASSUME q < 0 PROVE FALSE
    BY <1>1
  <2>1. (-1 - q) * d \in Nat
    BY <1>1
  <2>2. (-1 - q) * d = -d - q * d
    BY <1>1
  <2> QED
    BY <1>1, <2>1, <2>2
<1>3. (q + 1) * d = q * d + d
  BY <1>1
<1> QED
  BY <1>1, <1>2, <1>3 DEF q

\* As many columns as there is room for are each as wide as they should be.
LEMMA QuotientOfQuotient ==
  ASSUME NEW a \in Nat, NEW d \in Nat \ {0}, a \div d # 0
  PROVE  a \div (a \div d) >= d
<1> DEFINE q == a \div d
           k == a \div q
<1>1. q \in Nat \ {0} /\ q * d <= a
  BY QuotientBounds
<1> HIDE DEF q
<1>2. k \in Nat /\ a < (k + 1) * q
  BY <1>1, QuotientBounds
<1> HIDE DEF k
<1>3. k >= d
  <2> SUFFICES ASSUME k < d PROVE FALSE
    BY <1>2
  <2>1. (d - (k + 1)) * q \in Nat
    BY <1>1, <1>2
  <2>2. (d - (k + 1)) * q = d * q - (k + 1) * q /\ d * q = q * d
    BY <1>1, <1>2
  <2> QED
    BY <1>1, <1>2, <2>1, <2>2
<1> QED
  BY <1>3 DEF k, q

\* The less of two numbers and the greater.
LEMMA OfTwo ==
  ASSUME NEW a \in Int, NEW b \in Int
  PROVE  /\ Max({a, b}) = IF a >= b THEN a ELSE b
         /\ Min({a, b}) = IF a <= b THEN a ELSE b
  BY DEF Max, Min

\* The least of four numbers is a number, no larger than the second.
LEMMA MinOfFour ==
  ASSUME NEW a \in Nat, NEW b \in Nat, NEW c \in Nat, NEW d \in Nat
  PROVE  Min({a, b, c, d}) \in Nat /\ Min({a, b, c, d}) <= b
<1>1. {a, b, c, d} \subseteq Nat /\ {a, b, c, d} # {}
  OBVIOUS
<1>2. \E m \in {a, b, c, d} : \A n \in {a, b, c, d} : m <= n
  BY <1>1, LeastNumber
<1> QED
  BY <1>1, <1>2 DEF Min

\* A column has a width.
LEMMA ColumnIsWide == ColumnWidth \in Nat \ {0}
<1> DEFINE room == gridWidth - gap
           q == room \div (baseSize + gap)
           columns == Max({1, q})
<1>1. room \in Nat /\ baseSize + gap \in Nat \ {0} /\ baseSize \in Nat \ {0} /\ gap \in Nat
      /\ room > gap
  BY PackingAssumption, WallpaperGridAssumption
<1>2. ColumnWidth = room \div columns - gap
  BY DEF ColumnWidth
<1> HIDE DEF room
<1>3. q \in Nat
  BY <1>1, QuotientBounds
<1>4. q # 0 => room \div q >= baseSize + gap
  BY <1>1, QuotientOfQuotient
<1> HIDE DEF q
<1>5. columns = IF q = 0 THEN 1 ELSE q
  BY <1>3, OfTwo
<1>6. room \div 1 = room
  BY <1>1
<1>7. q # 0 => room \div q \in Nat
  BY <1>1, <1>3, QuotientBounds
<1> HIDE DEF columns
<1>8. CASE q = 0
  BY <1>1, <1>2, <1>5, <1>6, <1>8
<1>9. CASE q # 0
  <2>1. room \div columns \in Nat /\ room \div columns >= baseSize + gap
    BY <1>4, <1>5, <1>7, <1>9
  <2> QED
    BY <1>1, <1>2, <2>1
<1> QED
  BY <1>8, <1>9

\* Every item has an inside, expanded or not; an expanded one fits in the grid.
LEMMA SizesArePositive ==
  ASSUME NEW e \in Element
  PROVE  /\ CurrentSize(e).width \in Nat \ {0}
         /\ CurrentSize(e).height \in Nat \ {0}
         /\ e = expanded => CurrentSize(e).width <= gridWidth
<1> DEFINE image == imageOf[e]
           span == SpanWidth(Columns(image))
           wide == ExpandedWidth(image)
<1>1. /\ image.width \in Nat \ {0} /\ image.height \in Nat \ {0}
      /\ gap \in Nat \ {0} /\ gridWidth \in Nat /\ gridWidth > 2 * gap
      /\ viewportHeight \in Nat
  BY PackingAssumption, WallpaperGridAssumption
<1> HIDE DEF image
<1>2. Columns(image) \in {1, 2}
  BY DEF Columns
<1>3. ASSUME NEW c \in {1, 2}
      PROVE  SpanWidth(c) \in Nat
  <2>1. SpanWidth(c) = c * ColumnWidth + (c - 1) * gap
    BY DEF SpanWidth
  <2>2. CASE c = 1
    BY <1>1, <2>1, <2>2, ColumnIsWide
  <2>3. CASE c = 2
    BY <1>1, <2>1, <2>3, ColumnIsWide
  <2> QED
    BY <2>2, <2>3
<1>4. span \in Nat
  BY <1>2, <1>3
<1>5. wide \in Nat /\ wide <= (95 * gridWidth) \div 100 - gap
  <2> DEFINE maxHeight == Min({(85 * viewportHeight) \div 100, image.height})
  <2>1. 2 * SpanWidth(ExpandedColumns(image)) \in Nat
    <3>1. ExpandedColumns(image) \in {1, 2}
      <4> DEFINE c == 2 * Columns(image)
      <4>1. c \in Int /\ 2 <= c /\ ExpandedColumns(image) = Min({c, 2})
        BY <1>2 DEF ExpandedColumns
      <4> HIDE DEF c
      <4>2. Min({c, 2}) = IF c <= 2 THEN c ELSE 2
        BY <4>1, OfTwo
      <4> QED
        BY <4>1, <4>2
    <3> QED
      BY <1>3, <3>1
  <2>2. (95 * gridWidth) \div 100 - gap \in Nat
    BY <1>1
  <2>3. maxHeight \in Nat
    <3> DEFINE most == (85 * viewportHeight) \div 100
    <3>1. most \in Nat /\ most \in Int /\ image.height \in Int
      BY <1>1
    <3> HIDE DEF most
    <3>2. Min({most, image.height}) = IF most <= image.height THEN most ELSE image.height
      BY <3>1, OfTwo
    <3> QED
      BY <1>1, <3>1, <3>2 DEF most
  <2> HIDE DEF maxHeight
  <2>4. (maxHeight * image.width) \div image.height \in Nat
    <3>1. maxHeight * image.width \in Nat
      BY <1>1, <2>3
    <3> QED
      BY <1>1, <3>1, QuotientBounds
  <2> QED
    BY <1>1, <2>1, <2>2, <2>4, MinOfFour, ZenonT(60) DEF ExpandedWidth, maxHeight
<1> HIDE DEF span, wide
<1>6. ASSUME NEW w \in Nat
      PROVE  /\ Item(image, w).width \in Nat \ {0}
             /\ Item(image, w).height \in Nat \ {0}
             /\ Item(image, w).width = w + gap
  <2>1. w * image.height \in Nat
    BY <1>1
  <2>2. HeightFor(image, w) \in Nat
    BY <1>1, <2>1, QuotientBounds DEF HeightFor
  <2> QED
    BY <1>1, <2>2 DEF Item
<1>7. CurrentSize(e) = Item(image, IF e = expanded THEN wide ELSE span)
  BY DEF CurrentSize, wide, span, image
<1>8. (95 * gridWidth) \div 100 <= gridWidth
  BY <1>1
<1>9. wide + gap <= gridWidth
  <2> DEFINE most == (95 * gridWidth) \div 100
  <2>1. most \in Int /\ most <= gridWidth /\ wide <= most - gap
    BY <1>1, <1>5, <1>8
  <2> HIDE DEF most
  <2> QED
    BY <1>1, <1>5, <2>1
<1> QED
  BY <1>4, <1>5, <1>6, <1>7, <1>9

\* The expanded item lies in the grid, no deeper than under its centre.
LEMMA CentredPlace ==
  ASSUME NEW x \in Int, NEW y \in Int, NEW size \in ItemSize
  PROVE  LET r == Centred(x, y, size) IN
         r \in Rectangle /\ Proper(r) /\ r.bottom \in 0 .. Max({0, y}) + size.height
<1> DEFINE x1 == Max({0, x - size.width \div 2})
           x2 == IF x1 + size.width > gridWidth THEN gridWidth - size.width ELSE x1
           y1 == Max({0, y - size.height \div 2})
<1>1. size.width \in Nat /\ size.height \in Nat \ {0} /\ gridWidth \in Nat
  BY PackingAssumption DEF ItemSize
<1>2. x1 \in Int
  <2> DEFINE a == x - size.width \div 2
  <2>1. a \in Int
    BY <1>1
  <2> HIDE DEF a
  <2>2. Max({0, a}) = IF 0 >= a THEN 0 ELSE a
    BY <2>1, OfTwo
  <2>3. Max({0, a}) \in Int
    BY <2>1, <2>2
  <2> QED
    BY <2>3 DEF a
<1>3. y1 \in Nat /\ y1 <= Max({0, y})
  <2> DEFINE a == y - size.height \div 2
  <2>1. a \in Int /\ a <= y
    BY <1>1
  <2> HIDE DEF a
  <2>2. Max({0, a}) = IF 0 >= a THEN 0 ELSE a
    BY <2>1, OfTwo
  <2>3. Max({0, y}) = IF 0 >= y THEN 0 ELSE y
    BY OfTwo
  <2>4. Max({0, a}) \in Nat /\ Max({0, a}) <= Max({0, y})
    BY <2>1, <2>2, <2>3
  <2> QED
    BY <2>4 DEF a
<1> HIDE DEF x1, y1
<1>4. x2 \in Int
  BY <1>1, <1>2
<1>5. Centred(x, y, size) = Rect(x2, y1, size)
  BY DEF Centred, x1, y1
<1> HIDE DEF x2
<1>6. Max({0, y}) \in Nat
  BY OfTwo
<1> QED
  BY <1>1, <1>3, <1>4, <1>5, <1>6, RectType

\* The layout of any items of the grid is the one first fit means.
LEMMA LayoutIsFirstFit ==
  ASSUME GridTypeOK, NEW items \in Seq(Element), IsInjective(items)
  PROVE  IsFirstFit(Layout(items), Sizes(Others(items)), ExpandedPlaces(items))
<1> DEFINE others == Others(items)
           sizes == Sizes(others)
           excluded == ExpandedPlaces(items)
           top == Max({0, centre.y})
           heights == {0} \cup {CurrentSize(e).height : e \in Element}
           h == Max(heights)
<1>1. /\ centre \in Centres /\ centre.x \in Nat /\ centre.y \in Int
      /\ MaxElements \in Nat /\ gridWidth \in Nat /\ Infinity \in Nat
      /\ Element = 1 .. MaxElements
  BY PackingAssumption, WallpaperGridAssumption, MuuriGridAssumption
     DEF GridTypeOK, Element
<1>2. top \in Nat /\ centre.y <= top
  BY <1>1, OfTwo, SMTT(60)
<1> HIDE DEF top
<1>3. ASSUME NEW e \in Element
      PROVE  /\ CurrentSize(e).width \in Nat \ {0} /\ CurrentSize(e).height \in Nat \ {0}
             /\ top + (MaxElements + 1) * CurrentSize(e).height <= Infinity
  <2> DEFINE width == IF e = expanded THEN ExpandedWidth(imageOf[e])
                      ELSE SpanWidth(Columns(imageOf[e]))
  <2>1. width \in {SpanWidth(Columns(imageOf[e])), ExpandedWidth(imageOf[e])}
    OBVIOUS
  <2>2. CurrentSize(e) = Item(imageOf[e], width)
    BY DEF CurrentSize
  <2> HIDE DEF width
  <2>3. top + (MaxElements + 1) * Item(imageOf[e], width).height <= Infinity
    BY <1>1, <2>1, InfinityAssumption DEF top
  <2> QED
    BY <2>2, <2>3, SizesArePositive
<1>4. ASSUME NEW n \in Nat
      PROVE  (MaxElements + 1) * n = MaxElements * n + n /\ MaxElements * n \in Nat
  BY <1>1
<1>5. /\ h \in Nat
      /\ \A e \in Element : CurrentSize(e).height <= h
      /\ top + MaxElements * h + h <= Infinity \/ h = 0
  <2>1. heights \in SUBSET Int /\ heights # {}
    BY <1>3
  <2>2. \A n \in heights : n <= Infinity
    BY <1>1, <1>2, <1>3, <1>4
  <2>3. h \in heights /\ \A n \in heights : n <= h
    <3> HIDE DEF heights
    <3>1. /\ Infinity \in Int /\ heights \in SUBSET Int /\ heights # {}
          /\ \A n \in heights : n <= Infinity
      BY <1>1, <2>1, <2>2
    <3> QED
      BY <3>1, MaxHolds
  <2>4. \A e \in Element : CurrentSize(e).height \in heights
    OBVIOUS
  <2>5. h = 0 \/ \E e \in Element : h = CurrentSize(e).height
    <3>1. \A n \in heights : n = 0 \/ \E e \in Element : n = CurrentSize(e).height
      OBVIOUS
    <3> HIDE DEF heights
    <3> QED
      BY <2>3, <3>1
  <2> HIDE DEF heights, h
  <2>6. CASE h = 0
    BY <2>3, <2>4, <2>6
  <2>7. ASSUME NEW e \in Element, h = CurrentSize(e).height
        PROVE  h \in Nat /\ top + MaxElements * h + h <= Infinity
    BY <1>1, <1>2, <1>3, <1>4, <2>7
  <2> QED
    BY <2>3, <2>4, <2>5, <2>6, <2>7
<1> HIDE DEF h, heights
<1>6. ASSUME NEW e \in Range(items)
      PROVE  e \in Element
  BY DEF Range
<1>7. others \in Seq(Element) /\ IsInjective(others) /\ Range(others) \subseteq Range(items)
  BY WithoutProperties DEF Others
<1> HIDE DEF others
<1>8. /\ Len(others) \in 0 .. MaxElements /\ Len(sizes) = Len(others)
      /\ \A i \in 1 .. Len(others) : sizes[i] = CurrentSize(others[i])
  <2>1. Cardinality(Range(others)) = Len(others)
    BY <1>7, DistinctCardinality
  <2>2. IsFiniteSet(1 .. MaxElements) /\ Cardinality(1 .. MaxElements) = MaxElements
    BY <1>1, FS_Interval
  <2>3. Range(others) \subseteq 1 .. MaxElements
    BY <1>1, <1>6, <1>7
  <2>4. Cardinality(Range(others)) <= MaxElements
    BY <2>2, <2>3, FS_Subset
  <2> QED
    BY <1>1, <1>7, <2>1, <2>4 DEF Sizes
<1>9. ASSUME NEW e \in Range(items)
      PROVE  CurrentSize(e) \in AnySize /\ (e = expanded => CurrentSize(e) \in ItemSize)
  <2>1. CurrentSize(e) =
          [width |-> CurrentSize(e).width, height |-> CurrentSize(e).height]
    BY DEF CurrentSize, Item
  <2>2. CurrentSize(e).width \in Nat \ {0} /\ CurrentSize(e).height \in Nat \ {0}
    BY <1>3, <1>6
  <2>3. e = expanded => CurrentSize(e).width \in 1 .. gridWidth
    BY <1>1, <1>6, <2>2, SizesArePositive
  <2> QED
    BY <2>1, <2>2, <2>3 DEF ItemSize, AnySize
<1>10. sizes \in Seq(AnySize) /\ \A i \in 1 .. Len(sizes) : sizes[i].height <= h
  <2>1. \A i \in 1 .. Len(others) : /\ others[i] \in Range(items)
                                    /\ others[i] \in Element
    <3>1. \A i \in 1 .. Len(others) : others[i] \in Range(others)
      BY <1>7 DEF Range
    <3> QED
      BY <1>6, <1>7, <3>1
  <2>2. \A i \in 1 .. Len(others) : CurrentSize(others[i]) \in AnySize
    BY <1>9, <2>1
  <2>3. sizes = [i \in 1 .. Len(others) |-> CurrentSize(others[i])]
    BY <1>7 DEF Sizes
  <2>4. sizes \in Seq(AnySize)
    BY <1>8, <2>2, <2>3
  <2> QED
    BY <1>5, <1>8, <2>1, <2>4
<1> DEFINE b == IF excluded = {} THEN 0 ELSE top + h
<1>11. ASSUME NEW r \in excluded
       PROVE  /\ r = Centred(centre.x, centre.y, CurrentSize(expanded))
              /\ r \in Rectangle /\ Proper(r) /\ r.bottom \in 0 .. top + h
              /\ h # 0
  <2>1. expanded \in Range(items) /\ r = Centred(centre.x, centre.y, CurrentSize(expanded))
    BY <1>11 DEF ExpandedPlaces
  <2>2. /\ CurrentSize(expanded) \in ItemSize /\ expanded \in Element
        /\ CurrentSize(expanded).height \in Nat \ {0}
        /\ CurrentSize(expanded).height <= h
    BY <1>3, <1>5, <1>6, <1>9, <2>1
  <2>3. /\ r \in Rectangle /\ Proper(r)
        /\ r.bottom \in 0 .. top + CurrentSize(expanded).height
    <3> DEFINE size == CurrentSize(expanded)
    <3>1. size \in ItemSize /\ centre.x \in Int /\ centre.y \in Int
      BY <1>1, <2>2
    <3> HIDE DEF size
    <3>2. LET p == Centred(centre.x, centre.y, size) IN
          p \in Rectangle /\ Proper(p) /\ p.bottom \in 0 .. Max({0, centre.y}) + size.height
      BY <3>1, CentredPlace
    <3> QED
      BY <2>1, <3>2 DEF top, size
  <2> QED
    BY <1>2, <1>5, <2>1, <2>2, <2>3
<1> HIDE DEF sizes, excluded
<1>12. b \in Nat /\ b + Len(sizes) * h <= Infinity
  <2>1. Len(sizes) \in Nat /\ MaxElements - Len(sizes) \in Nat
    BY <1>1, <1>8
  <2>2. (MaxElements - Len(sizes)) * h \in Nat
    BY <1>5, <2>1
  <2>3. (MaxElements - Len(sizes)) * h = MaxElements * h - Len(sizes) * h
    BY <1>1, <1>5, <2>1
  <2>4. Len(sizes) * h \in Nat /\ MaxElements * h \in Nat
    BY <1>1, <1>5, <2>1
  <2>5. Len(sizes) * h <= MaxElements * h
    BY <2>2, <2>3, <2>4
  <2>6. h = 0 => Len(sizes) * h = 0
    BY <2>1
  <2>7. excluded # {} => h # 0
    BY <1>11
  <2> QED
    BY <1>1, <1>2, <1>5, <2>4, <2>5, <2>6, <2>7
<1>13. /\ excluded \in SUBSET Rectangle
       /\ \A r, s \in excluded : r = s
       /\ \A r \in excluded : Proper(r) /\ r.bottom \in 0 .. b
  BY <1>11
<1> HIDE DEF b
<1>14. IsFirstFit(BinPack(sizes, excluded), sizes, excluded)
  BY <1>5, <1>10, <1>12, <1>13, BinPackIsFirstFit
<1> QED
  BY <1>14 DEF Layout, others, sizes, excluded

\* However many items there are and whatever their sizes, the layout Muuri is given is
\* the one first fit means (binPackLayout in grid/strategies/MuuriGrid.tsx): no two
\* items overlap, and none is placed below or right of a gap it fits in, those that
\* are wider than the grid apart.
THEOREM LaidOut == GridSpec => []LaidOutByFirstFit
<1>1. GridInv /\ GridTypeOK => LaidOutByFirstFit
  <2> SUFFICES ASSUME GridInv, GridTypeOK, NEW a \in live
               PROVE  IsFirstFit(Layout(placed[a]), Sizes(Others(placed[a])),
                                 ExpandedPlaces(placed[a]))
    BY DEF LaidOutByFirstFit
  <2>1. placed[a] \in Seq(Element) /\ IsInjective(placed[a])
    BY DEF GridInv, MuuriTypeOK, Items
  <2> QED
    BY <2>1, LayoutIsFirstFit
<1> QED
  BY <1>1, GridInvHolds, GridTypes, PTL

-----------------------------------------------------------------------------
(* The pages of a listing.                                                  *)

\* The order of a listing, on wallpapers; and the one its pages are fetched in
\* backward.
Precedes(q) ==
  {p \in Id \X Id :
     IF q.color
       THEN \/ scoreOf[p[1]] > scoreOf[p[2]]
            \/ scoreOf[p[1]] = scoreOf[p[2]] /\ p[1] < p[2]
       ELSE p[1] < p[2]}

Follows(q) == {p \in Id \X Id : <<p[2], p[1]>> \in Precedes(q)}

Forward(q)  == IF q.color THEN "desc" ELSE "asc"
Backward(q) == IF q.color THEN "asc" ELSE "desc"

\* Both orders are total on the wallpapers, ties of the score and all.
LEMMA ListingOrders ==
  ASSUME NEW q \in Query, NEW S \in SUBSET Id
  PROVE  Orders(Precedes(q), S) /\ Orders(Follows(q), S)
<1>1. S \subseteq Nat /\ \A d \in S : d \in Id /\ scoreOf[d] \in Nat
  BY SearchAssumption
<1>2. \A a, b \in S : /\ <<a, b>> \in Follows(q) <=> <<b, a>> \in Precedes(q)
                      /\ <<a, b>> \in Precedes(q) <=>
                           IF q.color
                             THEN \/ scoreOf[a] > scoreOf[b]
                                  \/ scoreOf[a] = scoreOf[b] /\ a < b
                             ELSE a < b
  BY <1>1 DEF Precedes, Follows
<1> DEFINE Later(a, b) ==
             IF q.color
               THEN \/ scoreOf[a] > scoreOf[b]
                    \/ scoreOf[a] = scoreOf[b] /\ a < b
               ELSE a < b
<1>3. \A a \in S : ~Later(a, a)
  BY <1>1
<1>4. \A a, b, c \in S : Later(a, b) /\ Later(b, c) => Later(a, c)
  BY <1>1
<1>5. \A a, b \in S : a # b => Later(a, b) \/ Later(b, a)
  BY <1>1
<1> HIDE DEF Later
<1>6. \A a, b \in S : /\ <<a, b>> \in Follows(q) <=> Later(b, a)
                      /\ <<a, b>> \in Precedes(q) <=> Later(a, b)
  BY <1>2 DEF Later
<1> QED
  BY <1>3, <1>4, <1>5, <1>6 DEF Orders

\* A search in the direction of the listing, and one against it, compares cursors
\* as the two orders do wallpapers.
LEMMA CursorsInOrder ==
  ASSUME NEW q \in Query, NEW a \in Id, NEW b \in Id
  PROVE  /\ InOrder(q, Forward(q), CursorOf(a), CursorOf(b)) <=> <<a, b>> \in Precedes(q)
         /\ InOrder(q, Backward(q), CursorOf(a), CursorOf(b)) <=> <<a, b>> \in Follows(q)
<1>1. scoreOf[a] \in Nat /\ scoreOf[b] \in Nat /\ a \in Nat /\ b \in Nat
  BY SearchAssumption
<1>2. /\ CursorOf(a).score = scoreOf[a] /\ CursorOf(a).id = a
      /\ CursorOf(b).score = scoreOf[b] /\ CursorOf(b).id = b
      /\ CursorOf(a) = CursorOf(b) <=> a = b
  BY DEF CursorOf
<1>3. /\ <<a, b>> \in Follows(q) <=> <<b, a>> \in Precedes(q)
      /\ <<a, b>> \in Precedes(q) <=>
           IF q.color
             THEN \/ scoreOf[a] > scoreOf[b]
                  \/ scoreOf[a] = scoreOf[b] /\ a < b
             ELSE a < b
      /\ <<b, a>> \in Precedes(q) <=>
           IF q.color
             THEN \/ scoreOf[b] > scoreOf[a]
                  \/ scoreOf[b] = scoreOf[a] /\ b < a
             ELSE b < a
  BY DEF Precedes, Follows
<1>4. CASE q.color
  BY <1>1, <1>2, <1>3, <1>4 DEF InOrder, Forward, Backward
<1>5. CASE ~q.color
  BY <1>1, <1>2, <1>3, <1>5 DEF InOrder, Forward, Backward
<1> QED
  BY <1>4, <1>5

\* No wallpaper has the cursor that stands for none.
LEMMA CursorIsOne ==
  ASSUME NEW d \in Id
  PROVE  CursorOf(d) # NoCursor
  BY SearchAssumption DEF CursorOf, NoCursor

\* Of a finite set of wallpapers, every subset is finite.
LEMMA FiniteIds ==
  ASSUME NEW S \in SUBSET Id
  PROVE  IsFiniteSet(S) /\ Cardinality(S) \in Nat
<1>1. IsFiniteSet(S)
  BY SearchAssumption, FS_Subset
<1> QED
  BY <1>1, FS_CardinalityType

\* The elements of S that have, each at its index, the rank of it.
LEMMA RankedLists ==
  ASSUME NEW q \in Query, NEW S \in SUBSET Id, NEW Z, Orders(Z, S), NEW s,
         s = [i \in 1 .. Cardinality(S) |-> CHOOSE d \in S : Rank(Z, S, d) = i - 1]
  PROVE  Lists(s, S, Z)
<1>1. IsFiniteSet(S) /\ Cardinality(S) \in Nat
  BY FiniteIds
<1>2. ASSUME NEW i \in 1 .. Cardinality(S)
      PROVE  /\ (CHOOSE d \in S : Rank(Z, S, d) = i - 1) \in S
             /\ Rank(Z, S, CHOOSE d \in S : Rank(Z, S, d) = i - 1) = i - 1
  <2>1. i - 1 \in 0 .. Cardinality(S) - 1
    BY <1>1
  <2>2. \E d \in S : Rank(Z, S, d) = i - 1
    BY <1>1, <2>1, RanksAreAll
  <2> QED
    BY <2>2
<1>3. /\ s \in [1 .. Cardinality(S) -> S]
      /\ \A i \in 1 .. Cardinality(S) : Rank(Z, S, s[i]) = i - 1
  BY <1>2
<1> QED
  BY <1>1, <1>3, ByRank

\* The hits of a search, before they are cut, are the wallpapers found beyond the
\* cursor in the order of the search.
Rest(q, order, c) ==
  {d \in Found(q) : c = NoCursor \/ InOrder(q, order, c, CursorOf(d))}

AllHits(q, order, c) ==
  Sorted(Rest(q, order, c), LAMBDA d, e : InOrder(q, order, CursorOf(d), CursorOf(e)))

LEMMA SortedHits ==
  ASSUME NEW q \in Query, Found(q) \subseteq Id, NEW c
  PROVE  /\ Lists(AllHits(q, Forward(q), c), Rest(q, Forward(q), c), Precedes(q))
         /\ Lists(AllHits(q, Backward(q), c), Rest(q, Backward(q), c), Follows(q))
<1>1. ASSUME NEW order \in {"asc", "desc"}, NEW Z, NEW S \in SUBSET Id, Orders(Z, S),
             S = Rest(q, order, c),
             \A a, b \in Id : InOrder(q, order, CursorOf(a), CursorOf(b)) <=> <<a, b>> \in Z
      PROVE  Lists(AllHits(q, order, c), S, Z)
  <2>1. ASSUME NEW d \in S
        PROVE  Cardinality({e \in S : InOrder(q, order, CursorOf(e), CursorOf(d))}) =
                 Rank(Z, S, d)
    <3>1. {e \in S : InOrder(q, order, CursorOf(e), CursorOf(d))} =
            {e \in S : <<e, d>> \in Z}
      BY <1>1
    <3> QED
      BY <3>1 DEF Rank
  <2>2. AllHits(q, order, c) =
          [i \in 1 .. Cardinality(S) |->
             CHOOSE d \in S :
               Cardinality({e \in S : InOrder(q, order, CursorOf(e), CursorOf(d))}) = i - 1]
    BY <1>1 DEF AllHits, Sorted
  <2>3. \A i : (CHOOSE d \in S :
                  Cardinality({e \in S : InOrder(q, order, CursorOf(e), CursorOf(d))}) = i - 1)
               = CHOOSE d \in S : Rank(Z, S, d) = i - 1
    BY <2>1
  <2>4. AllHits(q, order, c) =
          [i \in 1 .. Cardinality(S) |-> CHOOSE d \in S : Rank(Z, S, d) = i - 1]
    BY <2>2, <2>3
  <2> QED
    BY <1>1, <2>4, RankedLists
<1>2. Rest(q, Forward(q), c) \in SUBSET Id /\ Rest(q, Backward(q), c) \in SUBSET Id
  BY DEF Rest
<1>3. Forward(q) \in {"asc", "desc"} /\ Backward(q) \in {"asc", "desc"}
  BY DEF Forward, Backward
<1>4. /\ Orders(Precedes(q), Rest(q, Forward(q), c))
      /\ Orders(Follows(q), Rest(q, Backward(q), c))
  BY <1>2, ListingOrders
<1>5. \A a, b \in Id :
        /\ InOrder(q, Forward(q), CursorOf(a), CursorOf(b)) <=> <<a, b>> \in Precedes(q)
        /\ InOrder(q, Backward(q), CursorOf(a), CursorOf(b)) <=> <<a, b>> \in Follows(q)
  BY CursorsInOrder
<1>6. Lists(AllHits(q, Forward(q), c), Rest(q, Forward(q), c), Precedes(q))
  BY <1>1, <1>2, <1>3, <1>4, <1>5
<1>7. Lists(AllHits(q, Backward(q), c), Rest(q, Backward(q), c), Follows(q))
  BY <1>1, <1>2, <1>3, <1>4, <1>5
<1> QED
  BY <1>6, <1>7

\* The page a search answers with, and whether there is more, though one hit more
\* than the page is all it fetches.
FirstOf(hits, n) == IF Len(hits) > n THEN SubSeq(hits, 1, n) ELSE hits

LEMMA OneMoreIsEnough ==
  ASSUME NEW hits \in Seq(Id), NEW n \in Nat \ {0}
  PROVE  /\ (Len(FirstOf(hits, n + 1)) > n) = (Len(hits) > n)
         /\ FirstOf(FirstOf(hits, n + 1), n) = FirstOf(hits, n)
         /\ FirstOf(hits, n) \in Seq(Id)
         /\ Len(FirstOf(hits, n)) = IF Len(hits) > n THEN n ELSE Len(hits)
         /\ \A i \in 1 .. Len(FirstOf(hits, n)) : FirstOf(hits, n)[i] = hits[i]
<1>1. Len(hits) \in Nat
  OBVIOUS
<1>2. CASE Len(hits) > n + 1
  <2> DEFINE fetched == SubSeq(hits, 1, n + 1)
  <2>1. /\ fetched \in Seq(Id) /\ Len(fetched) = n + 1
        /\ \A i \in 1 .. n + 1 : fetched[i] = hits[i]
    BY <1>1, <1>2
  <2> HIDE DEF fetched
  <2>2. /\ SubSeq(fetched, 1, n) = [i \in 1 .. n |-> fetched[i]]
        /\ SubSeq(hits, 1, n) = [i \in 1 .. n |-> hits[i]]
    BY <1>1, <1>2, <2>1
  <2>3. SubSeq(fetched, 1, n) = SubSeq(hits, 1, n)
    BY <2>1, <2>2
  <2>4. /\ SubSeq(hits, 1, n) \in Seq(Id) /\ Len(SubSeq(hits, 1, n)) = n
        /\ \A i \in 1 .. n : SubSeq(hits, 1, n)[i] = hits[i]
    BY <1>1, <1>2
  <2>5. /\ FirstOf(hits, n + 1) = fetched
        /\ FirstOf(hits, n) = SubSeq(hits, 1, n)
        /\ FirstOf(fetched, n) = SubSeq(fetched, 1, n)
    BY <1>1, <1>2, <2>1 DEF FirstOf, fetched
  <2> QED
    BY <1>1, <1>2, <2>1, <2>3, <2>4, <2>5
<1>3. CASE Len(hits) <= n + 1
  BY <1>1, <1>3 DEF FirstOf
<1> QED
  BY <1>1, <1>2, <1>3

\* The page after a cursor.
LEMMA PageForward ==
  ASSUME NEW q \in Query, Found(q) \subseteq Id, NEW n \in Nat \ {0}, NEW c
  PROVE  LET hits == AllHits(q, Forward(q), c)
             page == SearchWallpapers(q, Args(n, c, 0, NoCursor))
         IN  /\ hits \in Seq(Id)
             /\ page.edges = FirstOf(hits, n)
             /\ page.hasNextPage = (Len(hits) > n)
<1> DEFINE hits == AllHits(q, Forward(q), c)
           page == SearchWallpapers(q, Args(n, c, 0, NoCursor))
<1>1. hits \in Seq(Id)
  <2>1. hits \in Seq(Rest(q, Forward(q), c))
    BY SortedHits DEF Lists
  <2>2. Rest(q, Forward(q), c) \subseteq Id
    BY DEF Rest
  <2> HIDE DEF hits
  <2> QED
    BY <2>1, <2>2
<1>2. (IF q.color = FALSE THEN "asc" ELSE "desc") = Forward(q)
  BY DEF Query, Forward
<1>3. Hits(q, Forward(q), c, n + 1) = FirstOf(hits, n + 1)
  BY DEF Hits, FirstOf, AllHits, Rest
<1>4. page = Connection(FALSE, n, c, FirstOf(hits, n + 1))
  <2> DEFINE args == Args(n, c, 0, NoCursor)
             order == IF q.color = FALSE THEN "asc" ELSE "desc"
  <2>1. /\ args.first = n /\ args.after = c
        /\ args.last = 0 /\ args.before = NoCursor
    BY DEF Args
  <2> HIDE DEF args
  <2>2. /\ (IF args.first > 0 THEN args.first ELSE IF args.last > 0 THEN args.last ELSE 10) = n
        /\ (args.last > 0 /\ args.before # NoCursor) = FALSE
        /\ (IF args.after # NoCursor THEN args.after ELSE args.before) = c
    BY <2>1
  <2>3. SearchWallpapers(q, args) =
          CHOOSE p \in {Connection(FALSE, n, c, h) :
                          h \in {Hits(q, order, c, Limit(n))}} : TRUE
    BY <2>1, <2>2, ZenonT(60) DEF SearchWallpapers
  <2>4. page = Connection(FALSE, n, c, Hits(q, order, c, n + 1))
    BY <2>3 DEF args, Limit
  <2> QED
    BY <1>2, <1>3, <2>4
<1> HIDE DEF hits, page
<1>5. /\ page.edges = FirstOf(FirstOf(hits, n + 1), n)
      /\ page.hasNextPage = (Len(FirstOf(hits, n + 1)) > n)
  BY <1>4 DEF Connection, FirstOf
<1>6. /\ page.edges = FirstOf(hits, n)
      /\ page.hasNextPage = (Len(hits) > n)
  BY <1>1, <1>5, OneMoreIsEnough
<1> QED
  BY <1>1, <1>6 DEF hits, page

\* The page before a cursor, which is fetched from the cursor backward.
LEMMA PageBackward ==
  ASSUME NEW q \in Query, Found(q) \subseteq Id, NEW n \in Nat \ {0}, NEW c, c # NoCursor
  PROVE  LET hits == AllHits(q, Backward(q), c)
             page == SearchWallpapers(q, Args(0, NoCursor, n, c))
         IN  /\ hits \in Seq(Id)
             /\ page.edges = Reverse(FirstOf(hits, n))
             /\ page.hasPreviousPage = (Len(hits) > n)
             /\ page.hasNextPage = (page.edges # <<>>)
<1> DEFINE hits == AllHits(q, Backward(q), c)
           page == SearchWallpapers(q, Args(0, NoCursor, n, c))
<1>1. hits \in Seq(Id)
  <2>1. hits \in Seq(Rest(q, Backward(q), c))
    BY SortedHits DEF Lists
  <2>2. Rest(q, Backward(q), c) \subseteq Id
    BY DEF Rest
  <2> HIDE DEF hits
  <2> QED
    BY <2>1, <2>2
<1>2. (IF q.color = TRUE THEN "asc" ELSE "desc") = Backward(q)
  BY DEF Query, Backward
<1>3. Hits(q, Backward(q), c, n + 1) = FirstOf(hits, n + 1)
  BY DEF Hits, FirstOf, AllHits, Rest
<1>4. page = Connection(TRUE, n, NoCursor, FirstOf(hits, n + 1))
  <2> DEFINE args == Args(0, NoCursor, n, c)
             order == IF q.color = TRUE THEN "asc" ELSE "desc"
  <2>1. /\ args.first = 0 /\ args.after = NoCursor
        /\ args.last = n /\ args.before = c
    BY DEF Args
  <2> HIDE DEF args
  <2>2. /\ (IF args.first > 0 THEN args.first ELSE IF args.last > 0 THEN args.last ELSE 10) = n
        /\ (args.last > 0 /\ args.before # NoCursor) = TRUE
        /\ (IF args.after # NoCursor THEN args.after ELSE args.before) = c
    BY <2>1
  <2>3. SearchWallpapers(q, args) =
          CHOOSE p \in {Connection(TRUE, n, NoCursor, h) :
                          h \in {Hits(q, order, c, Limit(n))}} : TRUE
    BY <2>1, <2>2 DEF SearchWallpapers
  <2>4. page = Connection(TRUE, n, NoCursor, Hits(q, order, c, n + 1))
    BY <2>3 DEF args, Limit
  <2> QED
    BY <1>2, <1>3, <2>4
<1> HIDE DEF hits, page
<1>5. /\ page.edges = Reverse(FirstOf(FirstOf(hits, n + 1), n))
      /\ page.hasPreviousPage = (Len(FirstOf(hits, n + 1)) > n)
      /\ page.hasNextPage = (page.edges # <<>>)
  BY <1>4 DEF Connection, FirstOf
<1>6. /\ page.edges = Reverse(FirstOf(hits, n))
      /\ page.hasPreviousPage = (Len(hits) > n)
  BY <1>1, <1>5, OneMoreIsEnough
<1> QED
  BY <1>1, <1>5, <1>6 DEF hits, page

\* page answers a search for what comes after cursor c: some of what is found
\* there, in order, and before what is left of it; if anything is left it says so.
Answers(page, q, c) ==
  LET beyond == Rest(q, Forward(q), c) IN
  /\ page \in Page
  /\ \A i \in DOMAIN page.edges : page.edges[i] \in beyond
  /\ \A i, j \in DOMAIN page.edges :
       i < j <=> <<page.edges[i], page.edges[j]>> \in Precedes(q)
  /\ \A i, j \in DOMAIN page.edges : page.edges[i] = page.edges[j] => i = j
  /\ \A d \in beyond \ Range(page.edges) :
       page.hasNextPage /\ \A i \in DOMAIN page.edges : <<page.edges[i], d>> \in Precedes(q)
  /\ page.hasNextPage => page.edges # <<>>

\* The pages the browser fetches are such answers.
LEMMA PageAnswers ==
  ASSUME query \in Query, Found(query) \subseteq Id, NEW listing
  PROVE  Answers(PageAfter(listing), query, NextCursor(listing))
<1> DEFINE c == NextCursor(listing)
           hits == AllHits(query, Forward(query), c)
           beyond == Rest(query, Forward(query), c)
           found == SearchWallpapers(query, Args(pageSize, c, 0, NoCursor))
           page == PageAfter(listing)
<1>1. pageSize \in Nat \ {0}
  BY BrowseAssumption
<1>2. Lists(hits, beyond, Precedes(query)) /\ beyond \subseteq Id
  BY SortedHits DEF Rest
<1>3. hits \in Seq(Id) /\ found.edges = FirstOf(hits, pageSize)
      /\ found.hasNextPage = (Len(hits) > pageSize)
  BY <1>1, PageForward
<1>4. page = [edges |-> found.edges, hasNextPage |-> found.hasNextPage]
  BY DEF PageAfter
<1> HIDE DEF hits, beyond, found, page, c
<1>5. /\ page.edges \in Seq(Id)
      /\ Len(page.edges) = IF Len(hits) > pageSize THEN pageSize ELSE Len(hits)
      /\ \A i \in 1 .. Len(page.edges) : page.edges[i] = hits[i]
  <2>1. /\ FirstOf(hits, pageSize) \in Seq(Id)
        /\ Len(FirstOf(hits, pageSize)) = IF Len(hits) > pageSize THEN pageSize ELSE Len(hits)
        /\ \A i \in 1 .. Len(FirstOf(hits, pageSize)) : FirstOf(hits, pageSize)[i] = hits[i]
    BY <1>1, <1>3, OneMoreIsEnough
  <2>2. page.edges = FirstOf(hits, pageSize)
    BY <1>3, <1>4
  <2> QED
    BY <2>1, <2>2
<1>6. page.hasNextPage = (Len(hits) > pageSize) /\ page.hasNextPage \in BOOLEAN
  BY <1>3, <1>4
<1>7. page \in Page
  BY <1>4, <1>5, <1>6 DEF Page
<1>8. DOMAIN page.edges = 1 .. Len(page.edges) /\ Len(hits) \in Nat
      /\ DOMAIN page.edges \subseteq 1 .. Len(hits)
  BY <1>1, <1>3, <1>5
<1>9. /\ \A i \in DOMAIN page.edges : page.edges[i] \in beyond
      /\ \A i, j \in DOMAIN page.edges :
           i < j <=> <<page.edges[i], page.edges[j]>> \in Precedes(query)
      /\ \A i, j \in DOMAIN page.edges : page.edges[i] = page.edges[j] => i = j
  BY <1>2, <1>5, <1>8, SMTT(60) DEF Lists
<1>10. ASSUME NEW d \in beyond \ Range(page.edges)
       PROVE  /\ page.hasNextPage
              /\ \A i \in DOMAIN page.edges : <<page.edges[i], d>> \in Precedes(query)
  <2>1. PICK k \in 1 .. Len(hits) : hits[k] = d
    BY <1>2 DEF Lists
  <2>2. k \notin DOMAIN page.edges
    BY <1>5, <1>8, <1>10, <2>1 DEF Range
  <2>3. k > Len(page.edges)
    BY <1>5, <1>8, <2>2
  <2>4. page.hasNextPage
    <3>1. Len(hits) > pageSize
      BY <1>1, <1>5, <1>8, <2>3
    <3> QED
      BY <1>6, <3>1, Zenon
  <2>5. ASSUME NEW i \in DOMAIN page.edges
        PROVE  <<page.edges[i], d>> \in Precedes(query)
    <3>1. i < k /\ page.edges[i] = hits[i] /\ i \in 1 .. Len(hits)
      BY <1>5, <1>8, <2>3
    <3> QED
      BY <1>2, <2>1, <3>1 DEF Lists
  <2> QED
    BY <2>4, <2>5
<1>11. page.hasNextPage => page.edges # <<>>
  BY <1>1, <1>5, <1>6, <1>8
<1> QED
  BY <1>7, <1>9, <1>10, <1>11 DEF Answers, beyond, page, c

\* The pages of a listing of q: all in one order, within a page and from one to the
\* next; and only the last may say that there are no more.
GoodPages(pp, q) ==
  /\ pp \in Seq(Page)
  /\ \A k \in 1 .. Len(pp) :
       /\ \A i, j \in DOMAIN pp[k].edges :
            /\ i < j <=> <<pp[k].edges[i], pp[k].edges[j]>> \in Precedes(q)
            /\ pp[k].edges[i] = pp[k].edges[j] => i = j
       /\ pp[k].hasNextPage => pp[k].edges # <<>>
  /\ \A k, l \in 1 .. Len(pp) : k < l =>
       /\ pp[k].hasNextPage
       /\ \A i \in DOMAIN pp[k].edges, j \in DOMAIN pp[l].edges :
            <<pp[k].edges[i], pp[l].edges[j]>> \in Precedes(q)

\* The wallpapers of S are in the pages, or come after them and there are more.
Reaches(pp, S, q) ==
  \A d \in S :
    \/ \E k \in 1 .. Len(pp) : d \in Range(pp[k].edges)
    \/ /\ Last(pp).hasNextPage
       /\ \A i \in DOMAIN Last(pp).edges : <<Last(pp).edges[i], d>> \in Precedes(q)

\* The first page, and each next one, makes such pages again.
LEMMA PagesGrow ==
  ASSUME query \in Query, Found(query) \subseteq Id, NEW pp, GoodPages(pp, query),
         pp # <<>> => Last(pp).hasNextPage,
         NEW S \in SUBSET Found(query), pp # <<>> => Reaches(pp, S, query)
  PROVE  /\ GoodPages(Append(pp, PageAfter(pp)), query)
         /\ Reaches(Append(pp, PageAfter(pp)), S, query)
<1> DEFINE page == PageAfter(pp)
           more == Append(pp, page)
           n == Len(pp)
           c == NextCursor(pp)
           beyond == Rest(query, Forward(query), c)
<1>1. Answers(page, query, c)
  BY PageAnswers
<1>2. pp \in Seq(Page) /\ n \in Nat /\ page \in Page
      /\ \A k \in 1 .. n : pp[k] \in Page
  BY <1>1 DEF GoodPages, Answers
<1> HIDE DEF page
<1>3. /\ more \in Seq(Page) /\ Len(more) = n + 1 /\ more[n + 1] = page
      /\ \A k \in 1 .. n : more[k] = pp[k]
      /\ Last(more) = page
  BY <1>2 DEF Last
<1> HIDE DEF more
<1>4. \A p \in Page : p.edges \in Seq(Id) /\ DOMAIN p.edges = 1 .. Len(p.edges)
  BY DEF Page
<1> DEFINE final == Last(pp)
           last == final.edges[Len(final.edges)]
<1>5. ASSUME n # 0
      PROVE  /\ final = pp[n] /\ final \in Page /\ final.hasNextPage
             /\ Len(final.edges) \in DOMAIN final.edges
             /\ last \in Id
             /\ beyond = {d \in Found(query) : <<last, d>> \in Precedes(query)}
  <2>1. pp # <<>> /\ n \in 1 .. n
    BY <1>2, <1>5
  <2>2. final = pp[n] /\ final \in Page /\ final.hasNextPage
    BY <1>2, <2>1 DEF Last
  <2>3. final.edges # <<>> /\ final.edges \in Seq(Id)
    BY <1>4, <2>1, <2>2 DEF GoodPages
  <2>4. Len(final.edges) \in DOMAIN final.edges /\ last \in Id
    BY <2>3
  <2>5. c = CursorOf(last)
    BY <2>1 DEF NextCursor, Last
  <2>6. c # NoCursor
    BY <2>4, <2>5, CursorIsOne
  <2>7. \A d \in Found(query) :
          InOrder(query, Forward(query), c, CursorOf(d)) <=> <<last, d>> \in Precedes(query)
    BY <2>4, <2>5, CursorsInOrder
  <2> QED
    BY <2>2, <2>4, <2>6, <2>7 DEF Rest
<1>6. n = 0 => beyond = Found(query)
  BY <1>2 DEF NextCursor, Rest
<1> HIDE DEF beyond, final, last, c, n
<1>7. Orders(Precedes(query), Id)
  BY ListingOrders
<1>8. ASSUME NEW k \in 1 .. n, NEW i \in DOMAIN pp[k].edges
      PROVE  /\ pp[k].edges[i] \in Id
             /\ <<pp[k].edges[i], last>> \in Precedes(query) \/ pp[k].edges[i] = last
  <2>1. n # 0 /\ n \in 1 .. n /\ pp[k].edges[i] \in Id
    BY <1>2, <1>4
  <2>2. CASE k = n
    <3>1. i < Len(final.edges) \/ i = Len(final.edges)
      BY <1>4, <1>5, <2>1, <2>2
    <3> QED
      BY <1>5, <2>1, <2>2, <3>1 DEF GoodPages, last, n
  <2>3. CASE k < n
    BY <1>5, <2>1, <2>3 DEF GoodPages, last, n
  <2> QED
    BY <1>2, <2>1, <2>2, <2>3
<1>9. ASSUME NEW k \in 1 .. n, NEW i \in DOMAIN pp[k].edges, NEW d \in Id,
             <<last, d>> \in Precedes(query)
      PROVE  <<pp[k].edges[i], d>> \in Precedes(query)
  <2>1. last \in Id
    BY <1>2, <1>5
  <2> QED
    BY <1>7, <1>8, <1>9, <2>1 DEF Orders
<1>10. ASSUME NEW k \in 1 .. n
       PROVE  /\ pp[k].hasNextPage
              /\ \A i \in DOMAIN pp[k].edges, j \in DOMAIN page.edges :
                   <<pp[k].edges[i], page.edges[j]>> \in Precedes(query)
  <2>1. n # 0 /\ n \in 1 .. n
    BY <1>2
  <2>2. pp[k].hasNextPage
    BY <1>2, <1>5, <2>1 DEF GoodPages, n
  <2>3. \A j \in DOMAIN page.edges : page.edges[j] \in Id /\ <<last, page.edges[j]>> \in Precedes(query)
    BY <1>1, <1>2, <1>4, <1>5, <2>1 DEF Answers, beyond
  <2> QED
    BY <1>9, <2>2, <2>3
<1>11. GoodPages(more, query)
  <2>1. ASSUME NEW k \in 1 .. n + 1
        PROVE  /\ \A i, j \in DOMAIN more[k].edges :
                    /\ i < j <=> <<more[k].edges[i], more[k].edges[j]>> \in Precedes(query)
                    /\ more[k].edges[i] = more[k].edges[j] => i = j
               /\ more[k].hasNextPage => more[k].edges # <<>>
    <3>1. CASE k \in 1 .. n
      BY <1>3, <3>1 DEF GoodPages, n
    <3>2. CASE k = n + 1
      BY <1>1, <1>3, <3>2 DEF Answers
    <3>3. k \in 1 .. n \/ k = n + 1
      BY <1>2
    <3> QED
      BY <3>1, <3>2, <3>3
  <2>2. ASSUME NEW k \in 1 .. n + 1, NEW l \in 1 .. n + 1, k < l
        PROVE  /\ more[k].hasNextPage
               /\ \A i \in DOMAIN more[k].edges, j \in DOMAIN more[l].edges :
                    <<more[k].edges[i], more[l].edges[j]>> \in Precedes(query)
    <3>1. k \in 1 .. n
      BY <1>2, <2>2
    <3>2. CASE l \in 1 .. n
      BY <1>3, <2>2, <3>1, <3>2 DEF GoodPages, n
    <3>3. CASE l = n + 1
      BY <1>3, <1>10, <3>1, <3>3
    <3> QED
      BY <1>2, <3>2, <3>3
  <2> QED
    BY <1>3, <2>1, <2>2 DEF GoodPages
<1>12. Reaches(more, S, query)
  <2> SUFFICES ASSUME NEW d \in S
               PROVE  \/ \E k \in 1 .. n + 1 : d \in Range(more[k].edges)
                      \/ /\ page.hasNextPage
                         /\ \A i \in DOMAIN page.edges : <<page.edges[i], d>> \in Precedes(query)
    BY <1>3 DEF Reaches
  <2>1. CASE \E k \in 1 .. n : d \in Range(pp[k].edges)
    BY <1>2, <1>3, <2>1
  <2>2. CASE ~ \E k \in 1 .. n : d \in Range(pp[k].edges)
    <3>1. d \in beyond
      <4>1. CASE n = 0
        BY <1>6, <4>1
      <4>2. CASE n # 0
        <5>1. pp # <<>>
          BY <4>2 DEF n
        <5>2. \A i \in DOMAIN final.edges : <<final.edges[i], d>> \in Precedes(query)
          BY <2>2, <5>1 DEF Reaches, final, n
        <5> QED
          BY <1>5, <4>2, <5>2 DEF last
      <4> QED
        BY <4>1, <4>2
    <3>2. CASE d \in Range(page.edges)
      BY <1>2, <1>3, <3>2
    <3>3. CASE d \notin Range(page.edges)
      BY <1>1, <3>1, <3>3 DEF Answers, beyond
    <3> QED
      BY <3>2, <3>3
  <2> QED
    BY <2>1, <2>2
<1> QED
  BY <1>11, <1>12 DEF more, page

\* The listing without cursors is in the same order.
LEMMA ListedLists ==
  ASSUME NEW q \in Query, Found(q) \subseteq Id
  PROVE  Lists(Listed(q), Found(q), Precedes(q))
<1> DEFINE S == Found(q)
           Z == Precedes(q)
           Sooner(d, e) == IF q.color /\ scoreOf[d] # scoreOf[e] THEN scoreOf[d] > scoreOf[e]
                           ELSE d < e
<1>1. S \in SUBSET Id /\ Orders(Z, S)
  BY ListingOrders
<1>2. ASSUME NEW d \in S, NEW e \in S
      PROVE  Sooner(e, d) <=> <<e, d>> \in Z
  <2>1. scoreOf[d] \in Nat /\ scoreOf[e] \in Nat
    BY <1>1, SearchAssumption
  <2>2. <<e, d>> \in Z <=>
          IF q.color THEN \/ scoreOf[e] > scoreOf[d]
                          \/ scoreOf[e] = scoreOf[d] /\ e < d
                     ELSE e < d
    BY <1>1 DEF Precedes
  <2>3. CASE q.color
    BY <2>1, <2>2, <2>3
  <2>4. CASE ~q.color
    BY <2>1, <2>2, <2>4
  <2> QED
    BY <2>3, <2>4
<1>3. Listed(q) =
        [i \in 1 .. Cardinality(S) |->
           CHOOSE d \in S : Cardinality({e \in S : Sooner(e, d)}) = i - 1]
  BY DEF Listed, Sorted
<1> HIDE DEF Sooner, S, Z
<1>4. ASSUME NEW d \in S
      PROVE  Cardinality({e \in S : Sooner(e, d)}) = Rank(Z, S, d)
  <2>1. {e \in S : Sooner(e, d)} = {e \in S : <<e, d>> \in Z}
    BY <1>2
  <2> QED
    BY <2>1 DEF Rank
<1>5. \A i : (CHOOSE d \in S : Cardinality({e \in S : Sooner(e, d)}) = i - 1)
             = CHOOSE d \in S : Rank(Z, S, d) = i - 1
  BY <1>4
<1>6. Listed(q) = [i \in 1 .. Cardinality(S) |-> CHOOSE d \in S : Rank(Z, S, d) = i - 1]
  BY <1>3, <1>5
<1>7. Lists(Listed(q), S, Z)
  BY <1>1, <1>6, RankedLists
<1> QED
  BY <1>7 DEF S, Z

\* The page after a wallpaper of the listing.
LEMMA NextPageAgrees ==
  ASSUME NEW q \in Query, Found(q) \subseteq Id, NEW n \in Nat \ {0},
         NEW i \in 1 .. Len(Listed(q))
  PROVE  LET all == Listed(q)
             next == SearchWallpapers(q, Args(n, CursorOf(all[i]), 0, NoCursor))
         IN  /\ next.edges = SubSeq(all, i + 1, IF i + n < Len(all) THEN i + n ELSE Len(all))
             /\ next.hasNextPage = (i + n < Len(all))
<1> DEFINE all == Listed(q)
           c == CursorOf(all[i])
           hits == AllHits(q, Forward(q), c)
           beyond == Rest(q, Forward(q), c)
           next == SearchWallpapers(q, Args(n, c, 0, NoCursor))
           tail == SubSeq(all, i + 1, Len(all))
<1>1. Lists(all, Found(q), Precedes(q)) /\ Lists(hits, beyond, Precedes(q))
  BY ListedLists, SortedHits
<1>2. /\ hits \in Seq(Id) /\ next.edges = FirstOf(hits, n)
      /\ next.hasNextPage = (Len(hits) > n)
  BY PageForward
<1>3. /\ all \in Seq(Found(q)) /\ Len(all) \in Nat /\ i \in 1 .. Len(all)
      /\ \A k \in 1 .. Len(all) : all[k] \in Found(q)
  BY <1>1 DEF Lists
<1>4. beyond = {d \in Found(q) : <<all[i], d>> \in Precedes(q)}
  <2>1. all[i] \in Id /\ c # NoCursor
    BY <1>3, CursorIsOne
  <2>2. \A d \in Found(q) :
          InOrder(q, Forward(q), c, CursorOf(d)) <=> <<all[i], d>> \in Precedes(q)
    BY <2>1, CursorsInOrder
  <2> QED
    BY <2>1, <2>2 DEF Rest
<1> HIDE DEF all, hits, beyond, next, c
<1>5. /\ Len(tail) = Len(all) - i
      /\ \A k \in 1 .. Len(all) - i : tail[k] = all[i + k] /\ i + k \in 1 .. Len(all)
      /\ tail = [k \in 1 .. Len(all) - i |-> all[i + k]]
  <2>1. \A k \in 1 .. Len(all) - i : i + k \in 1 .. Len(all)
    BY <1>3
  <2>2. tail = [k \in 1 .. Len(all) - i |-> all[i + k]]
    BY <1>3
  <2>3. Len(all) - i \in Nat
    BY <1>3
  <2> HIDE DEF tail
  <2> QED
    BY <2>1, <2>2, <2>3
<1> HIDE DEF tail
<1>6. \A k \in 1 .. Len(all) - i : tail[k] \in beyond
  <2> SUFFICES ASSUME NEW k \in 1 .. Len(all) - i
               PROVE  tail[k] \in beyond
    OBVIOUS
  <2>1. tail[k] = all[i + k] /\ i + k \in 1 .. Len(all) /\ i < i + k
    BY <1>3, <1>5
  <2>2. <<all[i], all[i + k]>> \in Precedes(q)
    BY <1>1, <1>3, <2>1 DEF Lists
  <2> QED
    BY <1>3, <1>4, <2>1, <2>2
<1>7. tail \in Seq(beyond) /\ Len(all) - i \in Nat
  BY <1>3, <1>5, <1>6
<1>8. \A d \in beyond : \E k \in 1 .. Len(tail) : tail[k] = d
  <2> SUFFICES ASSUME NEW d \in beyond
               PROVE  \E k \in 1 .. Len(tail) : tail[k] = d
    OBVIOUS
  <2>1. PICK j \in 1 .. Len(all) : all[j] = d
    BY <1>1, <1>4 DEF Lists
  <2>2. i < j
    BY <1>1, <1>3, <1>4, <2>1 DEF Lists
  <2>3. j - i \in 1 .. Len(tail) /\ tail[j - i] = all[i + (j - i)] /\ i + (j - i) = j
    BY <1>3, <1>5, <2>2
  <2> QED
    BY <2>1, <2>3
<1>9. \A k, l \in 1 .. Len(tail) : k < l => <<tail[k], tail[l]>> \in Precedes(q)
  <2> SUFFICES ASSUME NEW k \in 1 .. Len(tail), NEW l \in 1 .. Len(tail), k < l
               PROVE  <<tail[k], tail[l]>> \in Precedes(q)
    OBVIOUS
  <2>1. /\ i + k \in 1 .. Len(all) /\ i + l \in 1 .. Len(all) /\ i + k < i + l
        /\ tail[k] = all[i + k] /\ tail[l] = all[i + l]
    BY <1>3, <1>5
  <2>2. \A a, b \in 1 .. Len(all) : a < b => <<all[a], all[b]>> \in Precedes(q)
    BY <1>1 DEF Lists
  <2>3. <<all[i + k], all[i + l]>> \in Precedes(q)
    BY <2>1, <2>2
  <2> QED
    BY <2>1, <2>3
<1>10. beyond \in SUBSET Id
  BY <1>4
<1>11. IsFiniteSet(beyond) /\ Orders(Precedes(q), beyond)
  BY <1>10, FiniteIds, ListingOrders
<1>12. hits = tail
  <2>1. Lists(tail, beyond, Precedes(q))
    BY <1>7, <1>8, <1>9, <1>11, GoesUp
  <2> QED
    BY <1>1, <1>11, <2>1, ListedOnce
<1>13. next.hasNextPage = (i + n < Len(all))
  <2>1. (Len(hits) > n) = (i + n < Len(all))
    BY <1>3, <1>5, <1>12
  <2> QED
    BY <1>2, <2>1
<1>14. next.edges = SubSeq(all, i + 1, IF i + n < Len(all) THEN i + n ELSE Len(all))
  <2>1. CASE i + n < Len(all)
    <3>1. next.edges = SubSeq(tail, 1, n)
      BY <1>2, <1>3, <1>5, <1>12, <2>1 DEF FirstOf
    <3>2. SubSeq(tail, 1, n) = [k \in 1 .. n |-> tail[k]]
      BY <1>3, <1>5, <1>7, <2>1
    <3>3. \A k \in 1 .. n : k \in 1 .. Len(all) - i /\ tail[k] = all[i + k]
      BY <1>3, <1>5, <2>1
    <3>4. SubSeq(all, i + 1, i + n) = [k \in 1 .. n |-> all[i + k]]
      BY <1>3, <2>1
    <3>5. [k \in 1 .. n |-> tail[k]] = [k \in 1 .. n |-> all[i + k]]
      BY <3>3
    <3> QED
      BY <2>1, <3>1, <3>2, <3>4, <3>5
  <2>2. CASE ~(i + n < Len(all))
    BY <1>2, <1>3, <1>5, <1>12, <2>2 DEF FirstOf, tail
  <2> QED
    BY <2>1, <2>2
<1> QED
  BY <1>13, <1>14 DEF all, next, c

\* The page before a wallpaper of the listing.
LEMMA PreviousPageAgrees ==
  ASSUME NEW q \in Query, Found(q) \subseteq Id, NEW n \in Nat \ {0},
         NEW i \in 1 .. Len(Listed(q))
  PROVE  LET all == Listed(q)
             previous == SearchWallpapers(q, Args(0, NoCursor, n, CursorOf(all[i])))
         IN  /\ previous.edges = SubSeq(all, IF i > n THEN i - n ELSE 1, i - 1)
             /\ previous.hasPreviousPage = (i - 1 > n)
             /\ previous.hasNextPage = (previous.edges # <<>>)
<1> DEFINE all == Listed(q)
           c == CursorOf(all[i])
           hits == AllHits(q, Backward(q), c)
           before == Rest(q, Backward(q), c)
           previous == SearchWallpapers(q, Args(0, NoCursor, n, c))
           head == [k \in 1 .. i - 1 |-> all[i - k]]
<1>1. Lists(all, Found(q), Precedes(q)) /\ Lists(hits, before, Follows(q))
  BY ListedLists, SortedHits
<1>2. /\ all \in Seq(Found(q)) /\ Len(all) \in Nat /\ i \in 1 .. Len(all)
      /\ \A k \in 1 .. Len(all) : all[k] \in Found(q)
  BY <1>1 DEF Lists
<1>3. all[i] \in Id /\ c # NoCursor
  BY <1>2, CursorIsOne
<1>4. /\ hits \in Seq(Id) /\ previous.edges = Reverse(FirstOf(hits, n))
      /\ previous.hasPreviousPage = (Len(hits) > n)
      /\ previous.hasNextPage = (previous.edges # <<>>)
  BY <1>3, PageBackward
<1>5. before = {d \in Found(q) : <<d, all[i]>> \in Precedes(q)}
  <2>1. \A d \in Found(q) :
          InOrder(q, Backward(q), c, CursorOf(d)) <=> <<all[i], d>> \in Follows(q)
    BY <1>3, CursorsInOrder
  <2>2. \A d \in Found(q) : <<all[i], d>> \in Follows(q) <=> <<d, all[i]>> \in Precedes(q)
    BY <1>3 DEF Follows
  <2> QED
    BY <1>3, <2>1, <2>2 DEF Rest
<1> HIDE DEF all, hits, before, previous, c
<1>6. /\ \A k \in 1 .. i - 1 : head[k] = all[i - k] /\ i - k \in 1 .. Len(all) /\ i - k < i
      /\ head = [k \in 1 .. i - 1 |-> all[i - k]]
      /\ i - 1 \in Nat /\ i \in Nat
  BY <1>2
<1> HIDE DEF head
<1>7. \A k \in 1 .. i - 1 : head[k] \in before
  <2> SUFFICES ASSUME NEW k \in 1 .. i - 1
               PROVE  head[k] \in before
    OBVIOUS
  <2>1. <<all[i - k], all[i]>> \in Precedes(q)
    BY <1>1, <1>2, <1>6 DEF Lists
  <2> QED
    BY <1>2, <1>5, <1>6, <2>1
<1>8. head \in Seq(before) /\ Len(head) = i - 1
  BY <1>6, <1>7
<1>9. \A d \in before : \E k \in 1 .. Len(head) : head[k] = d
  <2> SUFFICES ASSUME NEW d \in before
               PROVE  \E k \in 1 .. Len(head) : head[k] = d
    OBVIOUS
  <2>1. PICK j \in 1 .. Len(all) : all[j] = d
    BY <1>1, <1>5 DEF Lists
  <2>2. j < i
    BY <1>1, <1>2, <1>5, <2>1 DEF Lists
  <2>3. i - j \in 1 .. Len(head) /\ head[i - j] = all[i - (i - j)] /\ i - (i - j) = j
    BY <1>2, <1>6, <1>8, <2>2
  <2> QED
    BY <2>1, <2>3
<1>10. \A k, l \in 1 .. Len(head) : k < l => <<head[k], head[l]>> \in Follows(q)
  <2> SUFFICES ASSUME NEW k \in 1 .. Len(head), NEW l \in 1 .. Len(head), k < l
               PROVE  <<head[k], head[l]>> \in Follows(q)
    OBVIOUS
  <2>1. /\ i - k \in 1 .. Len(all) /\ i - l \in 1 .. Len(all) /\ i - l < i - k
        /\ head[k] = all[i - k] /\ head[l] = all[i - l]
    BY <1>2, <1>6, <1>8
  <2>2. \A a, b \in 1 .. Len(all) : a < b => <<all[a], all[b]>> \in Precedes(q)
    BY <1>1 DEF Lists
  <2>3. <<all[i - l], all[i - k]>> \in Precedes(q)
    BY <2>1, <2>2
  <2>4. <<head[l], head[k]>> \in Precedes(q)
    BY <2>1, <2>3
  <2> QED
    BY <1>2, <2>1, <2>4 DEF Follows
<1>11. before \in SUBSET Id
  BY <1>5
<1>12. IsFiniteSet(before) /\ Orders(Follows(q), before)
  BY <1>11, FiniteIds, ListingOrders
<1>13. hits = head
  <2>1. Lists(head, before, Follows(q))
    BY <1>8, <1>9, <1>10, <1>12, GoesUp
  <2> QED
    BY <1>1, <1>12, <2>1, ListedOnce
<1>14. previous.hasPreviousPage = (i - 1 > n)
  BY <1>4, <1>8, <1>13
<1>15. previous.edges = SubSeq(all, IF i > n THEN i - n ELSE 1, i - 1)
  <2> DEFINE page == FirstOf(head, n)
             m == IF i - 1 > n THEN n ELSE i - 1
             first == IF i > n THEN i - n ELSE 1
  <2>1. /\ head \in Seq(Id) /\ i - 1 \in Nat
    BY <1>6, <1>8, <1>11
  <2>2. /\ page \in Seq(Id) /\ Len(page) = m
        /\ \A k \in 1 .. m : page[k] = head[k]
    BY <1>8, <2>1, OneMoreIsEnough, ZenonT(60)
  <2>3. m \in Nat /\ m <= i - 1 /\ first = i - m /\ m = (i - 1) - first + 1
    BY <1>6
  <2>4. Reverse(page) = [k \in 1 .. m |-> page[m - k + 1]]
    BY <2>2 DEF Reverse
  <2> HIDE DEF page, m
  <2>5. \A k \in 1 .. m : page[m - k + 1] = all[first + k - 1]
    <3> SUFFICES ASSUME NEW k \in 1 .. m
                 PROVE  page[m - k + 1] = all[first + k - 1]
      OBVIOUS
    <3>1. m - k + 1 \in 1 .. m /\ m - k + 1 \in 1 .. i - 1 /\ i - (m - k + 1) = first + k - 1
      BY <1>6, <2>3
    <3> QED
      BY <1>6, <2>2, <3>1
  <2> HIDE DEF first
  <2>6. SubSeq(all, first, i - 1) = [k \in 1 .. m |-> all[first + k - 1]]
    <3>1. first \in 1 .. i /\ i - 1 <= Len(all)
      BY <1>2, <1>6, <2>3
    <3>2. SubSeq(all, first, i - 1) =
            [k \in 1 .. (i - 1) - first + 1 |-> all[k + first - 1]]
      BY <1>2, <3>1
    <3>3. \A k \in 1 .. m : k + first - 1 = first + k - 1
      BY <1>6, <3>1
    <3>4. [k \in 1 .. m |-> all[k + first - 1]] = [k \in 1 .. m |-> all[first + k - 1]]
      BY <3>3
    <3> QED
      BY <2>3, <3>2, <3>4
  <2>7. Reverse(page) = SubSeq(all, first, i - 1)
    BY <2>4, <2>5, <2>6
  <2> QED
    BY <1>4, <1>13, <2>7 DEF page, first
<1> QED
  BY <1>4, <1>14, <1>15 DEF all, previous, c

\* Pages in one order show nothing twice, and all that is in them.
LEMMA PagesShow ==
  ASSUME NEW pp, NEW q \in Query, GoodPages(pp, q)
  PROVE  /\ IsInjective(Ids(pp))
         /\ \A k \in 1 .. Len(pp) : Range(pp[k].edges) \subseteq Range(Ids(pp))
<1> DEFINE s == [k \in DOMAIN pp |-> pp[k].edges]
<1>1. pp \in Seq(Page) /\ DOMAIN pp = 1 .. Len(pp) /\ Len(pp) \in Nat
  <2>1. pp \in Seq(Page)
    BY Zenon DEF GoodPages
  <2> QED
    BY <2>1
<1>2. \A k \in 1 .. Len(pp) : pp[k].edges \in Seq(Id)
  <2>1. \A k \in 1 .. Len(pp) : pp[k] \in Page
    BY <1>1
  <2>2. \A p \in Page : p.edges \in Seq(Id)
    BY DEF Page
  <2> QED
    BY <2>1, <2>2
<1>3. s \in Seq(Seq(Id)) /\ Len(s) = Len(pp)
  BY <1>1, <1>2
<1>4. \A k \in 1 .. Len(s) : s[k] = pp[k].edges
  BY <1>1, <1>3
<1>5. Ids(pp) = FlattenSeq(s)
  BY DEF Ids
<1> HIDE DEF s
<1>6. Separate(s)
  <2>1. \A k \in 1 .. Len(s) : IsInjective(s[k])
    <3> SUFFICES ASSUME NEW k \in 1 .. Len(s), NEW i \in DOMAIN s[k], NEW j \in DOMAIN s[k],
                        s[k][i] = s[k][j]
                 PROVE  i = j
      BY DEF IsInjective
    <3>1. k \in 1 .. Len(pp) /\ s[k] = pp[k].edges
      BY <1>3, <1>4
    <3> QED
      BY <3>1 DEF GoodPages
  <2>2. ASSUME NEW k \in 1 .. Len(s), NEW l \in 1 .. Len(s), k < l,
               NEW i \in DOMAIN s[k], NEW j \in DOMAIN s[l], s[k][i] = s[l][j]
        PROVE  FALSE
    <3>1. <<s[k][i], s[l][j]>> \in Precedes(q) /\ s[k][i] \in Id
      <4>1. /\ k \in 1 .. Len(pp) /\ s[k] = pp[k].edges
            /\ l \in 1 .. Len(pp) /\ s[l] = pp[l].edges
        BY <1>3, <1>4
      <4>2. s[k] \in Seq(Id)
        BY <1>2, <4>1
      <4>3. <<s[k][i], s[l][j]>> \in Precedes(q)
        BY <2>2, <4>1, SMTT(60) DEF GoodPages
      <4> QED
        BY <4>2, <4>3
    <3>2. Orders(Precedes(q), Id)
      BY ListingOrders
    <3> QED
      BY <2>2, <3>1, <3>2 DEF Orders
  <2>3. \A k, l \in 1 .. Len(s) : k < l => Range(s[k]) \cap Range(s[l]) = {}
    BY <2>2 DEF Range
  <2> QED
    BY <2>1, <2>3 DEF Separate
<1>7. /\ \A k \in 1 .. Len(s) : Range(s[k]) \subseteq Range(FlattenSeq(s))
      /\ IsInjective(FlattenSeq(s))
  BY <1>3, <1>6, FlattenSeqHolds
<1> QED
  BY <1>3, <1>4, <1>5, <1>7

-----------------------------------------------------------------------------
(* Browse.                                                                  *)

\* What was found all along is in the pages, or comes after them and there are
\* more; and the pages fetched again are such pages too, as far as they go.
BrowseInv ==
  /\ TypeOK
  /\ GoodPages(pages, query) /\ GoodPages(refetched, query)
  /\ refetched # <<>> => Last(refetched).hasNextPage
  /\ fetching = "next" => hasNextPage
  /\ steady \subseteq Found(query) /\ refetchSteady \subseteq Found(query)
  /\ pages # <<>> => Reaches(pages, steady, query)
  /\ refetched # <<>> => Reaches(refetched, refetchSteady, query)

\* No pages are pages in order.
LEMMA NoPages ==
  ASSUME NEW q
  PROVE  <<>> \in Seq(Page) /\ GoodPages(<<>>, q)
<1>1. <<>> \in Seq(Page) /\ 1 .. Len(<<>>) = {}
  OBVIOUS
<1> QED
  BY <1>1 DEF GoodPages

\* A listing starts without pages.
LEMMA BrowseInitInv == ASSUME Init PROVE BrowseInv
<1>1. IndexTypeOK
  BY SearchAssumption DEF Init, IndexInit, IndexTypeOK
<1>2. TypeOK
  <2>1. /\ {mounted, error, stale, expired} \subseteq BOOLEAN
        /\ {visible, observing, notified, skipNextCallback, isIntersecting} \subseteq BOOLEAN
        /\ pages = <<>> /\ refetched = <<>> /\ steady = {} /\ refetchSteady = {}
        /\ query \in Query /\ fetching = "none"
    BY DEF Init
  <2>2. visits \in 0 .. MaxVisits /\ failures \in 0 .. MaxFailures
    BY BrowseAssumption DEF Init
  <2> QED
    BY <1>1, <2>1, <2>2, NoPages DEF TypeOK
<1> QED
  BY <1>2, NoPages DEF Init, BrowseInv

\* The index keeps its type as it changes.
LEMMA IndexChangesType ==
  ASSUME IndexTypeOK, IndexStep
  PROVE  IndexTypeOK'
<1>1. PICK d \in Id : Projected(d) \/ VariantAdded(d) \/ ColorsSet(d)
  BY DEF IndexStep
<1>2. changes' \in 0 .. MaxChanges
  BY SearchAssumption DEF IndexTypeOK, IndexStep
<1>3. indexed' \subseteq Id /\ matching' \subseteq indexed' /\ colored' \subseteq indexed'
  BY <1>1 DEF IndexTypeOK, Projected, VariantAdded, ColorsSet
<1> QED
  BY <1>2, <1>3 DEF IndexTypeOK

\* Only documents are found, and nothing else is while the index is as it was.
LEMMA FoundIds ==
  ASSUME IndexTypeOK, NEW q
  PROVE  Found(q) \subseteq Id
  BY DEF IndexTypeOK, Found

\* The steps that leave the index and the listing as they are.
OtherSteps ==
  \/ Open \/ Leave \/ Invalidate \/ FetchFails \/ CursorExpires \/ Scroll
  \/ PageStep \/ UNCHANGED vars

\* They keep the types of the flags.
LEMMA FlagsType ==
  ASSUME TypeOK, OtherSteps
  PROVE  /\ {mounted, error, stale, expired}' \subseteq BOOLEAN
         /\ {visible, observing, notified, skipNextCallback, isIntersecting}' \subseteq BOOLEAN
         /\ fetching' \in {"none", "first", "next"}
<1>1. /\ {mounted, error, stale, expired} \subseteq BOOLEAN
      /\ {visible, observing, notified, skipNextCallback, isIntersecting} \subseteq BOOLEAN
      /\ fetching \in {"none", "first", "next"}
  BY DEF TypeOK
<1>2. CASE Open
  <2>1. /\ mounted' = TRUE /\ isIntersecting' = FALSE
        /\ skipNextCallback' \in BOOLEAN
        /\ fetching' \in {fetching, "first"}
        /\ UNCHANGED <<error, stale, expired, visible, observing, notified>>
    BY <1>2 DEF Open, StartFetch
  <2> QED
    BY <1>1, <2>1
<1>3. CASE Leave
  BY <1>1, <1>3 DEF Leave, queryVars
<1>4. CASE Invalidate
  BY <1>1, <1>4 DEF Invalidate, triggerVars
<1>5. CASE FetchFails
  BY <1>1, <1>5 DEF FetchFails, StartFetch
<1>6. CASE CursorExpires
  BY <1>1, <1>6 DEF CursorExpires, triggerVars
<1>7. CASE Scroll
  BY <1>1, <1>7 DEF Scroll, queryVars
<1>8. CASE Observe
  BY <1>1, <1>8 DEF Observe, queryVars
<1>9. CASE Unobserve
  <2>1. /\ observing' = FALSE /\ notified' = FALSE /\ isIntersecting' = FALSE
        /\ skipNextCallback' \in BOOLEAN
        /\ UNCHANGED <<mounted, error, stale, expired, visible, fetching>>
    BY <1>9 DEF Unobserve, queryVars
  <2> QED
    BY <1>1, <2>1
<1>10. CASE Callback
  <2>1. /\ notified' = FALSE /\ skipNextCallback' = FALSE
        /\ isIntersecting' \in {isIntersecting, visible}
        /\ UNCHANGED <<mounted, error, stale, expired, visible, observing, fetching>>
    BY <1>10 DEF Callback, queryVars
  <2> QED
    BY <1>1, <2>1
<1>11. CASE LoadMore
  BY <1>1, <1>11 DEF LoadMore, StartFetch, triggerVars
<1>12. CASE UNCHANGED vars
  BY <1>1, <1>12 DEF vars, queryVars, triggerVars
<1> QED
  BY <1>2, <1>3, <1>4, <1>5, <1>6, <1>7, <1>8, <1>9, <1>10, <1>11, <1>12 DEF OtherSteps, PageStep

\* And the bounds of the counters.
LEMMA CountsType ==
  ASSUME TypeOK, OtherSteps
  PROVE  visits' \in 0 .. MaxVisits /\ failures' \in 0 .. MaxFailures
<1>1. visits \in 0 .. MaxVisits /\ failures \in 0 .. MaxFailures
  BY DEF TypeOK
<1>2. MaxVisits \in Nat /\ MaxFailures \in Nat
  BY BrowseAssumption
<1>3. \/ visits' = visits
      \/ visits < MaxVisits /\ visits' = visits + 1
  BY DEF OtherSteps, Open, Leave, Invalidate, FetchFails, CursorExpires, Scroll, PageStep, Observe,
         Unobserve, Callback, LoadMore, boundVars, vars
<1>4. \/ failures' = failures
      \/ failures < MaxFailures /\ failures' = failures + 1
  BY DEF OtherSteps, Open, Leave, Invalidate, FetchFails, CursorExpires, Scroll, PageStep, Observe,
         Unobserve, Callback, LoadMore, boundVars, vars
<1> QED
  BY <1>1, <1>2, <1>3, <1>4

\* The first page, and each next one, is fetched in the order of the listing.
LEMMA BrowseNextInv ==
  ASSUME BrowseInv, [Next]_vars
  PROVE  BrowseInv'
<1>1. /\ query \in Query /\ IndexTypeOK /\ Found(query) \subseteq Id
      /\ pages \in Seq(Page) /\ refetched \in Seq(Page)
  BY FoundIds DEF BrowseInv, TypeOK
<1>2. <<>> \in Seq(Page) /\ GoodPages(<<>>, query)
  BY NoPages
<1>3. ASSUME UNCHANGED <<indexVars, query>>
      PROVE  Found(query)' = Found(query) /\ IndexTypeOK' /\ query' \in Query
  BY <1>1, <1>3 DEF indexVars, Found, IndexTypeOK
<1>4. CASE IndexChanges
  <2>1. IndexTypeOK' /\ UNCHANGED <<query, pages, fetching, refetched, error, stale, expired,
                                    triggerVars, boundVars, mounted>>
        /\ steady' = steady \cap Found(query)' /\ refetchSteady' = refetchSteady \cap Found(query)'
    BY <1>1, <1>4, IndexChangesType DEF IndexChanges
  <2>2. TypeOK'
    BY <2>1 DEF BrowseInv, TypeOK, triggerVars, boundVars
  <2> QED
    BY <2>1, <2>2 DEF BrowseInv, Reaches, hasNextPage
<1>5. CASE FetchedAgain
  <2> DEFINE got == Append(refetched, PageAfter(refetched))
             found == IF refetched = <<>> THEN Found(query) ELSE refetchSteady
  <2>1. found \in SUBSET Found(query) /\ (refetched # <<>> => Reaches(refetched, found, query))
    BY DEF BrowseInv
  <2>2. GoodPages(got, query) /\ Reaches(got, found, query)
    BY <1>1, <2>1, PagesGrow DEF BrowseInv
  <2>3. got \in Seq(Page) /\ Len(got) # 0
    BY <1>1, <2>2 DEF GoodPages
  <2>4. UNCHANGED <<indexVars, query, triggerVars, boundVars, mounted>>
    BY <1>5 DEF FetchedAgain
  <2> HIDE DEF got, found
  <2>5. CASE GoesOn(got)
    <3>1. /\ refetched' = got /\ refetchSteady' = found
          /\ UNCHANGED <<pages, steady, fetching, error, stale, expired>>
      BY <1>5, <2>5 DEF FetchedAgain, got, found
    <3>2. Len(refetched') < Len(pages') /\ Last(refetched').hasNextPage
      BY <2>5, <3>1 DEF GoesOn
    <3>3. TypeOK'
      BY <1>1, <1>3, <2>1, <2>3, <2>4, <3>1, <3>2
      DEF BrowseInv, TypeOK, triggerVars, boundVars
    <3> QED
      BY <1>3, <2>1, <2>2, <2>4, <3>1, <3>2, <3>3 DEF BrowseInv, hasNextPage
  <2>6. CASE ~GoesOn(got)
    <3>1. /\ pages' = got /\ steady' = found /\ fetching' = "none"
          /\ refetched' = <<>> /\ refetchSteady' = {}
          /\ error' = FALSE /\ stale' = FALSE /\ expired' = FALSE
      BY <1>5, <2>6 DEF FetchedAgain, StartFetch, got, found
    <3>2. TypeOK'
      BY <1>1, <1>2, <1>3, <2>1, <2>3, <2>4, <3>1
      DEF BrowseInv, TypeOK, triggerVars, boundVars
    <3> QED
      BY <1>2, <1>3, <2>1, <2>2, <2>4, <3>1, <3>2 DEF BrowseInv
  <2> QED
    BY <2>5, <2>6
<1>6. CASE FetchedNext
  <2>1. /\ pages' = Append(pages, PageAfter(pages)) /\ fetching' = "none"
        /\ refetched' = <<>> /\ refetchSteady' = {}
        /\ error' = FALSE /\ stale' = FALSE
        /\ UNCHANGED <<indexVars, query, steady, expired, triggerVars, boundVars, mounted>>
        /\ fetching = "next"
    BY <1>6 DEF FetchedNext, StartFetch
  <2>2. GoodPages(pages', query) /\ Reaches(pages', steady, query)
    BY <1>1, <2>1, PagesGrow DEF BrowseInv, hasNextPage
  <2>3. TypeOK'
    BY <1>1, <1>2, <1>3, <2>1, <2>2 DEF BrowseInv, TypeOK, triggerVars, boundVars, GoodPages
  <2> QED
    BY <1>2, <1>3, <2>1, <2>2, <2>3 DEF BrowseInv
<1>7. ASSUME OtherSteps
      PROVE  /\ UNCHANGED <<indexVars, query, pages, steady>>
             /\ \/ UNCHANGED <<refetched, refetchSteady>>
                \/ refetched' = <<>> /\ refetchSteady' = {}
             /\ fetching' = "next" => hasNextPage
  <2>1. fetching = "next" => hasNextPage
    BY DEF BrowseInv
  <2> QED
    BY <1>7, <2>1
    DEF OtherSteps, Open, Leave, Invalidate, FetchFails, CursorExpires, Scroll, PageStep, Observe,
        Unobserve, Callback, LoadMore, StartFetch, vars, queryVars, Enabled
<1>8. ASSUME OtherSteps
      PROVE  BrowseInv'
  <2>1. TypeOK'
    <3>1. /\ {mounted, error, stale, expired}' \subseteq BOOLEAN
          /\ {visible, observing, notified, skipNextCallback, isIntersecting}' \subseteq BOOLEAN
          /\ fetching' \in {"none", "first", "next"}
      BY <1>8, FlagsType DEF BrowseInv
    <3>2. visits' \in 0 .. MaxVisits /\ failures' \in 0 .. MaxFailures
      BY <1>8, CountsType DEF BrowseInv
    <3>3. Len(refetched') < Len(pages') \/ refetched' = <<>>
      BY <1>7, <1>8 DEF BrowseInv, TypeOK
    <3> QED
      BY <1>1, <1>2, <1>3, <1>7, <1>8, <3>1, <3>2, <3>3 DEF BrowseInv, TypeOK
  <2>2. GoodPages(pages, query)' /\ GoodPages(refetched, query)'
    BY <1>2, <1>7, <1>8 DEF BrowseInv
  <2> QED
    BY <1>3, <1>7, <1>8, <2>1, <2>2 DEF BrowseInv, hasNextPage
<1> QED
  BY <1>4, <1>5, <1>6, <1>8 DEF Next, OtherSteps

\* BrowseInv holds throughout.
LEMMA BrowseInvHolds == Spec => []BrowseInv
<1>1. Init => BrowseInv
  BY BrowseInitInv
<1>2. BrowseInv /\ [Next]_vars => BrowseInv'
  BY BrowseNextInv
<1> QED
  BY <1>1, <1>2, PTL DEF Spec

\* Every variable has its type, and a listing that is fetched again is not replaced
\* by a longer one (useInfiniteQuery).
THEOREM BrowseTypes == Spec => []TypeOK
<1>1. BrowseInv => TypeOK
  BY DEF BrowseInv
<1> QED
  BY <1>1, BrowseInvHolds, PTL

\* No wallpaper is shown twice, whatever was added, replaced or colored between the
\* pages (search_after and the cursors of useWallpaperInfiniteQuery).
THEOREM ShownOnce == Spec => []NoneTwice
<1>1. BrowseInv => NoneTwice
  <2> SUFFICES ASSUME BrowseInv
               PROVE  IsInjective(Ids(pages))
    BY DEF NoneTwice, Shown
  <2>1. query \in Query /\ GoodPages(pages, query)
    BY DEF BrowseInv, TypeOK
  <2> QED
    BY <2>1, PagesShow
<1> QED
  BY <1>1, BrowseInvHolds, PTL

\* None that was found all along is left out: the cursor of a page that says there
\* is more comes before it until it is shown.
THEOREM ShownAll == Spec => []NoneSkipped
<1>1. BrowseInv => NoneSkipped
  <2> SUFFICES ASSUME BrowseInv, pages # <<>>, NEW d \in steady
               PROVE  \/ d \in ToSet(Shown)
                      \/ /\ hasNextPage
                         /\ InOrder(query, Forward(query), NextCursor(pages), CursorOf(d))
    BY DEF NoneSkipped, Forward
  <2>1. /\ query \in Query /\ GoodPages(pages, query) /\ pages \in Seq(Page)
        /\ Reaches(pages, steady, query) /\ d \in Id
    BY DEF BrowseInv, TypeOK
  <2>2. CASE \E k \in 1 .. Len(pages) : d \in Range(pages[k].edges)
    <3>1. d \in Range(Ids(pages))
      BY <2>1, <2>2, PagesShow
    <3> QED
      BY <3>1 DEF Shown, ToSet, Range
  <2>3. CASE ~ \E k \in 1 .. Len(pages) : d \in Range(pages[k].edges)
    <3> DEFINE edges == Last(pages).edges
    <3>1. /\ Last(pages).hasNextPage
          /\ \A i \in DOMAIN edges : <<edges[i], d>> \in Precedes(query)
      BY <2>1, <2>3 DEF Reaches
    <3>2. Last(pages) = pages[Len(pages)] /\ Len(pages) \in 1 .. Len(pages)
      BY <2>1 DEF Last
    <3>3. edges # <<>>
      BY <2>1, <3>1, <3>2 DEF GoodPages
    <3>4. edges \in Seq(Id)
      <4>1. pages[Len(pages)] \in Page
        BY <2>1, <3>2
      <4> QED
        BY <3>2, <4>1 DEF Page
    <3> HIDE DEF edges
    <3>5. Len(edges) \in DOMAIN edges /\ edges[Len(edges)] \in Id
      BY <3>3, <3>4
    <3>6. NextCursor(pages) = CursorOf(edges[Len(edges)])
      BY DEF NextCursor, Last, edges
    <3>7. InOrder(query, Forward(query), NextCursor(pages), CursorOf(d))
      BY <2>1, <3>1, <3>5, <3>6, CursorsInOrder
    <3> QED
      BY <3>1, <3>7 DEF hasNextPage
  <2> QED
    BY <2>2, <2>3
<1> QED
  BY <1>1, BrowseInvHolds, PTL

\* For every query and every size, the page after a cursor and the page before it
\* are what follows and precedes it in one listing, and say truly whether there is
\* more (WallpaperRepository.search and the slice by direction).
LEMMA EveryPageAgrees ==
  ASSUME NEW q \in Query, Found(q) \subseteq Id, NEW n \in Nat \ {0}
  PROVE  PagesAgree(q, n)
<1> DEFINE all == Listed(q)
           next(i) == SearchWallpapers(q, Args(n, CursorOf(all[i]), 0, NoCursor))
           previous(i) == SearchWallpapers(q, Args(0, NoCursor, n, CursorOf(all[i])))
<1>1. ASSUME NEW i \in 1 .. Len(all)
      PROVE  /\ next(i).edges = SubSeq(all, i + 1, IF i + n < Len(all) THEN i + n ELSE Len(all))
             /\ next(i).hasNextPage = (i + n < Len(all))
  BY NextPageAgrees
<1>2. ASSUME NEW i \in 1 .. Len(all)
      PROVE  /\ previous(i).edges = SubSeq(all, IF i > n THEN i - n ELSE 1, i - 1)
             /\ previous(i).hasPreviousPage = (i - 1 > n)
             /\ previous(i).hasNextPage = (previous(i).edges # <<>>)
  BY PreviousPageAgrees
<1> HIDE DEF next, previous, all
<1>3. \A i \in 1 .. Len(all) :
        /\ next(i).edges = SubSeq(all, i + 1, IF i + n < Len(all) THEN i + n ELSE Len(all))
        /\ next(i).hasNextPage = (i + n < Len(all))
        /\ previous(i).edges = SubSeq(all, IF i > n THEN i - n ELSE 1, i - 1)
        /\ previous(i).hasPreviousPage = (i - 1 > n)
        /\ previous(i).edges # <<>> => previous(i).hasNextPage
  BY <1>1, <1>2, Zenon
<1> QED
  BY <1>3 DEF PagesAgree, all, next, previous

\* The pages of the API agree before the browser opens the first one, as the run
\* checks it: pages of one and of two wallpapers of the query that is browsed.
THEOREM PagesOfTheApi == Spec => []PagesOfApiAgree
<1>1. BrowseInv => PagesOfApiAgree
  <2> SUFFICES ASSUME BrowseInv, NEW n \in 1 .. 2
               PROVE  PagesAgree(query, n)
    BY DEF PagesOfApiAgree
  <2>1. query \in Query /\ Found(query) \subseteq Id /\ n \in Nat \ {0}
    BY FoundIds DEF BrowseInv, TypeOK
  <2> QED
    BY <2>1, EveryPageAgrees
<1> QED
  BY <1>1, BrowseInvHolds, PTL

\* And they agree at all times, for every query and pages of every size.
THEOREM PagesOfEveryQuery == Spec => [](\A q \in Query, n \in Nat \ {0} : PagesAgree(q, n))
<1>1. BrowseInv => \A q \in Query, n \in Nat \ {0} : PagesAgree(q, n)
  BY FoundIds, EveryPageAgrees DEF BrowseInv, TypeOK
<1> QED
  BY <1>1, BrowseInvHolds, PTL

=============================================================================
