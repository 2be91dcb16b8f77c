----------------------------- MODULE ScanProofs -----------------------------
(***************************************************************************)
(* The functions a scan is made of, for texts and lists of detections of   *)
(* any length: what the matchers and the name pass report lies in the      *)
(* text, the sort is a sort, the fold of resolveOverlaps is its loop and   *)
(* arbitrates the argument.                                                *)
(*                                                                         *)
(* The sort and the folds are defined over data of any size, so these are  *)
(* proofs by induction.  Every induction is an argument about the least    *)
(* element of a set of counterexamples (LeastNumber).                      *)
(***************************************************************************)
EXTENDS Anonymizer, FiniteSetTheorems, SequenceTheorems, TLAPS

-----------------------------------------------------------------------------
(***************************************************************************)
(* Induction                                                               *)
(***************************************************************************)
\* A set of natural numbers that is not empty has a least element.
LEMMA LeastNumber ==
  ASSUME NEW T, T \subseteq Nat, T # {}
  PROVE  \E x \in T : \A y \in T : x <= y
<1> DEFINE R == { p \in Nat \X Nat : p[1] < p[2] }
<1>1. IsWellFoundedOn(R, Nat)
  BY NatLessThanWellFounded DEF OpToRel
<1>2. \A x, y \in Nat : <<y, x>> \in R <=> y < x
  OBVIOUS
<1> HIDE DEF R
<1>3. PICK x \in T : \A y \in T : ~ (<<y, x>> \in R)
  BY <1>1, WFMin
<1>4. ASSUME NEW y \in T PROVE x <= y
  <2>1. x \in Nat /\ y \in Nat
    OBVIOUS
  <2>2. ~ (y < x)
    BY <1>2, <1>3, <2>1
  <2> QED BY <2>1, <2>2
<1> QED BY <1>4

\* Induction up to n: T is the set of the numbers the claim holds of.
LEMMA InductionUpTo ==
  ASSUME NEW n \in Nat, NEW T, 0 \in T,
         \A k \in 0..(n - 1) : k \in T => k + 1 \in T
  PROVE  \A k \in 0..n : k \in T
<1> DEFINE C == { k \in 0..n : k \notin T }
<1> SUFFICES ASSUME C # {} PROVE FALSE
  OBVIOUS
<1>1. PICK x \in C : \A y \in C : x <= y
  <2>1. C \subseteq Nat
    OBVIOUS
  <2> HIDE DEF C
  <2> QED BY <2>1, LeastNumber
<1>2. x # 0 /\ x \in 0..n /\ x \notin T
  OBVIOUS
<1>3. x - 1 \in 0..(n - 1) /\ (x - 1) + 1 = x
  BY <1>2
<1>4. x - 1 \notin C
  BY <1>1, <1>2
<1> QED BY <1>2, <1>3, <1>4

-----------------------------------------------------------------------------
(***************************************************************************)
(* Ranks                                                                   *)
(***************************************************************************)
\* In a strict total order of 1..n the number of elements ahead of an element
\* tells them apart, and takes every value below n.
LEMMA RanksCount ==
  ASSUME NEW n \in Nat, NEW A,
         \A i \in 1..n : <<i, i>> \notin A,
         \A i, j, k \in 1..n : <<i, j>> \in A /\ <<j, k>> \in A => <<i, k>> \in A,
         \A i, j \in 1..n : i # j => <<i, j>> \in A \/ <<j, i>> \in A
  PROVE  /\ \A i, j \in 1..n :
              <<i, j>> \in A <=> Cardinality({ m \in 1..n : <<m, i>> \in A })
                                  < Cardinality({ m \in 1..n : <<m, j>> \in A })
         /\ \A k \in 1..n : \E j \in 1..n :
              Cardinality({ m \in 1..n : <<m, j>> \in A }) = k - 1
<1> DEFINE Ahead(j) == { m \in 1..n : <<m, j>> \in A }
           rank == [j \in 1..n |-> Cardinality(Ahead(j))]
<1>1. IsFiniteSet(1..n) /\ Cardinality(1..n) = n
  BY FS_Interval
<1>2. ASSUME NEW j \in 1..n
      PROVE  IsFiniteSet(Ahead(j)) /\ Cardinality(Ahead(j)) \in 0..(n - 1)
  <2>1. Ahead(j) \in SUBSET (1..n) /\ j \notin Ahead(j)
    OBVIOUS
  <2> HIDE DEF Ahead
  <2>2. IsFiniteSet(Ahead(j)) /\ Cardinality(Ahead(j)) <= n
    BY <1>1, <2>1, FS_Subset
  <2>3. Cardinality(Ahead(j)) \in Nat
    BY <2>2, FS_CardinalityType
  <2>4. Cardinality(Ahead(j)) # n
    BY <1>1, <2>1, FS_Subset
  <2> QED BY <2>2, <2>3, <2>4
<1>3. ASSUME NEW i \in 1..n, NEW j \in 1..n, <<i, j>> \in A
      PROVE  Cardinality(Ahead(i)) < Cardinality(Ahead(j))
  <2>1. Ahead(i) \in SUBSET Ahead(j)
    BY <1>3
  <2>2. Ahead(i) # Ahead(j)
    BY <1>3
  <2>3. /\ IsFiniteSet(Ahead(j))
        /\ Cardinality(Ahead(i)) \in Nat /\ Cardinality(Ahead(j)) \in Nat
    BY <1>2
  <2> HIDE DEF Ahead
  <2>4. /\ Cardinality(Ahead(i)) <= Cardinality(Ahead(j))
        /\ Cardinality(Ahead(i)) # Cardinality(Ahead(j))
    BY <2>1, <2>2, <2>3, FS_Subset
  <2> QED BY <2>3, <2>4
<1> HIDE DEF Ahead
<1>4. ASSUME NEW i \in 1..n, NEW j \in 1..n,
             Cardinality(Ahead(i)) < Cardinality(Ahead(j))
      PROVE  <<i, j>> \in A
  <2>1. /\ Cardinality(Ahead(i)) \in Nat /\ Cardinality(Ahead(j)) \in Nat
    BY <1>2
  <2>2. i # j
    BY <1>4, <2>1
  <2>3. <<j, i>> \notin A
    BY <1>3, <1>4, <2>1
  <2> QED BY <2>2, <2>3
<1>5. rank \in [1..n -> 0..(n - 1)]
  BY <1>2
<1>6. ASSUME NEW i \in 1..n, NEW j \in 1..n, rank[i] = rank[j] PROVE i = j
  <2>1. /\ Cardinality(Ahead(i)) \in Nat
        /\ Cardinality(Ahead(i)) = Cardinality(Ahead(j))
    BY <1>2, <1>6
  <2>2. <<i, j>> \notin A /\ <<j, i>> \notin A
    BY <1>3, <2>1
  <2> QED BY <2>2
<1>7. rank \in Injection(1..n, 0..(n - 1))
  BY <1>5, <1>6 DEF Injection, IsInjective
<1>8. IsFiniteSet(0..(n - 1)) /\ Cardinality(0..(n - 1)) = n
  BY FS_Interval
<1>9. rank \in Surjection(1..n, 0..(n - 1))
  <2> HIDE DEF rank
  <2> QED BY <1>1, <1>7, <1>8, FS_Injection
<1>10. ASSUME NEW k \in 1..n
       PROVE  \E j \in 1..n : Cardinality(Ahead(j)) = k - 1
  <2>1. k - 1 \in 0..(n - 1)
    OBVIOUS
  <2>2. PICK j \in 1..n : rank[j] = k - 1
    BY <1>9, <2>1 DEF Surjection
  <2> QED BY <2>2
<1> QED BY <1>3, <1>4, <1>10 DEF Ahead

-----------------------------------------------------------------------------
(***************************************************************************)
(* The sort                                                                *)
(***************************************************************************)
\* L is a set of pairs, an order in which some elements may be tied.
WeakOrder(L, S) ==
  /\ \A a \in S : <<a, a>> \notin L
  /\ \A a, b, c \in S : <<a, b>> \in L /\ <<b, c>> \in L => <<a, c>> \in L
  /\ \A a, b, c \in S : <<a, b>> \notin L /\ <<b, c>> \notin L => <<a, c>> \notin L

\* Place i is sorted ahead of place j, and how many places are.
GoesAhead(ds, L, i, j) ==
  \/ <<ds[i], ds[j]>> \in L
  \/ <<ds[j], ds[i]>> \notin L /\ i < j

RankOf(ds, L, j) == Cardinality({ i \in DOMAIN ds : GoesAhead(ds, L, i, j) })

Permuted(ds, p) == [k \in DOMAIN ds |-> ds[p[k]]]

\* The place in ds of the k-th element of the sorted copy.
SortedFrom(ds, L) ==
  [k \in DOMAIN ds |-> CHOOSE j \in DOMAIN ds : RankOf(ds, L, j) = k - 1]

\* The ranks of a sequence under a weak order, ties by their place, tell the
\* elements apart and take every value.
LEMMA SortRanks ==
  ASSUME NEW S, NEW ds \in Seq(S), NEW L, WeakOrder(L, S)
  PROVE  /\ \A i, j \in DOMAIN ds :
              GoesAhead(ds, L, i, j) <=> RankOf(ds, L, i) < RankOf(ds, L, j)
         /\ \A k \in DOMAIN ds : \E j \in DOMAIN ds : RankOf(ds, L, j) = k - 1
<1> DEFINE n == Len(ds)
           Ahead(i, j) == GoesAhead(ds, L, i, j)
           A == { p \in (1..n) \X (1..n) : Ahead(p[1], p[2]) }
<1>1. /\ n \in Nat /\ DOMAIN ds = 1..n
      /\ \A i \in 1..n : ds[i] \in S
  OBVIOUS
<1> USE DEF WeakOrder, GoesAhead
<1>2. \A i, j \in 1..n : <<i, j>> \in A <=> Ahead(i, j)
  OBVIOUS
<1>3. \A i \in 1..n : ~ Ahead(i, i)
  BY <1>1
<1>4. ASSUME NEW i \in 1..n, NEW j \in 1..n, NEW k \in 1..n,
             Ahead(i, j), Ahead(j, k)
      PROVE  Ahead(i, k)
  <2>1. ds[i] \in S /\ ds[j] \in S /\ ds[k] \in S
    BY <1>1
  <2>2. <<ds[j], ds[i]>> \notin L /\ <<ds[k], ds[j]>> \notin L
    BY <1>4, <2>1
  <2>3. <<ds[k], ds[i]>> \notin L
    BY <2>1, <2>2
  <2>4. CASE <<ds[i], ds[j]>> \in L
    <3>1. <<ds[i], ds[k]>> \in L
      BY <2>1, <2>2, <2>4
    <3> QED BY <3>1
  <2>5. CASE <<ds[j], ds[k]>> \in L
    <3>1. <<ds[i], ds[k]>> \in L
      BY <2>1, <2>2, <2>5
    <3> QED BY <3>1
  <2>6. CASE <<ds[i], ds[j]>> \notin L /\ <<ds[j], ds[k]>> \notin L
    <3>1. i < j /\ j < k
      BY <1>4, <2>6
    <3>2. i < k
      BY <3>1
    <3> QED BY <2>3, <3>2
  <2> QED BY <2>4, <2>5, <2>6
<1>5. ASSUME NEW i \in 1..n, NEW j \in 1..n, i # j
      PROVE  Ahead(i, j) \/ Ahead(j, i)
  <2>1. i < j \/ j < i
    BY <1>5
  <2> QED BY <2>1
<1> HIDE DEF Ahead, WeakOrder, GoesAhead
<1>6. /\ \A i \in 1..n : <<i, i>> \notin A
      /\ \A i, j, k \in 1..n : <<i, j>> \in A /\ <<j, k>> \in A => <<i, k>> \in A
      /\ \A i, j \in 1..n : i # j => <<i, j>> \in A \/ <<j, i>> \in A
  BY <1>2, <1>3, <1>4, <1>5
<1> DEFINE Rank(j) == RankOf(ds, L, j)
           Count(j) == Cardinality({ m \in 1..n : <<m, j>> \in A })
<1>7. ASSUME NEW j \in 1..n PROVE Count(j) = Rank(j)
  <2>1. { m \in 1..n : <<m, j>> \in A } = { m \in DOMAIN ds : Ahead(m, j) }
    BY <1>1, <1>2
  <2> QED BY <2>1 DEF Ahead, RankOf
<1> HIDE DEF A, Rank
<1>8. /\ \A i, j \in 1..n : <<i, j>> \in A <=> Count(i) < Count(j)
      /\ \A k \in 1..n : \E j \in 1..n : Count(j) = k - 1
  <2> HIDE DEF n
  <2> QED BY <1>1, <1>6, RanksCount
<1> HIDE DEF Count, n
<1>9. /\ \A i, j \in 1..n : Ahead(i, j) <=> Rank(i) < Rank(j)
      /\ \A k \in 1..n : \E j \in 1..n : Rank(j) = k - 1
  <2>1. ASSUME NEW i \in 1..n, NEW j \in 1..n
        PROVE  Ahead(i, j) <=> Rank(i) < Rank(j)
    <3>1. Count(i) = Rank(i) /\ Count(j) = Rank(j)
      BY <1>7
    <3>2. <<i, j>> \in A <=> Count(i) < Count(j)
      BY <1>8
    <3>3. <<i, j>> \in A <=> Rank(i) < Rank(j)
      BY <3>1, <3>2, Zenon
    <3> QED BY <3>3, <1>2, Zenon
  <2>2. ASSUME NEW k \in 1..n PROVE \E j \in 1..n : Rank(j) = k - 1
    BY <1>7, <1>8
  <2> QED BY <2>1, <2>2
<1>10. /\ \A i, j \in DOMAIN ds : Ahead(i, j) <=> Rank(i) < Rank(j)
       /\ \A k \in DOMAIN ds : \E j \in DOMAIN ds : Rank(j) = k - 1
  BY <1>1, <1>9
<1> QED BY <1>10 DEF Ahead, Rank

\* Whoever takes the index of rank k - 1 for place k permutes the indices, and
\* puts the ones ahead ahead.
LEMMA SortPermutes ==
  ASSUME NEW S, NEW ds \in Seq(S), NEW L, WeakOrder(L, S),
         NEW p, p = SortedFrom(ds, L)
  PROVE  /\ p \in Bijection(DOMAIN ds, DOMAIN ds)
         /\ \A j, k \in DOMAIN ds : j < k => GoesAhead(ds, L, p[j], p[k])
<1> DEFINE D == DOMAIN ds
           Ahead(i, j) == GoesAhead(ds, L, i, j)
           Rank(j) == RankOf(ds, L, j)
<1>1. /\ \A i, j \in D : Ahead(i, j) <=> Rank(i) < Rank(j)
      /\ \A k \in D : \E j \in D : Rank(j) = k - 1
  BY SortRanks, Zenon
<1>2. D = 1..Len(ds) /\ Len(ds) \in Nat
  OBVIOUS
<1>3. p = [k \in D |-> CHOOSE j \in D : Rank(j) = k - 1]
  BY Zenon DEF SortedFrom
<1> HIDE DEF Rank, Ahead, D
<1>4. ASSUME NEW k \in D PROVE p[k] \in D /\ Rank(p[k]) = k - 1
  <2>1. \E j \in D : Rank(j) = k - 1
    BY <1>1
  <2>2. p[k] = CHOOSE j \in D : Rank(j) = k - 1
    BY <1>3
  <2> QED BY <2>1, <2>2
<1>5. ASSUME NEW j \in D, NEW k \in D, j < k PROVE Ahead(p[j], p[k])
  <2>1. j - 1 < k - 1
    BY <1>2, <1>5
  <2>2. Rank(p[j]) < Rank(p[k])
    BY <1>4, <2>1, Zenon
  <2> QED BY <1>1, <1>4, <2>2, Zenon
<1>6. p \in [D -> D]
  BY <1>3, <1>4
<1>7. ASSUME NEW j \in D, NEW k \in D, p[j] = p[k] PROVE j = k
  <2>1. j - 1 = k - 1
    BY <1>4, <1>7
  <2> QED BY <1>2, <2>1
<1>8. p \in Injection(D, D)
  BY <1>6, <1>7 DEF Injection, IsInjective
<1>9. IsFiniteSet(D)
  BY <1>2, FS_Interval
<1>10. p \in Surjection(D, D)
  BY <1>8, <1>9, FS_Injection
<1> QED BY <1>5, <1>8, <1>10 DEF D, Ahead, Bijection

\* A permuted sequence has the same elements.
LEMMA PermutedElements ==
  ASSUME NEW S, NEW ds \in Seq(S), NEW p \in Bijection(DOMAIN ds, DOMAIN ds),
         NEW s, s = Permuted(ds, p)
  PROVE  /\ s \in Seq(S) /\ Len(s) = Len(ds) /\ DOMAIN s = DOMAIN ds
         /\ ToSet(s) = ToSet(ds)
<1>1. /\ p \in [DOMAIN ds -> DOMAIN ds]
      /\ \A m \in DOMAIN ds : \E k \in DOMAIN ds : p[k] = m
  BY DEF Bijection, Injection, Surjection
<1>2. DOMAIN ds = 1..Len(ds) /\ Len(ds) \in Nat /\ DOMAIN s = DOMAIN ds
  BY DEF Permuted
<1>3. \A k \in DOMAIN ds : p[k] \in DOMAIN ds /\ ds[p[k]] \in S
  BY <1>1
<1>4. s \in Seq(S) /\ Len(s) = Len(ds)
  BY <1>2, <1>3 DEF Permuted
<1>5. ToSet(s) = ToSet(ds)
  BY <1>1, <1>2 DEF ToSet, Permuted
<1> QED BY <1>2, <1>4, <1>5

\* The sorted copy has the elements of its argument, and nothing is behind
\* something it goes before; a sequence in order is its own sorted copy.
LEMMA SortedCopy ==
  ASSUME NEW S, NEW ds \in Seq(S), NEW L, WeakOrder(L, S),
         NEW p, p = SortedFrom(ds, L),
         NEW s, s = Permuted(ds, p)
  PROVE  /\ s \in Seq(S) /\ Len(s) = Len(ds) /\ ToSet(s) = ToSet(ds)
         /\ \A j, k \in DOMAIN s : j < k => <<s[k], s[j]>> \notin L
         /\ (\A j, k \in DOMAIN ds : j < k => <<ds[k], ds[j]>> \notin L)
              => s = ds
<1>1. /\ p \in Bijection(DOMAIN ds, DOMAIN ds)
      /\ \A j, k \in DOMAIN ds : j < k => GoesAhead(ds, L, p[j], p[k])
  BY SortPermutes, Zenon
<1>2. /\ s \in Seq(S) /\ Len(s) = Len(ds) /\ DOMAIN s = DOMAIN ds
      /\ ToSet(s) = ToSet(ds)
  BY <1>1, PermutedElements, Zenon
<1>3. DOMAIN ds = 1..Len(ds) /\ Len(ds) \in Nat
  OBVIOUS
<1>4. \A k \in DOMAIN ds : p[k] \in DOMAIN ds /\ ds[p[k]] \in S /\ s[k] \in S
  BY <1>1, <1>2 DEF Bijection, Injection, Permuted
<1>5. ASSUME NEW j \in DOMAIN s, NEW k \in DOMAIN s, j < k
      PROVE  <<s[k], s[j]>> \notin L
  <2>1. GoesAhead(ds, L, p[j], p[k]) /\ s[j] = ds[p[j]] /\ s[k] = ds[p[k]]
    BY <1>1, <1>2, <1>5 DEF Permuted
  <2>2. <<s[j], s[k]>> \in L \/ <<s[k], s[j]>> \notin L
    BY <2>1 DEF GoesAhead
  <2> QED BY <1>2, <1>4, <2>2 DEF WeakOrder
<1>6. ASSUME \A j, k \in DOMAIN ds : j < k => <<ds[k], ds[j]>> \notin L
      PROVE  s = ds
  <2>1. ASSUME NEW j \in DOMAIN ds PROVE RankOf(ds, L, j) = j - 1
    <3>1. \A i \in DOMAIN ds : ds[i] \in S
      OBVIOUS
    <3>2. ASSUME NEW i \in DOMAIN ds PROVE GoesAhead(ds, L, i, j) <=> i < j
      <4>1. CASE i < j
        BY <1>6, <4>1 DEF GoesAhead
      <4>2. CASE ~ (i < j)
        <5>1. i = j \/ j < i
          BY <1>3, <4>2
        <5>2. <<ds[i], ds[j]>> \notin L
          BY <1>6, <3>1, <5>1 DEF WeakOrder
        <5> QED BY <4>2, <5>2 DEF GoesAhead
      <4> QED BY <4>1, <4>2
    <3>3. { i \in DOMAIN ds : GoesAhead(ds, L, i, j) } = 1..(j - 1)
      <4>1. j \in 1..Len(ds)
        BY <1>3
      <4> HIDE DEF GoesAhead
      <4> QED BY <1>3, <3>2, <4>1
    <3>4. Cardinality(1..(j - 1)) = j - 1
      BY <1>3, FS_Interval
    <3> QED BY <3>3, <3>4 DEF RankOf
  <2>2. ASSUME NEW k \in DOMAIN ds PROVE p[k] = k
    <3>1. p[k] = CHOOSE j \in DOMAIN ds : RankOf(ds, L, j) = k - 1
      BY DEF SortedFrom
    <3>2. RankOf(ds, L, p[k]) = k - 1 /\ p[k] \in DOMAIN ds
      BY <2>1, <3>1
    <3> QED BY <1>3, <2>1, <3>2
  <2>3. \A k \in DOMAIN ds : s[k] = ds[k]
    BY <2>2 DEF Permuted
  <2> QED BY <1>2, <2>3
<1> QED BY <1>2, <1>5, <1>6

-----------------------------------------------------------------------------
(***************************************************************************)
(* Folds                                                                   *)
(***************************************************************************)
\* it folds the subsets of 1..n: ch names the element a set gives up last.
FoldsWith(it, n, base, step, ch) ==
  \A t \in SUBSET (1..n) :
    it[t] = IF t = {} THEN base ELSE step[<<it[t \ {ch[t]}], ch[t]>>]

\* What a fold over a finite set computes exists, and is found element by element.
LEMMA FoldExists ==
  ASSUME NEW n \in Nat, NEW A, NEW base \in A,
         NEW step \in [A \X (1..n) -> A], NEW ch,
         \A t \in SUBSET (1..n) : t # {} => ch[t] \in t
  PROVE  \E it \in [SUBSET (1..n) -> A] : FoldsWith(it, n, base, step, ch)
<1> DEFINE Small(k) == { t \in SUBSET (1..n) : Cardinality(t) <= k }
           Fold(it, t) == IF t = {} THEN base
                          ELSE step[<<it[t \ {ch[t]}], ch[t]>>]
           Upto(it, k) == \A t \in Small(k) : it[t] = Fold(it, t)
           T == { k \in 0..n : \E it \in [Small(k) -> A] : Upto(it, k) }
<1>1. ASSUME NEW t \in SUBSET (1..n)
      PROVE  /\ Cardinality(t) \in Nat /\ Cardinality(t) <= n
             /\ Cardinality(t) = 0 <=> t = {}
             /\ \A x \in t : Cardinality(t \ {x}) = Cardinality(t) - 1
  <2> DEFINE D == 1..n
  <2>1. IsFiniteSet(D) /\ Cardinality(D) = n /\ t \in SUBSET D
    BY FS_Interval
  <2> HIDE DEF D
  <2>2. IsFiniteSet(t) /\ Cardinality(t) <= n
    BY <2>1, FS_Subset
  <2> QED BY <2>2, FS_CardinalityType, FS_EmptySet, FS_RemoveElement
<1>2. 0 \in T
  <2> DEFINE it == [t \in Small(0) |-> base]
  <2>1. \A t \in Small(0) : t = {}
    BY <1>1
  <2>2. it \in [Small(0) -> A]
    OBVIOUS
  <2>3. Upto(it, 0)
    BY <2>1
  <2> HIDE DEF it, Upto, Small
  <2> QED BY <2>2, <2>3
<1>3. ASSUME NEW k \in 0..(n - 1), k \in T PROVE k + 1 \in T
  <2>1. PICK it \in [Small(k) -> A] : Upto(it, k)
    BY <1>3
  <2> DEFINE jt == [t \in Small(k + 1) |-> Fold(it, t)]
  <2>2. ASSUME NEW t \in Small(k + 1), t # {}
        PROVE  t \ {ch[t]} \in Small(k) /\ ch[t] \in 1..n
    <3>1. t \in SUBSET (1..n) /\ ch[t] \in t
      BY <2>2
    <3>2. Cardinality(t \ {ch[t]}) = Cardinality(t) - 1
      BY <1>1, <3>1
    <3>3. Cardinality(t) \in Nat /\ Cardinality(t) <= k + 1
      BY <1>1, <3>1
    <3>4. Cardinality(t \ {ch[t]}) <= k
      BY <3>2, <3>3
    <3>5. t \ {ch[t]} \in SUBSET (1..n) /\ ch[t] \in 1..n
      BY <3>1
    <3> QED BY <3>4, <3>5, Zenon
  <2>3. \A t \in Small(k) : t \in Small(k + 1)
    BY <1>1
  <2>4. jt \in [Small(k + 1) -> A]
    <3> SUFFICES ASSUME NEW t \in Small(k + 1) PROVE Fold(it, t) \in A
      OBVIOUS
    <3>1. CASE t = {}
      BY <3>1
    <3>2. CASE t # {}
      <4>1. t \ {ch[t]} \in Small(k) /\ ch[t] \in 1..n
        BY <2>2, <3>2
      <4> HIDE DEF Small
      <4>2. it[t \ {ch[t]}] \in A
        BY <4>1
      <4> QED BY <3>2, <4>1, <4>2
    <3> QED BY <3>1, <3>2
  <2> HIDE DEF Small
  <2>5. \A t \in Small(k) : jt[t] = it[t]
    BY <2>1, <2>3
  <2>6. Upto(jt, k + 1)
    <3> SUFFICES ASSUME NEW t \in Small(k + 1) PROVE jt[t] = Fold(jt, t)
      OBVIOUS
    <3>1. jt[t] = Fold(it, t)
      OBVIOUS
    <3> HIDE DEF jt
    <3>2. CASE t = {}
      BY <3>1, <3>2
    <3>3. CASE t # {}
      <4>1. jt[t \ {ch[t]}] = it[t \ {ch[t]}]
        BY <2>2, <2>5, <3>3
      <4> QED BY <3>1, <3>3, <4>1
    <3> QED BY <3>2, <3>3
  <2>7. k + 1 \in 0..n
    BY <1>3
  <2> HIDE DEF jt, Upto
  <2> QED BY <2>4, <2>6, <2>7
<1>4. n \in T
  <2> HIDE DEF T
  <2>1. \A k \in 0..n : k \in T
    BY <1>2, <1>3, InductionUpTo
  <2> QED BY <2>1
<1>5. PICK it \in [Small(n) -> A] : Upto(it, n)
  BY <1>4
<1>6. Small(n) = SUBSET (1..n)
  BY <1>1
<1> HIDE DEF Small
<1>7. it \in [SUBSET (1..n) -> A] /\ FoldsWith(it, n, base, step, ch)
  BY <1>5, <1>6 DEF FoldsWith
<1> QED BY <1>7

\* Min of a set of numbers up to n is its least element.
LEMMA LeastIn ==
  ASSUME NEW n \in Nat, NEW t \in SUBSET (1..n), t # {}
  PROVE  Min(t) \in t /\ \A y \in t : Min(t) <= y
<1>1. t \subseteq Nat
  OBVIOUS
<1>2. \E x \in t : \A y \in t : x <= y
  BY <1>1, LeastNumber
<1> QED BY <1>2 DEF Min

\* Max of a set of numbers up to n is its greatest element.
LEMMA GreatestIn ==
  ASSUME NEW n \in Nat, NEW t \in SUBSET (1..n), t # {}
  PROVE  Max(t) \in t /\ \A y \in t : y <= Max(t)
<1> DEFINE C == { n - y : y \in t }
<1>1. C \subseteq Nat /\ C # {}
  <2>1. \A y \in t : y \in 1..n
    OBVIOUS
  <2>2. \A y \in 1..n : n - y \in Nat
    OBVIOUS
  <2>3. \A y \in t : n - y \in Nat
    BY <2>1, <2>2
  <2> QED BY <2>3
<1>2. \E x \in C : \A y \in C : x <= y
  <2> HIDE DEF C
  <2> QED BY <1>1, LeastNumber
<1>3. PICK x \in t : \A y \in t : n - x <= n - y
  BY <1>2
<1>4. ASSUME NEW y \in t PROVE x >= y
  <2>1. n - x <= n - y /\ x \in Nat /\ y \in Nat
    BY <1>3
  <2> QED BY <2>1
<1>5. \E m \in t : \A y \in t : m >= y
  BY <1>4
<1>6. Max(t) \in t /\ \A y \in t : Max(t) >= y
  BY <1>5, Zenon DEF Max
<1>7. \A y \in t : y \in Nat
  OBVIOUS
<1>8. ASSUME NEW y \in t PROVE y <= Max(t)
  <2>1. Max(t) >= y /\ Max(t) \in Nat /\ y \in Nat
    BY <1>6, <1>7
  <2> QED BY <2>1
<1> QED BY <1>6, <1>8

-----------------------------------------------------------------------------
(***************************************************************************)
(* The order of detections                                                 *)
(***************************************************************************)
AreDetections(S) ==
  \A d \in S :
    /\ d = [type |-> d.type, start |-> d.start, end |-> d.end, conf |-> d.conf]
    /\ d.type \in Int /\ d.start \in Int /\ d.end \in Int /\ d.conf \in Int

\* The less function is total: two detections neither of which goes before
\* the other are the same.
LEMMA BeforeIsTotal ==
  ASSUME NEW S, AreDetections(S), NEW a \in S, NEW b \in S
  PROVE  Before(a, b) \/ Before(b, a) \/ a = b
<1>1. /\ a.type \in Int /\ a.start \in Int /\ a.end \in Int /\ a.conf \in Int
      /\ b.type \in Int /\ b.start \in Int /\ b.end \in Int /\ b.conf \in Int
  BY DEF AreDetections
<1> SUFFICES ASSUME ~ Before(a, b), ~ Before(b, a) PROVE a = b
  OBVIOUS
<1>2. a.conf = b.conf /\ a.end - a.start = b.end - b.start
        /\ a.start = b.start /\ a.type = b.type
  BY <1>1 DEF Before, Size
<1>3. a.end = b.end
  BY <1>1, <1>2
<1>4. /\ a = [type |-> a.type, start |-> a.start, end |-> a.end, conf |-> a.conf]
      /\ b = [type |-> b.type, start |-> b.start, end |-> b.end, conf |-> b.conf]
  BY DEF AreDetections
<1> QED BY <1>2, <1>3, <1>4

\* It is asymmetric, hence irreflexive.
LEMMA BeforeIsAsymmetric ==
  ASSUME NEW S, AreDetections(S), NEW a \in S, NEW b \in S, Before(a, b)
  PROVE  ~ Before(b, a)
<1>1. /\ a.type \in Int /\ a.start \in Int /\ a.end \in Int /\ a.conf \in Int
      /\ b.type \in Int /\ b.start \in Int /\ b.end \in Int /\ b.conf \in Int
  BY DEF AreDetections
<1> QED BY <1>1 DEF Before, Size

\* It is transitive.
LEMMA BeforeIsTransitive ==
  ASSUME NEW S, AreDetections(S), NEW a \in S, NEW b \in S, NEW c \in S,
         Before(a, b), Before(b, c)
  PROVE  Before(a, c)
<1>1. /\ a.type \in Int /\ a.start \in Int /\ a.end \in Int /\ a.conf \in Int
      /\ b.type \in Int /\ b.start \in Int /\ b.end \in Int /\ b.conf \in Int
      /\ c.type \in Int /\ c.start \in Int /\ c.end \in Int /\ c.conf \in Int
  BY DEF AreDetections
<1> QED BY <1>1 DEF Before, Size

\* Sharing a byte is symmetric.
LEMMA IntersectIsSymmetric ==
  ASSUME NEW a, NEW b, Intersect(a, b)
  PROVE  Intersect(b, a)
BY DEF Intersect

\* The sorted copy has the elements of the argument, and nothing is behind
\* something it goes before; a sequence in order is its own sorted copy.
LEMMA SortedByBefore ==
  ASSUME NEW S, AreDetections(S), NEW ds \in Seq(S),
         NEW s, s = StableSort(ds, Before)
  PROVE  /\ s \in Seq(S) /\ Len(s) = Len(ds) /\ ToSet(s) = ToSet(ds)
         /\ \A j, k \in DOMAIN s : j < k => ~ Before(s[k], s[j])
         /\ (\A j, k \in DOMAIN ds : j < k => ~ Before(ds[k], ds[j]))
              => s = ds
<1> DEFINE L == { q \in S \X S : Before(q[1], q[2]) }
           p == SortedFrom(ds, L)
<1>1. \A a, b \in S : <<a, b>> \in L <=> Before(a, b)
  OBVIOUS
<1>2. WeakOrder(L, S)
  <2> HIDE DEF L
  <2>1. ASSUME NEW a \in S, NEW b \in S, NEW c \in S, ~ Before(a, b), ~ Before(b, c)
        PROVE  ~ Before(a, c)
    BY <2>1, BeforeIsTotal, BeforeIsTransitive, BeforeIsAsymmetric
  <2> QED BY <1>1, <2>1, BeforeIsAsymmetric, BeforeIsTransitive DEF WeakOrder
<1>3. \A i \in DOMAIN ds : ds[i] \in S
  OBVIOUS
<1>4. ASSUME NEW j \in DOMAIN ds
      PROVE  RankOf(ds, L, j)
               = Cardinality({ i \in DOMAIN ds :
                                 \/ Before(ds[i], ds[j])
                                 \/ ~ Before(ds[j], ds[i]) /\ i < j })
  <2> HIDE DEF L
  <2>1. { i \in DOMAIN ds : GoesAhead(ds, L, i, j) }
          = { i \in DOMAIN ds : \/ Before(ds[i], ds[j])
                                \/ ~ Before(ds[j], ds[i]) /\ i < j }
    BY <1>1, <1>3 DEF GoesAhead
  <2> QED BY <2>1 DEF RankOf
<1>5. s = Permuted(ds, p)
  <2> DEFINE q == [k \in DOMAIN ds |->
                     CHOOSE j \in DOMAIN ds :
                       Cardinality({ i \in DOMAIN ds :
                                       \/ Before(ds[i], ds[j])
                                       \/ ~ Before(ds[j], ds[i]) /\ i < j })
                         = k - 1]
  <2>1. s = [k \in DOMAIN ds |-> ds[q[k]]]
    <3>1. s = [k \in DOMAIN ds |->
                 ds[CHOOSE j \in DOMAIN ds :
                      Cardinality({ i \in DOMAIN ds :
                                      \/ Before(ds[i], ds[j])
                                      \/ ~ Before(ds[j], ds[i]) /\ i < j })
                        = k - 1]]
      BY Zenon DEF StableSort
    <3> QED BY <3>1
  <2> HIDE DEF L
  <2>2. ASSUME NEW k \in DOMAIN ds PROVE p[k] = q[k]
    <3> DEFINE Count(j) == Cardinality({ i \in DOMAIN ds :
                                           \/ Before(ds[i], ds[j])
                                           \/ ~ Before(ds[j], ds[i]) /\ i < j })
    <3>1. p[k] = CHOOSE j \in DOMAIN ds : RankOf(ds, L, j) = k - 1
      BY DEF SortedFrom
    <3>2. q[k] = CHOOSE j \in DOMAIN ds : Count(j) = k - 1
      OBVIOUS
    <3>3. \A j \in DOMAIN ds : RankOf(ds, L, j) = Count(j)
      BY <1>4
    <3> HIDE DEF p, q, Count
    <3> QED BY <3>1, <3>2, <3>3, Zenon
  <2> HIDE DEF p, q
  <2> QED BY <2>1, <2>2 DEF Permuted
<1>6. p = SortedFrom(ds, L)
  OBVIOUS
<1> HIDE DEF p, L
<1>7. /\ s \in Seq(S) /\ Len(s) = Len(ds) /\ ToSet(s) = ToSet(ds)
      /\ \A j, k \in DOMAIN s : j < k => <<s[k], s[j]>> \notin L
      /\ (\A j, k \in DOMAIN ds : j < k => <<ds[k], ds[j]>> \notin L)
           => s = ds
  BY <1>2, <1>5, <1>6, SortedCopy, Zenon
<1>8. \A k \in DOMAIN s : s[k] \in S
  BY <1>7
<1> QED BY <1>1, <1>3, <1>7, <1>8
-----------------------------------------------------------------------------
(***************************************************************************)
(* The greedy loop                                                         *)
(***************************************************************************)
LEMMA KeepType ==
  ASSUME NEW S, NEW chosen \in Seq(S), NEW d \in S
  PROVE  Keep(chosen, d) \in Seq(S)
BY DEF Keep

\* The fold goes through the states of the loop.
LEMMA KeepSteps ==
  ASSUME NEW S, NEW s \in Seq(S)
  PROVE  \E f \in [0..Len(s) -> Seq(S)] :
           /\ f[0] = <<>>
           /\ \A k \in 1..Len(s) : f[k] = Keep(f[k - 1], s[k])
           /\ FoldLeft(Keep, <<>>, s) = f[Len(s)]
<1> DEFINE n == Len(s)
           A == Seq(S)
           step == [q \in A \X (1..n) |-> Keep(q[1], s[q[2]])]
           ch == [t \in SUBSET (1..n) |-> Max(t)]
           Folds(it) == it = [t \in SUBSET (1..n) |->
                                IF t = {} THEN <<>>
                                ELSE Keep(it[t \ {Max(t)}], s[Max(t)])]
           it0 == CHOOSE it : Folds(it)
<1>1. n \in Nat /\ DOMAIN s = 1..n /\ <<>> \in A /\ \A k \in 1..n : s[k] \in S
  OBVIOUS
<1>2. FoldLeft(Keep, <<>>, s) = it0[1..n]
  <2>1. FoldLeft(Keep, <<>>, s) =
          (CHOOSE it : it = [t \in SUBSET DOMAIN s |->
                               IF t = {} THEN <<>>
                               ELSE Keep(it[t \ {Max(t)}], s[Max(t)])])[DOMAIN s]
    BY Zenon DEF FoldLeft, MapThenFoldSet
  <2>2. DOMAIN s = 1..n
    BY <1>1
  <2> HIDE DEF n
  <2> QED BY <2>1, <2>2, Zenon
<1>3. step \in [A \X (1..n) -> A]
  BY <1>1, KeepType
<1>4. ASSUME NEW t \in SUBSET (1..n), t # {}
      PROVE  Max(t) \in t /\ ch[t] = Max(t) /\ \A y \in t : y <= Max(t)
  BY <1>1, <1>4, GreatestIn
<1>5. \E it \in [SUBSET (1..n) -> A] : FoldsWith(it, n, <<>>, step, ch)
  <2>1. \A t \in SUBSET (1..n) : t # {} => ch[t] \in t
    BY <1>4
  <2> HIDE DEF step, ch, A, n
  <2> QED BY <1>1, <1>3, <2>1, FoldExists
<1> HIDE DEF A, n, ch
<1>6. \E it : Folds(it)
  <2>1. PICK it \in [SUBSET (1..n) -> A] : FoldsWith(it, n, <<>>, step, ch)
    BY <1>5
  <2>2. ASSUME NEW t \in SUBSET (1..n)
        PROVE  it[t] = IF t = {} THEN <<>> ELSE Keep(it[t \ {Max(t)}], s[Max(t)])
    <3>1. CASE t = {}
      BY <2>1, <3>1 DEF FoldsWith
    <3>2. CASE t # {}
      <4>1. ch[t] = Max(t) /\ Max(t) \in 1..n /\ t \ {Max(t)} \in SUBSET (1..n)
        BY <1>4, <3>2
      <4>2. it[t] = step[<<it[t \ {Max(t)}], Max(t)>>]
        BY <2>1, <3>2, <4>1 DEF FoldsWith
      <4>3. it[t \ {Max(t)}] \in A
        BY <4>1
      <4> QED BY <3>2, <4>1, <4>2, <4>3
    <3> QED BY <3>1, <3>2
  <2>3. Folds(it)
    BY <2>2
  <2> QED BY <2>3
<1>7. Folds(it0)
  <2> HIDE DEF Folds
  <2> QED BY <1>6
<1> HIDE DEF it0
<1> DEFINE f == [k \in 0..n |-> it0[1..k]]
<1>8. f[0] = <<>>
  <2>1. 1..0 = {} /\ {} \in SUBSET (1..n) /\ 0 \in 0..n
    BY <1>1
  <2> QED BY <1>7, <2>1
<1>9. ASSUME NEW k \in 1..n PROVE f[k] = Keep(f[k - 1], s[k])
  <2>0. /\ k \in 1..k /\ k \in 0..n /\ k - 1 \in 0..n
        /\ \A m \in 1..k : m \in 1..n
    BY <1>1
  <2>1. /\ 1..k \in SUBSET (1..n) /\ 1..k # {} /\ k \in 1..k
        /\ k \in 0..n /\ k - 1 \in 0..n
    BY <2>0
  <2>2. Max(1..k) \in 1..k /\ \A y \in 1..k : y <= Max(1..k)
    BY <1>4, <2>1
  <2>3. Max(1..k) = k
    BY <2>1, <2>2
  <2>4. (1..k) \ {k} = 1..(k - 1)
    BY <2>1
  <2>5. it0[1..k] = Keep(it0[(1..k) \ {Max(1..k)}], s[Max(1..k)])
    BY <1>7, <2>1
  <2>6. it0[1..k] = Keep(it0[1..(k - 1)], s[k])
    BY <2>3, <2>4, <2>5
  <2> QED BY <2>1, <2>6
<1>10. FoldLeft(Keep, <<>>, s) = f[n]
  <2>1. n \in 0..n
    BY <1>1
  <2> QED BY <1>2, <2>1
<1>11. ASSUME NEW k \in 0..n PROVE f[k] \in A
  <2> HIDE DEF f
  <2> DEFINE T == { m \in 0..n : f[m] \in A }
  <2>1. 0 \in T
    BY <1>1, <1>8
  <2>2. ASSUME NEW m \in 0..(n - 1), m \in T PROVE m + 1 \in T
    <3>1. m + 1 \in 1..n /\ m + 1 \in 0..n /\ (m + 1) - 1 = m
      BY <1>1
    <3>2. f[m + 1] = Keep(f[m], s[m + 1])
      BY <1>9, <3>1
    <3>3. f[m] \in A /\ s[m + 1] \in S
      BY <1>1, <2>2, <3>1
    <3> QED BY <3>1, <3>2, <3>3, KeepType DEF A
  <2>3. \A m \in 0..n : m \in T
    <3> HIDE DEF T
    <3> QED BY <1>1, <2>1, <2>2, InductionUpTo
  <2> QED BY <2>3
<1>12. f \in [0..n -> A]
  <2>1. f = [k \in 0..n |-> f[k]]
    OBVIOUS
  <2> HIDE DEF f
  <2> QED BY <1>11, <2>1
<1> HIDE DEF f
<1> QED BY <1>8, <1>9, <1>10, <1>12 DEF A, n

\* One candidate: kept behind the others, or the list is as it was.
LEMMA KeepCases ==
  ASSUME NEW S, NEW chosen \in Seq(S), NEW d \in S
  PROVE  \/ /\ Size(d) > 0 /\ \A k \in DOMAIN chosen : ~ Intersect(d, chosen[k])
            /\ Len(Keep(chosen, d)) = Len(chosen) + 1
            /\ \A k \in 1..Len(chosen) : Keep(chosen, d)[k] = chosen[k]
            /\ Keep(chosen, d)[Len(chosen) + 1] = d
         \/ /\ ~ (Size(d) > 0 /\ \A k \in DOMAIN chosen : ~ Intersect(d, chosen[k]))
            /\ Keep(chosen, d) = chosen
<1>1. CASE Size(d) > 0 /\ \A k \in DOMAIN chosen : ~ Intersect(d, chosen[k])
  <2>1. Keep(chosen, d) = Append(chosen, d)
    BY <1>1 DEF Keep
  <2>2. /\ Len(Append(chosen, d)) = Len(chosen) + 1
        /\ \A k \in 1..Len(chosen) : Append(chosen, d)[k] = chosen[k]
        /\ Append(chosen, d)[Len(chosen) + 1] = d
    BY AppendProperties
  <2> HIDE DEF Intersect, Size
  <2> QED BY <1>1, <2>1, <2>2
<1>2. CASE ~ (Size(d) > 0 /\ \A k \in DOMAIN chosen : ~ Intersect(d, chosen[k]))
  BY <1>2 DEF Keep
<1> QED BY <1>1, <1>2

\* No candidate is behind something it goes before.
Ordered(s) == \A j, k \in DOMAIN s : j < k => ~ Before(s[k], s[j])

\* What no two places share.
Apart(s) == \A j, k \in DOMAIN s : j # k => ~ Intersect(s[j], s[k])

HaveSpans(s) == \A k \in DOMAIN s : Size(s[k]) > 0

\* c is what the loop has kept of s[1] to s[m].
KeptOf(c, s, m) ==
  /\ Ordered(c) /\ Apart(c) /\ HaveSpans(c)
  /\ \A k \in DOMAIN c : \E j \in 1..m : c[k] = s[j]
  /\ \A j \in 1..m :
       \/ \E k \in DOMAIN c : c[k] = s[j]
       \/ ~ (Size(s[j]) > 0)
       \/ \E k \in DOMAIN c : Before(c[k], s[j]) /\ Intersect(c[k], s[j])

\* The invariant of the loop outlives one candidate.
LEMMA KeepsOneMore ==
  ASSUME NEW S, AreDetections(S), NEW s \in Seq(S), Ordered(s),
         NEW c \in Seq(S), NEW m \in 0..(Len(s) - 1), KeptOf(c, s, m)
  PROVE  KeptOf(Keep(c, s[m + 1]), s, m + 1)
<1> DEFINE d == s[m + 1]
           e == Keep(c, d)
<1>1. /\ m \in Nat /\ m + 1 \in DOMAIN s /\ d \in S
      /\ \A j \in 1..m : j \in 1..(m + 1) /\ j \in DOMAIN s /\ j < m + 1
      /\ \A j \in 1..(m + 1) : j \in 1..m \/ j = m + 1
      /\ m + 1 \in 1..(m + 1)
      /\ DOMAIN c = 1..Len(c) /\ Len(c) \in Nat
      /\ \A k \in DOMAIN c : c[k] \in S
      /\ \A j \in DOMAIN s : s[j] \in S
  OBVIOUS
<1>2. \A k \in DOMAIN c : ~ Before(d, c[k])
  <2> SUFFICES ASSUME NEW k \in DOMAIN c PROVE ~ Before(d, c[k])
    OBVIOUS
  <2>1. PICK j \in 1..m : c[k] = s[j]
    BY DEF KeptOf
  <2> QED BY <1>1, <2>1 DEF Ordered
<1> HIDE DEF d, e
<1>3. CASE /\ Size(d) > 0 /\ \A k \in DOMAIN c : ~ Intersect(d, c[k])
           /\ Len(e) = Len(c) + 1
           /\ \A k \in 1..Len(c) : e[k] = c[k]
           /\ e[Len(c) + 1] = d
  <2> DEFINE n == Len(c)
  <2>1. e \in Seq(S)
    BY <1>1, KeepType DEF e
  <2>2. /\ DOMAIN e = 1..(n + 1) /\ DOMAIN c = 1..n /\ n \in Nat
        /\ n + 1 \in DOMAIN e
        /\ \A k \in DOMAIN c : k \in DOMAIN e /\ e[k] = c[k] /\ k < n + 1
        /\ \A k \in DOMAIN e : k \in DOMAIN c \/ k = n + 1
    BY <1>1, <1>3, <2>1
  <2>3. e[n + 1] = d
    BY <1>3
  <2> HIDE DEF n
  <2>4. Ordered(e)
    <3> SUFFICES ASSUME NEW j \in DOMAIN e, NEW k \in DOMAIN e, j < k
                 PROVE  ~ Before(e[k], e[j])
      BY DEF Ordered
    <3>1. j \in DOMAIN c
      BY <2>2
    <3>2. CASE k \in DOMAIN c
      BY <2>2, <3>1, <3>2 DEF KeptOf, Ordered
    <3>3. CASE k = n + 1
      BY <1>2, <2>2, <2>3, <3>1, <3>3
    <3> QED BY <2>2, <3>2, <3>3
  <2>5. Apart(e)
    <3> SUFFICES ASSUME NEW j \in DOMAIN e, NEW k \in DOMAIN e, j # k
                 PROVE  ~ Intersect(e[j], e[k])
      BY DEF Apart
    <3>1. CASE j \in DOMAIN c /\ k \in DOMAIN c
      BY <2>2, <3>1 DEF KeptOf, Apart
    <3>2. CASE j = n + 1 /\ k \in DOMAIN c
      BY <1>3, <2>2, <2>3, <3>2
    <3>3. CASE j \in DOMAIN c /\ k = n + 1
      BY <1>3, <2>2, <2>3, <3>3, IntersectIsSymmetric
    <3> QED BY <2>2, <3>1, <3>2, <3>3
  <2>6. HaveSpans(e)
    BY <1>3, <2>2, <2>3 DEF KeptOf, HaveSpans
  <2>7. \A k \in DOMAIN e : \E j \in 1..(m + 1) : e[k] = s[j]
    BY <1>1, <2>2, <2>3 DEF KeptOf, d
  <2>8. ASSUME NEW j \in 1..(m + 1)
        PROVE  \/ \E k \in DOMAIN e : e[k] = s[j]
               \/ ~ (Size(s[j]) > 0)
               \/ \E k \in DOMAIN e : Before(e[k], s[j]) /\ Intersect(e[k], s[j])
    <3>1. CASE j \in 1..m
      BY <2>2, <3>1 DEF KeptOf
    <3>2. CASE j = m + 1
      BY <2>2, <2>3, <3>2 DEF d
    <3> QED BY <1>1, <3>1, <3>2
  <2> QED BY <2>4, <2>5, <2>6, <2>7, <2>8 DEF KeptOf, e, d
<1>4. CASE /\ ~ (Size(d) > 0 /\ \A k \in DOMAIN c : ~ Intersect(d, c[k]))
           /\ e = c
  <2>1. \/ \E k \in DOMAIN c : c[k] = d
        \/ ~ (Size(d) > 0)
        \/ \E k \in DOMAIN c : Before(c[k], d) /\ Intersect(c[k], d)
    <3> SUFFICES ASSUME NEW k \in DOMAIN c, Intersect(d, c[k])
                 PROVE  c[k] = d \/ (Before(c[k], d) /\ Intersect(c[k], d))
      BY <1>4
    <3> QED BY <1>1, <1>2, BeforeIsTotal, IntersectIsSymmetric
  <2>2. \A k \in DOMAIN c : \E j \in 1..(m + 1) : c[k] = s[j]
    BY <1>1 DEF KeptOf
  <2>3. ASSUME NEW j \in 1..(m + 1)
        PROVE  \/ \E k \in DOMAIN c : c[k] = s[j]
               \/ ~ (Size(s[j]) > 0)
               \/ \E k \in DOMAIN c : Before(c[k], s[j]) /\ Intersect(c[k], s[j])
    <3>1. CASE j \in 1..m
      BY <3>1 DEF KeptOf
    <3>2. CASE j = m + 1
      BY <2>1, <3>2 DEF d
    <3> QED BY <1>1, <3>1, <3>2
  <2>4. KeptOf(c, s, m + 1)
    BY <2>2, <2>3 DEF KeptOf
  <2> QED BY <1>4, <2>4 DEF d, e
<1>5. \/ /\ Size(d) > 0 /\ \A k \in DOMAIN c : ~ Intersect(d, c[k])
         /\ Len(e) = Len(c) + 1
         /\ \A k \in 1..Len(c) : e[k] = c[k]
         /\ e[Len(c) + 1] = d
      \/ /\ ~ (Size(d) > 0 /\ \A k \in DOMAIN c : ~ Intersect(d, c[k]))
         /\ e = c
  BY <1>1, KeepCases DEF e
<1> QED BY <1>3, <1>4, <1>5

\* The loop over a sequence in order.
LEMMA LoopKeeps ==
  ASSUME NEW S, AreDetections(S), NEW s \in Seq(S), Ordered(s)
  PROVE  /\ FoldLeft(Keep, <<>>, s) \in Seq(S)
         /\ KeptOf(FoldLeft(Keep, <<>>, s), s, Len(s))
<1>1. PICK f \in [0..Len(s) -> Seq(S)] :
        /\ f[0] = <<>>
        /\ \A k \in 1..Len(s) : f[k] = Keep(f[k - 1], s[k])
        /\ FoldLeft(Keep, <<>>, s) = f[Len(s)]
  BY KeepSteps, Zenon
<1> DEFINE T == { m \in 0..Len(s) : KeptOf(f[m], s, m) }
<1>2. Len(s) \in Nat
  OBVIOUS
<1>3. 0 \in T
  <2>1. DOMAIN <<>> = {} /\ 1..0 = {}
    OBVIOUS
  <2>2. KeptOf(<<>>, s, 0)
    BY <2>1 DEF KeptOf, Ordered, Apart, HaveSpans
  <2>3. 0 \in 0..Len(s)
    BY <1>2
  <2> QED BY <1>1, <2>2, <2>3
<1>4. ASSUME NEW m \in 0..(Len(s) - 1), m \in T PROVE m + 1 \in T
  <2>1. m \in 0..Len(s) /\ m + 1 \in 1..Len(s) /\ m + 1 \in 0..Len(s)
          /\ (m + 1) - 1 = m
    BY <1>2
  <2>2. f[m] \in Seq(S) /\ KeptOf(f[m], s, m)
    BY <1>4, <2>1
  <2>3. KeptOf(Keep(f[m], s[m + 1]), s, m + 1)
    BY <2>2, KeepsOneMore
  <2>4. f[m + 1] = Keep(f[m], s[m + 1])
    BY <1>1, <2>1
  <2> QED BY <2>1, <2>3, <2>4
<1>5. \A m \in 0..Len(s) : m \in T
  <2> HIDE DEF T
  <2> QED BY <1>2, <1>3, <1>4, InductionUpTo
<1>6. Len(s) \in 0..Len(s)
  BY <1>2
<1> QED BY <1>1, <1>5, <1>6

\* A sequence the loop would drop nothing of is kept as it is.
LEMMA LoopKeepsAll ==
  ASSUME NEW S, NEW c \in Seq(S), Apart(c), HaveSpans(c)
  PROVE  FoldLeft(Keep, <<>>, c) = c
<1>1. PICK f \in [0..Len(c) -> Seq(S)] :
        /\ f[0] = <<>>
        /\ \A k \in 1..Len(c) : f[k] = Keep(f[k - 1], c[k])
        /\ FoldLeft(Keep, <<>>, c) = f[Len(c)]
  BY KeepSteps, Zenon
<1> DEFINE Copies(m) == /\ Len(f[m]) = m
                        /\ \A j \in 1..m : f[m][j] = c[j]
           T == { m \in 0..Len(c) : Copies(m) }
<1>2. Len(c) \in Nat /\ DOMAIN c = 1..Len(c) /\ \A k \in DOMAIN c : c[k] \in S
  OBVIOUS
<1>3. 0 \in T
  BY <1>1, <1>2
<1>4. ASSUME NEW m \in 0..(Len(c) - 1), m \in T PROVE m + 1 \in T
  <2> DEFINE g == f[m]
             d == c[m + 1]
  <2>1. /\ m \in 0..Len(c) /\ m + 1 \in 1..Len(c) /\ m + 1 \in 0..Len(c)
        /\ (m + 1) - 1 = m /\ m \in Nat /\ m + 1 \in DOMAIN c
        /\ \A j \in 1..m : j \in DOMAIN c /\ j # m + 1
        /\ \A j \in 1..(m + 1) : j \in 1..m \/ j = m + 1
    BY <1>2
  <2>2. g \in Seq(S) /\ d \in S /\ f[m + 1] = Keep(g, d)
    BY <1>1, <1>2, <2>1
  <2>3. Len(g) = m /\ \A j \in 1..m : g[j] = c[j]
    BY <1>4
  <2> HIDE DEF g, T
  <2>4. DOMAIN g = 1..m
    BY <2>2, <2>3
  <2>5. Size(d) > 0 /\ \A k \in DOMAIN g : ~ Intersect(d, g[k])
    BY <2>1, <2>3, <2>4 DEF HaveSpans, Apart
  <2> HIDE DEF d
  <2>6. /\ Len(Keep(g, d)) = m + 1
        /\ \A k \in 1..m : Keep(g, d)[k] = g[k]
        /\ Keep(g, d)[m + 1] = d
    BY <2>2, <2>3, <2>5, KeepCases
  <2>7. Copies(m + 1)
    BY <2>1, <2>2, <2>3, <2>6 DEF d
  <2> QED BY <2>1, <2>7 DEF T
<1>5. \A m \in 0..Len(c) : m \in T
  <2> HIDE DEF T
  <2> QED BY <1>2, <1>3, <1>4, InductionUpTo
<1>6. Len(c) \in 0..Len(c)
  BY <1>2
<1>7. /\ f[Len(c)] \in Seq(S) /\ Len(f[Len(c)]) = Len(c)
      /\ \A j \in 1..Len(c) : f[Len(c)][j] = c[j]
  BY <1>1, <1>5, <1>6
<1> DEFINE g == f[Len(c)]
<1>8. /\ g \in Seq(S) /\ Len(g) = Len(c)
      /\ \A j \in 1..Len(c) : g[j] = c[j]
  BY <1>7
<1> HIDE DEF g
<1>9. g = c
  BY <1>8
<1> QED BY <1>1, <1>9 DEF g

-----------------------------------------------------------------------------
(***************************************************************************)
(* The results                                                             *)
(***************************************************************************)
\* What resolveOverlaps returns, for any number of detections (overlap.go:10).
LEMMA Resolved ==
  ASSUME NEW S, AreDetections(S), NEW ds \in Seq(S)
  PROVE  /\ resolveOverlaps(ds) \in Seq(S)
         /\ ToSet(resolveOverlaps(ds)) \subseteq ToSet(ds)
         /\ Len(ds) <= 1 => resolveOverlaps(ds) = ds
         /\ Len(ds) > 1 => /\ Ordered(resolveOverlaps(ds))
                           /\ Apart(resolveOverlaps(ds))
                           /\ HaveSpans(resolveOverlaps(ds))
                           /\ Arbitrates(ToSet(resolveOverlaps(ds)), ToSet(ds))
<1> DEFINE s == StableSort(ds, Before)
           r == FoldLeft(Keep, <<>>, s)
<1>1. CASE Len(ds) <= 1
  BY <1>1 DEF resolveOverlaps
<1>2. CASE Len(ds) > 1
  <2>1. resolveOverlaps(ds) = r
    BY <1>2 DEF resolveOverlaps
  <2>2. /\ s \in Seq(S) /\ Len(s) = Len(ds) /\ ToSet(s) = ToSet(ds)
        /\ \A j, k \in DOMAIN s : j < k => ~ Before(s[k], s[j])
    <3> DEFINE t == s
    <3>1. t = StableSort(ds, Before)
      OBVIOUS
    <3> HIDE DEF t
    <3>2. /\ t \in Seq(S) /\ Len(t) = Len(ds) /\ ToSet(t) = ToSet(ds)
          /\ \A j, k \in DOMAIN t : j < k => ~ Before(t[k], t[j])
      BY <3>1, SortedByBefore, Zenon
    <3> QED BY <3>2, Zenon DEF t
  <2>3. Ordered(s)
    BY <2>2 DEF Ordered
  <2> HIDE DEF s
  <2>4. r \in Seq(S) /\ KeptOf(r, s, Len(s))
    BY <2>2, <2>3, LoopKeeps
  <2> HIDE DEF r
  <2>5. /\ ToSet(s) = { s[j] : j \in 1..Len(s) }
        /\ ToSet(r) = { r[k] : k \in DOMAIN r }
        /\ \A j \in 1..Len(s) : s[j] \in S
        /\ \A k \in DOMAIN r : r[k] \in S
    BY <2>2, <2>4 DEF ToSet
  <2>6. ToSet(r) \subseteq ToSet(s)
    BY <2>4, <2>5 DEF KeptOf
  <2>7. ASSUME NEW d \in ToSet(s), d \in ToSet(r)
        PROVE  /\ Size(d) > 0
               /\ \A q \in ToSet(r) : Before(q, d) => ~ Intersect(q, d)
    <3>1. PICK k \in DOMAIN r : d = r[k]
      BY <2>5, <2>7
    <3>2. ASSUME NEW q \in ToSet(r), Before(q, d) PROVE ~ Intersect(q, d)
      <4>1. PICK j \in DOMAIN r : q = r[j]
        BY <2>5
      <4>2. q \in S /\ d \in S
        BY <2>5, <3>1, <4>1
      <4>3. j # k
        BY <3>1, <3>2, <4>1, <4>2, BeforeIsAsymmetric
      <4> QED BY <2>4, <3>1, <4>1, <4>3 DEF KeptOf, Apart
    <3> QED BY <2>4, <3>1, <3>2 DEF KeptOf, HaveSpans
  <2>8. ASSUME NEW d \in ToSet(s), Size(d) > 0,
               \A q \in ToSet(r) : Before(q, d) => ~ Intersect(q, d)
        PROVE  d \in ToSet(r)
    <3>1. PICK j \in 1..Len(s) : d = s[j]
      BY <2>5
    <3> QED BY <2>4, <2>5, <2>8, <3>1 DEF KeptOf
  <2>9. Arbitrates(ToSet(r), ToSet(s))
    BY <2>6, <2>7, <2>8 DEF Arbitrates
  <2> QED BY <1>2, <2>1, <2>2, <2>4, <2>6, <2>9 DEF KeptOf
<1>3. Len(ds) \in Nat
  OBVIOUS
<1> QED BY <1>1, <1>2, <1>3

\* A result resolved again is the same sequence: AnonymizeWithMap resolves
\* what Scan resolved (rehydrate.go:9).
LEMMA ResolvedAgain ==
  ASSUME NEW S, AreDetections(S), NEW c \in Seq(S),
         Ordered(c), Apart(c), HaveSpans(c)
  PROVE  resolveOverlaps(c) = c
<1> DEFINE s == StableSort(c, Before)
<1>1. s = c
  <2> DEFINE t == s
  <2>1. t = StableSort(c, Before)
    OBVIOUS
  <2> HIDE DEF t
  <2>2. (\A j, k \in DOMAIN c : j < k => ~ Before(c[k], c[j])) => t = c
    BY <2>1, SortedByBefore, Zenon
  <2>3. t = c
    BY <2>2 DEF Ordered
  <2> QED BY <2>3, Zenon DEF t
<1>2. FoldLeft(Keep, <<>>, c) = c
  BY LoopKeepsAll
<1>3. FoldLeft(Keep, <<>>, StableSort(c, Before)) = c
  BY <1>1, <1>2, Zenon
<1> QED BY <1>3, Zenon DEF resolveOverlaps

\* A set of detections has one arbitration.
LEMMA OneArbitration ==
  ASSUME NEW S, AreDetections(S), NEW s \in Seq(S), Ordered(s), NEW R, NEW Q,
         Arbitrates(R, ToSet(s)), Arbitrates(Q, ToSet(s))
  PROVE  R = Q
<1> DEFINE C == { j \in DOMAIN s : ~ (s[j] \in R <=> s[j] \in Q) }
<1>1. /\ DOMAIN s = 1..Len(s) /\ Len(s) \in Nat
      /\ \A j \in DOMAIN s : s[j] \in S /\ s[j] \in ToSet(s)
      /\ \A d \in ToSet(s) : \E j \in DOMAIN s : d = s[j]
  BY DEF ToSet
<1>2. R \subseteq ToSet(s) /\ Q \subseteq ToSet(s)
  BY DEF Arbitrates
<1>3. ASSUME C # {} PROVE FALSE
  <2>1. C \subseteq Nat
    BY <1>1
  <2>2. PICK x \in C : \A y \in C : x <= y
    <3> HIDE DEF C
    <3> QED BY <1>3, <2>1, LeastNumber
  <2>3. ASSUME NEW d \in R \union Q, Before(d, s[x])
        PROVE  d \in R /\ d \in Q
    <3>1. PICK j \in DOMAIN s : d = s[j]
      BY <1>1, <1>2
    <3>2. x \in DOMAIN s
      OBVIOUS
    <3>3. j # x
      BY <1>1, <2>3, <3>1, <3>2, BeforeIsAsymmetric
    <3>4. ~ (x < j)
      BY <2>3, <3>1, <3>2 DEF Ordered
    <3>5. j < x
      BY <1>1, <3>2, <3>3, <3>4
    <3>6. j \notin C
      BY <1>1, <2>2, <3>2, <3>5
    <3> QED BY <3>1, <3>6
  <2>4. /\ s[x] \in R <=> /\ Size(s[x]) > 0
                          /\ \A r \in R : Before(r, s[x]) => ~ Intersect(r, s[x])
        /\ s[x] \in Q <=> /\ Size(s[x]) > 0
                          /\ \A r \in Q : Before(r, s[x]) => ~ Intersect(r, s[x])
    BY <1>1 DEF Arbitrates
  <2>5. s[x] \in R <=> s[x] \in Q
    BY <2>3, <2>4
  <2> QED BY <2>5
<1>4. ASSUME NEW j \in DOMAIN s PROVE s[j] \in R <=> s[j] \in Q
  BY <1>3
<1>5. \A d \in ToSet(s) : d \in R <=> d \in Q
  BY <1>1, <1>4
<1> QED BY <1>2, <1>5

\* The result is a function of the set of detections, whatever their order.
LEMMA ResolvedInAnyOrder ==
  ASSUME NEW S, AreDetections(S), NEW ds \in Seq(S), NEW es \in Seq(S),
         Len(ds) > 1, Len(es) > 1, ToSet(ds) = ToSet(es)
  PROVE  ToSet(resolveOverlaps(ds)) = ToSet(resolveOverlaps(es))
<1>1. /\ Arbitrates(ToSet(resolveOverlaps(ds)), ToSet(ds))
      /\ Arbitrates(ToSet(resolveOverlaps(es)), ToSet(ds))
  BY Resolved, Zenon
<1> DEFINE s == StableSort(ds, Before)
<1>2. s = StableSort(ds, Before)
  OBVIOUS
<1> HIDE DEF s
<1>3. /\ s \in Seq(S) /\ ToSet(s) = ToSet(ds)
      /\ \A j, k \in DOMAIN s : j < k => ~ Before(s[k], s[j])
  BY <1>2, SortedByBefore, Zenon
<1>4. Ordered(s)
  BY <1>3 DEF Ordered
<1>5. /\ Arbitrates(ToSet(resolveOverlaps(ds)), ToSet(s))
      /\ Arbitrates(ToSet(resolveOverlaps(es)), ToSet(s))
  BY <1>1, <1>3
<1> QED BY <1>3, <1>4, <1>5, OneArbitration, Zenon

-----------------------------------------------------------------------------
(***************************************************************************)
(* The passes                                                              *)
(***************************************************************************)
LEMMA FiniteImage ==
  ASSUME NEW D, IsFiniteSet(D), NEW f
  PROVE  IsFiniteSet({ f[x] : x \in D })
<1> DEFINE T == { f[x] : x \in D }
           g == [x \in D |-> f[x]]
<1>1. g \in Surjection(D, T)
  BY DEF Surjection
<1> HIDE DEF T, g
<1>2. IsFiniteSet(T)
  BY <1>1, FS_Surjection
<1> QED BY <1>2 DEF T

\* F holds detections of a text of n tokens, each with a span in the text.
SoundIn(F, n) ==
  /\ IsFiniteSet(F)
  /\ AreDetections(F)
  /\ \A d \in F : 0 <= d.start /\ d.start < d.end /\ d.end <= n

\* Two finite sets of spans of a text together are one.
LEMMA SoundUnion ==
  ASSUME NEW n, NEW F, SoundIn(F, n), NEW G, SoundIn(G, n)
  PROVE  SoundIn(F \union G, n)
BY FS_Union DEF SoundIn, AreDetections

\* So are finitely many of them.
LEMMA SoundUnions ==
  ASSUME NEW n, NEW C, IsFiniteSet(C), \A F \in C : SoundIn(F, n)
  PROVE  SoundIn(UNION C, n)
<1>1. IsFiniteSet(UNION C)
  BY FS_UNION DEF SoundIn
<1> QED BY <1>1 DEF SoundIn, AreDetections

\* A text is a sequence.
IsText(t) == t \in Seq(ToSet(t))

\* The matches of an expression lie in the text, and are finitely many.
LEMMA SpansInText ==
  ASSUME NEW text, IsText(text), NEW type
  PROVE  /\ IsFiniteSet(FindAllStringIndex(text, type))
         /\ \A s \in FindAllStringIndex(text, type) :
              /\ s[1] \in Int /\ s[2] \in Int
              /\ 0 <= s[1] /\ s[1] < s[2] /\ s[2] <= Len(text)
<1> DEFINE n == Len(text)
           One == { j \in DOMAIN text : type \in text[j].matches }
           Two == { j \in 1..(n - 1) : /\ type = TypeSecret
                                       /\ text[j].opens /\ text[j + 1].glued }
           f == [i \in One |-> <<i - 1, i>>]
           g == [i \in Two |-> <<i - 1, i + 1>>]
<1>1. n \in Nat /\ DOMAIN text = 1..n
  BY DEF IsText
<1>2. FindAllStringIndex(text, type) = { f[i] : i \in One } \union { g[i] : i \in Two }
  BY DEF FindAllStringIndex
<1>3. One \in SUBSET (1..n) /\ Two \in SUBSET (1..n)
  BY <1>1
<1>4. ASSUME NEW s \in FindAllStringIndex(text, type)
      PROVE  /\ s[1] \in Int /\ s[2] \in Int
             /\ 0 <= s[1] /\ s[1] < s[2] /\ s[2] <= n
  <2>1. CASE s \in { f[i] : i \in One }
    <3>1. PICK i \in 1..n : s = <<i - 1, i>>
      BY <1>3, <2>1
    <3> QED BY <1>1, <3>1
  <2>2. CASE s \in { g[i] : i \in Two }
    <3>1. PICK i \in 1..(n - 1) : s = <<i - 1, i + 1>>
      BY <2>2
    <3> QED BY <1>1, <3>1
  <2> QED BY <1>2, <2>1, <2>2
<1>5. IsFiniteSet({ f[i] : i \in One } \union { g[i] : i \in Two })
  <2> DEFINE D == 1..n
  <2>1. IsFiniteSet(D) /\ One \in SUBSET D /\ Two \in SUBSET D
    BY <1>1, <1>3, FS_Interval
  <2> HIDE DEF D, One, Two, f, g
  <2>2. IsFiniteSet(One) /\ IsFiniteSet(Two)
    BY <2>1, FS_Subset
  <2>3. IsFiniteSet({ f[i] : i \in One }) /\ IsFiniteSet({ g[i] : i \in Two })
    BY <2>2, FiniteImage
  <2> DEFINE F == { f[i] : i \in One }
             G == { g[i] : i \in Two }
  <2>4. IsFiniteSet(F) /\ IsFiniteSet(G)
    BY <2>3
  <2> HIDE DEF F, G
  <2>5. IsFiniteSet(F \union G)
    BY <2>4, FS_Union
  <2> QED BY <2>5 DEF F, G
<1> QED BY <1>2, <1>4, <1>5

\* The confidence of a built-in type is a number.
LEMMA ConfidenceType ==
  ASSUME NEW type \in Builtins
  PROVE  type \in Int /\ Confidence[type] \in Int
BY DEF Builtins, Confidence

\* Every built-in matcher reports spans of the text (engine.go:123-169).
LEMMA BuiltinsAreSound ==
  ASSUME NEW text, IsText(text), NEW enabled, enabled \subseteq Builtins
  PROVE  SoundIn(runBuiltins(text, enabled), Len(text))
<1> DEFINE On == { u \in enabled : shouldScanType(text, u) }
           h == [t \in On |-> Found(text, t)]
<1>1. On \in SUBSET Builtins
  OBVIOUS
<1>2. ASSUME NEW type \in Builtins PROVE SoundIn(Found(text, type), Len(text))
  <2> DEFINE Spans == { r \in FindAllStringIndex(text, type) :
                          Validates(text, type, r) }
             f == [s \in Spans |-> [type |-> type, start |-> s[1],
                                    end |-> s[2], conf |-> Confidence[type]]]
             F == { f[s] : s \in Spans }
  <2>1. Found(text, type) = F
    BY DEF Found
  <2>2. IsFiniteSet(Spans)
    <3> DEFINE All == FindAllStringIndex(text, type)
    <3>1. IsFiniteSet(All) /\ Spans \in SUBSET All
      BY SpansInText
    <3> HIDE DEF All, Spans
    <3> QED BY <3>1, FS_Subset
  <2>3. \A s \in Spans : /\ s[1] \in Int /\ s[2] \in Int
                         /\ 0 <= s[1] /\ s[1] < s[2] /\ s[2] <= Len(text)
    BY SpansInText
  <2>4. type \in Int /\ Confidence[type] \in Int
    BY ConfidenceType
  <2>5. ASSUME NEW d \in F
        PROVE  /\ d = [type |-> d.type, start |-> d.start, end |-> d.end,
                       conf |-> d.conf]
               /\ d.type \in Int /\ d.start \in Int /\ d.end \in Int
               /\ d.conf \in Int
               /\ 0 <= d.start /\ d.start < d.end /\ d.end <= Len(text)
    <3> HIDE DEF Spans
    <3>1. PICK s \in Spans : d = [type |-> type, start |-> s[1], end |-> s[2],
                                  conf |-> Confidence[type]]
      OBVIOUS
    <3> QED BY <2>3, <2>4, <3>1
  <2>6. IsFiniteSet(F)
    <3> HIDE DEF Spans, f
    <3> QED BY <2>2, FiniteImage
  <2> HIDE DEF F
  <2>7. SoundIn(F, Len(text))
    BY <2>5, <2>6 DEF SoundIn, AreDetections
  <2> QED BY <2>1, <2>7
<1>3. IsFiniteSet(On)
  <2> DEFINE B == 1..14
  <2>1. IsFiniteSet(B)
    <3>1. 1 \in Int /\ 14 \in Int
      OBVIOUS
    <3> QED BY <3>1, FS_Interval, Zenon
  <2>2. On \in SUBSET B
    <3>1. Builtins \subseteq 1..14
      BY DEF Builtins
    <3> HIDE DEF On
    <3> QED BY <1>1, <3>1
  <2> HIDE DEF B, On
  <2> QED BY <2>1, <2>2, FS_Subset
<1> DEFINE C == { h[t] : t \in On }
<1>4. runBuiltins(text, enabled) = UNION C
  BY DEF runBuiltins
<1>5. \A F \in C : SoundIn(F, Len(text))
  BY <1>1, <1>2
<1>6. IsFiniteSet(C)
  <2> HIDE DEF On, h
  <2> QED BY <1>3, FiniteImage
<1> HIDE DEF C
<1> QED BY <1>4, <1>5, <1>6, SoundUnions

\* So does the name pass (names.go:11-39).
LEMMA NamesAreSound ==
  ASSUME NEW text, IsText(text)
  PROVE  SoundIn(runNamePass(text), Len(text))
<1> DEFINE n == Len(text)
           Surname(i) == { j \in Following(text, i) :
                             /\ IsCapitalized(text[j])
                             /\ ~ IsLikelyFirstName(text[j]) }
           Given == { j \in DOMAIN text : /\ IsCapitalized(text[j])
                                          /\ IsLikelyFirstName(text[j]) }
           End(i) == IF Surname(i) = {} THEN i ELSE CHOOSE j \in Surname(i) : TRUE
           Conf(i) == IF Surname(i) = {} THEN 65 ELSE 85
           f == [i \in Given |-> [type |-> TypePersonName, start |-> i - 1,
                                  end |-> End(i), conf |-> Conf(i)]]
           F == { f[i] : i \in Given }
<1>1. n \in Nat /\ DOMAIN text = 1..n
  BY DEF IsText
<1>2. runNamePass(text) = F
  BY DEF runNamePass
<1>3. ASSUME NEW i \in 1..n PROVE End(i) \in i..n /\ Conf(i) \in Int
  <2>1. CASE Surname(i) = {}
    BY <1>1, <2>1
  <2>2. CASE Surname(i) # {}
    <3>1. End(i) \in Surname(i)
      BY <2>2
    <3>2. Surname(i) \subseteq (i + 1)..n
      BY DEF Following
    <3> HIDE DEF Surname
    <3>3. End(i) \in (i + 1)..n
      BY <3>1, <3>2
    <3>4. End(i) \in i..n
      <4> HIDE DEF End
      <4> QED BY <1>1, <3>3
    <3> QED BY <2>2, <3>4
  <2> QED BY <2>1, <2>2
<1>4. Given \in SUBSET (1..n)
  BY <1>1
<1> HIDE DEF Surname, End, Conf, Given
<1>5. ASSUME NEW d \in F
      PROVE  /\ d = [type |-> d.type, start |-> d.start, end |-> d.end,
                     conf |-> d.conf]
             /\ d.type \in Int /\ d.start \in Int /\ d.end \in Int
             /\ d.conf \in Int
             /\ 0 <= d.start /\ d.start < d.end /\ d.end <= n
  <2>1. PICK i \in Given : d = [type |-> TypePersonName, start |-> i - 1,
                                end |-> End(i), conf |-> Conf(i)]
    OBVIOUS
  <2>2. i \in 1..n /\ End(i) \in i..n /\ Conf(i) \in Int
    BY <1>3, <1>4
  <2>3. TypePersonName \in Int
    BY DEF TypePersonName
  <2> QED BY <1>1, <2>1, <2>2, <2>3
<1>6. IsFiniteSet(F)
  <2> DEFINE D == 1..n
  <2>1. IsFiniteSet(D) /\ Given \in SUBSET D
    BY <1>1, <1>4, FS_Interval
  <2> HIDE DEF D, f
  <2>2. IsFiniteSet(Given)
    BY <2>1, FS_Subset
  <2> QED BY <2>2, FiniteImage
<1> HIDE DEF F
<1>7. SoundIn(F, n)
  BY <1>5, <1>6 DEF SoundIn, AreDetections
<1> QED BY <1>2, <1>7

-----------------------------------------------------------------------------
(***************************************************************************)
(* What Scan resolves                                                      *)
(***************************************************************************)
LEMMA SetAsSequence ==
  ASSUME NEW F, IsFiniteSet(F)
  PROVE  /\ SetToSeq(F) \in Seq(F) /\ ToSet(SetToSeq(F)) = F
         /\ Len(SetToSeq(F)) = Cardinality(F)
<1> DEFINE n == Cardinality(F)
           s == SetToSeq(F)
<1>1. n \in Nat /\ ExistsBijection(1..n, F)
  BY FS_CardinalityType
<1> HIDE DEF n
<1>2. PICK b : b \in Bijection(1..n, F)
  BY <1>1 DEF ExistsBijection
<1>3. b \in [1..n -> F] /\ IsInjective(b)
  BY <1>2 DEF Bijection, Injection
<1>4. s \in [1..n -> F] /\ IsInjective(s)
  <2>1. s = CHOOSE f \in [1..n -> F] : IsInjective(f)
    BY Zenon DEF SetToSeq, n
  <2> HIDE DEF s
  <2> QED BY <1>3, <2>1, Zenon
<1> HIDE DEF s
<1>5. s \in Injection(1..n, F)
  BY <1>4 DEF Injection
<1>6. IsFiniteSet(1..n) /\ Cardinality(1..n) = n
  BY <1>1, FS_Interval
<1>7. s \in Surjection(1..n, F)
  BY <1>5, <1>6, FS_Injection DEF n
<1>8. s \in Seq(F) /\ Len(s) = n
  BY <1>1, <1>4
<1>9. ToSet(s) = F
  BY <1>4, <1>7, <1>8 DEF ToSet, Surjection
<1> QED BY <1>8, <1>9 DEF s, n

\* What Scan makes of the findings F: the arbitration of F, also when it has
\* one detection or none.
LEMMA ResolvedFindings ==
  ASSUME NEW n, NEW F, SoundIn(F, n),
         NEW r, r = resolveOverlaps(SetToSeq(F))
  PROVE  /\ r \in Seq(F) /\ Ordered(r) /\ Apart(r) /\ HaveSpans(r)
         /\ Arbitrates(ToSet(r), F) /\ PairwiseDisjoint(ToSet(r))
         /\ SoundIn(ToSet(r), n)
<1> DEFINE s == SetToSeq(F)
<1>1. s \in Seq(F) /\ ToSet(s) = F /\ Len(s) = Cardinality(F)
  BY SetAsSequence DEF SoundIn
<1>2. AreDetections(F) /\ IsFiniteSet(F)
  BY DEF SoundIn
<1>3. \A d \in F : Size(d) > 0 /\ ~ Before(d, d)
  BY BeforeIsAsymmetric, <1>2 DEF SoundIn, AreDetections, Size
<1> HIDE DEF s
<1>4. CASE Len(s) <= 1
  <2>1. r = s
    BY <1>1, <1>2, <1>4, Resolved DEF s
  <2>2. Cardinality(F) \in {0, 1}
    BY <1>1, <1>2, <1>4, FS_CardinalityType
  <2>3. \A a, b \in F : a = b
    BY <1>2, <2>2, FS_EmptySet, FS_Singleton
  <2>4. \A j, k \in DOMAIN s : j = k
    BY <1>1, <1>4
  <2>5. \A k \in DOMAIN s : s[k] \in F
    BY <1>1
  <2>6. Ordered(s) /\ Apart(s) /\ HaveSpans(s)
    BY <1>1, <1>3, <2>4, <2>5 DEF Ordered, Apart, HaveSpans
  <2>7. Arbitrates(F, F)
    BY <1>3, <2>3 DEF Arbitrates
  <2>8. PairwiseDisjoint(F)
    BY <2>3 DEF PairwiseDisjoint
  <2> QED BY <1>1, <2>1, <2>6, <2>7, <2>8
<1>5. CASE Len(s) > 1
  <2>1. /\ r \in Seq(F) /\ Ordered(r) /\ Apart(r) /\ HaveSpans(r)
        /\ Arbitrates(ToSet(r), F)
    BY <1>1, <1>2, <1>5, Resolved DEF s
  <2>2. ToSet(r) \subseteq F
    BY <2>1 DEF Arbitrates
  <2>3. PairwiseDisjoint(ToSet(r))
    <3> SUFFICES ASSUME NEW a \in ToSet(r), NEW b \in ToSet(r), a # b
                 PROVE  ~ Intersect(a, b)
      BY DEF PairwiseDisjoint
    <3>1. PICK j \in DOMAIN r : a = r[j]
      BY DEF ToSet
    <3>2. PICK k \in DOMAIN r : b = r[k]
      BY DEF ToSet
    <3> QED BY <2>1, <3>1, <3>2 DEF Apart
  <2>4. SoundIn(ToSet(r), n)
    <3> DEFINE R == ToSet(r)
    <3>1. R \in SUBSET F
      BY <2>2
    <3> HIDE DEF R
    <3>2. IsFiniteSet(R)
      BY <1>2, <3>1, FS_Subset
    <3>3. SoundIn(R, n)
      BY <3>1, <3>2 DEF SoundIn, AreDetections
    <3> QED BY <3>3 DEF R
  <2> QED BY <2>1, <2>3, <2>4
<1>6. Len(s) \in Nat
  BY <1>1
<1> QED BY <1>4, <1>5, <1>6

-----------------------------------------------------------------------------
(***************************************************************************)
(* Flattened sequences                                                     *)
(***************************************************************************)
\* The sequence of sequences P is put together from the left.
LEMMA FlattenSteps ==
  ASSUME NEW T, NEW P \in Seq(Seq(T))
  PROVE  \E g \in [0..Len(P) -> Seq(T)] :
           /\ g[0] = <<>>
           /\ \A k \in 1..Len(P) : g[k] = g[k - 1] \o P[k]
           /\ FlattenSeq(P) = g[Len(P)]
<1> DEFINE n == Len(P)
           A == Seq(T)
           Joins(g, k) == \A i \in 1..k : g[i] = IF i = 1 THEN P[i] ELSE g[i - 1] \o P[i]
           N == { k \in 0..n : \E g \in [1..k -> A] : Joins(g, k) }
           Flat(g) == g = [i \in 1..n |-> IF i = 1 THEN P[i] ELSE g[i - 1] \o P[i]]
           g0 == CHOOSE g : Flat(g)
<1>1. n \in Nat /\ <<>> \in A /\ \A k \in 1..n : P[k] \in A
  OBVIOUS
<1>2. 0 \in N
  <2> DEFINE g == [i \in 1..0 |-> <<>>]
  <2>1. g \in [1..0 -> A] /\ Joins(g, 0)
    OBVIOUS
  <2>2. 0 \in 0..n
    BY <1>1
  <2> HIDE DEF g, Joins
  <2> QED BY <2>1, <2>2
<1>3. ASSUME NEW k \in 0..(n - 1), k \in N PROVE k + 1 \in N
  <2>1. PICK g \in [1..k -> A] : Joins(g, k)
    BY <1>3
  <2> DEFINE h == [i \in 1..(k + 1) |->
                     IF i = 1 THEN P[i] ELSE g[i - 1] \o P[i]]
  <2>2. k \in Nat /\ k + 1 \in 0..n /\ \A i \in 1..(k + 1) : i \in 1..n
    BY <1>1
  <2>3. \A i \in 1..(k + 1) : i # 1 => i - 1 \in 1..k
    BY <2>2
  <2>4. ASSUME NEW i \in 1..k PROVE h[i] = g[i]
    <3>1. i \in 1..(k + 1)
      BY <2>2
    <3>2. h[i] = IF i = 1 THEN P[i] ELSE g[i - 1] \o P[i]
      BY <3>1
    <3>3. g[i] = IF i = 1 THEN P[i] ELSE g[i - 1] \o P[i]
      BY <2>1
    <3> QED BY <3>2, <3>3
  <2>5. h \in [1..(k + 1) -> A]
    <3> SUFFICES ASSUME NEW i \in 1..(k + 1)
                 PROVE  (IF i = 1 THEN P[i] ELSE g[i - 1] \o P[i]) \in A
      OBVIOUS
    <3>1. CASE i = 1
      BY <1>1, <2>2, <3>1
    <3>2. CASE i # 1
      <4>1. g[i - 1] \in A /\ P[i] \in A
        BY <1>1, <2>2, <2>3, <3>2
      <4> QED BY <3>2, <4>1
    <3> QED BY <3>1, <3>2
  <2>6. Joins(h, k + 1)
    <3> SUFFICES ASSUME NEW i \in 1..(k + 1)
                 PROVE  h[i] = IF i = 1 THEN P[i] ELSE h[i - 1] \o P[i]
      OBVIOUS
    <3>1. CASE i = 1
      BY <3>1
    <3>2. CASE i # 1
      <4>1. i - 1 \in 1..k
        BY <2>3, <3>2
      <4>2. h[i - 1] = g[i - 1]
        BY <2>4, <4>1
      <4> QED BY <3>2, <4>2
    <3> QED BY <3>1, <3>2
  <2> HIDE DEF h, Joins
  <2> QED BY <2>2, <2>5, <2>6
<1>4. n \in N
  <2> HIDE DEF N
  <2>1. \A k \in 0..n : k \in N
    BY <1>1, <1>2, <1>3, InductionUpTo
  <2> QED BY <1>1, <2>1
<1>5. PICK g1 \in [1..n -> A] : Joins(g1, n)
  BY <1>4
<1>6. \E g : Flat(g)
  <2>1. g1 = [i \in 1..n |-> g1[i]]
    BY <1>5
  <2>2. Flat(g1)
    BY <1>5, <2>1
  <2> QED BY <2>2
<1>7. Flat(g0)
  <2> HIDE DEF Flat
  <2> QED BY <1>6
<1>8. n # 0 => FlattenSeq(P) = g0[n]
  BY Zenon DEF FlattenSeq
<1>9. n = 0 => FlattenSeq(P) = <<>>
  <2>1. n = 0 => FlattenSeq(P) = P
    BY Zenon DEF FlattenSeq
  <2> QED BY <2>1
<1> HIDE DEF g0
<1> DEFINE f == [k \in 0..n |-> IF k = 0 THEN <<>> ELSE g0[k]]
<1>10. f[0] = <<>> /\ f[n] = FlattenSeq(P)
  BY <1>1, <1>8, <1>9
<1>11. ASSUME NEW k \in 1..n PROVE f[k] = f[k - 1] \o P[k]
  <2>1. k \in 0..n /\ k - 1 \in 0..n /\ k # 0
    BY <1>1
  <2>2. g0[k] = IF k = 1 THEN P[k] ELSE g0[k - 1] \o P[k]
    BY <1>7
  <2>3. CASE k = 1
    <3>1. f[k] = P[k] /\ f[k - 1] = <<>> /\ P[k] \in Seq(T)
      BY <1>1, <2>1, <2>2, <2>3
    <3> HIDE DEF f
    <3> QED BY <3>1, ConcatEmptySeq
  <2>4. CASE k # 1
    <3>1. k - 1 # 0
      BY <2>4
    <3>2. f[k] = g0[k] /\ f[k - 1] = g0[k - 1]
      BY <2>1, <3>1
    <3> QED BY <2>2, <2>4, <3>2
  <2> QED BY <2>3, <2>4
<1>12. <<>> \in A /\ \A x, y \in A : x \o y \in A
  OBVIOUS
<1> HIDE DEF f, A
<1>13. ASSUME NEW k \in 0..n PROVE f[k] \in A
  <2> DEFINE I == { m \in 0..n : f[m] \in A }
  <2>1. 0 \in I
    BY <1>1, <1>10
  <2>2. ASSUME NEW m \in 0..(n - 1), m \in I PROVE m + 1 \in I
    <3>1. m + 1 \in 1..n /\ m + 1 \in 0..n /\ (m + 1) - 1 = m
      BY <1>1
    <3>2. f[m + 1] = f[m] \o P[m + 1]
      BY <1>11, <3>1
    <3>3. f[m] \in A /\ P[m + 1] \in A
      BY <1>1, <2>2, <3>1
    <3> QED BY <1>12, <3>1, <3>2, <3>3
  <2>3. \A m \in 0..n : m \in I
    <3> HIDE DEF I
    <3> QED BY <1>1, <2>1, <2>2, InductionUpTo
  <2> QED BY <2>3
<1>14. f \in [0..n -> A]
  <2>1. f = [k \in 0..n |-> f[k]]
    BY DEF f
  <2> QED BY <1>13, <2>1
<1> QED BY <1>10, <1>11, <1>14 DEF A

\* Flattened sequences over a set are a sequence over it.
LEMMA FlattenType ==
  ASSUME NEW T, NEW P \in Seq(Seq(T))
  PROVE  FlattenSeq(P) \in Seq(T)
<1>1. PICK g \in [0..Len(P) -> Seq(T)] : FlattenSeq(P) = g[Len(P)]
  BY FlattenSteps
<1>2. Len(P) \in 0..Len(P)
  OBVIOUS
<1> QED BY <1>1, <1>2

\* Flattening goes through a concatenation.
LEMMA FlattenConcat ==
  ASSUME NEW T, NEW P \in Seq(Seq(T)), NEW Q \in Seq(Seq(T))
  PROVE  FlattenSeq(P \o Q) = FlattenSeq(P) \o FlattenSeq(Q)
<1> DEFINE m == Len(P)
           n == Len(Q)
           R == P \o Q
<1>1. /\ R \in Seq(Seq(T)) /\ Len(R) = m + n /\ m \in Nat /\ n \in Nat
      /\ \A i \in 1..m : R[i] = P[i]
      /\ \A i \in 1..n : R[m + i] = Q[i]
      /\ \A i \in 1..n : Q[i] \in Seq(T)
  OBVIOUS
<1> HIDE DEF R
<1>2. PICK g \in [0..m -> Seq(T)] :
        /\ g[0] = <<>> /\ \A k \in 1..m : g[k] = g[k - 1] \o P[k]
        /\ FlattenSeq(P) = g[m]
  BY FlattenSteps
<1>3. PICK h \in [0..n -> Seq(T)] :
        /\ h[0] = <<>> /\ \A k \in 1..n : h[k] = h[k - 1] \o Q[k]
        /\ FlattenSeq(Q) = h[n]
  BY FlattenSteps
<1>4. \E f \in [0..Len(R) -> Seq(T)] :
        /\ f[0] = <<>> /\ \A k \in 1..Len(R) : f[k] = f[k - 1] \o R[k]
        /\ FlattenSeq(R) = f[Len(R)]
  BY <1>1, FlattenSteps
<1>8. PICK f \in [0..(m + n) -> Seq(T)] :
        /\ f[0] = <<>> /\ \A k \in 1..(m + n) : f[k] = f[k - 1] \o R[k]
        /\ FlattenSeq(R) = f[m + n]
  BY <1>1, <1>4
<1>9. \A a, b, c \in Seq(T) : (a \o b) \o c = a \o (b \o c)
  BY ConcatAssociative
<1>5. \A k \in 0..m : f[k] = g[k]
  <2> DEFINE I == { k \in 0..m : f[k] = g[k] }
  <2>1. 0 \in I
    BY <1>1, <1>2, <1>8
  <2>2. ASSUME NEW k \in 0..(m - 1), k \in I PROVE k + 1 \in I
    <3>1. /\ k + 1 \in 1..m /\ k + 1 \in 0..m /\ k + 1 \in 1..(m + n)
          /\ (k + 1) - 1 = k
      BY <1>1
    <3>2. g[k + 1] = g[k] \o P[k + 1] /\ f[k + 1] = f[k] \o R[k + 1]
      BY <1>2, <1>8, <3>1
    <3> QED BY <1>1, <2>2, <3>1, <3>2
  <2> HIDE DEF I
  <2>3. \A k \in 0..m : k \in I
    BY <1>1, <2>1, <2>2, InductionUpTo
  <2> QED BY <2>3 DEF I
<1>6. \A k \in 0..n : f[m + k] = g[m] \o h[k]
  <2> DEFINE I == { k \in 0..n : f[m + k] = g[m] \o h[k] }
  <2>1. 0 \in I
    <3>1. f[m] = g[m] /\ m + 0 = m /\ h[0] = <<>> /\ g[m] \in Seq(T)
      BY <1>1, <1>2, <1>3, <1>5
    <3>2. f[m + 0] = g[m] \o h[0]
      BY <3>1, ConcatEmptySeq
    <3> QED BY <1>1, <3>2
  <2>2. ASSUME NEW k \in 0..(n - 1), k \in I PROVE k + 1 \in I
    <3>1. /\ k \in 0..n /\ k + 1 \in 1..n /\ k + 1 \in 0..n
          /\ (k + 1) - 1 = k /\ m + (k + 1) \in 1..(m + n)
          /\ (m + (k + 1)) - 1 = m + k /\ m \in 0..m
      BY <1>1
    <3>2. h[k + 1] = h[k] \o Q[k + 1]
      BY <1>3, <3>1
    <3>3. f[m + (k + 1)] = f[m + k] \o R[m + (k + 1)]
      BY <1>8, <3>1
    <3>4. f[m + (k + 1)] = (g[m] \o h[k]) \o Q[k + 1]
      BY <1>1, <2>2, <3>1, <3>3
    <3>5. g[m] \in Seq(T) /\ h[k] \in Seq(T) /\ Q[k + 1] \in Seq(T)
      BY <1>1, <1>2, <1>3, <3>1
    <3>6. (g[m] \o h[k]) \o Q[k + 1] = g[m] \o (h[k] \o Q[k + 1])
      BY <1>9, <3>5
    <3> QED BY <3>1, <3>2, <3>4, <3>6
  <2> HIDE DEF I
  <2>3. \A k \in 0..n : k \in I
    BY <1>1, <2>1, <2>2, InductionUpTo
  <2> QED BY <2>3 DEF I
<1>7. f[m + n] = g[m] \o h[n]
  BY <1>1, <1>6
<1> QED BY <1>2, <1>3, <1>8, <1>7 DEF R

\* One piece flattened is itself.
LEMMA FlattenOne ==
  ASSUME NEW T, NEW x \in Seq(T)
  PROVE  FlattenSeq(<<x>>) = x
<1> DEFINE P == <<x>>
<1>1. P \in Seq(Seq(T)) /\ Len(P) = 1 /\ P[1] = x
  OBVIOUS
<1> HIDE DEF P
<1>2. PICK g \in [0..Len(P) -> Seq(T)] :
        /\ g[0] = <<>> /\ \A k \in 1..Len(P) : g[k] = g[k - 1] \o P[k]
        /\ FlattenSeq(P) = g[Len(P)]
  BY <1>1, FlattenSteps
<1>3. g[1] = g[0] \o P[1]
  <2>1. 1 \in 1..1 /\ 1 - 1 = 0
    OBVIOUS
  <2> QED BY <1>1, <1>2, <2>1
<1>4. g[1] = <<>> \o x
  BY <1>1, <1>2, <1>3
<1> QED BY <1>1, <1>2, <1>4, ConcatEmptySeq DEF P

\* No piece flattened is the empty sequence.
LEMMA FlattenNone == FlattenSeq(<<>>) = <<>>
<1>1. Len(<<>>) = 0
  OBVIOUS
<1> QED BY <1>1 DEF FlattenSeq

\* The pieces from place i on are the piece at i and the ones behind it.
LEMMA FlattenFrom ==
  ASSUME NEW T, NEW P \in Seq(Seq(T)), NEW i \in 1..Len(P)
  PROVE  FlattenSeq(SubSeq(P, i, Len(P)))
           = P[i] \o FlattenSeq(SubSeq(P, i + 1, Len(P)))
<1> DEFINE Q == SubSeq(P, i + 1, Len(P))
           x == P[i]
<1>1. <<x>> \in Seq(Seq(T)) /\ Q \in Seq(Seq(T)) /\ x \in Seq(T)
  OBVIOUS
<1>2. SubSeq(P, i, Len(P)) = <<x>> \o Q
  OBVIOUS
<1> HIDE DEF x, Q
<1>3. FlattenSeq(<<x>> \o Q) = FlattenSeq(<<x>>) \o FlattenSeq(Q)
  BY <1>1, FlattenConcat
<1>4. FlattenSeq(<<x>>) = x
  BY <1>1, FlattenOne
<1>5. FlattenSeq(SubSeq(P, i, Len(P))) = x \o FlattenSeq(Q)
  BY <1>2, <1>3, <1>4
<1> QED BY <1>5 DEF x, Q

\* A sequence is what its elements make.
LEMMA FlattenSingletons ==
  ASSUME NEW T, NEW r \in Seq(T), NEW P, P = [k \in DOMAIN r |-> <<r[k]>>]
  PROVE  FlattenSeq(P) = r
<1> DEFINE n == Len(r)
<1>1. /\ P \in Seq(Seq(T)) /\ Len(P) = n /\ n \in Nat
      /\ \A k \in 1..n : P[k] = <<r[k]>> /\ r[k] \in T
  <2>1. n \in Nat /\ DOMAIN r = 1..n /\ \A k \in 1..n : r[k] \in T
    OBVIOUS
  <2>2. P = [k \in 1..n |-> <<r[k]>>]
    BY <2>1
  <2>3. \A k \in 1..n : P[k] = <<r[k]>> /\ <<r[k]>> \in Seq(T)
    BY <2>1, <2>2
  <2> HIDE DEF n
  <2>4. DOMAIN P = 1..n
    BY <2>2
  <2>5. P \in [1..n -> Seq(T)]
    BY <2>2, <2>3
  <2> QED BY <2>1, <2>3, <2>4, <2>5
<1>2. PICK g \in [0..n -> Seq(T)] :
        /\ g[0] = <<>> /\ \A k \in 1..n : g[k] = g[k - 1] \o P[k]
        /\ FlattenSeq(P) = g[n]
  <2>1. \E g \in [0..Len(P) -> Seq(T)] :
          /\ g[0] = <<>> /\ \A k \in 1..Len(P) : g[k] = g[k - 1] \o P[k]
          /\ FlattenSeq(P) = g[Len(P)]
    BY <1>1, FlattenSteps
  <2> QED BY <1>1, <2>1
<1> DEFINE I == { k \in 0..n : g[k] = SubSeq(r, 1, k) }
<1>3. 0 \in I
  <2>1. SubSeq(r, 1, 0) = <<>>
    OBVIOUS
  <2> QED BY <1>1, <1>2, <2>1
<1>4. ASSUME NEW k \in 0..(n - 1), k \in I PROVE k + 1 \in I
  <2>1. k + 1 \in 1..n /\ k + 1 \in 0..n /\ (k + 1) - 1 = k /\ k \in 0..n
    BY <1>1
  <2>2. g[k + 1] = SubSeq(r, 1, k) \o <<r[k + 1]>>
    BY <1>1, <1>2, <1>4, <2>1
  <2>3. SubSeq(r, 1, k) \o <<r[k + 1]>> = SubSeq(r, 1, k + 1)
    BY <2>1
  <2> QED BY <2>1, <2>2, <2>3
<1>5. n \in I
  <2> HIDE DEF I
  <2>1. \A k \in 0..n : k \in I
    BY <1>1, <1>3, <1>4, InductionUpTo
  <2> QED BY <1>1, <2>1
<1>6. SubSeq(r, 1, n) = r
  OBVIOUS
<1> QED BY <1>2, <1>5, <1>6

-----------------------------------------------------------------------------
(***************************************************************************)
(* Placeholders                                                            *)
(***************************************************************************)
\* The detections in reading order are the same detections.
LEMMA SortedByStart ==
  ASSUME NEW S, AreDetections(S), NEW ds \in Seq(S), NEW s, s = ByStart(ds)
  PROVE  \E p \in Bijection(DOMAIN ds, DOMAIN ds) :
           /\ s = Permuted(ds, p)
           /\ \A j, k \in DOMAIN ds : j < k => s[j].start <= s[k].start
<1> DEFINE L == { q \in S \X S : q[1].start < q[2].start }
           p == SortedFrom(ds, L)
<1>1. \A a, b \in S : <<a, b>> \in L <=> a.start < b.start
  OBVIOUS
<1>2. WeakOrder(L, S)
  <2>1. \A a \in S : a.start \in Int
    BY DEF AreDetections
  <2> HIDE DEF L
  <2> QED BY <1>1, <2>1 DEF WeakOrder
<1>3. \A i \in DOMAIN ds : ds[i] \in S /\ ds[i].start \in Int
  BY DEF AreDetections
<1>4. ASSUME NEW j \in DOMAIN ds
      PROVE  RankOf(ds, L, j)
               = Cardinality({ i \in DOMAIN ds :
                                 \/ ds[i].start < ds[j].start
                                 \/ ~ (ds[j].start < ds[i].start) /\ i < j })
  <2> HIDE DEF L
  <2>1. { i \in DOMAIN ds : GoesAhead(ds, L, i, j) }
          = { i \in DOMAIN ds : \/ ds[i].start < ds[j].start
                                \/ ~ (ds[j].start < ds[i].start) /\ i < j }
    BY <1>1, <1>3 DEF GoesAhead
  <2> QED BY <2>1 DEF RankOf
<1>5. s = Permuted(ds, p)
  <2> DEFINE q == [k \in DOMAIN ds |->
                     CHOOSE j \in DOMAIN ds :
                       Cardinality({ i \in DOMAIN ds :
                                       \/ ds[i].start < ds[j].start
                                       \/ ~ (ds[j].start < ds[i].start) /\ i < j })
                         = k - 1]
  <2>1. s = [k \in DOMAIN ds |-> ds[q[k]]]
    <3>1. s = [k \in DOMAIN ds |->
                 ds[CHOOSE j \in DOMAIN ds :
                      Cardinality({ i \in DOMAIN ds :
                                      \/ ds[i].start < ds[j].start
                                      \/ ~ (ds[j].start < ds[i].start) /\ i < j })
                        = k - 1]]
      BY Zenon DEF ByStart, StableSort
    <3> QED BY <3>1
  <2> HIDE DEF L
  <2>2. ASSUME NEW k \in DOMAIN ds PROVE p[k] = q[k]
    <3> DEFINE Count(j) == Cardinality({ i \in DOMAIN ds :
                              \/ ds[i].start < ds[j].start
                              \/ ~ (ds[j].start < ds[i].start) /\ i < j })
    <3>1. p[k] = CHOOSE j \in DOMAIN ds : RankOf(ds, L, j) = k - 1
      BY DEF SortedFrom
    <3>2. q[k] = CHOOSE j \in DOMAIN ds : Count(j) = k - 1
      OBVIOUS
    <3>3. \A j \in DOMAIN ds : RankOf(ds, L, j) = Count(j)
      BY <1>4
    <3> HIDE DEF p, q, Count
    <3> QED BY <3>1, <3>2, <3>3, Zenon
  <2> HIDE DEF p, q
  <2> QED BY <2>1, <2>2 DEF Permuted
<1>6. p = SortedFrom(ds, L)
  OBVIOUS
<1> HIDE DEF p, L
<1>7. /\ p \in Bijection(DOMAIN ds, DOMAIN ds)
      /\ \A j, k \in DOMAIN ds : j < k => GoesAhead(ds, L, p[j], p[k])
  BY <1>2, <1>6, SortPermutes, Zenon
<1>8. \A k \in DOMAIN ds : p[k] \in DOMAIN ds
  BY <1>7 DEF Bijection, Injection
<1>9. DOMAIN s = DOMAIN ds /\ \A k \in DOMAIN ds : s[k] \in S /\ s[k].start \in Int
  BY <1>3, <1>5, <1>8 DEF Permuted
<1>10. \A j, k \in DOMAIN ds : j < k => s[j].start <= s[k].start
  <2> SUFFICES ASSUME NEW j \in DOMAIN ds, NEW k \in DOMAIN ds, j < k
               PROVE  s[j].start <= s[k].start
    OBVIOUS
  <2>1. GoesAhead(ds, L, p[j], p[k])
    BY <1>7
  <2>2. s[j] = ds[p[j]] /\ s[k] = ds[p[k]] /\ s[j] \in S /\ s[k] \in S
    BY <1>5, <1>9 DEF Permuted
  <2>3. s[j].start < s[k].start \/ ~ (s[k].start < s[j].start)
    BY <1>1, <2>1, <2>2 DEF GoesAhead
  <2>4. s[k].start \in Int /\ s[j].start \in Int
    BY <1>9
  <2> QED BY <2>3, <2>4
<1> QED BY <1>5, <1>7, <1>10

\* bs are bindings for a text of n tokens: spans that follow one another.
InReadingOrder(bs, n) ==
  /\ bs \in Seq(ToSet(bs))
  /\ \A k \in DOMAIN bs :
       LET d == bs[k].detection IN
       /\ d.type \in Int /\ d.start \in Int /\ d.end \in Int
       /\ 0 <= d.start /\ d.start < d.end /\ d.end <= n
  /\ \A j, k \in DOMAIN bs :
       j < k => bs[j].detection.end <= bs[k].detection.start

\* Detections that share no byte get their placeholders in reading order.
LEMMA PlaceholdersInOrder ==
  ASSUME NEW n \in Nat, NEW S, SoundIn(S, n), NEW ds \in Seq(S),
         Apart(ds), NEW bs, bs = buildPlaceholders(ds)
  PROVE  /\ InReadingOrder(bs, n)
         /\ ToSet(ds) = { bs[k].detection : k \in DOMAIN bs }
         /\ \A k \in DOMAIN bs :
              bs[k].placeholder
                = semanticPlaceholder(bs[k].detection.type,
                    Cardinality({ j \in 1..k : bs[j].detection.type
                                                 = bs[k].detection.type }))
<1> DEFINE s == ByStart(ds)
<1>1. AreDetections(S)
  BY DEF SoundIn
<1>2. \E p \in Bijection(DOMAIN ds, DOMAIN ds) :
        /\ s = Permuted(ds, p)
        /\ \A j, k \in DOMAIN ds : j < k => s[j].start <= s[k].start
  <2> DEFINE t == s
  <2>1. t = ByStart(ds)
    OBVIOUS
  <2> HIDE DEF t
  <2>2. \E p \in Bijection(DOMAIN ds, DOMAIN ds) :
          /\ t = Permuted(ds, p)
          /\ \A j, k \in DOMAIN ds : j < k => t[j].start <= t[k].start
    BY <1>1, <2>1, SortedByStart, Zenon
  <2> QED BY <2>2, Zenon DEF t
<1> HIDE DEF s
<1>3. PICK p \in Bijection(DOMAIN ds, DOMAIN ds) :
        /\ s = Permuted(ds, p)
        /\ \A j, k \in DOMAIN ds : j < k => s[j].start <= s[k].start
  BY <1>2
<1>4. /\ p \in [DOMAIN ds -> DOMAIN ds]
      /\ \A j, k \in DOMAIN ds : p[j] = p[k] => j = k
  BY DEF Bijection, Injection, IsInjective
<1>5. /\ s \in Seq(S) /\ Len(s) = Len(ds) /\ DOMAIN s = DOMAIN ds
      /\ ToSet(s) = ToSet(ds)
  BY <1>3, PermutedElements, Zenon
<1>6. \A k \in DOMAIN s : s[k] = ds[p[k]]
  BY <1>3, <1>5 DEF Permuted
<1>7. DOMAIN s = 1..Len(s) /\ Len(s) \in Nat
  BY <1>5
<1>8. bs = [k \in DOMAIN s |->
              [detection |-> s[k],
               placeholder |->
                 semanticPlaceholder(s[k].type,
                   Cardinality({ j \in 1..k : s[j].type = s[k].type }))]]
  BY DEF buildPlaceholders, s
<1>9. \A k \in DOMAIN s :
        /\ bs[k].detection = s[k]
        /\ bs[k].placeholder
             = semanticPlaceholder(s[k].type,
                 Cardinality({ j \in 1..k : s[j].type = s[k].type }))
  BY <1>8
<1>10. DOMAIN bs = DOMAIN s
  BY <1>8
<1>11. bs \in Seq(ToSet(bs))
  <2>1. bs \in [1..Len(s) -> ToSet(bs)]
    BY <1>7, <1>8 DEF ToSet
  <2> QED BY <1>7, <2>1
<1>12. ASSUME NEW k \in DOMAIN s
       PROVE  /\ s[k].type \in Int /\ s[k].start \in Int /\ s[k].end \in Int
              /\ 0 <= s[k].start /\ s[k].start < s[k].end /\ s[k].end <= n
  <2>1. s[k] \in S
    BY <1>5
  <2> QED BY <2>1 DEF SoundIn, AreDetections
<1>13. ASSUME NEW j \in DOMAIN s, NEW k \in DOMAIN s, j < k
       PROVE  s[j].end <= s[k].start
  <2>1. j # k /\ p[j] # p[k] /\ p[j] \in DOMAIN ds /\ p[k] \in DOMAIN ds
    BY <1>4, <1>5, <1>7, <1>13
  <2>2. ~ Intersect(s[j], s[k])
    BY <1>6, <2>1 DEF Apart
  <2>3. s[j].start <= s[k].start
    BY <1>3, <1>5, <1>13
  <2> QED BY <1>12, <2>2, <2>3 DEF Intersect
<1>14. InReadingOrder(bs, n)
  <2>1. ASSUME NEW k \in DOMAIN bs
        PROVE  LET d == bs[k].detection IN
               /\ d.type \in Int /\ d.start \in Int /\ d.end \in Int
               /\ 0 <= d.start /\ d.start < d.end /\ d.end <= n
    BY <1>9, <1>10, <1>12
  <2>2. ASSUME NEW j \in DOMAIN bs, NEW k \in DOMAIN bs, j < k
        PROVE  bs[j].detection.end <= bs[k].detection.start
    <3>1. s[j].end <= s[k].start
      BY <1>10, <1>13, <2>2
    <3> QED BY <1>9, <1>10, <3>1
  <2> QED BY <1>11, <2>1, <2>2 DEF InReadingOrder
<1>15. ToSet(ds) = { bs[k].detection : k \in DOMAIN bs }
  <2>1. ToSet(s) = { s[k] : k \in DOMAIN s }
    BY DEF ToSet
  <2>2. { s[k] : k \in DOMAIN s } = { bs[k].detection : k \in DOMAIN bs }
    BY <1>9, <1>10
  <2> QED BY <1>5, <2>1, <2>2
<1>16. ASSUME NEW k \in DOMAIN bs
       PROVE  bs[k].placeholder
                = semanticPlaceholder(bs[k].detection.type,
                    Cardinality({ j \in 1..k : bs[j].detection.type
                                                 = bs[k].detection.type }))
  <2>1. \A j \in 1..k : bs[j].detection.type = s[j].type
    <3>1. \A j \in 1..k : j \in DOMAIN s
      BY <1>7, <1>10
    <3> QED BY <1>9, <3>1
  <2>2. { j \in 1..k : bs[j].detection.type = bs[k].detection.type }
          = { j \in 1..k : s[j].type = s[k].type }
    BY <1>9, <1>10, <2>1
  <2> QED BY <1>9, <1>10, <2>2
<1> QED BY <1>14, <1>15, <1>16

\* One span is replaced: what is before it and what is behind it stay.
LEMMA ReplacedSpan ==
  ASSUME NEW T, NEW text \in Seq(T), NEW W \in Seq(T), NEW b,
         b.placeholder \in T,
         b.detection.start \in Int, b.detection.end \in Int,
         0 <= b.detection.start, b.detection.start < b.detection.end,
         b.detection.end <= Len(text)
  PROVE  Replaced(SubSeq(text, 1, b.detection.end) \o W, b)
           = SubSeq(text, 1, b.detection.start) \o (<<b.placeholder>> \o W)
<1> DEFINE d == b.detection
           x == d.start
           y == d.end
           q == b.placeholder
           A == SubSeq(text, 1, y)
           r == A \o W
<1>1. /\ x \in Nat /\ y \in Nat /\ Len(text) \in Nat /\ Len(W) \in Nat
      /\ 0 <= x /\ x < y /\ y <= Len(text) /\ q \in T
  OBVIOUS
<1>2. A \in Seq(T) /\ Len(A) = y
  BY <1>1
<1>3. r \in Seq(T) /\ Len(r) = y + Len(W)
  BY <1>1, <1>2
<1>4. Replaced(r, b) = SubSeq(r, 1, x) \o <<q>> \o SubSeq(r, y + 1, Len(r))
  <2>1. ~ (x < 0 \/ y > Len(r) \/ x >= y)
    BY <1>1, <1>3
  <2> HIDE DEF r
  <2> QED BY <2>1 DEF Replaced
<1> HIDE DEF x, y, q
<1>5. SubSeq(r, 1, x) = SubSeq(text, 1, x)
  BY <1>1, <1>2
<1>6. SubSeq(r, y + 1, Len(r)) = W
  BY <1>1, <1>2, <1>3
<1> DEFINE C == SubSeq(text, 1, x)
<1>7. C \in Seq(T) /\ <<q>> \in Seq(T)
  BY <1>1
<1> HIDE DEF C
<1>8. (C \o <<q>>) \o W = C \o (<<q>> \o W)
  BY <1>7, ConcatAssociative
<1> QED BY <1>4, <1>5, <1>6, <1>8 DEF C, x, y, q

\* Each binding of text is replaced where it stands.
SplicesIn(T, text, bs) ==
  \A k \in DOMAIN bs : \A W \in Seq(T) :
    Replaced(SubSeq(text, 1, bs[k].detection.end) \o W, bs[k])
      = SubSeq(text, 1, bs[k].detection.start) \o (<<bs[k].placeholder>> \o W)

\* The round for the k-th binding puts its placeholder in front of what is done.
LEMMA ReplacedBinding ==
  ASSUME NEW T, NEW text \in Seq(T), NEW bs, InReadingOrder(bs, Len(text)),
         \A k \in DOMAIN bs : bs[k].placeholder \in T
  PROVE  SplicesIn(T, text, bs)
<1> SUFFICES ASSUME NEW k \in DOMAIN bs, NEW W \in Seq(T)
             PROVE  Replaced(SubSeq(text, 1, bs[k].detection.end) \o W, bs[k])
                      = SubSeq(text, 1, bs[k].detection.start)
                          \o (<<bs[k].placeholder>> \o W)
  BY DEF SplicesIn
<1> DEFINE b == bs[k]
<1>1. /\ b.placeholder \in T
      /\ b.detection.start \in Int /\ b.detection.end \in Int
      /\ 0 <= b.detection.start /\ b.detection.start < b.detection.end
      /\ b.detection.end <= Len(text)
  BY DEF InReadingOrder
<1> HIDE DEF b
<1>2. Replaced(SubSeq(text, 1, b.detection.end) \o W, b)
        = SubSeq(text, 1, b.detection.start) \o (<<b.placeholder>> \o W)
  BY <1>1, ReplacedSpan
<1> QED BY <1>2 DEF b

\* A replacement gives tokens and placeholders.
LEMMA ReplacedType ==
  ASSUME NEW T, NEW r \in Seq(T), NEW b, b.placeholder \in T,
         b.detection.start \in Int, b.detection.end \in Int
  PROVE  Replaced(r, b) \in Seq(T)
<1> DEFINE x == b.detection.start
           y == b.detection.end
<1>1. CASE x < 0 \/ y > Len(r) \/ x >= y
  BY <1>1 DEF Replaced
<1>2. CASE ~ (x < 0 \/ y > Len(r) \/ x >= y)
  <2>1. Replaced(r, b) = SubSeq(r, 1, x) \o <<b.placeholder>>
                           \o SubSeq(r, y + 1, Len(r))
    BY <1>2 DEF Replaced
  <2>2. Len(r) \in Nat /\ x \in Nat /\ y \in Nat /\ x <= Len(r)
    BY <1>2
  <2> HIDE DEF x, y
  <2>3. SubSeq(r, 1, x) \in Seq(T) /\ SubSeq(r, y + 1, Len(r)) \in Seq(T)
    BY <2>2
  <2> QED BY <2>1, <2>3
<1> QED BY <1>1, <1>2

\* The loop of Anonymize over the placeholders of a text.
AllReplaced(bs, text) == FoldRight(LAMBDA b, t : Replaced(t, b), bs, text)

\* Anonymize replaces the placeholders from the last to the first: f[k] is the
\* text when the first k are still to be replaced.
LEMMA ReplacedSteps ==
  ASSUME NEW T, NEW text \in Seq(T), NEW n, NEW bs, InReadingOrder(bs, n),
         \A k \in DOMAIN bs : bs[k].placeholder \in T
  PROVE  \E f \in [0..Len(bs) -> Seq(T)] :
           /\ f[Len(bs)] = text
           /\ \A k \in 1..Len(bs) : f[k - 1] = Replaced(f[k], bs[k])
           /\ AllReplaced(bs, text) = f[0]
<1> DEFINE m == Len(bs)
           A == Seq(T)
           step == [q \in A \X (1..m) |-> Replaced(q[1], bs[q[2]])]
           ch == [t \in SUBSET (1..m) |-> Min(t)]
           Folds(it) == it = [t \in SUBSET (1..m) |->
                                IF t = {} THEN text
                                ELSE Replaced(it[t \ {Min(t)}], bs[Min(t)])]
           it0 == CHOOSE it : Folds(it)
<1>1. m \in Nat /\ DOMAIN bs = 1..m /\ text \in A
  BY DEF InReadingOrder
<1>2. FoldRight(LAMBDA b, t : Replaced(t, b), bs, text) = it0[1..m]
  <2>1. FoldRight(LAMBDA b, t : Replaced(t, b), bs, text) =
          (CHOOSE it : it = [t \in SUBSET DOMAIN bs |->
                               IF t = {} THEN text
                               ELSE Replaced(it[t \ {Min(t)}], bs[Min(t)])])[DOMAIN bs]
    BY Zenon DEF FoldRight, MapThenFoldSet
  <2>2. DOMAIN bs = 1..m
    BY <1>1
  <2> HIDE DEF m
  <2> QED BY <2>1, <2>2, Zenon
<1>3. ASSUME NEW r \in A, NEW k \in 1..m PROVE Replaced(r, bs[k]) \in A
  <2>1. /\ bs[k].placeholder \in T
        /\ bs[k].detection.start \in Int /\ bs[k].detection.end \in Int
    BY <1>1 DEF InReadingOrder
  <2> QED BY <2>1, ReplacedType
<1>4. step \in [A \X (1..m) -> A]
  <2> HIDE DEF A, m
  <2> QED BY <1>3
<1>5. ASSUME NEW t \in SUBSET (1..m), t # {}
      PROVE  Min(t) \in t /\ ch[t] = Min(t) /\ \A y \in t : Min(t) <= y
  BY <1>1, <1>5, LeastIn
<1>6. \E it \in [SUBSET (1..m) -> A] : FoldsWith(it, m, text, step, ch)
  <2>1. \A t \in SUBSET (1..m) : t # {} => ch[t] \in t
    BY <1>5
  <2> HIDE DEF step, ch, A, m
  <2> QED BY <1>1, <1>4, <2>1, FoldExists
<1> HIDE DEF A, m, ch
<1>7. \E it : Folds(it)
  <2>1. PICK it \in [SUBSET (1..m) -> A] : FoldsWith(it, m, text, step, ch)
    BY <1>6
  <2>2. ASSUME NEW t \in SUBSET (1..m)
        PROVE  it[t] = IF t = {} THEN text
                       ELSE Replaced(it[t \ {Min(t)}], bs[Min(t)])
    <3>1. CASE t = {}
      BY <2>1, <3>1 DEF FoldsWith
    <3>2. CASE t # {}
      <4>1. ch[t] = Min(t) /\ Min(t) \in 1..m /\ t \ {Min(t)} \in SUBSET (1..m)
        BY <1>5, <3>2
      <4>2. it[t] = step[<<it[t \ {Min(t)}], Min(t)>>]
        BY <2>1, <3>2, <4>1 DEF FoldsWith
      <4>3. it[t \ {Min(t)}] \in A
        BY <4>1
      <4> QED BY <3>2, <4>1, <4>2, <4>3
    <3> QED BY <3>1, <3>2
  <2>3. Folds(it)
    BY <2>2
  <2> QED BY <2>3
<1>8. Folds(it0)
  <2> HIDE DEF Folds
  <2> QED BY <1>7
<1> HIDE DEF it0
<1> DEFINE f == [k \in 0..m |-> it0[(k + 1)..m]]
<1>9. f[m] = text
  <2>1. (m + 1)..m = {} /\ {} \in SUBSET (1..m) /\ m \in 0..m
    BY <1>1
  <2> QED BY <1>8, <2>1
<1>10. ASSUME NEW k \in 1..m PROVE f[k - 1] = Replaced(f[k], bs[k])
  <2>0. /\ k \in k..m /\ k \in 0..m /\ k - 1 \in 0..m /\ (k - 1) + 1 = k
        /\ \A y \in k..m : y \in 1..m /\ k <= y
    BY <1>1
  <2>1. k..m \in SUBSET (1..m) /\ k..m # {} /\ k \in k..m
    BY <2>0
  <2>2. Min(k..m) \in k..m /\ \A y \in k..m : Min(k..m) <= y
    BY <1>5, <2>1
  <2>3. Min(k..m) = k
    <3> DEFINE l == Min(k..m)
    <3>1. l \in k..m /\ l <= k
      BY <2>1, <2>2
    <3> HIDE DEF l
    <3>2. l = k
      BY <1>1, <3>1
    <3> QED BY <3>2 DEF l
  <2>4. (k..m) \ {k} = (k + 1)..m
    BY <1>1, <2>0
  <2>5. it0[k..m] = Replaced(it0[(k..m) \ {Min(k..m)}], bs[Min(k..m)])
    BY <1>8, <2>1
  <2>6. it0[k..m] = Replaced(it0[(k + 1)..m], bs[k])
    BY <2>3, <2>4, <2>5
  <2> QED BY <2>0, <2>6
<1>11. FoldRight(LAMBDA b, t : Replaced(t, b), bs, text) = f[0]
  <2>1. 0 \in 0..m /\ 0 + 1 = 1
    BY <1>1
  <2>2. f[0] = it0[1..m]
    BY <2>1
  <2> HIDE DEF f
  <2> QED BY <1>2, <2>2, Zenon
<1>12. ASSUME NEW k \in 0..m PROVE f[k] \in A
  <2> HIDE DEF f
  <2> DEFINE I == { j \in 0..m : f[m - j] \in A }
  <2>1. 0 \in I
    <3>1. m - 0 = m /\ 0 \in 0..m
      BY <1>1
    <3> QED BY <1>1, <1>9, <3>1
  <2>2. ASSUME NEW j \in 0..(m - 1), j \in I PROVE j + 1 \in I
    <3>1. m - j \in 1..m /\ j + 1 \in 0..m /\ m - (j + 1) = (m - j) - 1
      BY <1>1
    <3>2. f[m - (j + 1)] = Replaced(f[m - j], bs[m - j])
      BY <1>10, <3>1
    <3> QED BY <1>3, <2>2, <3>1, <3>2
  <2>3. \A j \in 0..m : j \in I
    <3> HIDE DEF I
    <3> QED BY <1>1, <2>1, <2>2, InductionUpTo
  <2>4. m - k \in 0..m /\ m - (m - k) = k
    BY <1>1
  <2>5. f[m - (m - k)] \in A
    BY <2>3, <2>4
  <2> QED BY <2>4, <2>5
<1>13. f \in [0..m -> A]
  <2>1. f = [k \in 0..m |-> f[k]]
    OBVIOUS
  <2> HIDE DEF f
  <2> QED BY <1>12, <2>1
<1> HIDE DEF f
<1>14. AllReplaced(bs, text) = f[0]
  BY <1>11, Zenon DEF AllReplaced
<1> QED BY <1>9, <1>10, <1>13, <1>14, Zenon DEF A, m

-----------------------------------------------------------------------------
(***************************************************************************)
(* What the anonymized text is made of                                     *)
(***************************************************************************)
\* P cuts text along the bindings: the placeholder of a span at its first
\* token, nothing for the rest of it, and every other token as it is.
CutsAlong(P, text, bs) ==
  /\ DOMAIN P = DOMAIN text
  /\ \A k \in DOMAIN bs :
       LET d == bs[k].detection IN
       /\ P[d.start + 1] = <<bs[k].placeholder>>
       /\ \A x \in (d.start + 2)..d.end : P[x] = <<>>
  /\ \A x \in DOMAIN text :
       (\A k \in DOMAIN bs : ~ ( /\ bs[k].detection.start < x
                                 /\ x <= bs[k].detection.end ))
         => P[x] = <<text[x]>>

\* Pieces with nothing in them add nothing.
LEMMA FlattenEmpty ==
  ASSUME NEW T, NEW P \in Seq(Seq(T)), NEW a \in Nat, NEW c \in Nat,
         a <= c, c <= Len(P), \A x \in (a + 1)..c : P[x] = <<>>
  PROVE  FlattenSeq(SubSeq(P, a + 1, Len(P))) = FlattenSeq(SubSeq(P, c + 1, Len(P)))
<1> DEFINE n == Len(P)
           Post(e) == FlattenSeq(SubSeq(P, e + 1, n))
           N == c - a
           I == { j \in 0..N : Post(a + j) = Post(a) }
<1>1. n \in Nat /\ N \in Nat /\ a + N = c
  OBVIOUS
<1>2. \A e \in 1..n : Post(e - 1) = P[e] \o Post(e)
  <2> SUFFICES ASSUME NEW e \in 1..n PROVE Post(e - 1) = P[e] \o Post(e)
    OBVIOUS
  <2>1. e \in 1..Len(P) /\ (e - 1) + 1 = e
    BY <1>1
  <2>2. FlattenSeq(SubSeq(P, e, Len(P))) = P[e] \o FlattenSeq(SubSeq(P, e + 1, Len(P)))
    BY <2>1, FlattenFrom
  <2> QED BY <2>1, <2>2
<1>3. \A e \in 0..n : Post(e) \in Seq(T)
  <2> SUFFICES ASSUME NEW e \in 0..n PROVE Post(e) \in Seq(T)
    OBVIOUS
  <2> DEFINE Q == SubSeq(P, e + 1, n)
  <2>1. Q \in Seq(Seq(T))
    BY <1>1
  <2> HIDE DEF Q
  <2>2. FlattenSeq(Q) \in Seq(T)
    BY <2>1, FlattenType
  <2> QED BY <2>2 DEF Q
<1>4. c <= n
  OBVIOUS
<1> HIDE DEF Post, n, N
<1>5. 0 \in I
  BY <1>1
<1>6. ASSUME NEW j \in 0..(N - 1), j \in I PROVE j + 1 \in I
  <2> DEFINE e == a + j + 1
  <2>1. /\ e \in (a + 1)..c /\ e \in 1..n /\ e \in 0..n /\ e - 1 = a + j
        /\ e = a + (j + 1) /\ j + 1 \in 0..N
    BY <1>1, <1>4
  <2> HIDE DEF e
  <2>2. P[e] = <<>>
    BY <2>1
  <2>3. Post(e - 1) = <<>> \o Post(e)
    BY <1>2, <2>1, <2>2
  <2>4. Post(e) \in Seq(T)
    BY <1>3, <2>1
  <2>5. Post(e - 1) = Post(e)
    BY <2>3, <2>4, ConcatEmptySeq
  <2>6. Post(a + j) = Post(a)
    BY <1>6
  <2>7. Post(a + (j + 1)) = Post(a)
    BY <2>1, <2>5, <2>6
  <2> QED BY <2>1, <2>7
<1>7. \A j \in 0..N : j \in I
  <2> HIDE DEF I
  <2> QED BY <1>1, <1>5, <1>6, InductionUpTo
<1>8. Post(a + N) = Post(a)
  <2>1. N \in 0..N
    BY <1>1
  <2> QED BY <1>7, <2>1
<1> QED BY <1>1, <1>8 DEF Post, n

\* The anonymized text is made of these pieces.
LEMMA AnonymizedPieces ==
  ASSUME NEW T, NEW text \in Seq(T), NEW bs, InReadingOrder(bs, Len(text)),
         \A k \in DOMAIN bs : bs[k].placeholder \in T,
         NEW P \in Seq(Seq(T)), CutsAlong(P, text, bs)
  PROVE  AllReplaced(bs, text) = FlattenSeq(P)
<1> DEFINE n == Len(text)
           m == Len(bs)
           start(k) == bs[k].detection.start
           end(k) == bs[k].detection.end
           q(k) == bs[k].placeholder
           Low(k) == IF k = 0 THEN 0 ELSE end(k)
           High(k) == IF k = m THEN n ELSE start(k + 1)
           Pre(e) == SubSeq(text, 1, e)
           Post(e) == FlattenSeq(SubSeq(P, e + 1, n))
<1>1. /\ n \in Nat /\ m \in Nat /\ DOMAIN bs = 1..m /\ DOMAIN text = 1..n
      /\ \A x \in 1..n : text[x] \in T
  BY DEF InReadingOrder
<1>0. n \in Nat /\ m \in Nat
  BY <1>1
<1>2. Len(P) = n /\ DOMAIN P = 1..n
  BY <1>1 DEF CutsAlong
<1>3. \A k \in 1..m : /\ start(k) \in Int /\ end(k) \in Int /\ q(k) \in T
                      /\ 0 <= start(k) /\ start(k) < end(k) /\ end(k) <= n
  BY <1>1 DEF InReadingOrder
<1>4. \A j, k \in 1..m : j < k => end(j) <= start(k)
  BY <1>1 DEF InReadingOrder
<1>5. /\ \A k \in 1..m : P[start(k) + 1] = <<q(k)>>
      /\ \A k \in 1..m : \A x \in (start(k) + 2)..end(k) : P[x] = <<>>
      /\ \A x \in 1..n : (\A k \in 1..m : ~ (start(k) < x /\ x <= end(k)))
                           => P[x] = <<text[x]>>
  BY <1>1 DEF CutsAlong
<1> HIDE DEF start, end, q
<1>6. \A k \in 0..m : /\ Low(k) \in 0..n /\ High(k) \in 0..n
                      /\ Low(k) <= High(k)
  <2> SUFFICES ASSUME NEW k \in 0..m
               PROVE  Low(k) \in 0..n /\ High(k) \in 0..n /\ Low(k) <= High(k)
    OBVIOUS
  <2> HIDE DEF n, m
  <2>1. Low(k) \in 0..n
    BY <1>0, <1>3
  <2>2. CASE k = m
    BY <1>0, <2>1, <2>2
  <2>3. CASE k # m
    <3>1. k + 1 \in 1..m /\ High(k) = start(k + 1)
      BY <1>0, <2>3
    <3>2. High(k) \in 0..n
      BY <1>0, <1>3, <3>1
    <3>3. ASSUME k = 0 PROVE Low(k) <= High(k)
      <4>1. Low(k) = 0
        BY <3>3
      <4> HIDE DEF Low, High
      <4> QED BY <1>0, <3>2, <4>1
    <3>4. ASSUME k # 0 PROVE Low(k) <= High(k)
      <4>1. k \in 1..m /\ k < k + 1 /\ Low(k) = end(k)
        BY <1>0, <3>4
      <4> QED BY <1>4, <2>1, <3>1, <3>2, <4>1
    <3> HIDE DEF Low, High
    <3> QED BY <2>1, <3>2, <3>3, <3>4
  <2> QED BY <2>2, <2>3
<1>7. \A e \in 0..n : Pre(e) \in Seq(T) /\ Post(e) \in Seq(T) /\ Len(Pre(e)) = e
  <2> SUFFICES ASSUME NEW e \in 0..n
               PROVE  Pre(e) \in Seq(T) /\ Post(e) \in Seq(T) /\ Len(Pre(e)) = e
    OBVIOUS
  <2> DEFINE Q == SubSeq(P, e + 1, n)
  <2>1. Q \in Seq(Seq(T))
    BY <1>1, <1>2
  <2>2. FlattenSeq(Q) \in Seq(T)
    <3> HIDE DEF Q
    <3> QED BY <2>1, FlattenType
  <2> QED BY <1>1, <2>2
<1>22. \A k \in 1..m : \A W \in Seq(T) :
         Replaced(SubSeq(text, 1, end(k)) \o W, bs[k])
           = SubSeq(text, 1, start(k)) \o (<<q(k)>> \o W)
  <2>1. SplicesIn(T, text, bs)
    BY ReplacedBinding
  <2> QED BY <1>1, <2>1 DEF SplicesIn, start, end, q
<1>8. \A e \in 1..n : Post(e - 1) = P[e] \o Post(e)
  <2> SUFFICES ASSUME NEW e \in 1..n PROVE Post(e - 1) = P[e] \o Post(e)
    OBVIOUS
  <2>1. e \in 1..Len(P) /\ (e - 1) + 1 = e
    BY <1>1, <1>2
  <2>2. FlattenSeq(SubSeq(P, e, Len(P))) = P[e] \o FlattenSeq(SubSeq(P, e + 1, Len(P)))
    BY <2>1, FlattenFrom
  <2> QED BY <1>2, <2>1, <2>2
<1>9. \A a, b, c \in Seq(T) : (a \o b) \o c = a \o (b \o c)
  BY ConcatAssociative
<1>10. Post(n) = <<>>
  <2>1. SubSeq(P, n + 1, n) = <<>>
    BY <1>1, <1>2
  <2> QED BY <2>1, FlattenNone
<1>11. Post(0) = FlattenSeq(P)
  <2>1. SubSeq(P, 0 + 1, n) = P
    BY <1>1, <1>2
  <2> QED BY <2>1
<1>12. \A e \in 1..n : Pre(e) = Pre(e - 1) \o <<text[e]>>
  BY <1>1
<1>13. Pre(0) = <<>> /\ Pre(n) = text
  BY <1>1
<1> HIDE DEF Pre, Post, n, m
\* Between two spans the border may be drawn anywhere.
<1>14. ASSUME NEW k \in 0..m
       PROVE  \A e \in Low(k)..High(k) :
                Pre(e) \o Post(e) = Pre(Low(k)) \o Post(Low(k))
  <2> DEFINE l == Low(k)
             N == High(k) - l
             I == { j \in 0..N : Pre(l + j) \o Post(l + j) = Pre(l) \o Post(l) }
  <2>1. l \in 0..n /\ N \in Nat /\ l + N \in 0..n /\ l + N = High(k)
    BY <1>0, <1>6
  <2>2. ASSUME NEW j \in 0..(N - 1)
        PROVE  \A i \in 1..m : ~ (start(i) < l + j + 1 /\ l + j + 1 <= end(i))
    <3> SUFFICES ASSUME NEW i \in 1..m
                 PROVE  ~ (start(i) < l + j + 1 /\ l + j + 1 <= end(i))
      OBVIOUS
    <3>1. CASE i <= k
      <4>1. k \in 1..m /\ l = end(k)
        BY <1>0, <3>1
      <4>2. end(i) <= end(k)
        <5>1. CASE i = k
          BY <1>3, <5>1
        <5>2. CASE i # k
          <6>0. i < k
            BY <1>0, <3>1, <4>1, <5>2
          <6>1. end(i) <= start(k) /\ start(k) < end(k)
            BY <1>3, <1>4, <4>1, <6>0
          <6> QED BY <1>3, <4>1, <6>1
        <5> QED BY <5>1, <5>2
      <4> HIDE DEF l
      <4> QED BY <1>3, <2>1, <4>1, <4>2
    <3>2. CASE ~ (i <= k)
      <4>1. k + 1 \in 1..m /\ k # m /\ k + 1 <= i
        BY <1>0, <3>2
      <4>2. High(k) = start(k + 1)
        BY <4>1
      <4>3. start(k + 1) <= start(i)
        <5>1. CASE i = k + 1
          BY <1>3, <5>1
        <5>2. CASE i # k + 1
          <6>0. k + 1 < i
            BY <1>0, <4>1, <5>2
          <6>1. end(k + 1) <= start(i) /\ start(k + 1) < end(k + 1)
            BY <1>3, <1>4, <4>1, <6>0
          <6> QED BY <1>3, <4>1, <6>1
        <5> QED BY <5>1, <5>2
      <4> HIDE DEF l
      <4>4. l + j + 1 <= High(k)
        <5> HIDE DEF High
        <5> QED BY <1>0, <2>1
      <4>5. start(i) \in Int /\ start(k + 1) \in Int
        BY <1>3, <4>1
      <4> QED BY <2>1, <4>2, <4>3, <4>4, <4>5
    <3> QED BY <3>1, <3>2
  <2> HIDE DEF l, N
  <2>3. 0 \in I
    BY <2>1
  <2>4. ASSUME NEW j \in 0..(N - 1), j \in I PROVE j + 1 \in I
    <3> DEFINE e == l + j + 1
    <3>1. e \in 1..n /\ e - 1 = l + j /\ e = l + (j + 1) /\ j + 1 \in 0..N
      BY <1>0, <2>1
    <3>2. P[e] = <<text[e]>>
      BY <1>5, <2>2, <3>1
    <3> HIDE DEF e
    <3>3. e \in 0..n /\ e - 1 \in 0..n /\ text[e] \in T
      <4>1. e \in 0..n /\ e - 1 \in 0..n
        BY <1>0, <3>1
      <4> QED BY <1>1, <3>1, <4>1
    <3>4. Post(e - 1) = <<text[e]>> \o Post(e)
      BY <1>8, <3>1, <3>2
    <3>5. Pre(e) = Pre(e - 1) \o <<text[e]>>
      BY <1>12, <3>1
    <3>6. /\ Pre(e - 1) \in Seq(T) /\ Post(e) \in Seq(T)
          /\ <<text[e]>> \in Seq(T)
      BY <1>7, <3>3
    <3>7. Pre(e) \o Post(e) = Pre(e - 1) \o Post(e - 1)
      <4>1. (Pre(e - 1) \o <<text[e]>>) \o Post(e)
              = Pre(e - 1) \o (<<text[e]>> \o Post(e))
        BY <1>9, <3>6
      <4> QED BY <3>4, <3>5, <4>1
    <3>8. Pre(l + j) \o Post(l + j) = Pre(l) \o Post(l)
      BY <2>4
    <3>9. Pre(l + (j + 1)) \o Post(l + (j + 1)) = Pre(l) \o Post(l)
      BY <3>1, <3>7, <3>8
    <3> QED BY <3>1, <3>9
  <2>5. \A j \in 0..N : j \in I
    <3> HIDE DEF I
    <3> QED BY <2>1, <2>3, <2>4, InductionUpTo
  <2>6. ASSUME NEW e \in l..(l + N) PROVE Pre(e) \o Post(e) = Pre(l) \o Post(l)
    <3>1. e - l \in 0..N /\ l + (e - l) = e
      BY <2>1
    <3>2. Pre(l + (e - l)) \o Post(l + (e - l)) = Pre(l) \o Post(l)
      BY <2>5, <3>1
    <3> QED BY <3>1, <3>2
  <2> HIDE DEF High
  <2> QED BY <2>1, <2>6 DEF l
\* A span adds its placeholder.
<1>15. ASSUME NEW k \in 1..m PROVE Post(start(k)) = <<q(k)>> \o Post(end(k))
  <2>1. start(k) + 1 \in 1..n /\ (start(k) + 1) - 1 = start(k)
    <3>1. start(k) \in Int /\ 0 <= start(k) /\ start(k) < n
      BY <1>0, <1>3
    <3> QED BY <1>0, <3>1
  <2>2. Post(start(k)) = P[start(k) + 1] \o Post(start(k) + 1)
    BY <1>8, <2>1
  <2>3. Post(start(k) + 1) = Post(end(k))
    <3> DEFINE a == start(k) + 1
               c == end(k)
    <3>1. a \in Nat /\ c \in Nat /\ a <= c /\ c <= n /\ a + 1 = start(k) + 2
      <4>1. /\ start(k) \in Int /\ end(k) \in Int /\ end(k) <= n
            /\ 0 <= start(k) /\ start(k) < end(k)
        BY <1>3
      <4> QED BY <1>0, <4>1
    <3>2. \A x \in (a + 1)..c : P[x] = <<>>
      BY <1>5, <3>1
    <3> HIDE DEF a, c
    <3>3. FlattenSeq(SubSeq(P, a + 1, Len(P))) = FlattenSeq(SubSeq(P, c + 1, Len(P)))
      BY <1>2, <3>1, <3>2, FlattenEmpty
    <3> QED BY <1>2, <3>3 DEF Post, a, c
  <2> QED BY <1>5, <2>2, <2>3
<1>16. PICK f \in [0..m -> Seq(T)] :
         /\ f[m] = text
         /\ \A k \in 1..m : f[k - 1] = Replaced(f[k], bs[k])
         /\ AllReplaced(bs, text) = f[0]
  <2>1. \E f \in [0..Len(bs) -> Seq(T)] :
          /\ f[Len(bs)] = text
          /\ \A k \in 1..Len(bs) : f[k - 1] = Replaced(f[k], bs[k])
          /\ AllReplaced(bs, text) = f[0]
    BY ReplacedSteps
  <2> QED BY <2>1 DEF m
<1> DEFINE I == { j \in 0..m : f[m - j] = Pre(Low(m - j)) \o Post(Low(m - j)) }
<1>17. 0 \in I
  <2>0. m \in 0..m /\ High(m) = n
    BY <1>0
  <2>1. n \in Low(m)..High(m)
    <3>1. Low(m) \in 0..n /\ Low(m) <= High(m)
      BY <1>6, <2>0
    <3> HIDE DEF Low, High
    <3> QED BY <1>0, <2>0, <3>1
  <2>2. Pre(n) \o Post(n) = Pre(Low(m)) \o Post(Low(m))
    <3> HIDE DEF Low, High
    <3> QED BY <1>14, <2>0, <2>1
  <2>3. Pre(n) \o Post(n) = text
    BY <1>10, <1>13, ConcatEmptySeq
  <2>4. m - 0 = m /\ 0 \in 0..m
    BY <1>0
  <2> HIDE DEF Low
  <2> QED BY <1>16, <2>2, <2>3, <2>4
<1>18. ASSUME NEW j \in 0..(m - 1), j \in I PROVE j + 1 \in I
  <2> DEFINE k == m - j
  <2>1. /\ k \in 1..m /\ k \in 0..m /\ k - 1 \in 0..m /\ m - (j + 1) = k - 1
        /\ j + 1 \in 0..m /\ k # 0
    BY <1>0
  <2> HIDE DEF k
  <2>2. f[k] = Pre(end(k)) \o Post(end(k))
    <3>1. Low(k) = end(k)
      BY <2>1
    <3> QED BY <1>18, <3>1 DEF k
  <2>3. end(k) \in 0..n /\ start(k) \in 0..n
    BY <1>0, <1>3, <2>1
  <2>4. Replaced(f[k], bs[k]) = Pre(start(k)) \o (<<q(k)>> \o Post(end(k)))
    <3>1. Post(end(k)) \in Seq(T)
      BY <1>7, <2>3
    <3>2. Replaced(SubSeq(text, 1, end(k)) \o Post(end(k)), bs[k])
            = SubSeq(text, 1, start(k)) \o (<<q(k)>> \o Post(end(k)))
      BY <1>22, <2>1, <3>1
    <3> QED BY <2>2, <3>2 DEF Pre
  <2>5. f[k - 1] = Pre(start(k)) \o Post(start(k))
    BY <1>15, <1>16, <2>1, <2>4
  <2>6. High(k - 1) = start(k)
    BY <2>1
  <2>7. start(k) \in Low(k - 1)..High(k - 1)
    <3>1. Low(k - 1) \in 0..n /\ Low(k - 1) <= High(k - 1)
      BY <1>6, <2>1
    <3> HIDE DEF Low, High
    <3> QED BY <2>3, <2>6, <3>1
  <2>8. f[k - 1] = Pre(Low(k - 1)) \o Post(Low(k - 1))
    <3> HIDE DEF Low, High
    <3> QED BY <1>14, <2>1, <2>5, <2>7
  <2> HIDE DEF Low
  <2>9. f[m - (j + 1)] = Pre(Low(m - (j + 1))) \o Post(Low(m - (j + 1)))
    BY <2>1, <2>8
  <2> QED BY <2>1, <2>9
<1>19. m \in I
  <2> HIDE DEF I
  <2>1. \A j \in 0..m : j \in I
    BY <1>0, <1>17, <1>18, InductionUpTo
  <2> QED BY <1>0, <2>1
<1>20. f[0] = Pre(0) \o Post(0)
  <2>1. m - m = 0
    BY <1>0
  <2> QED BY <1>19, <2>1
<1>21. 0 \in 0..n
  BY <1>0
<1> QED BY <1>7, <1>11, <1>13, <1>16, <1>20, <1>21, ConcatEmptySeq

\* bs numbers the detections D in reading order.
Numbers(bs, D) ==
  /\ D = { bs[k].detection : k \in DOMAIN bs }
  /\ \A k \in DOMAIN bs :
       bs[k].placeholder
         = semanticPlaceholder(bs[k].detection.type,
             Cardinality({ j \in 1..k : bs[j].detection.type
                                          = bs[k].detection.type }))

\* The token that stands for d, and what becomes of token x.
Standing(d, D) ==
  semanticPlaceholder(d.type,
    Cardinality({ e \in D : e.type = d.type /\ e.start <= d.start }))

PieceAt(x, text, D) ==
  IF \E d \in D : d.start = x - 1
  THEN <<Standing(CHOOSE e \in D : e.start = x - 1, D)>>
  ELSE IF \E d \in D : d.start < x /\ x <= d.end
  THEN <<>> ELSE <<text[x]>>

\* The number of a placeholder does not depend on the binding it comes from:
\* it is the number of detections of the type up to it.
LEMMA NumberedByPlace ==
  ASSUME NEW n, NEW bs, InReadingOrder(bs, n), NEW D, Numbers(bs, D),
         NEW k \in DOMAIN bs
  PROVE  bs[k].placeholder = Standing(bs[k].detection, D)
<1> DEFINE m == Len(bs)
           d(j) == bs[j].detection
           J == { j \in 1..k : d(j).type = d(k).type }
           E == { e \in D : e.type = d(k).type /\ e.start <= d(k).start }
           f == [j \in J |-> d(j)]
<1>1. /\ m \in Nat /\ DOMAIN bs = 1..m /\ k \in 1..m
      /\ \A j \in 1..m : /\ d(j).start \in Int /\ d(j).end \in Int
                         /\ d(j).start < d(j).end
      /\ \A i, j \in 1..m : i < j => d(i).end <= d(j).start
  BY DEF InReadingOrder
<1>2. D = { d(j) : j \in 1..m }
  BY <1>1 DEF Numbers
<1> HIDE DEF d, m
<1>3. ASSUME NEW i \in 1..m, NEW j \in 1..m, i < j PROVE d(i).start < d(j).start
  <2>1. d(i).end <= d(j).start /\ d(i).start < d(i).end
    BY <1>1, <1>3
  <2>2. d(i).start \in Int /\ d(i).end \in Int /\ d(j).start \in Int
    BY <1>1
  <2> QED BY <2>1, <2>2
<1>4. ASSUME NEW i \in 1..m, NEW j \in 1..m, d(i) = d(j) PROVE i = j
  <2>1. ~ (d(i).start < d(j).start) /\ ~ (d(j).start < d(i).start)
    BY <1>1, <1>4
  <2>2. ~ (i < j) /\ ~ (j < i)
    BY <1>3, <2>1
  <2> QED BY <2>2
<1>5. \A j \in 1..k : j \in 1..m
  BY <1>1
<1>6. ASSUME NEW j \in J PROVE d(j) \in E
  <2>1. j \in 1..m /\ d(j).type = d(k).type
    BY <1>5
  <2>2. d(j).start <= d(k).start
    <3>1. CASE j = k
      BY <1>1, <3>1
    <3>2. CASE j # k
      <4>1. j < k
        BY <1>1, <3>2
      <4>2. d(j).start < d(k).start /\ d(j).start \in Int /\ d(k).start \in Int
        BY <1>1, <1>3, <2>1, <4>1
      <4> QED BY <4>2
    <3> QED BY <3>1, <3>2
  <2>3. d(j) \in D
    BY <1>2, <2>1
  <2> QED BY <2>1, <2>2, <2>3
<1>7. ASSUME NEW e \in E PROVE \E j \in J : d(j) = e
  <2>1. PICK j \in 1..m : e = d(j)
    BY <1>2
  <2>2. ~ (k < j)
    <3> SUFFICES ASSUME k < j PROVE FALSE
      OBVIOUS
    <3>1. d(k).start < d(j).start /\ d(j).start <= d(k).start
      BY <1>1, <1>3, <2>1
    <3>2. d(k).start \in Int /\ d(j).start \in Int
      BY <1>1
    <3> QED BY <3>1, <3>2
  <2>3. j \in 1..k
    BY <1>1, <2>2
  <2>4. d(j).type = d(k).type
    BY <2>1
  <2> QED BY <2>1, <2>3, <2>4
<1>8. f \in Bijection(J, E)
  <2>1. f \in [J -> E]
    BY <1>6
  <2>2. \A i, j \in J : f[i] = f[j] => i = j
    BY <1>4, <1>5
  <2>3. \A e \in E : \E j \in J : f[j] = e
    BY <1>7
  <2> HIDE DEF f, J, E
  <2> QED BY <2>1, <2>2, <2>3 DEF Bijection, Injection, Surjection, IsInjective
<1>9. IsFiniteSet(J)
  <2> DEFINE N == 1..k
  <2>1. IsFiniteSet(N) /\ J \in SUBSET N
    BY <1>1, FS_Interval
  <2> HIDE DEF N, J
  <2> QED BY <2>1, FS_Subset
<1>10. Cardinality(J) = Cardinality(E)
  <2> HIDE DEF f, J, E
  <2>1. ExistsBijection(J, E)
    BY <1>8 DEF ExistsBijection
  <2> QED BY <1>9, <2>1, FS_Bijection
<1>11. bs[k].placeholder = semanticPlaceholder(d(k).type, Cardinality(J))
  BY DEF Numbers, d
<1>12. Standing(d(k), D) = semanticPlaceholder(d(k).type, Cardinality(E))
  BY DEF Standing
<1> HIDE DEF J, E
<1>13. bs[k].placeholder = Standing(d(k), D)
  BY <1>10, <1>11, <1>12, Zenon
<1> QED BY <1>13 DEF d

\* The sequences of no member and of one.
LEMMA ShortSequences ==
  ASSUME NEW T
  PROVE  /\ <<>> \in Seq(T)
         /\ \A y \in T : <<y>> \in Seq(T)
OBVIOUS

\* The detections alone say how the text is cut.
LEMMA PiecesCut ==
  ASSUME NEW S, NEW text \in Seq(S), NEW bs, InReadingOrder(bs, Len(text)),
         NEW D, Numbers(bs, D),
         NEW P, P = [x \in DOMAIN text |-> PieceAt(x, text, D)],
         NEW T, T = S \union { bs[k].placeholder : k \in DOMAIN bs }
  PROVE  P \in Seq(Seq(T)) /\ CutsAlong(P, text, bs)
<1> DEFINE n == Len(text)
           m == Len(bs)
           d(j) == bs[j].detection
           s(j) == d(j).start
           e(j) == d(j).end
           q(j) == bs[j].placeholder
<1>1. /\ m \in Nat /\ DOMAIN bs = 1..m /\ n \in Nat /\ DOMAIN text = 1..n
      /\ \A j \in 1..m : s(j) \in Int /\ e(j) \in Int
                         /\ 0 <= s(j) /\ s(j) < e(j) /\ e(j) <= n
      /\ \A i, j \in 1..m : i < j => e(i) <= s(j)
  BY DEF InReadingOrder
<1>2. D = { d(j) : j \in 1..m }
  BY <1>1 DEF Numbers
<1>3. \A j \in 1..m : q(j) = Standing(d(j), D)
  BY <1>1, NumberedByPlace
<1>4. DOMAIN P = 1..n /\ \A x \in 1..n : P[x] = PieceAt(x, text, D) /\ text[x] \in S
  BY <1>1
<1>5. \A j \in 1..m : d(j) \in D /\ s(j) = d(j).start /\ e(j) = d(j).end
  BY <1>2
<1>6. \A c \in D : \E j \in 1..m : c = d(j)
  BY <1>2
<1>7. n \in Nat /\ m \in Nat
  BY <1>1
<1>8. \A j \in 1..m : q(j) \in T
  BY <1>1
<1> HIDE DEF d, s, e, q, n, m
\* No other detection starts or runs through the span of one.
<1>9. ASSUME NEW i \in 1..m, NEW j \in 1..m, i # j
      PROVE  e(i) <= s(j) \/ e(j) <= s(i)
  <2>1. i < j \/ j < i
    BY <1>9
  <2> QED BY <1>1, <2>1
<1>10. ASSUME NEW j \in 1..m, NEW c \in D, s(j) <= c.start, c.start < e(j)
       PROVE  c = d(j)
  <2>1. PICK i \in 1..m : c = d(i)
    BY <1>6
  <2>2. CASE i = j
    BY <2>1, <2>2
  <2>3. CASE i # j
    <3>1. e(i) <= s(j) \/ e(j) <= s(i)
      BY <1>9, <2>3
    <3>2. /\ s(i) \in Int /\ e(i) \in Int /\ s(j) \in Int /\ e(j) \in Int
          /\ s(i) < e(i)
      BY <1>1
    <3>3. s(j) <= s(i) /\ s(i) < e(j)
      BY <1>5, <1>10, <2>1
    <3> QED BY <3>1, <3>2, <3>3
  <2> QED BY <2>2, <2>3
<1>11. ASSUME NEW j \in 1..m
       PROVE  s(j) + 1 \in 1..n /\ P[s(j) + 1] = <<q(j)>>
  <2>1. /\ s(j) \in Int /\ e(j) \in Int /\ 0 <= s(j) /\ s(j) < e(j) /\ e(j) <= n
    BY <1>1
  <2>2. s(j) + 1 \in 1..n /\ (s(j) + 1) - 1 = s(j)
    BY <1>7, <2>1
  <2>3. d(j) \in D /\ d(j).start = (s(j) + 1) - 1
    BY <1>5, <2>2
  <2>4. ASSUME NEW c \in D, c.start = (s(j) + 1) - 1 PROVE c = d(j)
    <3>1. s(j) <= c.start /\ c.start < e(j)
      BY <2>1, <2>2, <2>4
    <3> QED BY <1>10, <3>1
  <2>5. (CHOOSE c \in D : c.start = (s(j) + 1) - 1) = d(j)
    BY <2>3, <2>4
  <2>6. PieceAt(s(j) + 1, text, D) = <<Standing(d(j), D)>>
    BY <2>3, <2>5 DEF PieceAt
  <2> QED BY <1>3, <1>4, <2>2, <2>6
<1>12. ASSUME NEW j \in 1..m, NEW x \in (s(j) + 2)..e(j)
       PROVE  x \in 1..n /\ P[x] = <<>>
  <2>1. /\ s(j) \in Int /\ e(j) \in Int /\ 0 <= s(j) /\ s(j) < e(j) /\ e(j) <= n
    BY <1>1
  <2>2. x \in 1..n /\ s(j) < x - 1 /\ x - 1 < e(j) /\ s(j) < x /\ x <= e(j)
    BY <1>7, <2>1
  <2>3. ~ \E c \in D : c.start = x - 1
    <3> SUFFICES ASSUME NEW c \in D, c.start = x - 1 PROVE FALSE
      OBVIOUS
    <3>1. c = d(j)
      <4>1. s(j) <= c.start /\ c.start < e(j)
        BY <2>1, <2>2
      <4> QED BY <1>10, <4>1
    <3>2. s(j) = x - 1
      BY <1>5, <3>1
    <3> QED BY <2>1, <2>2, <3>2
  <2>4. \E c \in D : c.start < x /\ x <= c.end
    BY <1>5, <2>2
  <2>5. PieceAt(x, text, D) = <<>>
    BY <2>3, <2>4 DEF PieceAt
  <2> QED BY <1>4, <2>2, <2>5
<1>13. ASSUME NEW x \in 1..n, \A j \in 1..m : ~ (s(j) < x /\ x <= e(j))
       PROVE  P[x] = <<text[x]>>
  <2>1. ~ \E c \in D : c.start < x /\ x <= c.end
    BY <1>5, <1>6, <1>13
  <2>2. ~ \E c \in D : c.start = x - 1
    <3> SUFFICES ASSUME NEW c \in D, c.start = x - 1 PROVE FALSE
      OBVIOUS
    <3>1. PICK j \in 1..m : c = d(j)
      BY <1>6
    <3>2. /\ s(j) = x - 1 /\ s(j) < e(j) /\ s(j) \in Int /\ e(j) \in Int
      BY <1>1, <1>5, <3>1
    <3>3. s(j) < x /\ x <= e(j)
      BY <3>2
    <3> QED BY <1>13, <3>3
  <2>3. PieceAt(x, text, D) = <<text[x]>>
    BY <2>1, <2>2 DEF PieceAt
  <2> QED BY <1>4, <2>3
<1>17. /\ <<>> \in Seq(T)
       /\ \A y \in T : <<y>> \in Seq(T)
  BY ShortSequences
<1>14. ASSUME NEW x \in 1..n PROVE P[x] \in Seq(T)
  <2>1. CASE \A j \in 1..m : ~ (s(j) < x /\ x <= e(j))
    <3>1. P[x] = <<text[x]>> /\ text[x] \in T
      BY <1>4, <1>13, <2>1
    <3> QED BY <1>17, <3>1, Zenon
  <2>2. CASE ~ \A j \in 1..m : ~ (s(j) < x /\ x <= e(j))
    <3>1. PICK j \in 1..m : s(j) < x /\ x <= e(j)
      BY <2>2
    <3>2. s(j) \in Int /\ e(j) \in Int
      BY <1>1
    <3>3. CASE x = s(j) + 1
      <4>1. P[x] = <<q(j)>> /\ q(j) \in T
        BY <1>8, <1>11, <3>3
      <4> QED BY <1>17, <4>1, Zenon
    <3>4. CASE x # s(j) + 1
      <4>1. x \in (s(j) + 2)..e(j)
        BY <3>1, <3>2, <3>4
      <4>2. P[x] = <<>>
        BY <1>12, <4>1
      <4> QED BY <1>17, <4>2, Zenon
    <3> QED BY <3>3, <3>4
  <2> QED BY <2>1, <2>2
<1>15. P \in Seq(Seq(T))
  <2>1. P = [x \in 1..n |-> P[x]]
    BY <1>1, <1>4 DEF n
  <2>2. P \in [1..n -> Seq(T)]
    BY <1>14, <2>1
  <2> QED BY <1>7, <2>2
<1>16. CutsAlong(P, text, bs)
  <2>1. ASSUME NEW k \in DOMAIN bs
        PROVE  LET c == bs[k].detection IN
               /\ P[c.start + 1] = <<bs[k].placeholder>>
               /\ \A x \in (c.start + 2)..c.end : P[x] = <<>>
    BY <1>1, <1>11, <1>12 DEF d, s, e, q, n, m
  <2>2. ASSUME NEW x \in DOMAIN text,
               \A k \in DOMAIN bs : ~ ( /\ bs[k].detection.start < x
                                        /\ x <= bs[k].detection.end )
        PROVE  P[x] = <<text[x]>>
    BY <1>1, <1>13, <2>2 DEF d, s, e, q, n, m
  <2>3. DOMAIN P = DOMAIN text
    OBVIOUS
  <2> QED BY <2>1, <2>2, <2>3 DEF CutsAlong
<1> QED BY <1>15, <1>16

\* The text Anonymize gives for what a scan has resolved: each span is one
\* placeholder, every other token is as it was.
LEMMA AnonymizedText ==
  ASSUME NEW text, IsText(text), NEW F, SoundIn(F, Len(text)),
         NEW r, r = resolveOverlaps(SetToSeq(F)),
         NEW bs, bs = buildPlaceholders(resolveOverlaps(r))
  PROVE  /\ InReadingOrder(bs, Len(text))
         /\ Numbers(bs, ToSet(r))
         /\ Anonymize(text, r) = AllReplaced(bs, text)
         /\ Anonymize(text, r)
              = FlattenSeq([x \in DOMAIN text |-> PieceAt(x, text, ToSet(r))])
<1> DEFINE n == Len(text)
           S == ToSet(text)
           D == ToSet(r)
           T == S \union { bs[k].placeholder : k \in DOMAIN bs }
           P == [x \in DOMAIN text |-> PieceAt(x, text, D)]
<1>1. text \in Seq(S)
  BY DEF IsText
<1> HIDE DEF S
<1>2. n \in Nat
  BY <1>1
<1>3. r \in Seq(F) /\ Ordered(r) /\ Apart(r) /\ HaveSpans(r)
  BY ResolvedFindings
<1>4. AreDetections(F)
  BY DEF SoundIn
<1>5. resolveOverlaps(r) = r
  BY <1>3, <1>4, ResolvedAgain
<1>6. bs = buildPlaceholders(r)
  BY <1>5
<1> HIDE DEF n
<1>7. SoundIn(F, n)
  BY DEF n
<1>8. /\ InReadingOrder(bs, n)
      /\ D = { bs[k].detection : k \in DOMAIN bs }
      /\ \A k \in DOMAIN bs :
              bs[k].placeholder
                = semanticPlaceholder(bs[k].detection.type,
                    Cardinality({ j \in 1..k : bs[j].detection.type
                                                 = bs[k].detection.type }))
  BY <1>2, <1>3, <1>6, <1>7, PlaceholdersInOrder
<1>9. Numbers(bs, D)
  BY <1>8, Zenon DEF Numbers
<1>10. Anonymize(text, r) = AllReplaced(bs, text)
  BY <1>5, <1>6, Zenon DEF Anonymize, AllReplaced
<1>11. InReadingOrder(bs, Len(text))
  BY <1>8 DEF n
<1> HIDE DEF D
<1>12. P \in Seq(Seq(T)) /\ CutsAlong(P, text, bs)
  <2> DEFINE Q == P
             U == T
  <2>1. Q = [x \in DOMAIN text |-> PieceAt(x, text, D)]
    OBVIOUS
  <2>2. U = S \union { bs[k].placeholder : k \in DOMAIN bs }
    OBVIOUS
  <2> HIDE DEF Q, U
  <2>3. Q \in Seq(Seq(U)) /\ CutsAlong(Q, text, bs)
    BY <1>1, <1>9, <1>11, <2>1, <2>2, PiecesCut
  <2> QED BY <2>3 DEF Q, U
<1>13. text \in Seq(T)
  <2>1. S \subseteq T
    OBVIOUS
  <2> HIDE DEF T
  <2> QED BY <1>1, <2>1
<1>14. \A k \in DOMAIN bs : bs[k].placeholder \in T
  OBVIOUS
<1> HIDE DEF P, T
<1>15. AllReplaced(bs, text) = FlattenSeq(P)
  BY <1>11, <1>12, <1>13, <1>14, AnonymizedPieces
<1>16. Anonymize(text, r) = FlattenSeq(P)
  BY <1>10, <1>15
<1> QED BY <1>9, <1>10, <1>11, <1>16 DEF P, D
=============================================================================
