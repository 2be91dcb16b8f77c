------------------------- MODULE OverlapLoopProofs -------------------------
(***************************************************************************)
(* The greedy loop of resolveOverlaps arbitrates any sequence of           *)
(* detections, of any length.  The argument is the invariant LoopInv: the  *)
(* candidates behind the cursor are decided for good, because everything   *)
(* that goes before a candidate has been decided before it.                *)
(***************************************************************************)
EXTENDS OverlapLoop, ScanProofs

\* The sort has run: the call is in the loop or has left it.
Sorting ==
  \/ pc = "loop"
  \/ pc = "done" /\ Len(detections) > 1

\* Nothing is behind something it goes before, and the copy has the elements
\* of the argument.
InOrder ==
  /\ ToSet(sorted) = ToSet(detections)
  /\ \A j, k \in DOMAIN sorted : j < k => ~ Before(sorted[k], sorted[j])

\* What is kept is behind the cursor, has a span and is pairwise disjoint.
KeptBehind ==
  \A r \in Result : \E j \in DOMAIN sorted : j < cursor /\ r = sorted[j]

KeptHaveSpans == \A r \in Result : Size(r) > 0

\* What is behind the cursor and not kept has no span or gave way.
DroppedForCause ==
  \A j \in DOMAIN sorted :
    j < cursor =>
      \/ sorted[j] \in Result
      \/ Size(sorted[j]) <= 0
      \/ \E r \in Result : Before(r, sorted[j]) /\ Intersect(r, sorted[j])

\* The lists the loop goes through for a sorted copy, from the empty one.
IsLoopOf(f, s) ==
  /\ f[0] = <<>>
  /\ \A k \in 1..Len(s) : f[k] = Keep(f[k - 1], s[k])
  /\ FoldLeft(Keep, <<>>, s) = f[Len(s)]

LoopOf(s) == CHOOSE f \in [0..Len(s) -> Seq(Candidates)] : IsLoopOf(f, s)

\* The loop is where the fold of the operator is.
OnItsWay ==
  /\ sorted = StableSort(detections, Before)
  /\ cursor <= Len(sorted) + 1
  /\ chosen = LoopOf(sorted)[cursor - 1]

LoopInv ==
  /\ TypeOK
  /\ pc = "collect" => chosen = <<>> /\ cursor = 1
  /\ pc = "loop" => Len(detections) > 1
  /\ pc = "done" /\ Len(detections) <= 1 => chosen = detections
  /\ Sorting => /\ InOrder
                /\ KeptBehind
                /\ KeptHaveSpans
                /\ KeptAreDisjoint
                /\ DroppedForCause
                /\ OnItsWay
  /\ pc = "done" /\ Len(detections) > 1 => cursor > Len(sorted)

-----------------------------------------------------------------------------
(***************************************************************************)
(* The order and the intersection                                          *)
(***************************************************************************)
LEMMA CandidatesAreDetections == AreDetections(Candidates)
BY CandidatesAssumption DEF AreDetections

\* Sharing a byte with a detection that is kept means, for a candidate that
\* does not go before it, to be that detection or to give way to it.
LEMMA GivesWay ==
  ASSUME NEW d \in Candidates, NEW r \in Candidates, ~ Before(d, r)
  PROVE  r = d \/ Before(r, d)
BY CandidatesAreDetections, BeforeIsTotal

-----------------------------------------------------------------------------
(***************************************************************************)
(* The invariant                                                           *)
(***************************************************************************)
LEMMA LoopOfIsLoop ==
  ASSUME NEW s \in Seq(Candidates)
  PROVE  IsLoopOf(LoopOf(s), s)
<1>1. \E f \in [0..Len(s) -> Seq(Candidates)] : IsLoopOf(f, s)
  BY KeepSteps, Zenon DEF IsLoopOf
<1> QED BY <1>1, Zenon DEF LoopOf

LEMMA LoopInit == Init => LoopInv
<1> SUFFICES ASSUME Init PROVE LoopInv
  OBVIOUS
<1> QED BY DEF Init, LoopInv, TypeOK, Sorting

\* One candidate.
LEMMA CandidateKeepsInv == LoopInv /\ Candidate => LoopInv'
<1> SUFFICES ASSUME LoopInv, Candidate PROVE LoopInv'
  OBVIOUS
<1> DEFINE d == sorted[cursor]
<1>1. /\ pc = "loop" /\ pc' = "loop" /\ sorted' = sorted /\ cursor' = cursor + 1
      /\ detections' = detections /\ chosen' = Keep(chosen, d)
      /\ cursor \in 1..Len(sorted) /\ cursor \in DOMAIN sorted
      /\ cursor + 1 \in Nat \ {0} /\ Len(detections) > 1
      /\ sorted \in Seq(Candidates) /\ chosen \in Seq(Candidates)
      /\ detections \in Seq(Candidates)
  BY DEF LoopInv, TypeOK, Candidate
<1>2. /\ InOrder /\ KeptBehind /\ KeptHaveSpans /\ KeptAreDisjoint
      /\ DroppedForCause /\ OnItsWay
  BY <1>1 DEF LoopInv, Sorting
<1>3. d \in Candidates /\ \A k \in DOMAIN sorted : sorted[k] \in Candidates
  BY <1>1
<1>4. Result \subseteq Candidates /\ Result = { chosen[k] : k \in DOMAIN chosen }
  BY <1>1 DEF Result, ToSet
<1>5. InOrder' /\ OnItsWay'
  <2>1. InOrder'
    BY <1>1, <1>2 DEF InOrder
  <2>2. cursor \in 1..Len(sorted) /\ cursor + 1 <= Len(sorted) + 1
          /\ (cursor + 1) - 1 = cursor
    BY <1>1
  <2>3. LoopOf(sorted)[cursor] = Keep(LoopOf(sorted)[cursor - 1], sorted[cursor])
    BY <1>1, <2>2, LoopOfIsLoop DEF IsLoopOf
  <2> QED BY <1>1, <1>2, <2>1, <2>2, <2>3 DEF OnItsWay
<1>6. \A j \in DOMAIN sorted : j < cursor + 1 <=> j < cursor \/ j = cursor
  BY <1>1
<1>7. CASE Size(d) > 0 /\ \A k \in DOMAIN chosen : ~ Intersect(d, chosen[k])
  <2>1. chosen' = Append(chosen, d) /\ chosen' \in Seq(Candidates)
    BY <1>1, <1>3, <1>7 DEF Keep
  <2>2. Result' = Result \union {d}
    <3>0. /\ Append(chosen, d) \in Seq(Candidates)
          /\ Len(Append(chosen, d)) = Len(chosen) + 1
          /\ \A k \in 1..Len(chosen) : Append(chosen, d)[k] = chosen[k]
          /\ Append(chosen, d)[Len(chosen) + 1] = d
      BY <1>1, <1>3, AppendProperties
    <3>1. /\ Len(chosen') = Len(chosen) + 1 /\ Len(chosen) \in Nat
          /\ DOMAIN chosen' = 1..(Len(chosen) + 1)
          /\ DOMAIN chosen = 1..Len(chosen)
      BY <2>1, <1>1, <3>0
    <3>2. chosen'[Len(chosen) + 1] = d
      BY <2>1, <1>1, <3>0
    <3>3. \A k \in 1..Len(chosen) : chosen'[k] = chosen[k]
      BY <2>1, <1>1, <3>0
    <3>4. Result' = { chosen'[k] : k \in DOMAIN chosen' }
      BY DEF Result, ToSet
    <3>5. \A k \in 1..(Len(chosen) + 1) : k \in 1..Len(chosen) \/ k = Len(chosen) + 1
      BY <3>1
    <3>6. Result' \subseteq Result \union {d}
      BY <3>1, <3>2, <3>3, <3>4, <3>5, <1>4
    <3>7. Result \union {d} \subseteq Result'
      BY <3>1, <3>2, <3>3, <3>4, <3>5, <1>4
    <3> QED BY <3>6, <3>7
  <2>3. \A r \in Result : ~ Intersect(d, r) /\ ~ Intersect(r, d)
    BY <1>7, <1>4, IntersectIsSymmetric
  <2>4. KeptBehind'
    BY <2>2, <1>1, <1>2, <1>6 DEF KeptBehind
  <2>5. KeptHaveSpans'
    BY <2>2, <1>2, <1>7 DEF KeptHaveSpans
  <2>6. KeptAreDisjoint'
    BY <2>2, <2>3, <1>2 DEF KeptAreDisjoint, PairwiseDisjoint
  <2>7. DroppedForCause'
    BY <2>2, <1>1, <1>2, <1>6 DEF DroppedForCause
  <2>8. TypeOK'
    BY <2>1, <1>1 DEF TypeOK
  <2> QED BY <2>4, <2>5, <2>6, <2>7, <2>8, <1>1, <1>5 DEF LoopInv
<1>8. CASE ~ (Size(d) > 0 /\ \A k \in DOMAIN chosen : ~ Intersect(d, chosen[k]))
  <2>1. chosen' = chosen /\ Result' = Result
    BY <1>1, <1>8 DEF Keep, Result
  <2>2. d \in Result \/ Size(d) <= 0
          \/ \E r \in Result : Before(r, d) /\ Intersect(r, d)
    <3>1. CASE ~ (Size(d) > 0)
      <4>1. d.start \in Int /\ d.end \in Int
        BY <1>3, CandidatesAssumption
      <4> QED BY <3>1, <4>1 DEF Size
    <3>2. CASE \E k \in DOMAIN chosen : Intersect(d, chosen[k])
      <4>1. PICK r \in Result : Intersect(d, r)
        BY <3>2, <1>4
      <4>2. PICK j \in DOMAIN sorted : j < cursor /\ r = sorted[j]
        BY <1>2 DEF KeptBehind
      <4>3. ~ Before(d, r)
        BY <4>2, <1>1, <1>2 DEF InOrder
      <4> QED BY <4>1, <4>3, <1>3, <1>4, GivesWay, IntersectIsSymmetric
    <3> QED BY <3>1, <3>2, <1>8
  <2>3. KeptBehind'
    BY <2>1, <1>1, <1>2, <1>6 DEF KeptBehind
  <2>4. KeptHaveSpans' /\ KeptAreDisjoint'
    BY <2>1, <1>2 DEF KeptHaveSpans, KeptAreDisjoint
  <2>5. DroppedForCause'
    BY <2>1, <2>2, <1>1, <1>2, <1>6 DEF DroppedForCause
  <2>6. TypeOK'
    BY <2>1, <1>1 DEF TypeOK
  <2> QED BY <2>3, <2>4, <2>5, <2>6, <1>1, <1>5 DEF LoopInv
<1> QED BY <1>7, <1>8

LEMMA LoopNext == LoopInv /\ [Next]_vars => LoopInv'
<1> SUFFICES ASSUME LoopInv, [Next]_vars PROVE LoopInv'
  OBVIOUS
<1>1. ASSUME NEW d \in Candidates, Collect(d) PROVE LoopInv'
  <2>1. /\ pc = "collect" /\ pc' = "collect"
        /\ chosen = <<>> /\ cursor = 1
        /\ sorted' = sorted /\ cursor' = cursor /\ chosen' = chosen
        /\ detections' \in Seq(Candidates)
    BY <1>1 DEF Collect, LoopInv, TypeOK
  <2>2. TypeOK'
    BY <2>1 DEF LoopInv, TypeOK
  <2>3. ~ Sorting'
    BY <2>1 DEF Sorting
  <2> QED BY <2>1, <2>2, <2>3 DEF LoopInv
<1>2. CASE Short
  BY <1>2 DEF Short, Sorting, LoopInv, TypeOK
<1>3. CASE Sort
  <2>1. /\ sorted' = StableSort(detections, Before)
        /\ detections \in Seq(Candidates)
        /\ detections' = detections /\ chosen' = <<>> /\ cursor' = cursor
        /\ pc' = "loop" /\ cursor = 1 /\ Len(detections) > 1
    BY <1>3 DEF Sort, LoopInv, TypeOK
  <2>2. /\ sorted' \in Seq(Candidates) /\ ToSet(sorted') = ToSet(detections)
        /\ \A j, k \in DOMAIN sorted' : j < k => ~ Before(sorted'[k], sorted'[j])
    BY <2>1, CandidatesAreDetections, SortedByBefore, Zenon
  <2>3. Result' = {} /\ InOrder'
    <3>1. Result' = {}
      BY <2>1 DEF Result, ToSet
    <3>2. ToSet(sorted') = ToSet(detections')
      BY <2>1, <2>2
    <3>3. InOrder'
      BY <2>2, <3>2, Zenon DEF InOrder
    <3> QED BY <3>1, <3>3
  <2>4. KeptBehind' /\ KeptHaveSpans' /\ KeptAreDisjoint' /\ DroppedForCause'
    BY <2>1, <2>2, <2>3
       DEF KeptBehind, KeptHaveSpans, KeptAreDisjoint, PairwiseDisjoint,
           DroppedForCause
  <2>5. OnItsWay'
    <3>1. cursor' - 1 = 0 /\ cursor' <= Len(sorted') + 1
      BY <2>1, <2>2
    <3>2. LoopOf(sorted')[0] = <<>>
      BY <2>2, LoopOfIsLoop DEF IsLoopOf
    <3>3. sorted' = StableSort(detections', Before)
      BY <2>1, Zenon
    <3> QED BY <2>1, <3>1, <3>2, <3>3 DEF OnItsWay
  <2> QED BY <2>1, <2>2, <2>3, <2>4, <2>5 DEF Sorting, LoopInv, TypeOK
<1>4. CASE Candidate
  BY <1>4, CandidateKeepsInv
<1>5. CASE Return
  <2>1. InOrder' /\ KeptBehind' /\ KeptHaveSpans' /\ KeptAreDisjoint'
          /\ DroppedForCause' /\ OnItsWay'
    BY <1>5 DEF Return, LoopInv, Sorting, InOrder, KeptBehind, KeptHaveSpans,
       KeptAreDisjoint, DroppedForCause, OnItsWay, Result
  <2>2. TypeOK'
    BY <1>5 DEF Return, LoopInv, TypeOK
  <2>3. /\ pc' = "done" /\ Len(detections') > 1 /\ cursor' > Len(sorted')
    BY <1>5 DEF Return, LoopInv, TypeOK
  <2> QED BY <2>1, <2>2, <2>3 DEF LoopInv
<1>6. CASE UNCHANGED vars
  BY <1>6 DEF vars, LoopInv, TypeOK, Sorting, InOrder, KeptBehind,
     KeptHaveSpans, KeptAreDisjoint, DroppedForCause, OnItsWay, Result
<1> QED BY <1>1, <1>2, <1>3, <1>4, <1>5, <1>6 DEF Next

LEMMA LoopInvariant == Spec => []LoopInv
<1> QED BY LoopInit, LoopNext, PTL DEF Spec

-----------------------------------------------------------------------------
(***************************************************************************)
(* The theorems                                                            *)
(***************************************************************************)
\* Every variable of the loop stays in its type (overlap.go:10-52).
THEOREM LoopTyping == Spec => []TypeOK
<1>1. LoopInv => TypeOK
  BY DEF LoopInv
<1> QED BY <1>1, LoopInvariant, PTL

\* At no step, and for no argument, do two kept detections share a byte
\* (overlap.go:40-49).
THEOREM KeptDisjoint == Spec => []KeptAreDisjoint
<1>1. LoopInv => KeptAreDisjoint
  <2> SUFFICES ASSUME LoopInv PROVE KeptAreDisjoint
    OBVIOUS
  <2>1. CASE Sorting
    BY <2>1 DEF LoopInv
  <2>2. CASE ~ Sorting
    <3>1. Len(chosen) <= 1 /\ chosen \in Seq(Candidates)
      BY <2>2 DEF LoopInv, TypeOK, Sorting
    <3>2. \A a, b \in Result : a = b
      BY <3>1 DEF Result, ToSet
    <3> QED BY <3>2 DEF KeptAreDisjoint, PairwiseDisjoint
  <2> QED BY <2>1, <2>2
<1> QED BY <1>1, LoopInvariant, PTL

\* Two or more detections are arbitrated: one is dropped exactly if it has no
\* span or if a kept one that goes before it shares a byte with it
\* (overlap.go:5-6).
THEOREM Arbitration == Spec => []ResultArbitrates
<1>1. LoopInv => ResultArbitrates
  <2> SUFFICES ASSUME LoopInv, pc = "done", Len(detections) > 1
               PROVE  Arbitrates(Result, Given)
    BY DEF ResultArbitrates
  <2>1. /\ InOrder /\ KeptBehind /\ KeptHaveSpans /\ KeptAreDisjoint
        /\ DroppedForCause /\ cursor > Len(sorted)
        /\ sorted \in Seq(Candidates) /\ cursor \in Nat
    BY DEF LoopInv, Sorting, TypeOK
  <2>2. Given = { sorted[j] : j \in DOMAIN sorted }
    BY <2>1 DEF InOrder, Given, ToSet
  <2>3. Given \subseteq Candidates
    BY <2>1, <2>2
  <2>4. Result \subseteq Given
    BY <2>1, <2>2 DEF KeptBehind
  <2>5. ASSUME NEW d \in Given, d \in Result, NEW r \in Result, Before(r, d)
        PROVE  ~ Intersect(r, d)
    <3>1. r # d
      BY <2>5, <2>3, CandidatesAreDetections, BeforeIsAsymmetric
    <3> QED BY <3>1, <2>1, <2>5 DEF KeptAreDisjoint, PairwiseDisjoint
  <2>6. ASSUME NEW d \in Given, Size(d) > 0,
               \A r \in Result : Before(r, d) => ~ Intersect(r, d)
        PROVE  d \in Result
    <3>1. PICK j \in DOMAIN sorted : d = sorted[j]
      BY <2>2
    <3>2. j < cursor
      BY <2>1, <3>1
    <3>3. d \in Result \/ Size(d) <= 0
      BY <2>1, <2>6, <3>1, <3>2 DEF DroppedForCause
    <3>4. Size(d) \in Int
      BY <2>3, CandidatesAssumption DEF Size
    <3> QED BY <3>3, <3>4, <2>6
  <2> QED BY <2>1, <2>4, <2>5, <2>6 DEF Arbitrates, KeptHaveSpans
<1> QED BY <1>1, LoopInvariant, PTL

\* The loop computes the operator the other modules call.
LoopIsOperator == pc = "done" => chosen = resolveOverlaps(detections)

LEMMA LoopReturnsOperator == LoopInv => LoopIsOperator
<1> SUFFICES ASSUME LoopInv, pc = "done"
             PROVE  chosen = resolveOverlaps(detections)
  BY DEF LoopIsOperator
<1>1. detections \in Seq(Candidates) /\ Len(detections) \in Nat
  BY DEF LoopInv, TypeOK
<1>2. CASE Len(detections) <= 1
  BY <1>1, <1>2 DEF LoopInv, resolveOverlaps
<1>3. CASE Len(detections) > 1
  <2>1. /\ OnItsWay /\ cursor > Len(sorted) /\ sorted \in Seq(Candidates)
        /\ cursor \in Nat /\ Len(sorted) \in Nat
    BY <1>3 DEF LoopInv, Sorting, TypeOK
  <2>2. cursor - 1 = Len(sorted)
    BY <2>1 DEF OnItsWay
  <2>3. LoopOf(sorted)[Len(sorted)] = FoldLeft(Keep, <<>>, sorted)
    BY <2>1, LoopOfIsLoop, Zenon DEF IsLoopOf
  <2>4. chosen = FoldLeft(Keep, <<>>, sorted)
    BY <2>1, <2>2, <2>3, Zenon DEF OnItsWay
  <2>5. chosen = FoldLeft(Keep, <<>>, StableSort(detections, Before))
    BY <2>1, <2>4, Zenon DEF OnItsWay
  <2>6. ~ (Len(detections) <= 1)
    BY <1>1, <1>3
  <2> QED BY <2>5, <2>6, Zenon DEF resolveOverlaps
<1> QED BY <1>1, <1>2, <1>3

\* The loop of overlap.go:17-49 and the operator the modules Detector,
\* Rehydrate and StreamScanner work with are the same function.
THEOREM LoopRefinesOperator == Spec => []LoopIsOperator
BY LoopInvariant, LoopReturnsOperator, PTL

\* A result is never changed by resolving it again, which is what Anonymize
\* and AnonymizeWithMap do with the detections of a scan (anonymizer.go:18,
\* rehydrate.go:9).
THEOREM ResolvingIsIdempotent == Spec => []Idempotent
<1>1. LoopInv => Idempotent
  <2> SUFFICES ASSUME LoopInv, pc = "done" PROVE resolveOverlaps(chosen) = chosen
    BY DEF Idempotent
  <2>1. /\ detections \in Seq(Candidates) /\ Len(detections) \in Nat
        /\ chosen \in Seq(Candidates)
    BY DEF LoopInv, TypeOK
  <2>2. chosen = resolveOverlaps(detections)
    BY LoopReturnsOperator DEF LoopIsOperator
  <2>3. CASE Len(detections) <= 1
    <3>1. chosen = detections
      BY <2>3 DEF LoopInv
    <3> QED BY <2>3, <3>1 DEF resolveOverlaps
  <2>4. CASE Len(detections) > 1
    <3>1. Ordered(chosen) /\ Apart(chosen) /\ HaveSpans(chosen)
      BY <2>1, <2>2, <2>4, CandidatesAreDetections, Resolved, Zenon
    <3> QED BY <2>1, <3>1, CandidatesAreDetections, ResolvedAgain
  <2> QED BY <2>1, <2>3, <2>4
<1> QED BY <1>1, LoopInvariant, PTL

LEMMA ReversedElements ==
  ASSUME NEW S, NEW ds \in Seq(S)
  PROVE  /\ Reverse(ds) \in Seq(S) /\ Len(Reverse(ds)) = Len(ds)
         /\ ToSet(Reverse(ds)) = ToSet(ds)
<1> DEFINE rs == Reverse(ds)
           n == Len(ds)
<1>1. n \in Nat /\ DOMAIN ds = 1..n /\ rs = [k \in 1..n |-> ds[(n - k) + 1]]
  BY DEF Reverse
<1>2. \A k \in 1..n : (n - k) + 1 \in 1..n /\ (n - ((n - k) + 1)) + 1 = k
  BY <1>1
<1>3. \A k \in 1..n : ds[k] \in S
  BY <1>1
<1> HIDE DEF n
<1>4. rs \in Seq(S) /\ Len(rs) = n /\ DOMAIN rs = 1..n
  BY <1>1, <1>2, <1>3
<1>5. \A k \in 1..n : rs[k] = ds[(n - k) + 1]
  BY <1>1
<1> HIDE DEF rs
<1>6. ToSet(rs) = ToSet(ds)
  <2>1. \A k \in 1..n : \E j \in 1..n : rs[k] = ds[j]
    BY <1>2, <1>5
  <2>2. \A j \in 1..n : \E k \in 1..n : rs[k] = ds[j]
    BY <1>2, <1>5
  <2>3. /\ ToSet(rs) = { rs[k] : k \in 1..n }
        /\ ToSet(ds) = { ds[k] : k \in 1..n }
    BY <1>1, <1>4, Zenon DEF ToSet
  <2>4. { rs[k] : k \in 1..n } = { ds[k] : k \in 1..n }
    <3>1. ASSUME NEW k \in 1..n PROVE rs[k] \in { ds[j] : j \in 1..n }
      <4>1. PICK j \in 1..n : rs[k] = ds[j]
        BY <2>1
      <4> QED BY <4>1
    <3>2. ASSUME NEW j \in 1..n PROVE ds[j] \in { rs[k] : k \in 1..n }
      <4>1. PICK k \in 1..n : rs[k] = ds[j]
        BY <2>2
      <4> QED BY <4>1
    <3> QED BY <3>1, <3>2
  <2> QED BY <2>3, <2>4
<1> QED BY <1>4, <1>6 DEF rs, n

\* The detections may be appended in any order (overlap.go:9).
THEOREM ResolvingIgnoresOrder == Spec => []OrderInsensitive
<1>1. LoopInv => OrderInsensitive
  <2> SUFFICES ASSUME LoopInv, pc = "done"
               PROVE  ToSet(resolveOverlaps(Reverse(detections))) = Result
    BY DEF OrderInsensitive
  <2>1. detections \in Seq(Candidates) /\ Len(detections) \in Nat
    BY DEF LoopInv, TypeOK
  <2>2. Result = ToSet(resolveOverlaps(detections))
    BY LoopReturnsOperator DEF LoopIsOperator, Result
  <2>3. /\ Reverse(detections) \in Seq(Candidates)
        /\ Len(Reverse(detections)) = Len(detections)
        /\ ToSet(Reverse(detections)) = ToSet(detections)
    BY <2>1, ReversedElements
  <2>4. CASE Len(detections) <= 1
    <3>1. resolveOverlaps(detections) = detections
      BY <2>1, <2>4, CandidatesAreDetections, Resolved
    <3>2. resolveOverlaps(Reverse(detections)) = Reverse(detections)
      BY <2>3, <2>4, CandidatesAreDetections, Resolved
    <3> QED BY <2>2, <2>3, <3>1, <3>2
  <2>5. CASE Len(detections) > 1
    BY <2>1, <2>2, <2>3, <2>5, CandidatesAreDetections, ResolvedInAnyOrder
  <2> QED BY <2>1, <2>4, <2>5
<1> QED BY <1>1, LoopInvariant, PTL
=============================================================================
