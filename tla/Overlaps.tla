------------------------------ MODULE Overlaps ------------------------------
(***************************************************************************)
(* Overlap arbitration of pii/overlap.go, as operators.                    *)
(*                                                                         *)
(* A detection is a record with a type, a half-open span start..end-1 and  *)
(* a confidence.  Go compares types as strings: a type is here its rank in *)
(* that order.  Confidences are integers (hundredths), so they are         *)
(* totally ordered; a NaN confidence is the subject of module Detector.    *)
(***************************************************************************)
EXTENDS Integers, Sequences, FiniteSets, Functions, SequencesExt

\* The detections over a text of n bytes.
Detection(Types, Confs, n) ==
  [type : Types, start : 0..n, end : 0..n, conf : Confs]

Size(d) == d.end - d.start

\* Mutant: only looks at where b starts.
IntersectOneSided(a, b) == a.start <= b.start /\ b.start < a.end

\* Two half-open spans share a byte.
Intersect(a, b) == a.start < b.end /\ b.start < a.end

\* Mutant: no final tiebreaker.
BeforeWithTies(a, b) ==
  \/ a.conf > b.conf
  \/ a.conf = b.conf /\ Size(a) > Size(b)
  \/ a.conf = b.conf /\ Size(a) = Size(b) /\ a.start < b.start

\* The less function of the sort: confidence, then the longer span, then the
\* earlier start, then the type.
Before(a, b) ==
  \/ a.conf > b.conf
  \/ a.conf = b.conf /\ Size(a) > Size(b)
  \/ a.conf = b.conf /\ Size(a) = Size(b) /\ a.start < b.start
  \/ a.conf = b.conf /\ Size(a) = Size(b) /\ a.start = b.start
                     /\ a.type < b.type

\* A stable sort: the k-th element is the one that k - 1 others go ahead of.
StableSort(ds, Less(_, _)) ==
  LET Ahead(i, j) == \/ Less(ds[i], ds[j])
                     \/ ~ Less(ds[j], ds[i]) /\ i < j
  IN  [k \in DOMAIN ds |->
         ds[CHOOSE j \in DOMAIN ds :
              Cardinality({ i \in DOMAIN ds : Ahead(i, j) }) = k - 1]]

\* Mutant: compares a candidate with the last kept detection only.
KeepAfterLast(chosen, d) ==
  IF Size(d) > 0 /\ (chosen # <<>> => ~ Intersect(d, Last(chosen)))
  THEN Append(chosen, d)
  ELSE chosen

\* The body of the greedy loop for one candidate.
Keep(chosen, d) ==
  IF Size(d) > 0 /\ \A k \in DOMAIN chosen : ~ Intersect(d, chosen[k])
  THEN Append(chosen, d)
  ELSE chosen

\* At most one detection is returned as it is, whatever its span.
resolveOverlaps(ds) ==
  IF Len(ds) <= 1 THEN ds ELSE FoldLeft(Keep, <<>>, StableSort(ds, Before))

(***************************************************************************)
(* The reference: R arbitrates D when a detection of D is in R exactly if  *)
(* it has a span and nothing in R that goes before it shares a byte with   *)
(* it.                                                                     *)
(***************************************************************************)
Arbitrates(R, D) ==
  /\ R \subseteq D
  /\ \A d \in D : d \in R <=> /\ Size(d) > 0
                              /\ \A r \in R : Before(r, d) => ~ Intersect(r, d)

PairwiseDisjoint(R) == \A a, b \in R : a # b => ~ Intersect(a, b)
=============================================================================
