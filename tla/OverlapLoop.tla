---------------------------- MODULE OverlapLoop ----------------------------
(***************************************************************************)
(* resolveOverlaps as the loop the code runs: the detections the matchers  *)
(* and plugins appended are sorted once, then every candidate is compared  *)
(* with the ones kept so far.  Module Overlaps has the same function as an *)
(* operator, for the modules that call it.                                 *)
(***************************************************************************)
EXTENDS Overlaps

CONSTANTS
  Candidates,      \* the detections the matchers can report
  MaxDetections    \* bound: detections in one scan

ASSUME CandidatesAssumption ==
  \A d \in Candidates :
    /\ d = [type |-> d.type, start |-> d.start, end |-> d.end, conf |-> d.conf]
    /\ d.type \in Int /\ d.start \in Int /\ d.end \in Int /\ d.conf \in Int

VARIABLES
  detections,   \* the argument: result.Detections, in the order of the appends
  sorted,       \* the local copy that is sorted
  cursor,       \* index in sorted of the candidate
  chosen,       \* the detections kept so far, then the result
  pc            \* "collect", "loop" or "done"

vars == <<detections, sorted, cursor, chosen, pc>>

TypeOK ==
  /\ detections \in Seq(Candidates)
  /\ sorted \in Seq(Candidates)
  /\ cursor \in Nat \ {0}
  /\ chosen \in Seq(Candidates)
  /\ pc \in {"collect", "loop", "done"}

Init ==
  /\ detections = <<>>
  /\ sorted = <<>>
  /\ cursor = 1
  /\ chosen = <<>>
  /\ pc = "collect"

\* runBuiltins, runPlugins or runNamePass appends one more detection.
Collect(d) ==
  /\ pc = "collect"
  /\ Len(detections) < MaxDetections
  /\ detections' = Append(detections, d)
  /\ UNCHANGED <<sorted, cursor, chosen, pc>>

\* Zero or one detection is copied to the result unexamined.
Short ==
  /\ pc = "collect"
  /\ Len(detections) <= 1
  /\ chosen' = detections
  /\ pc' = "done"
  /\ UNCHANGED <<detections, sorted, cursor>>

\* Mutant: the copy is not sorted.
SortNothing ==
  /\ pc = "collect"
  /\ Len(detections) > 1
  /\ sorted' = detections
  /\ pc' = "loop"
  /\ UNCHANGED <<detections, cursor, chosen>>

Sort ==
  /\ pc = "collect"
  /\ Len(detections) > 1
  /\ sorted' = StableSort(detections, Before)
  /\ pc' = "loop"
  /\ UNCHANGED <<detections, cursor, chosen>>

Candidate ==
  /\ pc = "loop"
  /\ cursor <= Len(sorted)
  /\ chosen' = Keep(chosen, sorted[cursor])
  /\ cursor' = cursor + 1
  /\ UNCHANGED <<detections, sorted, pc>>

Return ==
  /\ pc = "loop"
  /\ cursor > Len(sorted)
  /\ pc' = "done"
  /\ UNCHANGED <<detections, sorted, cursor, chosen>>

Next ==
  \/ \E d \in Candidates : Collect(d)
  \/ Short
  \/ Sort
  \/ Candidate
  \/ Return

Spec == Init /\ [][Next]_vars

-----------------------------------------------------------------------------
Given  == ToSet(detections)
Result == ToSet(chosen)

\* At every step of the loop the kept detections share no byte, so replacing
\* them from the right never shifts a span still to be replaced
\* (overlap.go:40-49, relied on by anonymizer.go:31-37).
KeptAreDisjoint == PairwiseDisjoint(Result)

\* The result is the arbitration of the argument: a detection is dropped only
\* for a kept one that goes before it and shares a byte with it, or because
\* its span is empty, and every other one is kept (overlap.go:5-6).  A lone
\* detection is outside: it is copied unexamined.
ResultArbitrates ==
  pc = "done" /\ Len(detections) > 1 => Arbitrates(Result, Given)

\* Arbitrating a result again changes nothing, not even the order: Anonymize
\* and AnonymizeWithMap call resolveOverlaps on what Scan already resolved and
\* their placeholders must be those of Scan's detections (anonymizer.go:18,
\* rehydrate.go:9).
Idempotent == pc = "done" => resolveOverlaps(chosen) = chosen

\* The order in which the matchers and plugins reported the detections does
\* not matter: the result is a function of the set of detections
\* ("deterministic output across runs", overlap.go:9).
OrderInsensitive ==
  pc = "done" => ToSet(resolveOverlaps(Reverse(detections))) = Result
=============================================================================
