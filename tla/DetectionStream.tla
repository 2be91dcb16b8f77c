-------------------------- MODULE DetectionStream --------------------------
(***************************************************************************)
(* What a stream scan promises its consumer (ADR-005), without windows,    *)
(* offsets or channels: the detections of the whole text arrive, each of   *)
(* them once, and the stream is declared complete only when all of them    *)
(* have; otherwise it fails.                                               *)
(***************************************************************************)
CONSTANT Whole      \* the detections of the whole text

VARIABLES
  found,            \* the detections the consumer has been given
  status            \* "open", "complete" or "failed"

vars == <<found, status>>

Init == found = {} /\ status = "open"

Deliver ==
  /\ status = "open"
  /\ \E more \in SUBSET (Whole \ found) : found' = found \cup more
  /\ UNCHANGED status

Complete ==
  /\ status = "open" /\ found = Whole
  /\ status' = "complete"
  /\ UNCHANGED found

Fail ==
  /\ status = "open"
  /\ status' = "failed"
  /\ UNCHANGED found

Next == Deliver \/ Complete \/ Fail

Spec == Init /\ [][Next]_vars
=============================================================================
