--------------------------- MODULE MCOverlapLoop ---------------------------
(***************************************************************************)
(* Two types, two confidences and the spans of a three-byte text, empty    *)
(* spans included: every tie of the less function occurs.                  *)
(***************************************************************************)
EXTENDS OverlapLoop

MCCandidates ==
  { d \in Detection({1, 2}, {65, 90}, 3) :
      /\ d.start <= d.end
      /\ d.end > d.start \/ (d.type = 1 /\ d.start = 1) }
=============================================================================
