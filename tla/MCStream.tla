------------------------------ MODULE MCStream ------------------------------
(***************************************************************************)
(* The stream scanner over the built-in matchers, for small streams.       *)
(***************************************************************************)
EXTENDS StreamScanner, WindowScan

Small == [ChunkSize |-> 3, Overlap |-> 2]

\* Fixed-length matches that touch no other: a card, an IBAN.  The first and
\* the last are as long as the overlap covers.
Rigid ==
  { [type |-> 1, start |-> 0, end |-> 3, coreStart |-> 0, coreEnd |-> 3, conf |-> 90],
    [type |-> 2, start |-> 3, end |-> 4, coreStart |-> 3, coreEnd |-> 4, conf |-> 80],
    [type |-> 1, start |-> 4, end |-> 7, coreStart |-> 4, coreEnd |-> 7, conf |-> 90] }

ASSUME StableAssumption == FindsAreStable
=============================================================================
