SPECIFICATION Spec
CONSTANTS
  Candidates <- MCCandidates
  MaxDetections = 3
INVARIANTS
  KeptAreDisjoint
  ResultArbitrates
  Idempotent
  OrderInsensitive
\* resolveOverlaps returns: a finished call has no next step.
CHECK_DEADLOCK FALSE
