SPECIFICATION Spec
CONSTANTS
  Texts <- HoleInSecret
  Replies <- Echo
  MaxLength = 20
INVARIANTS
  RoundTripAlways
\* Reidentify returns: a finished call has no next step.
CHECK_DEADLOCK FALSE
