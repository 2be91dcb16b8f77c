SPECIFICATION Spec
CONSTANTS
  Texts <- SelfSecret
  Replies <- Echo
  MaxLength = 20
INVARIANTS
  ReplacedOncePerPlace
\* Reidentify returns: a finished call has no next step.
CHECK_DEADLOCK FALSE
