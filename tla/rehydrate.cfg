SPECIFICATION FairSpec
CONSTANTS
  Texts <- MCTexts
  Replies <- MCReplies
  MaxLength = 20
INVARIANTS
  SpansStayInPlace
  SameTextAsAnonymize
  RepliesAreRestored
  RoundTrip
PROPERTIES
  Terminates
\* Reidentify returns: a finished call has no next step.
CHECK_DEADLOCK FALSE
