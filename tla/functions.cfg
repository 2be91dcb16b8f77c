SPECIFICATION Spec
CONSTANTS
  Width <- MCWidth
  Letters <- MCLetters
  Lower <- MCLower
  Joiners <- MCJoiners
  FirstNameSet <- MCNames
  RuneError = "U+FFFD"
  IntRange = 16
  Built = TRUE
  MaxBytes = 6
INVARIANTS
  WordsAreTokens
  NamesAreDisjoint
  OneSlipIsCaught
  MaskedIsHidden
  CompaniesAreFound
  AnnotationsAreTrue
  ScoresAreRight
  NothingLeaks
\* An input is entered once.
CHECK_DEADLOCK FALSE
