SPECIFICATION FairSpec
CONSTANTS
  StreamLen = 7
  Opts <- Small
  OutCap = 4
  Detect <- ScanWindow
  Occurrences <- Rigid
  Expected <- IsolatedSpans
  MayCancel = TRUE
  MayFail = TRUE
  EofWithData = FALSE
  MayAbandon = TRUE
INVARIANTS
  TypeOK
  OffsetIsAbsolute
  WindowsCover
  NothingMissed
  EmittedOnce
  ErrorIsReady
  CleanEndIsScanned
PROPERTIES
  Delivers
  Terminates
