\* A consumer that gives up leaves the goroutine blocked: the property is what
\* tells whether that matters.
SPECIFICATION FairSpec
CONSTANTS
  StreamLen = 7
  Opts <- Small
  OutCap = 4
  Detect <- ScanWindow
  Occurrences <- Rigid
  Expected <- IsolatedSpans
  MayCancel = TRUE
  MayFail = FALSE
  EofWithData = FALSE
  MayAbandon = TRUE
PROPERTIES
  CancellationCloses
CHECK_DEADLOCK FALSE
