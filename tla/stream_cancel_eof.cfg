SPECIFICATION Spec
CONSTANTS
  StreamLen = 7
  Opts <- Small
  OutCap = 4
  Detect <- ScanWindow
  Occurrences <- Rigid
  Expected <- IsolatedSpans
  MayCancel = TRUE
  MayFail = FALSE
  EofWithData = TRUE
  MayAbandon = FALSE
INVARIANTS
  CleanEndIsScanned
