SPECIFICATION FairSpec
CONSTANTS
  Documents = {u}
  Texts <- MCTexts
  Newline = "newline"
  Continuation = "acute"
  Detect <- MCDetect
  Methods = {"initialize", "exit", "not JSON"}
  MaxSent = 3
  MayHangUp = TRUE
INVARIANTS
  FramesStayAligned
  EditorSeesItsText
  EndsForCause
PROPERTIES
  RequestsAreAnswered
