SPECIFICATION FairSpec
CONSTANTS
  Callers = {g1, g2, g3}
  NoOne = noone
  Calls = 1
  NaN = 200
  Plugins <- MCPlugins
  Texts <- MCTexts
  Config <- MCConfig
  Panicking = {"Detect", "Confidence"}
INVARIANTS
  NamesStayUnique
  SnapshotIsCurrent
  PanicsAreIsolated
  SpansAreSound
  NothingElseIsReplaced
PROPERTIES
  CallsReturn
