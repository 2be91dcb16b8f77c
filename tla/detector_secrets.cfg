SPECIFICATION Spec
CONSTANTS
  Callers = {g1}
  NoOne = noone
  Calls = 1
  NaN = 200
  Plugins <- NoPlugins
  Texts <- TokenText
  Config <- MCConfig
  Panicking = {}
INVARIANTS
  FoundSecretsBlock
