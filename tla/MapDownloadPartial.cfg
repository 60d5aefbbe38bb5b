SPECIFICATION SafetySpec
CONSTANTS
  Maps = {m1}
  NoMap = NoMap
  Loaders = {l1, l2}
  Chunks = 2
  BadKeys = {}
  EarlyEOF = FALSE
INVARIANTS
  NoInvalidDataOnPhone
