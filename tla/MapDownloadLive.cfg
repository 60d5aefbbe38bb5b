SPECIFICATION Spec
CONSTANTS
  Maps = {m1}
  NoMap = NoMap
  Loaders = {l1, l2}
  Chunks = 2
  BadKeys = {m1}
  EarlyEOF = TRUE
PROPERTIES
  Answered
