SPECIFICATION SafetySpec
SYMMETRY Symmetry
CONSTANTS
  Maps = {m1, m2}
  NoMap = NoMap
  Loaders = {l1, l2}
  Chunks = 1
  BadKeys = {m1, m2}
  EarlyEOF = TRUE
INVARIANTS
  TypeOK
  CheckedIsOnDisk
  SoleDownload
PROPERTIES
  WatchStable
  ImplementsShelf
