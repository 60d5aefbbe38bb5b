SPECIFICATION Spec
CONSTANTS
  Intervals = 10
  Interval = 3
  MaxSpan = 3
  Files <- MCFiles
INVARIANTS
  TypeOK
  Resynchronised
  StrayForgotten
  ScanKept
PROPERTIES
  Finishes
CHECK_DEADLOCK FALSE
