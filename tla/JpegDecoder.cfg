SPECIFICATION Spec
CONSTANTS
  Components <- MCComponents
  HSamp <- MCSamp
  VSamp <- MCSamp
  ImageWidth = 5
  ImageHeight = 5
  Block = 2
  Scale = 2
  MaxScans = 2
  MaxLines = 3
INVARIANTS
  TypeOK
  LinesInOrder
  ScanComplete
  FinishCanRead
PROPERTIES
  OutputBehindInput
  LinesAreGiven
  CallReturns
