SPECIFICATION Spec
CONSTANTS
  Maps = {m1, m2}
  Width = 8
  Height = 6
  Window = 3
  Radius = 1
  Half = 64
  Positions <- MCPositions
INVARIANTS
  TypeOK
  ShowsOwnMap
  OneMarker
PROPERTIES
  RedrawIsStable
  PositionShown
