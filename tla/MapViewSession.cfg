SPECIFICATION Spec
CONSTANTS
  Height = 20
  Lats <- MCLats
  MaxInbox = 2
INVARIANTS
  TypeOK
  DialogsTakeTurns
PROPERTIES
  NoFalseAlarm
  CentresOnFirst
  FailsOnlyLate
  WaitEnds
