SPECIFICATION SafetySpec
CONSTANTS
  Height = 20
  Lats <- MCLats
  MaxInbox = 1
PROPERTIES
  CentresOnMarker
