SPECIFICATION SafetySpec
CONSTANTS
  Workers = {w1}
  Pages = 2
  MaxVersion = 2
  Absent = Absent
  Schema = Schema
PROPERTIES
  CheckFindsNewer
