SPECIFICATION LiveSpec
CONSTANTS
  Workers = {w1, w2}
  Pages = 1
  MaxVersion = 2
  Absent = Absent
  Schema = Schema
PROPERTIES
  DialogDismissed
