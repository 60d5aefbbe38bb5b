SPECIFICATION SafetySpec
SYMMETRY Symmetry
CONSTANTS
  Workers = {w1, w2}
  Pages = 1
  MaxVersion = 2
  Absent = Absent
  Schema = Schema
INVARIANTS
  TypeOK
  DialogBacked
  LoadStateBacked
  NeverHalf
PROPERTIES
  Installs
