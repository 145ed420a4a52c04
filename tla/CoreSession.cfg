SPECIFICATION Spec
CONSTANTS
  label1 = label1
  nullptr = nullptr
  Handle = {h1, h2}
  Key = {a, b, c}
  Params <- MCParams
  Label = {label1}
  Value = {1}
  MaxList = 2
  MaxReleased = 2
  Bound = 100
  ULongRange = 1024
SYMMETRY MCSymmetry
INVARIANTS
  TypeOK
  SumOfMutualGroup
PROPERTIES
  CopiesStandAlone
CHECK_DEADLOCK FALSE
