SPECIFICATION Spec
CONSTANTS
  Client = {p1, p2, p3}
  label1 = label1
  label2 = label2
  ClearData <- MCOneLabel
  BatchSize = 2
  Bound = 100
  ULongRange = 1024
  nullptr = nullptr
  Malformed = Malformed
  NoData = NoData
  NoReply = NoReply
  ServerUpFirst = TRUE
  MaxStarts = 1
  Timely = FALSE
  Faulty = TRUE
SYMMETRY MCSymmetry
INVARIANTS
  TypeOK
  IndexesDistinct
  OneKeyListForAll
  OwnKeyListed
PROPERTIES
  ImplementsSecureSum
CHECK_DEADLOCK FALSE
