SPECIFICATION Spec
CONSTANTS
  Client = {p1, p2}
  label1 = label1
  label2 = label2
  ClearData <- MCClearData
  BatchSize = 2
  Bound = 100
  ULongRange = 1024
  nullptr = nullptr
  Malformed = Malformed
  NoData = NoData
  NoReply = NoReply
  ServerUpFirst = TRUE
  MaxStarts = 1
  Timely = TRUE
  Faulty = FALSE
PROPERTIES
  SumIsLearnt
CHECK_DEADLOCK FALSE
