SPECIFICATION Spec
CONSTANTS
  Client = {p1, p2}
  label1 = label1
  label2 = label2
  ClearData <- MCOneLabel
  BatchSize = 2
  Bound = 100
  ULongRange = 1024
  nullptr = nullptr
  Malformed = Malformed
  NoData = NoData
  NoReply = NoReply
  ServerUpFirst = FALSE
  MaxStarts = 2
  Timely = FALSE
  Faulty = TRUE
PROPERTIES
  Termination
CHECK_DEADLOCK FALSE
