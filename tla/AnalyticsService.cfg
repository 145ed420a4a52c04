SPECIFICATION Spec
CONSTANTS
  a = a
  a2 = a2
  b = b
  c = c
  label1 = label1
  Malformed = Malformed
  NoData = NoData
  ClientId = {c1, c2, c3}
  PublicBody <- MCPublicBody
  AnalyticsBody <- MCAnalyticsBody
  Encryptors <- MCEncryptors
  BatchSize = 2
  Bound = 100
  ULongRange = 1024
  MaxSubmissions = 3
SYMMETRY MCSymmetry
INVARIANTS
  TypeOK
  RegistryInv
  PublicDataListUsable
  AckCarriesOwnIndex
  RecordIsLatestArrival
  AnswerCountsEveryone
PROPERTIES
  NothingWithdrawn
  OverfullNeverServes
  FailureIsFinal
