SPECIFICATION Spec
CONSTANTS
  a = a
  a2 = a2
  b = b
  c = c
  label1 = label1
  label2 = label2
  Encryptors <- MCEncryptors
  Documents <- MCDocuments
  MaxBatch = 4
  Policies = {2, 3}
  Bounds = {3, 13, 29}
  ULongRange = 32
INVARIANTS
  CoherentBatchIsSummed
  NumberOnlyForCoherentGroup
  DefinedIffInIndexOrder
CHECK_DEADLOCK FALSE
