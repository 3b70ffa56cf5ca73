CONSTANTS
  MaxEncrypts = 5
  MaxDecrypts = 4
  NSigned = 3
  InitialCtr = 1
  MaxU64 = 6
  KeyId = a
  NoFrame = NoFrame
CHECK_DEADLOCK FALSE
SPECIFICATION Spec
INVARIANT LeaseSuffices
INVARIANT LosslessDelivers
INVARIANT InOrderOfCalls
