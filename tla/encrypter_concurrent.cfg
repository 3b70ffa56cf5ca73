CONSTANTS
  MaxCalls = 5
  MaxKey = 2
  NSigned = 2
  InitialCtr = 3
  MaxU64 = 7
  Encrypted = TRUE
SPECIFICATION Spec
INVARIANT TypeOK
INVARIANT NonceUnique
INVARIANT ScheduleByCounter
INVARIANT KeyCut
