CONSTANTS
  MaxRuns = 2
  MaxLines = 2
  MaxDamages = 0
  QueueCap = 2
  MaxU64 = 3
  PersistentKeys = TRUE
CHECK_DEADLOCK FALSE
SPECIFICATION Spec
INVARIANT NonceUnique
