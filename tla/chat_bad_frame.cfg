CONSTANTS
  MaxRuns = 1
  MaxLines = 2
  MaxDamages = 1
  QueueCap = 2
  MaxU64 = 3
  PersistentKeys = TRUE
CHECK_DEADLOCK FALSE
SPECIFICATION Spec
INVARIANT BadFrameDropped
