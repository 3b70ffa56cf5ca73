CONSTANTS
  MaxRuns = 2
  MaxLines = 4
  MaxDamages = 1
  QueueCap = 2
  MaxU64 = 3
  PersistentKeys = FALSE
CHECK_DEADLOCK FALSE
SPECIFICATION FairSpec
INVARIANT TypeOK
INVARIANT NonceUnique
INVARIANT LinesAccounted
PROPERTY InputEndsRun
PROPERTY SubscriberReturns
