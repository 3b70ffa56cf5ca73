CONSTANTS
  KeyIds = {"a"}
  Keys = {"K1"}
  NoKey = NoKey
  NoFrame = NoFrame
  FrameSet <- LiveFrames
  MaxCalls = 3
  MaxRewinds = 1
  InitialLease = 1
  QuiescentControl = FALSE
SPECIFICATION FairSpec
PROPERTY AllSettle
