CONSTANTS
  KeyIds = {"a", "b"}
  Keys = {"K1", "K2"}
  NoKey = NoKey
  NoFrame = NoFrame
  FrameSet <- DamagedFrames
  MaxCalls = 3
  MaxRewinds = 1
  InitialLease = 0
  QuiescentControl = TRUE
SPECIFICATION Spec
INVARIANT TypeOK
PROPERTY ReceiverSpec
