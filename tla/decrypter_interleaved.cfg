CONSTANTS
  KeyIds = {"a"}
  Keys = {"K1"}
  NoKey = NoKey
  NoFrame = NoFrame
  FrameSet <- BroadcastFrames
  MaxCalls = 4
  MaxRewinds = 2
  InitialLease = 0
  QuiescentControl = FALSE
SPECIFICATION Spec
INVARIANT Serialized
INVARIANT NoReplay
INVARIANT CountersAgree
INVARIANT LeaseBounded
INVARIANT LeaseEarned
