SPECIFICATION MCFairSpec
CONSTANTS
  MaxChunks = 8
  KeyIds = {255, 256}
  Lengths = {22, 32, 41, 42, 43, 44, 63, 64, 65}
  MaxCalls = 2
  MaxWrites = 3
  MaxFrames = 4
  CtrModulus = 5
  SenderIds = {0, 1}
  SenderKey <- OneKey
CHECK_DEADLOCK FALSE
INVARIANTS
  NothingLost
  EndsAsSource
  ProgramsAgree
  SealsWhatItWasGiven
  OpensWhatItVerified
  AcceptedWasSent
  IntactAccepted
PROPERTIES
  SourceReleased
  ReadSettles
