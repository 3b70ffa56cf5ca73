SPECIFICATION MCFairSpec
CONSTANTS
  MaxIdentities = 2
  MaxPublishers = 2
  MaxSends = 3
  MaxConnects = 2
  Track <- SmallTrack
  Bad <- NoMessage
CHECK_DEADLOCK FALSE
INVARIANTS
  OneIdentityPerTrack
  ConnectionsReleased
  OneGroup
  ShownOnce
  AllShown
PROPERTIES
  NoWriteAfterShut
  ClosesDown
