SPECIFICATION Spec
CONSTANTS
  MaxIdentities = 2
  MaxPublishers = 2
  MaxSends = 3
CHECK_DEADLOCK FALSE
INVARIANTS
  MessagesShown
