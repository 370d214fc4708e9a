SPECIFICATION Spec
CONSTANTS
  BatchMax = 2
  MaxPackets = 6
INVARIANT NothingLost
CHECK_DEADLOCK FALSE
