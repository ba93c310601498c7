CONSTANTS
  WorldSize = 4
  None = none
SPECIFICATION RingFairSpec
INVARIANTS RingTypeOK FromPredecessor NoStray NeedsKeeping
PROPERTY RingEnds
CHECK_DEADLOCK FALSE
