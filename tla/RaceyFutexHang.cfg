CONSTANTS
  Begin = 1
  End = 3
  Slots = 33
  MaxLoop = 3
SPECIFICATION FairSpec
PROPERTY Termination
CHECK_DEADLOCK FALSE
