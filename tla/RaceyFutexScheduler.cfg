CONSTANTS
  Begin = 1
  End = 3
  Slots = 33
  MaxLoop = 1
SPECIFICATION FairSpec
INVARIANT OneScheduler
CHECK_DEADLOCK FALSE
