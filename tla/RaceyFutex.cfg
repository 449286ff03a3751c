CONSTANTS
  Begin = 2
  End = 5
  Slots = 5
  MaxLoop = 4
SPECIFICATION FairSpec
INVARIANTS
  TypeOK
  OneSchedulerWhileOrderly
  TurnsDoNotOverlap
  OwnerCountsTheAwaited
  NoLostWakeup
PROPERTY TerminationWhileOrderly
CONSTRAINT OrderlyRuns
CHECK_DEADLOCK FALSE
