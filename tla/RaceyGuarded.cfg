CONSTANTS
  Word = 32
  Prime1 = 13
  Prime2 = 17
  MaxElem = 4
  NLock = 2
  NumProcs = 3
  MaxLoop = 2
SPECIFICATION FairSpec
INVARIANTS
  TypeOK
  NoDataRace
  NoNestedLocks
PROPERTIES
  IterationsAreAtomic
  Termination
