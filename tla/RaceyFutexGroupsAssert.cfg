CONSTANTS
  NFUTEX = 4
  MaxProcs = 8
SPECIFICATION FairSpec
INVARIANT EveryThreadHasAGroup
