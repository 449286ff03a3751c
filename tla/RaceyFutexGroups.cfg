CONSTANTS
  NFUTEX = 4
  MaxProcs = 8
SPECIFICATION FairSpec
INVARIANTS
  GroupsPartitionTheThreads
PROPERTY StartsUnlessUneven
