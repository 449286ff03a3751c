CONSTANTS
  NumProcs = 2
  MaxLoop = 3
  Capacity = 2
SPECIFICATION CloneFairSpec
INVARIANTS
  CloneTypeOK
  CloneDeliversEverything
PROPERTIES
  CloneImplementsExchange
  CloneTermination
