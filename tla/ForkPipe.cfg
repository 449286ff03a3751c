CONSTANTS
  NumProcs = 2
  MaxLoop = 2
  Capacity = 2
SPECIFICATION FairSpec
INVARIANTS
  TypeOK
  NobodyIsKilled
  ResultsAreThere
  EverythingIsDelivered
PROPERTIES
  ImplementsExchange
  Termination
CHECK_DEADLOCK FALSE
