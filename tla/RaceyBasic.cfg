CONSTANTS
  Word = 32
  Prime1 = 13
  Prime2 = 17
  MaxElem = 2
  NumProcs = 3
  MaxLoop = 1
SPECIFICATION FairSpec
INVARIANTS
  TypeOK
  CounterExact
  NobodyStartsEarly
  SignatureIsFinal
PROPERTY Termination
