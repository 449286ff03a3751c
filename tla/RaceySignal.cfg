CONSTANTS
  Word = 64
  Prime1 = 29
  Prime2 = 17
  MaxElem = 4
  SigLen = 33
  HandlerLoop = 1
  NumProcs = 2
  MaxLoop = 2
SPECIFICATION FairSpec
INVARIANTS
  TypeOK
  KillsTheLiving
  SignatureIsFinal
PROPERTY Termination
