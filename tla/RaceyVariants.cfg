CONSTANTS
  Word = 64
  Prime1 = 29
  Prime2 = 17
  MaxElem = 4
  NumProcs = 2
  MaxLoop = 5
  PartsSet = {2, 6}
  MaxMaps = 6
  BufSize = 4
  IntSize = 2
  FileLen = 17
SPECIFICATION VariantsSpec
INVARIANTS
  EverySignatureIsFinal
  ChunksAreReadOnce
  NobodyFaults
PROPERTY EveryVariantEnds
