CONSTANTS
  ClientThread = {1, 2, 3}
  Quotes = 1
  Pieces = 2
  SplitThread = {1}
  LossyThread = {2}
  WorkerNum = 2
  Slots = 1
  ServerBacklog = 2
  EpollBacklog = 3
  MaxFds = 2
SPECIFICATION TcpSpec
INVARIANTS
  TcpTypeOK
  EachInOnePlace
  QuotesAreWritten
PROPERTY EveryConnectionIsDealtWith
