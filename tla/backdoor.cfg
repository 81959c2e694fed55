CONSTANTS
  NULL = NULL
  w1 = w1
  w2 = w2
  w3 = w3
  w4 = w4
  Trx <- MCTrx
  Addr <- MCAddr
  Data <- MCData
  Fate <- MCFate
  Bytes = 2
  Timeouts = {2, 3, 4, 5}
  MaxResets = 2
SPECIFICATION Spec
INVARIANTS
  TypeOK
  QueryIsMemory
  OnlyBacklogMisleads
PROPERTY EveryLossReported
CHECK_DEADLOCK FALSE
