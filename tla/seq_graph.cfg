CONSTANTS
  NULL = NULL
  Node = {0, 1, 2, 3}
  Id = {0, 1, 2, 3, 9}
  Tables <- MCTables
  MaxResets = 1
SPECIFICATION Spec
INVARIANTS
  TypeOK
  WaitsForInputs
  SinksFree
PROPERTY EverySequenceEnds
CHECK_DEADLOCK FALSE
