CONSTANTS
  NULL = NULL
  p1 = p1
  p2 = p2
  c1 = c1
  i1 = i1
  i2 = i2
  i3 = i3
  i4 = i4
  Proc = {p1, p2, c1}
  Item = {i1, i2, i3}
  Prio <- MCPrio3
  Calls <- MCCallsAll
  Idx <- MCIdx
SPECIFICATION Spec
INVARIANTS
  TypeOK
  LockOwned
  NoNullPop
  OnePlace
CHECK_DEADLOCK FALSE
