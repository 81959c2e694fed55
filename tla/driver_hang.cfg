CONSTANTS
  NULL = NULL
  i1 = i1
  i2 = i2
  i3 = i3
  Item = {i1, i2, i3}
  Prio <- MCPrio
  MaxResets = 1
SPECIFICATION Spec
PROPERTY KeepsFetching
CHECK_DEADLOCK FALSE
