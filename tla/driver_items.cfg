CONSTANTS
  NULL = NULL
  i1 = i1
  i2 = i2
  i3 = i3
  Item = {i1, i2, i3}
  Prio <- MCPrio
  MaxResets = 2
SPECIFICATION Spec
INVARIANTS
  TypeOK
  RequestForEveryTransfer
  NoNullResponse
  NoStaleDrive
PROPERTIES
  AllAnswered
  MboxIsMailbox
CHECK_DEADLOCK FALSE
