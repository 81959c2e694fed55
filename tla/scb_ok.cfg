CONSTANTS
  NULL = NULL
  Trx = {"w1", "w2", "r1"}
  Kind <- MCKind
  Beats <- MCBeats
  Data <- MCData
  Fate <- MCOk
  NumAddr = 2
  LifeTime = 1
  MaxCopies = 1
  MaxResets = 1
SPECIFICATION Spec
INVARIANTS
  TypeOK
  OnlyDropsMislead
  CheckedOnce
