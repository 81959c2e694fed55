CONSTANTS
  NULL = NULL
  Trx = {"w1", "w2", "w3", "w4"}
  Kind <- MCKind
  Beats <- MCBeatsOne
  Data <- MCDataOne
  Fate <- MCOk
  NumAddr = 1
  LifeTime = 0
  MaxCopies = 1
  MaxResets = 0
SPECIFICATION Spec
INVARIANT NoFalseError
