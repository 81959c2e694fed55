CONSTANTS
  NULL = NULL
  Trx = {"w1", "w2", "w3"}
  Kind <- MCKind
  Beats <- MCBeatsOne
  Data <- MCDataOne
  Fate <- MCLostW3
  NumAddr = 1
  LifeTime = 0
  MaxCopies = 1
  MaxResets = 0
SPECIFICATION Spec
INVARIANT CheckedOnce
PROPERTIES
  LostReportedOrDropped
  PoolsDrain
