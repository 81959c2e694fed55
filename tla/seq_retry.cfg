CONSTANTS
  NULL = NULL
  w1 = w1
  w2 = w2
  w3 = w3
  r1 = r1
  r2 = r2
  r3 = r3
  Writes <- MCWrites
  Reads <- MCReads
  Addr <- MCAddr
  Watched = {1, 2}
  MaxErr = 2
  MaxFail <- MCMaxFail
SPECIFICATION Spec
INVARIANTS
  TypeOK
  OnePlace
  PhasesComplete
  RetriesExhausted
PROPERTY Ends
CHECK_DEADLOCK FALSE
