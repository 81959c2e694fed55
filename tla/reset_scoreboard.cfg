CONSTANTS
  t1 = t1
  t2 = t2
  Thread = {t1, t2}
  Cleared = {t1, t2}
  Last = 4
  MaxResets = 3
SPECIFICATION Spec
INVARIANTS
  TypeOK
  NoTrafficBeforePowerOn
  HeldInReset
  OneProcessPerThread
  AllThreadsRun
PROPERTY LeavesReset
CHECK_DEADLOCK FALSE
