CONSTANTS
  t1 = t1
  t2 = t2
  Thread = {t1, t2}
  Cleared = {}
  Last = 4
  MaxResets = 3
SPECIFICATION Spec
INVARIANT AllThreadsRun
CHECK_DEADLOCK FALSE
