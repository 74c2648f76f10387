CONSTANTS
  Callers = {t1}
  Worker = worker
  NoThread = none
  MaxWindows = 1
SPECIFICATION Spec
INVARIANT FailsCleanly
CHECK_DEADLOCK FALSE
