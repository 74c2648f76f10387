CONSTANTS
  Callers = {t1, t2}
  Worker = worker
  NoThread = none
  MaxWindows = 2
SPECIFICATION FairSpec
INVARIANTS OwnStatus NeverContended
PROPERTIES ParseReturns ImplementsService
CHECK_DEADLOCK FALSE
