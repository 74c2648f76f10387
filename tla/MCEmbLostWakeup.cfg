CONSTANTS
  Callers = {c1, c2}
  Worker = worker
  NoThread = none
SPECIFICATION EmbFairSpec
PROPERTY ReadyReturns
CHECK_DEADLOCK FALSE
