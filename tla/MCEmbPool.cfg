CONSTANTS
  Callers = {c1, c2, c3}
  Worker = worker
  NoThread = none
SPECIFICATION EmbFairSpec
INVARIANTS LiveBuffer BufferReady FreedUnused
PROPERTY CloseReturns
CHECK_DEADLOCK FALSE
