SPECIFICATION Spec
CONSTANTS
  Threads = {t1, t2}
  NoThread = NoThread
  MaxItems = 3
  FirstCapacity = 2
  Reserves = {1, 3}
  Refused = Refused
  NoMemory = NoMemory
INVARIANT AddStaysInside
CHECK_DEADLOCK FALSE
