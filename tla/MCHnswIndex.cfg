SPECIFICATION Spec
CONSTANTS
  Threads = {t1, t2}
  NoThread = NoThread
  MaxItems = 3
  FirstCapacity = 2
  Reserves = {1, 3}
  Refused = Refused
  NoMemory = NoMemory
INVARIANTS
  Owned
  AnswersStayValid
  RoomBeforeBuild
PROPERTIES
  CallsReturn
  ImplementsIndex
CHECK_DEADLOCK FALSE
