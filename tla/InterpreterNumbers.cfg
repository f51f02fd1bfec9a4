CONSTANTS
  ValueMax = 3
  Literals = {2}
  SleepTimes = {1, 3}
  ScreenDeclares = 2
  GeneratedPrograms <- MCGeneratedPrograms
  ScreenPrograms <- MCScreenPrograms
  InitialCapacity = 1
  MaxCapacity = 1000000
  LogCapacity = 1
  DeadlineWrap = 4
  quantum = 1
  LastTick = 3
SPECIFICATION Spec
INVARIANTS
  NumbersCount
CHECK_DEADLOCK FALSE
