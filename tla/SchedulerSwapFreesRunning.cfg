CONSTANTS
  p1 = p1
  p2 = p2
  p3 = p3
  Procs = {p1, p2, p3}
  CliProcs = {p1}
  Free = Free
  NoProc = NoProc
  MemoryAllocation <- MCMemoryAllocation
  Program <- MCProgram
  NumCores = 2
  RoundRobin = FALSE
  Quantum = 1
  Delay = 1
  SleepTicks = 1
  BatchFreq = 1
  MinMem = 1
  SwapPeriod = 2
  Reports = FALSE
  Total = 2
SPECIFICATION Spec
INVARIANTS
  NoUseAfterFree
CHECK_DEADLOCK FALSE
