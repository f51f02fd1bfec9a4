CONSTANTS
  p1 = p1
  p2 = p2
  p3 = p3
  Procs = {p1, p2}
  CliProcs = {p2}
  Free = Free
  NoProc = NoProc
  MemoryAllocation <- MCLongMemoryAllocation
  Program <- MCLongProgram
  NumCores = 1
  RoundRobin = TRUE
  Quantum = 2
  Delay = 2
  SleepTicks = 1
  BatchFreq = 1
  MinMem = 1
  SwapPeriod = 2
  Reports = FALSE
  Total = 2
SPECIFICATION Spec
INVARIANTS
  QuantumRespected
  UsedCountsCores
