CONSTANTS
  p1 = p1
  p2 = p2
  p3 = p3
  p4 = p4
  Procs = {p1, p2, p3, p4}
  CliProcs = {p1, p2}
  InitialCapacity = 1
  Overlapping = TRUE
  Garbage = Garbage
SPECIFICATION Spec
INVARIANTS
  NothingLost
