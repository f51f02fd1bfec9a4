CONSTANTS
  p1 = p1
  p2 = p2
  p3 = p3
  p4 = p4
  Procs = {p1, p2, p3, p4}
  Total = 6
  NoPid = NoPid
  MemoryAllocation <- MCMemoryAllocation
SPECIFICATION Spec
INVARIANTS
  TypeOK
  Tiling
  Coalesced
  Ownership
  CountersExact
PROPERTIES
  RefinesAddressSpace
  MergeEnds
