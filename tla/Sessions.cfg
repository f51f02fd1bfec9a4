CONSTANTS
  UserNames = {2}
  NumCores = 1
  Memory = 8
  UserSizes = {4, 8}
  GeneratedSize = 3
  MayReset = FALSE
  MaxSessions = 2
  MaxCreated = 3
SPECIFICATION Spec
INVARIANTS
  TypeOK
  PidsDiffer
  OwnBlocks
  OncePlaced
  Accounted
  TableLists
  GarbageOnlyIfTorn
PROPERTIES
  FreedWhenShort
  RefinesDurableFifo
CHECK_DEADLOCK FALSE
