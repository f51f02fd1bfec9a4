CONSTANTS
  UserNames = {2}
  NumCores = 1
  Memory = 8
  UserSizes = {4}
  GeneratedSize = 3
  MayReset = FALSE
  MaxSessions = 2
  MaxCreated = 3
SPECIFICATION Spec
INVARIANTS
  StartKeepsProcesses
CHECK_DEADLOCK FALSE
