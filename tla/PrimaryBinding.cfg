SPECIFICATION Spec
CONSTANTS
  MaxRequests = 2
  MaxTasks = 3
  MaxTurns = 3
  MaxHistory = 2
  MaxFaults = 2
  None = None
INVARIANTS
  PendingOnActive
  MirrorIsExact
  NoTurnLeftBehind
CHECK_DEADLOCK FALSE
