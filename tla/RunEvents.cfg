SPECIFICATION RunEventsSpec
CONSTANTS
  MaxBatch = 2
  MaxEvents = 7
  MaxShas = 2
  MaxOther = 1
  MaxLost = 1
  Clients = {c}
  None = None
INVARIANTS
  LauncherSeesTheEnd
  AcceptedIsExplained
PROPERTIES
  LauncherIsTold
CHECK_DEADLOCK FALSE
