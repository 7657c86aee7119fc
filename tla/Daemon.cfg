SPECIFICATION FairSpec
CONSTANTS
  Runs = {r1, r2}
  Clients = {a, b}
  Last = 2
  Verifications = {1}
  MaxDriverSteps = 3
  MaxRequests = 3
  MaxCrashes = 1
  None = None
INVARIANTS
  RowMatchesTurns
  ActiveRunIsDriven
  TurnsInOrder
PROPERTIES
  ImplementsRegistry
  RunSettles
CHECK_DEADLOCK FALSE
