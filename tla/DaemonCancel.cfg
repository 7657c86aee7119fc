SPECIFICATION Spec
CONSTANTS
  Runs = {r1}
  Clients = {a}
  Last = 2
  Verifications = {1}
  MaxDriverSteps = 3
  MaxRequests = 2
  MaxCrashes = 0
  None = None
PROPERTIES
  CancelledIsFinal
CHECK_DEADLOCK FALSE
