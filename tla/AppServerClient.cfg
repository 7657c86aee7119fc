SPECIFICATION FairSpec
CONSTANTS
  Calls = {r1, a1, a2}
  Acts = {a1, a2}
  MaxConns = 4
  MaxFaults = 3
INVARIANTS
  ActsRunOnce
PROPERTIES
  RemoteSpec
  
CHECK_DEADLOCK FALSE
