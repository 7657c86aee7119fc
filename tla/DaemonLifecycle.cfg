SPECIFICATION Spec
SYMMETRY Interchangeable
CONSTANTS
  Launchers = {l1, l2}
  Daemons = {d1, d2, d3}
  NumRuns = 2
  MaxFaults = 2
  MaxStops = 1
  None = None
  Ghost = Ghost
INVARIANTS
  OneServer
  ServesAllActive
  RepairedOnce
CHECK_DEADLOCK FALSE
