SPECIFICATION Spec
SYMMETRY PatchSymmetry
CONSTANTS
  Last = 2
  Patches = {p1, p2}
  MaxTurns = 3
  MaxCalls = 2
  MaxCommits = 3
  MaxFaults = 2
  ObeyedPrompt = TRUE
  None = None
INVARIANTS
  ResultHoldsTheRecordedPatch
  RecoveredResultIsKept
  PatchWithinRequest
CHECK_DEADLOCK FALSE
