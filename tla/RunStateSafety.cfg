SPECIFICATION Spec
CONSTANTS
  Commands = {c1, c2}
  Plans = {p1, p2}
  Shas = {s1, s2}
  Issues = {i1, i2}
  MaxRounds = 6
  NoProgressRounds = 2
  Legacy = TRUE
  None = None
SYMMETRY Symmetry
INVARIANTS
  SaveNeverRefused
  ReviewBudget
  CorrectionIsWarranted
  AcceptedIsEarned
PROPERTIES
  FrozenAfterApproval
  RetryReturnsToBlockedRequest
  ImplementsConsensus
CHECK_DEADLOCK FALSE
