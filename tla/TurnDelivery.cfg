SPECIFICATION FairSpec
CONSTANTS
  Last = 2
  MaxFailures = 2
  MaxCrashes = 1
  None = None
INVARIANTS
  DeliveredOnce
  GivenUpSafely
  AcceptedTurnAnswers
PROPERTIES
  AllAnswered
CHECK_DEADLOCK FALSE
