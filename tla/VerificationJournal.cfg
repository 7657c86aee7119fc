SPECIFICATION FairJournalSpec
CONSTANTS
  Rounds = 2
  N = 3
  MaxFailures = 2
  MaxCrashes = 2
  NoExit = NoExit
INVARIANTS
  ExecutedAtMostOnce
  EvidenceIsOfThisRequest
PROPERTIES
  VerificationEnds
CHECK_DEADLOCK FALSE
