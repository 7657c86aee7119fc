SPECIFICATION FairSpec
CONSTANTS
  MaxItems = 2
  MaxAsks = 1
  MaxFaults = 1
  MaxRepeats = 1
INVARIANTS
  StartedCommandsAreAccounted
  NothingIsHidden
PROPERTIES
  JournalOnlyGrows
  TurnIsAnswered
CHECK_DEADLOCK FALSE
