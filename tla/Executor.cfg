SPECIFICATION FairSpec
CONSTANTS
  Size = 4
  MaxPolls = 3
  Scenarios <- MCScenarios
INVARIANTS NeverOverfills RecordMatchesExchange
PROPERTIES CopiesOnce EventuallyRecorded
CHECK_DEADLOCK FALSE
