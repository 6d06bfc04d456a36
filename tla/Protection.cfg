SPECIFICATION FairSpec
CONSTANTS
  MaxStops = 2
  MaxQueue = 1
  MaxTurns = 4
  MaxMishaps = 1
  Scenarios <- MCScenarios
INVARIANT TypeOK
PROPERTY SweepConfirms ProtectionConverges
CHECK_DEADLOCK FALSE
