SPECIFICATION FairSpec
CONSTANTS
  Owner = {a}
  MaxQueue = 1
  TolerancePct = 40
  Scenarios <- MCLiveScenarios
PROPERTY OverexposureEnds
CHECK_DEADLOCK FALSE
