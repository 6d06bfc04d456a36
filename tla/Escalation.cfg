SPECIFICATION FairSpec
CONSTANTS
  Placed <- MCPlaced
  Filled <- MCFilled
  Qty = 2
  MaxPos = 4
  TolerancePct = 60
  Scenarios <- MCScenarios
INVARIANTS OneForcer NeverDoubleFills NeverAheadOfMaster
PROPERTIES ForcesOnce ForceStopsAtShare MasterFillCopied MasterExitCopied
CHECK_DEADLOCK FALSE
