SPECIFICATION FairSpec
CONSTANTS
  Qty = 2
  Others = 2
  TolerancePct = 60
  MaxOrders = 4
  MaxQueue = 2
  MaxEdits = 1
  MaxCrashes = 1
  Ages <- AnyAge
  Scenarios <- MCScenarios
INVARIANTS TypeOK OneLiveMirror NeverOverbuys MapFindsMirror EditsFollow CancelLeavesNothing
PROPERTY MirrorRests
CHECK_DEADLOCK FALSE
