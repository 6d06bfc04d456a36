SPECIFICATION FairSpec
CONSTANTS
  Orders = {o1, o2}
  Qty = 3
  MaxPerLot = 2
  TolerancePct = 60
  Scenarios <- MCScenarios
INVARIANT TypeOK NeverOverCopies
PROPERTY MissIsMadeUp
CHECK_DEADLOCK FALSE
