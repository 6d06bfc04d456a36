SPECIFICATION Spec
CONSTANTS
  Orders = {o1, o2}
  Qty = 2
  MaxPerLot = 2
  TolerancePct = 5
  Scenarios <- MCScenarios
INVARIANT BuysOnlyItsGap
CHECK_DEADLOCK FALSE
