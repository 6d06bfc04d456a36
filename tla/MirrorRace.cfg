SPECIFICATION Spec
CONSTANTS
  Qty = 2
  Others = 2
  TolerancePct = 60
  MaxOrders = 4
  MaxQueue = 2
  MaxEdits = 0
  MaxCrashes = 0
  Ages <- AnyAge
  Scenarios <- EscalateOnly
INVARIANT NeverDoubleFills
CHECK_DEADLOCK FALSE
