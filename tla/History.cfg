SPECIFICATION FairSpec
CONSTANTS
  Qty = 3
  MaxOrders = 3
  MaxWrites = 2
  MaxMishaps = 1
  Scenarios <- MCScenarios
INVARIANT TypeOK RecordsWhatFilled 
PROPERTY LegSettles
CHECK_DEADLOCK FALSE
