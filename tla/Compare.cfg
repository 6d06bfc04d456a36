SPECIFICATION Spec
CONSTANTS
  Sizes = {1, 4}
  Num = 1
  Den = 3
  MaxTime = 1
  OrderWindow = 0
  FillWindow = 1
  Scenarios <- MCScenarios
INVARIANT  WrongCopyIsSeen 
CHECK_DEADLOCK FALSE
