SPECIFICATION LadderSpec
CONSTANTS
  Rung <- MCRung
  RungSizes <- MCRungSizes
  RatioNum = 2
  RatioDen = 3
  Ladders <- MCLadders
INVARIANTS LadderTypeOK SplitFairly
PROPERTIES FilledReachesShare
CHECK_DEADLOCK FALSE
