SPECIFICATION Spec
CONSTANTS
  Owner = {a}
  MaxQueue = 1
  TolerancePct = 40
  Scenarios <- MCScenarios
INVARIANTS TypeOK QuietWhenCopied
PROPERTIES NeverOvershoots NeverForces TopsUpAtPeak
CHECK_DEADLOCK FALSE
