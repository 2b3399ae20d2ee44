SPECIFICATION GateSpec
CONSTANTS
  MaxCalls = 4
  MaxInARow = 2
  MaxHeld = 3
  MaxRound = 2
  MaxCrashes = 1
INVARIANTS
  LimitsHoldForTheRun
CHECK_DEADLOCK FALSE
