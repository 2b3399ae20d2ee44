SPECIFICATION FairSpec
CONSTANTS
  Runs = 2
  write = write
  read = read
  Call <- MCCall
  Unsafe <- MCWrites
  Reviewed <- MCWrites
  Config = {old, new}
  NoTools = NoTools
  NoPolicy = NoPolicy
  MaxCrashes = 2
INVARIANTS
  WriteAtMostOnce
  UncertainStopsModel
  CallsStayInTurn
PROPERTIES
  TurnLeavesNothing
  EveryRunSettles
CHECK_DEADLOCK FALSE
