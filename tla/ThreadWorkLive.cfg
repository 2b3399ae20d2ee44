CONSTANTS
  a = a
  b = b
  NoThread = NoThread
  NoRow = NoRow
  Intent = Intent
  Job <- MCJob
  Thread <- MCOneThread
  Limit = 1
  FromAdmin = {TRUE}
  MaxCrashes = 2
SPECIFICATION FairSpec
PROPERTIES EveryJobSettles
CHECK_DEADLOCK FALSE
