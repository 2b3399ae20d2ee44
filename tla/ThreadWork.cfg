CONSTANTS
  a = a
  b = b
  NoThread = NoThread
  NoRow = NoRow
  Intent = Intent
  Job <- MCJob
  Thread <- MCThread
  Limit = 1
  FromAdmin = {TRUE}
  MaxCrashes = 2
SPECIFICATION Spec
SYMMETRY MCThreads
INVARIANTS OneMessage NoStaleStatus ThreadSerial OnlyConfirmedRun
PROPERTIES ReplyStands ContractKept
CHECK_DEADLOCK FALSE
