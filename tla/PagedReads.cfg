SPECIFICATION PagesSpec
CONSTANTS
  Reading <- MCReading
  MaxListItems = 2
  ArrPage = 3
  ScanPages = 2
  Around = 1
INVARIANT NothingToReadPast
CHECK_DEADLOCK FALSE
