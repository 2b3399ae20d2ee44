SPECIFICATION MCSpec
CONSTANTS
  MaxTouched = 2
  Release = {r1, r2, r3}
  Target = {season}
  MaxListed = 2
  ListedFor = 4
  ReuseFor = 2
  ArrKeepsFor = 3
  MaxHits = 2
  MaxTime = 5
  MaxCalls = 6
  MaxInARow = 2
  MaxHeld = 3
  MaxRound = 2
  MaxCrashes = 1
  Reading <- MCReading
  MaxListItems = 2
  ArrPage = 3
  ScanPages = 2
  Around = 1
INVARIANTS LimitsHold NewestRemembered EverythingOnce
PROPERTIES ChangesWereShown EffectsHappen  ListedCanBeGrabbed
CHECK_DEADLOCK FALSE
