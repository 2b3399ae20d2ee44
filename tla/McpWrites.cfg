SPECIFICATION FairSpec
CONSTANTS
  first = first
  second = second
  unlocked = unlocked
  series = series
  queue = queue
  Write <- MCWrite
  Locked <- MCLocked
  Record <- MCRecord
  target <- MCTarget
  Reader = {reader1}
  NotKept = NotKept
  MaxRestarts = 1
INVARIANTS
  WritesWhatItResolved
  HonestOutcome
  KeptShowsAnswered
PROPERTIES
  EveryCallAnswers
CHECK_DEADLOCK FALSE
