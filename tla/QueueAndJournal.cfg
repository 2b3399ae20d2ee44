CONSTANTS
  a = a
  b = b
  c = c
  NoThread = NoThread
  Thread <- MCThread
  Task <- MCTask
  Limit = 2
  post = post
  edit = edit
  prompt = prompt
  NoRow = NoRow
  Intent = Intent
  Job <- MCJob
  Key <- MCKey
  ReplaySafe <- MCReplaySafe
  Value = {0, 1}
SPECIFICATION MCSpec
CONSTRAINT RepeatBound
INVARIANTS OneRunPerThread SlotsWellUsed ThreadOrder AheadHonest EffectAtMostOnce
PROPERTIES EveryTaskStarts
CHECK_DEADLOCK FALSE
