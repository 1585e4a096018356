CONSTANTS
  FirstDay = 739617
  LastDay = 740166
SPECIFICATION Spec
INVARIANT EveryWeekCounted
CHECK_DEADLOCK FALSE
