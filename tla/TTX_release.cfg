SPECIFICATION Spec
CONSTANTS
  Threads = {t1, t2}
  Unit = 3
  LowBase = 2
  MaxComing = 2
  Group = 2
  MaxMaps = 1
INVARIANT FreedUnreferenced
CHECK_DEADLOCK FALSE
