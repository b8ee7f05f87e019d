SPECIFICATION FairSpec
CONSTANTS
  Threads = {t1}
  Unit = 2
  LowBase = 2
  MaxComing = 1
  Group = 2
  MaxMaps = 1
PROPERTIES WaiterReturns StatusCleared
CHECK_DEADLOCK FALSE
