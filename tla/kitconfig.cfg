SPECIFICATION Spec
CONSTANTS
  MaxSessions = 3
  Sizes = {0, 1, 2}
  InitialSize = 2
  Limits = {0, 2}
  InitialLimit = 1
  Setters = {t1}
  MaxPools = 2
INVARIANTS TypeOK HistoryIsRecent PoolsSettled
CHECK_DEADLOCK FALSE
