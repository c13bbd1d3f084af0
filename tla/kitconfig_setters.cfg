SPECIFICATION FairSpec
CONSTANTS
  MaxSessions = 2
  Sizes = {}
  InitialSize = 2
  Limits = {2}
  InitialLimit = 1
  Setters = {t1, t2}
  MaxPools = 4
INVARIANTS CurrentPoolOpen
PROPERTIES AcceptedAreRun
CHECK_DEADLOCK FALSE
