SPECIFICATION FairSpec
CONSTANTS
  Sessions = {0, 1}
  SESSION_MAP_SIZE = 2
  CallbackThreads = {t1, t2}
  Controllers = {c1}
  MaxMessages = 2
  MaxEnables = 1
  CreateMayFail = TRUE
CHECK_DEADLOCK FALSE
INVARIANTS
  TypeOK
  NothingLostOrDoubled
  CountLagsByOne
  AllArrivedAtZero
PROPERTIES
  ImplementsChannel
  SettlesWhenEnabled
  ThreadsEndWhenDisabled
