SPECIFICATION FairSpec
CONSTANTS
  Sessions = {1, 3}
  SESSION_MAP_SIZE = 2
  Threads = {t1, t2}
  Callers = {c1}
  NoSession = NoSession
  HARD_EXIT = 2
  MaxSignals = 3
CHECK_DEADLOCK FALSE
INVARIANTS
  TypeOK
  CancelReported
PROPERTIES
  ImplementsContract
  TwoSignalsStop
