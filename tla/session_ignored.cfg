SPECIFICATION AnsweringSpec
CONSTANTS
  Sessions = {1, 2}
  SESSION_MAP_SIZE = 2
  Threads = {t1}
  Callers = {c1}
  NoSession = NoSession
  HARD_EXIT = 2
  MaxSignals = 2
CHECK_DEADLOCK FALSE
PROPERTY
  CancelledStops
