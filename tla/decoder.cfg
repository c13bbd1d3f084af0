SPECIFICATION FairSpec
CONSTANTS
  NumFrames = 4
  KeyFrames = {0, 2}
  SeekTargets = {0, 1, 3}
  HasStream = TRUE
  SeekMayFail = TRUE
  ReadMayFail = TRUE
CHECK_DEADLOCK FALSE
INVARIANTS
  TypeOK
  DisposedIsReleased
  RenderedFramesSynced
PROPERTIES
  ImplementsLifecycle
  ImplementsThread
  UnInitReturnsUnlessOverwritten
  PauseQuiesces
  ResumeEndsPause
