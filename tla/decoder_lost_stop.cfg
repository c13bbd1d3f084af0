SPECIFICATION FairSpec
CONSTANTS
  NumFrames = 4
  KeyFrames = {0, 2}
  SeekTargets = {1, 3}
  HasStream = TRUE
  SeekMayFail = FALSE
  ReadMayFail = FALSE
CHECK_DEADLOCK FALSE
PROPERTY
  UnInitReturns
