SPECIFICATION Spec
CONSTANTS
  MAX_QUEUE_BUFFER_SIZE = 3
  DeviceSlots = 2
  MaxFrames = 5
  InitMayFail = FALSE
  EnqueueMayFail = FALSE
CHECK_DEADLOCK FALSE
INVARIANT
  PlayerWhenStarted
