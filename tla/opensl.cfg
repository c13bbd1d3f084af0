SPECIFICATION FairSpec
CONSTANTS
  MAX_QUEUE_BUFFER_SIZE = 3
  DeviceSlots = 2
  MaxFrames = 9
  InitMayFail = TRUE
  EnqueueMayFail = TRUE
CHECK_DEADLOCK FALSE
INVARIANTS
  TypeOK
  QueueBounded
  EnqueueOnLivePlayer
  EnqueueOnlyRealFrame
  PlayedInOrder
  OneInFlight
PROPERTIES
  UnInitEnds
  RenderReturnsUnlessRefused
