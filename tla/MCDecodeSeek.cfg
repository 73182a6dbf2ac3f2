SPECIFICATION DecSpec
CONSTANTS
  NumPackets = 5
  FramesPerPacket = 1
  KeyPackets = {1, 4}
  ChangeAt = 9
  StartTime = 0
  Capacity = 3
  EarlySize = FALSE
  Accelerated = FALSE
  Vfr = TRUE
  MaxSeeks = 2
  MaxFailures = 1
  NotGiven = NotGiven
  TimeoutOption = soon
  DefaultTimeout = 1
  Vectors <- NoVectors
INVARIANTS
  DecTypeOK
  FramesInOrder
  SeekReachesTarget
PROPERTIES
  SeekAfterSuccess
