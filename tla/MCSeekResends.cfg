SPECIFICATION DecSpec
CONSTANTS
  NumPackets = 3
  FramesPerPacket = 2
  KeyPackets = {1, 3}
  ChangeAt = 9
  StartTime = 0
  Capacity = 2
  EarlySize = FALSE
  Accelerated = FALSE
  Vfr = FALSE
  MaxSeeks = 1
  MaxFailures = 0
  NotGiven = NotGiven
  TimeoutOption = soon
  DefaultTimeout = 1
  Vectors <- NoVectors
INVARIANTS
  SeekReachesTarget
