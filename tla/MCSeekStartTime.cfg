SPECIFICATION DecSpec
CONSTANTS
  NumPackets = 5
  FramesPerPacket = 1
  KeyPackets = {1, 4}
  ChangeAt = 9
  StartTime = 1
  Capacity = 2
  EarlySize = FALSE
  Accelerated = FALSE
  Vfr = FALSE
  MaxSeeks = 1
  MaxFailures = 0
  NotGiven = NotGiven
  TimeoutOption = NotGiven
  DefaultTimeout = 1
  Vectors <- NoVectors
INVARIANTS
  SeekReachesTarget
