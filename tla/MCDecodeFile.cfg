SPECIFICATION DecSpec
CONSTANTS
  NumPackets = 5
  FramesPerPacket = 2
  KeyPackets = {1, 3}
  ChangeAt = 4
  StartTime = 0
  Capacity = 3
  EarlySize = FALSE
  Accelerated = TRUE
  Vfr = FALSE
  MaxSeeks = 0
  MaxFailures = 2
  NotGiven = NotGiven
  TimeoutOption = 2
  DefaultTimeout = 3
  Vectors <- SomeVectors
INVARIANTS
  FramesInOrder
  EndMeansAll
  ChangeIsStashed
  DstHoldsItsSize
PROPERTIES
  RunReturns
  EndIsFinal
  TimeoutMeansSilence
