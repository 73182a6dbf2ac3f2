SPECIFICATION PySpec
CONSTANTS
  FrameIntervalP = 2
  LookaheadDepth = 1
  ExtraOutputDelay = 0
  MaxFrames = 5
  MaxFailures = 2
  Size = {small, large}
  Format = {"YUV444"}
INVARIANTS
  EncTypeOK
  InFlightBounded
  BitstreamsNotReused
  DelayCoversLatency
  PacketsInOrderOnce
  FlushDrains
  ReportsEncoder
PROPERTIES
  OverrunNeedsFailedPull
  ImplementsFifo
  FlushTerminates
CHECK_DEADLOCK FALSE
