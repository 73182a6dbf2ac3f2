SPECIFICATION SettingsSpec
CONSTANTS
  NotGiven = NotGiven
  PresetConfig <- DriverPresets
  ResolutionCaps <- SmallCaps
  TenBitCodec = {"hevc"}
  Word = 65536
  Format = {"NV12", "YUV444", "YUV420_10bit", "YUV444_10bit", "P12"}
  CtorOptions <- Ctors
  CallOptions <- Calls
  ExtraOutputDelay = 3
  MaxCalls = 2
INVARIANTS
  LatestAskedWins
  MisfitNeedsOtherFormat
  RingCovers
CHECK_DEADLOCK FALSE
