SPECIFICATION Spec
CONSTANTS
  Gray = "gray"
  Garbled = "garbled"
  Thread = {t1, t2}
  Surface = {"source", "result", "small"}
  HostArray = {"input", "output"}
  Scenario <- MCScenario
  MaxFailures = 1
  MaxCalls = 2
SYMMETRY ThreadSymmetry
INVARIANTS
  BlockingCallsLeaveNothing
  HostArraysCurrent
  AsIfAtOnce
  ValidRunsSucceed
  ResizerEventsCover
CHECK_DEADLOCK FALSE
