SPECIFICATION Spec
CONSTANTS
  Gray = "gray"
  Garbled = "garbled"
  Thread = {t1}
  Surface = {"source", "result", "small"}
  HostArray = {"input", "output"}
  Scenario <- MCScenario
  MaxFailures = 0
  MaxCalls = 1
INVARIANTS
  EventsCover
CHECK_DEADLOCK FALSE
