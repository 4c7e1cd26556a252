SPECIFICATION Spec
CONSTANTS
  Handlers = {h1}
  MaxStageRetries = 1
  World = {"subtasks"}
  MaxRuns = 1
  MaxRows = 5
  MaxSubtasks = 1
  MaxRequests = 1
  MaxFaults = 0
INVARIANTS FindsRunningTask
CHECK_DEADLOCK FALSE
