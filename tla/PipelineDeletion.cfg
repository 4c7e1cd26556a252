SPECIFICATION Spec
CONSTANTS
  Handlers = {h1}
  MaxStageRetries = 1
  World = {"subtasks", "decompose", "delete"}
  MaxRuns = 1
  MaxRows = 6
  MaxSubtasks = 2
  MaxRequests = 3
  MaxFaults = 0
INVARIANTS DeletionLeavesNoRow
CHECK_DEADLOCK FALSE
