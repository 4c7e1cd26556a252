SPECIFICATION FairSpec
CONSTANTS
  Handlers = {h1}
  MaxStageRetries = 1
  World = {"overlap", "timeout", "unknown", "subtasks", "decompose", "delete", "emit_error", "db_error", "crash"}
  MaxRuns = 1
  MaxRows = 2
  MaxSubtasks = 1
  MaxRequests = 2
  MaxFaults = 1
INVARIANTS StageInv
PROPERTIES StageEnds
CHECK_DEADLOCK FALSE
