SPECIFICATION FairSpec
CONSTANTS
  Handlers = {h1}
  MaxStageRetries = 3
  World = {"timeout", "delete", "emit_error"}
  MaxRuns = 1
  MaxRows = 6
  MaxSubtasks = 0
  MaxRequests = 10
  MaxFaults = 0
INVARIANTS StagesInOrder CompletedRanAllStages OneRunningStage EachStageOnce RetriesWithinLimit NoStuckRun
PROPERTIES ImplementsRun RunSettles
CHECK_DEADLOCK FALSE
