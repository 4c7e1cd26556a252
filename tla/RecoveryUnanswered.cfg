SPECIFICATION FairSpec
CONSTANTS
  Handlers = {h1}
  MaxStageRetries = 1
  World = {"timeout"}
  MaxRuns = 1
  MaxRows = 5
  MaxSubtasks = 0
  MaxRequests = 1
  MaxFaults = 0
PROPERTIES RecoveryEnds
CHECK_DEADLOCK FALSE
