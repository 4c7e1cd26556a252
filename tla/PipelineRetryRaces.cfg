SPECIFICATION Spec
CONSTANTS
  Handlers = {h1, h2}
  MaxStageRetries = 1
  World = {"overlap", "timeout", "emit_error", "decompose"}
  MaxRuns = 1
  MaxRows = 2
  MaxSubtasks = 0
  MaxRequests = 3
  MaxFaults = 0
SYMMETRY HandlerSymmetry
INVARIANTS AnsweredOnce RetriesBounded RecoveryNotForgotten
CHECK_DEADLOCK FALSE
