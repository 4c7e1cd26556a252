SPECIFICATION FairSpec
CONSTANTS
  Responders = {r1, r2}
  MAX_ACCUMULATED = 2
  MaxRead = 2
  MaxOutput = 3
  MaxFaults = 1
INVARIANTS TypeOK OutputConserved EvaluationComplete CompletedIsTrue
PROPERTIES BashSettles
CHECK_DEADLOCK FALSE
