SPECIFICATION FairSpec
CONSTANTS
  Responders = {r1, r2}
  MAX_ACCUMULATED = 2
  MaxRead = 2
  MaxOutput = 4
  MaxFaults = 1
INVARIANTS PreviewPromised
CHECK_DEADLOCK FALSE
