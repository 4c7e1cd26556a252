SPECIFICATION FairSpec
CONSTANTS
  Writers = {w1, w2}
  Spans <- MCSpans
  MaxBatch = 2
  MaxExports = 3
  MaxFaults = 1
INVARIANTS TypeOK EnvelopeCovers CountCovers QuietSummary
PROPERTIES SpansStored
CHECK_DEADLOCK FALSE
