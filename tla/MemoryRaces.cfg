SPECIFICATION Spec
CONSTANTS
  Handlers = {h1, h2}
  Tiers = {l0, l1}
  Contents = {a, b}
  Tasks = {t1}
  None = None
  MaxMemories = 1
  MaxRows = 3
  MaxPuts = 1
  MaxQueries = 2
  MaxFaults = 1
INVARIANTS TypeOK CopiesBounded CalmStore AccessCounted
PROPERTIES WritesSeen DeletionComplete ImplementsMap
CHECK_DEADLOCK FALSE
SYMMETRY Symmetry
