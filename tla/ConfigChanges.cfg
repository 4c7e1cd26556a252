SPECIFICATION FairSpec
CONSTANTS
  Handlers = {h1, h2}
  Configs = {c1, c2}
  Long = {c1}
  None = None
  MaxChanges = 3
  MaxSeconds = 1
  MaxFaults = 1
  MaxCrashes = 1
INVARIANTS TypeOK SettledAnnounced BackupTrue
PROPERTIES PutTakesEffect ChangeAnnounced
CHECK_DEADLOCK FALSE
