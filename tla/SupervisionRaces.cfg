SPECIFICATION FairSpec
CONSTANTS
  Agents = {a1, b1}
  Alike = {a1}
  None = None
  MAX_RESPAWN_ATTEMPTS = 3
  MaxSpawns = 3
INVARIANTS SupervisionInv SoleRunner
PROPERTIES CrashAnswered SilenceAnswered
CHECK_DEADLOCK FALSE
