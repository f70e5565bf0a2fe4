SPECIFICATION FairSpec
CONSTANTS
  Swarms = {a, b}
  NoSwarm = NoSwarm
  Overlap = FALSE
  Troubles = {"worker", "agent", "readiness", "prepare", "unlisted", "missing", "file"}
  MaxTrouble = 2
  MaxGestures = 3
  MaxChanges = 1
INVARIANTS
  OneOfEach
  MembershipIsTrue
PROPERTIES
  SwitchEnds
  StorageApplied
CHECK_DEADLOCK FALSE
