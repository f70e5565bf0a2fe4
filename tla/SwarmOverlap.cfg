SPECIFICATION Spec
CONSTANTS
  Swarms = {a, b}
  NoSwarm = NoSwarm
  Overlap = TRUE
  Troubles = {"worker", "agent", "readiness", "prepare", "unlisted", "missing"}
  MaxTrouble = 2
  MaxGestures = 3
  MaxChanges = 1
INVARIANTS
  ReadyIsCurrent
CHECK_DEADLOCK FALSE
SYMMETRY SwarmSymmetry
