SPECIFICATION FairSpec
CONSTANTS
  Calls = {c, d}
  MaxHandles = 3
  MaxChanges = 1
  MaxCrashes = 1
INVARIANTS
  OneSidecar
PROPERTIES
  ServedIsCurrent
  CallEnds
CHECK_DEADLOCK FALSE
