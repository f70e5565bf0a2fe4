SPECIFICATION FairSpec
CONSTANTS
  Swarms = {a, b}
  NoSwarm = NoSwarm
  NoEntry = NoEntry
  Entries <- MCEntries
  Reports <- MCReports
  Verdicts = {"allowed", "no_eligible_worker"}
  Callers = {c}
  MaxEpoch = 4
INVARIANTS
  GrantIsCurrent
  ShownIsKept
  GateIsWatched
PROPERTIES
  Unlocks
CHECK_DEADLOCK FALSE
