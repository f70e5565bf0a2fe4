SPECIFICATION Spec
CONSTANTS
  r1 = r1
  r2 = r2
  Requests = {r1, r2}
  MaxChanges = 4
  MaxEvents = 5
  MaxTurns = 2
  MaxChunks = 3
  MaxCuts = 2
  Swarms = {r1, r2}
  None = None
  MaxPushes = 3
  MaxSyncs = 5
  MaxFailures = 1
  Instances = {"p", "q"}
  Foreign = {"x", "y"}
  MaxEdits = 1
  MaxHookFaults = 1
  Windows = {"v", "w"}
  Roots = {"a", "b", "c"}
  Primary = "primary"
  Invalid = "bad"
  MaxExtraLocations = 2
  MaxCalls = 3
  MaxRestarts = 1
  MaxStorageFaults = 1
  Shells = {"s", "t"}
  Talks = {"f", "g"}
  MaxShows = 5
  MaxOpens = 2
  Processes = {"ide", "cli"}
  MaxLives = 2
  Launchers = {"ide", "second"}
  MaxDamages = 2
INVARIANTS
  FeedsAreCurrent
  ScreensAreTrue
  ModelIsCurrent
PROPERTIES
  HooksAreMerged
  FilesAreSound
CHECK_DEADLOCK FALSE
