SPECIFICATION FairStartSpec
CONSTANTS
  Last = 3
  Qualified = {2, 3}
  Sound = {1, 3}
  WithAgent = {2, 3}
  Bundled = 0
  Checkout = {}
  Size = 2
  MaxParts = 2
  Attempts = 2
  MaxMishaps = 2
  Forced = FALSE
  Disabled = FALSE
  Updates = TRUE
  Accelerator = TRUE
  MaxStarts = 2
INVARIANTS
  OneEngine
PROPERTIES
  OpensQualified
  ReplacesWhole
  InstallEnds
CHECK_DEADLOCK FALSE
