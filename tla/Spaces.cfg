SPECIFICATION FairSpec
CONSTANTS
  i1 = i1
  i2 = i2
  i3 = i3
  i4 = i4
  Ids = {i1, i2, i3, i4}
  Maestro = Maestro
  None = None
  NoFile = NoFile
  NoRail = NoRail
  Names = {blank, named}
  Blank = blank
  LegacyFiles <- MCLegacyFiles
  MaxLive = 2
  MaxCreations = 1
  MaxGestures = 4
  MaxTrouble = 1
INVARIANTS
  SpacesAreSound
  ActiveIsShown
  RailIsCurrent
  SaveIsPending
PROPERTIES
  MaestroStaysWarm
  SpacesAreKept
  Saved
CHECK_DEADLOCK FALSE
