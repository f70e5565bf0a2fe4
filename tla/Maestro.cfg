SPECIFICATION FairSpec
CONSTANTS
  Sessions = {s}
  CLIs = {c}
  Models = {m}
  MaxAsks = 2
  MaxEvents = 4
INVARIANTS
  AskIsReachable
  OfferIsPending
  BoardIsCurrent
PROPERTIES
  ClosedGo
CHECK_DEADLOCK FALSE
