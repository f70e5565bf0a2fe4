SPECIFICATION Spec
CONSTANTS
  a = a
  b = b
  k = k
  p = p
  q = q
  Chats = {a, b}
  Tasks = {k}
  ParentOf <- MCParentOf
  Permissions = {p}
  Questions = {q}
  SessionOf <- MCSessionOf
  MaxAsked = 1
  MaxPrompts = 2
  MaxMishaps = 2
  MaxReads = 2
INVARIANTS
  PendingIsOffered
PROPERTIES
  AllowedIsChosen
CHECK_DEADLOCK FALSE
