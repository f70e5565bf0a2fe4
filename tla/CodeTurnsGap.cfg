SPECIFICATION Spec
CONSTANTS
  p1 = p1
  p2 = p2
  s1 = s1
  s2 = s2
  d1 = d1
  d2 = d2
  Prompts = {p1, p2}
  Sessions = {s1}
  Directories = {d1}
  SessionOf <- OneSession
  DirectoryOf <- OneDirectory
  NoPrompt = NoPrompt
  NoDirectory = NoDirectory
  MaxReads = 1
  Troubles = {"abort"}
  MaxTrouble = 1
  MaxStream = 2
INVARIANTS
  NoIdleBeforeSubmitted
CHECK_DEADLOCK FALSE
