SPECIFICATION FairSpec
CONSTANTS
  p1 = p1
  p2 = p2
  s1 = s1
  s2 = s2
  d1 = d1
  d2 = d2
  Prompts = {p1}
  Sessions = {s1}
  Directories = {d1}
  SessionOf <- OneSession
  DirectoryOf <- OneDirectory
  NoPrompt = NoPrompt
  NoDirectory = NoDirectory
  MaxReads = 2
  Troubles = {"abort", "crash", "reconfigure", "cut", "refuse", "stop"}
  MaxTrouble = 2
  MaxStream = 2

  
PROPERTIES
  PromptReturns
CHECK_DEADLOCK FALSE
