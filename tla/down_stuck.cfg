SPECIFICATION ResponsiveSpec
PROPERTIES
  DownComesBack
CONSTANTS
  EP = {e1}
  NoEP = NoEP
  Cmd = {c1, c2}
  NoCmd = NoCmd
  Kind <- NisdKind
  Timeout = 1
  TTL = 1
  MaxWd = 2
  Rereads = FALSE
  Prompt = TRUE
  MaxEvents = 1
  Faults = {"rmdir"}
  MaxEnv = 1
CONSTRAINT OneAtATime
