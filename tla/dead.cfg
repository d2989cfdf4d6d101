SPECIFICATION FairSpec
PROPERTIES
  DeadEndpointRemoved
  PollsResume
CONSTANTS
  EP = {e1}
  NoEP = NoEP
  Cmd = {c1, c2}
  NoCmd = NoCmd
  Kind <- NisdKind
  Timeout = 0
  TTL = 0
  MaxWd = 1
  Rereads = FALSE
  Prompt = FALSE
  MaxEvents = 1
  Faults = {"stop"}
  MaxEnv = 1
