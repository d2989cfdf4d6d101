SPECIFICATION Spec
INVARIANTS
  RemovingNotWatched
CONSTANTS
  EP = {e1}
  NoEP = NoEP
  Cmd = {c1, c2}
  NoCmd = NoCmd
  Kind <- NisdKind
  Timeout = 1
  TTL = 1
  MaxWd = 2
  Rereads = FALSE
  Prompt = FALSE
  MaxEvents = 1
  Faults = {"stop"}
  MaxEnv = 1
SYMMETRY CmdSymmetry
