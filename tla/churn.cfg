SPECIFICATION Spec
INVARIANTS
  WatchTable
  WatchRemoveSafe
  PendingBounded
  AnsweredOnce
PROPERTIES
  NoFalseRemoval
CONSTANTS
  EP = {e1}
  NoEP = NoEP
  Cmd = {c1, c2, c3}
  NoCmd = NoCmd
  Kind <- PmdbKind
  Timeout = 0
  TTL = 0
  MaxWd = 3
  Rereads = TRUE
  Prompt = FALSE
  MaxEvents = 1
  Faults = {"stop", "touch", "resend"}
  MaxEnv = 2
SYMMETRY CmdSymmetry
