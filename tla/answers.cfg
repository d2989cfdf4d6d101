SPECIFICATION Spec
INVARIANTS
  TypeOK
PROPERTIES
  ImplementsLifecycle
CONSTANTS
  EP = {e1}
  NoEP = NoEP
  Cmd = {c1}
  NoCmd = NoCmd
  Kind <- PmdbKind
  Timeout = 0
  TTL = 0
  MaxWd = 2
  Rereads = TRUE
  Prompt = FALSE
  MaxEvents = 1
  Faults = {"rmdir", "resend", "garble", "touch", "write"}
  MaxEnv = 1
