SPECIFICATION Spec
INVARIANTS
  ServesOwnPort
CONSTANTS
  HttpPort = 6666
  GossipFile <- OneFile
  PortCount = 4
  ParseIP <- SomeIPs
  MaxRuns = 1
  MaxOther = 1
CHECK_DEADLOCK FALSE
