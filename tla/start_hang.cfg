SPECIFICATION FairSpec
PROPERTIES
  LookoutStarts
CONSTANTS
  HttpPort = 6666
  GossipFile <- OneFile
  PortCount = 4
  ParseIP <- SomeIPs
  MaxRuns = 1
  MaxOther = 0
CHECK_DEADLOCK FALSE
