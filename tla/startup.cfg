SPECIFICATION FairSpec
INVARIANTS
  TypeOK
  ListenErrorStops
  TagsNeedSerf
  NodeListInOrder
  PortRangeRight
PROPERTIES
  WaitingMainProceeds
CONSTANTS
  HttpPort = 6666
  GossipFile <- SomeFiles
  PortCount = 4
  ParseIP <- SomeIPs
  MaxRuns = 2
  MaxOther = 1
CHECK_DEADLOCK FALSE
