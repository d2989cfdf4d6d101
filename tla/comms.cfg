SPECIFICATION FairSpec
INVARIANTS
  TypeOK
  ScrapeSurvives
  AllActiveReported
  ReplyState
  MetricsLossless
PROPERTIES
  PeersConverge
CONSTANTS
  e1 = e1
  e2 = e2
  None = None
  EP = {e1}
  Kind <- OneNisd
  Bounds <- FourBounds
  MaxCount = 2
