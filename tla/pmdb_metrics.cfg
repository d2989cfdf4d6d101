SPECIFICATION Spec
INVARIANTS
  AllActiveReported
CONSTANTS
  e1 = e1
  e2 = e2
  None = None
  EP = {e1, e2}
  Kind <- PmdbAndNisd
  Bounds <- FourBounds
  MaxCount = 2
