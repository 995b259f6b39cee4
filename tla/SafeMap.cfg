SPECIFICATION FairMapSpec
CONSTANTS
  Goroutines = {g1, g2}
  Keys = {k1, k2, k3}
  Vals = {v1}
  None = None
  MaxDeletion = 1
  CopyThreshold = 2
  Ops = {"Get", "Set", "Del", "GetOrSet", "Range", "Shutdown"}
INVARIANT MapsSound
PROPERTIES ImplementsMap CallsReturn
CHECK_DEADLOCK FALSE
