SPECIFICATION FairMapSpec
CONSTANTS
  Goroutines = {g1, g2}
  Keys = {k1, k2}
  Vals = {v1}
  None = None
  MaxDeletion = 1
  CopyThreshold = 2
  Ops = {"Set", "Del", "Shutdown"}
PROPERTY ShutdownReturns
CHECK_DEADLOCK FALSE
