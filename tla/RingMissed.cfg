SPECIFICATION Spec
CONSTANTS
  Size = 4
  Block = 2
  Header = 2
  Lens = {1, 3, 4}
  Closers = {k1}
  Directions = {"out"}
  MaxSeq = 9
INVARIANT NoMissedBytes
CHECK_DEADLOCK FALSE
