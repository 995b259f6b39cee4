SPECIFICATION Spec
CONSTANTS
  Size = 4
  Block = 2
  Header = 2
  Lens = {2, 3, 4, 5}
  Closers = {k1}
  Directions = {"in"}
  MaxSeq = 9
INVARIANT MessageIntact
CHECK_DEADLOCK FALSE
