SPECIFICATION FairSpec
CONSTANTS
  Size = 4
  Block = 2
  Header = 2
  Lens = {1, 2, 3, 4, 5}
  Closers = {k1}
  Directions = {"in", "out"}
  MaxSeq = 9
INVARIANTS BytesIntact OnlyLongStarve
PROPERTY ProducerWakes
CHECK_DEADLOCK FALSE
