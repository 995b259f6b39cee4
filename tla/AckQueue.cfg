SPECIFICATION Spec
CONSTANTS
  Pids = {1, 2, 3}
  Msgs = {m1}
  WaitTypes <- PubTypes
  AckTypes <- Pub2outAcks
  InitSize = 1
  MaxSize = 4
  NoEntry = NoEntry
INVARIANTS TypeOK RingConsistent MapConsistent
PROPERTY ImplementsFifo
