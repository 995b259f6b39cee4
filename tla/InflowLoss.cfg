SPECIFICATION Spec
CONSTANTS
  Pids = {1, 2}
  Msgs = {1, 2, 3, 4}
  WaitTypes <- PubTypes
  AckTypes <- Pub2inAcks
  Qoses = {1, 2}
  Unencodable = {2}
  Trusts = {TRUE}
  MaxDrops = 2
INVARIANT NeitherLoss
CHECK_DEADLOCK FALSE
