SPECIFICATION FairSpec
CONSTANTS
  Publishers = {p1, p2}
  Pids = {1, 2, 3}
  Msgs = {1, 2}
  WaitTypes <- PubTypes
  AckTypes <- PubAcks
  Limit = 1
  Qoses = {1, 2}
  RetainedPid <- NoRetained
  MaxReconnects = 0
  MaxCalls = 1
PROPERTY PublishersReturn
CHECK_DEADLOCK FALSE
