SPECIFICATION FairSpec
CONSTANTS
  Publishers = {p1, p2}
  Pids = {1, 2, 3}
  Msgs = {1, 2, 3}
  WaitTypes <- PubTypes
  AckTypes <- PubAcks
  Limit = 2
  Qoses = {1, 2}
  RetainedPid <- OwnPid
  MaxReconnects = 1
  MaxCalls = 1
INVARIANTS InFlightTracked CompletesRight
PROPERTY AllComplete
CHECK_DEADLOCK FALSE
