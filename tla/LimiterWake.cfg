SPECIFICATION FairSpec
CONSTANTS
  Limit = 2
  Pollers = {p1, p2}
  Releasers = {r1, r2}
  Maxes = {1, 2}
  BatchSizes = {2}
  CanClose = TRUE
  Restored = {}
  Stale = {}
PROPERTY PollReturns
