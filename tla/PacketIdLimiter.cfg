SPECIFICATION Spec
CONSTANTS
  Limit = 3
  Pollers = {p1, p2, p3}
  Releasers = {r1, r2}
  Maxes = {1, 2}
  BatchSizes = {2}
  CanClose = TRUE
  Restored = {1}
  Stale = {2}
INVARIANTS TypeOK Accounted WaitersListed NoneSleepIdle
