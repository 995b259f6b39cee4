SPECIFICATION QuotaSpec
CONSTANTS
  Publishers = {p1, p2, p3}
  Quota = 2
  SkipsLocal = TRUE
  MaxRejects = 2
INVARIANTS OvercommitBounded NoDebt
CHECK_DEADLOCK FALSE
