SPECIFICATION Spec
CONSTANTS
  Levels <- MCLevels
  Dollar <- DollarLevels
  Malformed <- BadLevels
  NoMsg = NoMsg
  Subs = {s1, s2}
  Qoses = {0, 2}
  MaxQos = 1
  Payloads = {m1, m2}
  Workloads <- MCWorkloads
  PubTopics <- MCTopicsLooked
  Searches <- MCSearches
  MaxOps = 4
INVARIANTS LookupsExact NoDeadBranches GroupsReported RetainedExact
PROPERTY Isolation
SYMMETRY Symmetry
CHECK_DEADLOCK FALSE
