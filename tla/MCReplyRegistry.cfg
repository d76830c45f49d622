CONSTANTS
  SyncCalls = {s1, s2}
  ReportCalls = {r1}
  Workers = {w1, w2}
  Addrs = {a1, a2}
  IntMax = 3
  FirstIds = {0, 2, 6}
  NULL = NULL
SPECIFICATION Spec
SYMMETRY Symmetry
INVARIANTS
  UniqueIdsUnlessRaced
  NoDoubleFree
  HoldsOwnEntry
  NothingLeftListed
  VerdictIsOwn
  ReportCbOnlyForReportsUnlessLate
  
CHECK_DEADLOCK FALSE
