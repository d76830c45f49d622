CONSTANTS
  SyncCalls = {s1}
  ReportCalls = {r1}
  Workers = {w1}
  Addrs = {a1, a2}
  IntMax = 1
  FirstIds = {0, 3}
  NULL = NULL
  Tasks = {t1}
  APP = APP
  NET = NET
  REPORT = REPORT
SPECIFICATION LedaFairSpec
INVARIANTS
  NetworkCallUnanswered
  ReportedCallsSucceed
PROPERTIES
  CallsReturn
  ReportAnswersDelivered
  RequestsServed
CHECK_DEADLOCK FALSE
