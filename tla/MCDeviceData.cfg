SPECIFICATION DataSpec
CONSTANTS
  DefaultSize = 16
  IntMax = 127
  NumberBuffer = 4
  Bytes <- MCBytes
  Calls <- MCCalls
  Reports <- MCReports
  Requests <- MCRequests
  KeyLength = 4
  ValueLength = 8
  OutputMax = 2
  MaxFailures = 2
INVARIANTS
  PrintsInside
  TextIsRendered
  FiveMoreSuffice
  DataArrives
  HeapReleased
