SPECIFICATION Spec
CONSTANTS
  r1 = r1
  r2 = r2
  r3 = r3
  table = table
  user1 = user1
  NoOne = NoOne
  Requests <- MCRequests
  Keys <- MCKeys
  Wants <- OneKey
  Timed <- None
  InsideTry <- MCRequests
  RetryLimit = 2
  MaxDeaths = 0
INVARIANTS
  MutualExclusion
CHECK_DEADLOCK FALSE
