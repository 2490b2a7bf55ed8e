SPECIFICATION FairSpec
CONSTANTS
  r1 = r1
  r2 = r2
  r3 = r3
  table = table
  user1 = user1
  NoOne = NoOne
  Requests <- MCRequests
  Keys <- MCKeys
  Wants <- Mixed
  Timed <- NewOnes
  InsideTry <- OldOnes
  RetryLimit = 2
  MaxDeaths = 1
INVARIANTS
  TypeOK
  ExclusiveUnlessRobbed
PROPERTIES
  NothingWaitsForEver
CHECK_DEADLOCK FALSE
