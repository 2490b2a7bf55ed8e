SPECIFICATION Spec
CONSTANTS
  Users <- MCUsers
  Calls <- FiveCalls
  Refs <- MCRefs
  Req <- MCReq
  Opening <- MCOpening
  MaxCrashes = 0
INVARIANTS
  NoDoubleTransaction
CHECK_DEADLOCK FALSE
