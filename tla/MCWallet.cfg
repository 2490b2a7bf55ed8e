SPECIFICATION Spec
CONSTANTS
  Users <- MCUsers
  Calls <- FiveCalls
  Refs <- MCRefs
  Req <- MCReq
  Opening <- MCOpening
  MaxCrashes = 1
INVARIANTS
  TypeOK
  WalletStaysSound
  RetryAfterAnswerRefused
PROPERTIES
  BookIsImplemented
CHECK_DEADLOCK FALSE
