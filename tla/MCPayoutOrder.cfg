SPECIFICATION FairSpec
CONSTANTS
  Creator = "create"
  Webhooks = {"hook1", "hook2"}
  Approvals = {"approve1"}
  Rejections = {"reject1"}
  Cashback = TRUE
  MaxFailures = 1
INVARIANTS
  TypeOK
  StatusFollowsMoney
  LatecomersBookNothing
  PaidOrRefunded
PROPERTIES
  OrderIsSettled
CHECK_DEADLOCK FALSE
