SPECIFICATION Spec
CONSTANTS
  Creator = "create"
  Webhooks = {"hook1", "hook2"}
  Approvals = {"approve1"}
  Rejections = {"reject1"}
  Cashback = FALSE
  MaxFailures = 0
INVARIANTS
  NotBothApprovedAndRejected
CHECK_DEADLOCK FALSE
