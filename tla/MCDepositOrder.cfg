SPECIFICATION FairSpec
CONSTANTS
  Orders <- MCOrders
  Invited <- MCInvited
  Checks <- MCChecks
  Webhooks <- MCWebhooks
  OrderOf <- MCOrderOf
  MaxFailures = 2
INVARIANTS
  TypeOK
  CreditsArePaidFor
  SuccessIsCredited
PROPERTIES
  FinalStatusStays
  DepositIsSettled
CHECK_DEADLOCK FALSE
