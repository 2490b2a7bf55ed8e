SPECIFICATION FairSpec
CONSTANTS
  Plays <- TwoPlays
  Users <- MCUsers
  UserOf <- MCUserOf
  Ends <- TwoEnds
  TableOf <- MCTableOf
  Closes <- TwoCloses
  Cancels <- OneCancel
  MaxTotalEntries = 2
  MaxEntriesPerUser = 2
  MaxExtensionLimit = 1
  Repeatable = FALSE
  MaxFailures = 0
INVARIANTS
  RefundedOnce
PROPERTIES
  TournamentComesToAnEnd
CHECK_DEADLOCK FALSE
