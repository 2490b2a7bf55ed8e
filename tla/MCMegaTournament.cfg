SPECIFICATION Spec
CONSTANTS
  Plays <- ThreePlays
  Users <- MCUsers
  UserOf <- MCUserOf
  Ends <- FourEnds
  TableOf <- MCTableOf
  Closes <- OneClose
  Cancels <- Nobody
  MaxTotalEntries = 2
  MaxEntriesPerUser = 2
  MaxExtensionLimit = 0
  Repeatable = TRUE
  MaxFailures = 1
INVARIANTS
  TypeOK
  PlacesRespected
  PrizesPaidOnce
PROPERTIES
  NobodyIsLeftOut
CHECK_DEADLOCK FALSE
