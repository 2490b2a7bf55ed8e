SPECIFICATION FairSpec
CONSTANTS
  Users <- MCUsers
  Registrations <- OneThreeOrFour
  Joins <- MCJoins
  UserOf <- MCUserOf
  Starts <- OneStart
  Cancels <- OneCancel
  Ends <- OneEnd
  RoundEnds <- OneRoundEnd
  Leavers <- OneLeaver
  MinNoPlayers = 2
  MaxNoPlayers = 4
  NoPlayersPerGame = 2
  TieRounds = 1
  TiePlayers = 3
  MaxFailures = 1
  NoUser = NoUser
CONSTRAINT Undisturbed
CONSTRAINT Apart
INVARIANTS
  TypeOK
  EveryoneIsListedOnce
  PlayersWithinLimit
PROPERTIES
  NothingIsListedAfterRefund
  StartedComesToAnEnd
CHECK_DEADLOCK FALSE
