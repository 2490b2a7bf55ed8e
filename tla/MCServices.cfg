SPECIFICATION Spec
CONSTANTS
  Lives = 1
  ExtraRoll = TRUE
  LudoGames <- MCLudoGames
  MoveDelay = 1
  LudoTurnTime = 2
  StartTimeout = 3
  Duration = 6
  MaxDice = 3
  SnakesGames <- MCSnakesGames
  MaxClears = 1
  MaxCalls = 2
  Turns = 2
  Runs <- MCRuns
  MaxScore = 8
  Second = 1
  CricketTurnTime = 5
  InningsTime = 4
  MaxMoves = 2
  AtOnce = 2
  MegaPawns = {1}
  MegaHome = 4
  Lane = 1
  Safe = {1}
  Dice = {1, 2}
  Targets <- MCTargets
  TotalMoves = 2
  PerHome = 5
  PerMove = 3
  MaxMessages = 6
INVARIANTS
  TypeOK
  BookIsSound
  GamesAreSettled
  SeatsAreKept
  GameGoesOn
  ClientsAreToldTheTruth
  RulesAreKept
CONSTRAINT Unspoiled
CHECK_DEADLOCK FALSE
