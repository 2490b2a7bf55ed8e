-------------------------------- MODULE Games --------------------------------
(***************************************************************************)
(* The tables of four games, Ludo, Snakes and Ladders, cricket and a mega   *)
(* tournament, one at a time: a behaviour is that of one table, and what    *)
(* the others alone need stands still.                                      *)
(***************************************************************************)
EXTENDS Integers, Sequences, FiniteSets

(* What a game can be, see the tables' modules.                             *)
CONSTANTS Lives, ExtraRoll,
          LudoGames, MoveDelay, LudoTurnTime, StartTimeout, Duration, MaxDice,
          SnakesGames, MaxClears, MaxCalls,
          Turns, Runs, MaxScore, Second, CricketTurnTime, InningsTime, MaxMoves, AtOnce,
          MegaPawns, MegaHome, Lane, Safe, Dice, Targets, TotalMoves, PerHome, PerMove,
          MaxMessages

VARIABLES game,
          table, jobs, moves, slips,
          kind, players, document, active, fees, prizes, calls, refunds, results, clears

Tables == <<table, jobs, moves, slips, kind, players, document, active, fees, prizes, calls, refunds,
            results, clears>>
-----------------------------------------------------------------------------
LT == INSTANCE LudoTable WITH Tables <- LudoGames, TurnTime <- LudoTurnTime

ST == INSTANCE SnakesTable WITH Games <- SnakesGames, timers <- jobs, paid <- prizes

ET == INSTANCE EplTable WITH TurnTime <- CricketTurnTime, ended <- prizes

MT == INSTANCE MegaGame WITH
        Pawns <- MegaPawns, Home <- MegaHome,
        pointer <- active, timer <- jobs, final <- prizes, messages <- moves

(* Ludo and Snakes and Ladders are for two to four players; the numbers are *)
(* counts, and in cricket the delay of a turn is the longest one.           *)
LudoAssumption ==
  /\ \A t \in LudoGames : t.kind \in LT!Kinds /\ t.players \in 2..4 /\ t.moves \in Nat
  /\ {Lives, MoveDelay, LudoTurnTime, StartTimeout, Duration, MaxDice} \subseteq Nat

SnakesAssumption ==
  /\ \A g \in SnakesGames : g.players \in 2..4 /\ g.moves \in Nat
  /\ Lives \in Nat /\ MaxClears \in Nat

CricketAssumption ==
  /\ Turns \in Nat \ {0} /\ MaxScore \in Nat /\ MaxMoves \in Nat
  /\ Runs \subseteq Nat
  /\ CricketTurnTime \in Nat
  /\ Second \in 0..CricketTurnTime /\ InningsTime \in 0..CricketTurnTime

MegaAssumption ==
  /\ IsFiniteSet(MegaPawns) /\ MegaPawns # {}
  /\ MegaHome \in Nat /\ MegaHome > 1
  /\ TotalMoves \in Nat \ {0} /\ Lives \in Nat

ASSUME GamesAssumption ==
  LudoAssumption /\ SnakesAssumption /\ CricketAssumption /\ MegaAssumption
-----------------------------------------------------------------------------
NoSeats == kind = 0 /\ players = 0 /\ document = 0
NoHistory == refunds = 0 /\ results = 0 /\ clears = 0

GamesInit ==
  \/ game = "ludo" /\ LT!Init /\ calls = 0 /\ NoHistory
  \/ game = "snakes" /\ ST!Init /\ kind = 0 /\ document = 0
  \/ game = "cricket" /\ ET!Init /\ NoSeats /\ active = 0 /\ calls = 0 /\ NoHistory
  \/ game = "mega" /\ MT!Init /\ NoSeats /\ fees = 0 /\ refunds = 0 /\ clears = 0

PlayLudo == game = "ludo" /\ LT!Next /\ UNCHANGED <<game, calls, refunds, results, clears>>
PlaySnakes == game = "snakes" /\ ST!Next /\ UNCHANGED <<game, kind, document>>
PlayCricket ==
  /\ game = "cricket" /\ ET!Next
  /\ UNCHANGED <<game, kind, players, document, active, calls, refunds, results, clears>>
PlayMega ==
  game = "mega" /\ MT!Next /\ UNCHANGED <<game, kind, players, document, fees, refunds, clears>>

GamesNext == PlayLudo \/ PlaySnakes \/ PlayCricket \/ PlayMega

GamesSpec == GamesInit /\ [][GamesNext]_<<game, Tables>>
-----------------------------------------------------------------------------
GamesTypeOK ==
  CASE game = "ludo" -> LT!TypeOK
    [] game = "snakes" -> ST!TypeOK
    [] game = "cricket" -> ET!TypeOK
    [] game = "mega" -> MT!TypeOK

(* LudoTable, SnakesTable, EplTable, MegaGame: a prize is paid once, for a  *)
(* game whose fees were taken; fees that were taken are paid out or given   *)
(* back before the table goes, never both; and when a game is over          *)
(* everybody has one result, of the game as it stood then, and is told it.  *)
GamesAreSettled ==
  /\ game = "ludo" => LT!PrizeIsBacked
  /\ game = "snakes" => ST!PrizeIsShared /\ ST!EverybodyHasAResult
  /\ game = "cricket" => ET!EndIsTold
  /\ game = "mega" => MT!ResultIsFinal

(* While there is a table something is pending that carries the game on,    *)
(* and the turn is with somebody who can take it.                           *)
GameGoesOn ==
  CASE game = "ludo" -> LT!GameGoesOn /\ LT!TurnIsTaken
    [] game = "snakes" -> ST!GameGoesOn
    [] game = "cricket" -> ET!GameGoesOn
    [] game = "mega" -> MT!GameGoesOn
    [] OTHER -> TRUE

(* LudoTable, SnakesTable: a client that comes back is sent to the table it *)
(* plays at, not to one it has left, and hears of the end only at the end.  *)
ClientsAreToldTheTruth ==
  /\ game = "ludo" => LT!ClientsAreToldTheTruth
  /\ game = "snakes" => ST!PointersAreTrue
=============================================================================
