----------------------------- MODULE SnakesRules -----------------------------
(***************************************************************************)
(* The rules of Snakes and Ladders: which pawns can move, where snakes and  *)
(* ladders take them, which pawn a move sends back, when the game is over   *)
(* and who has won.  A place is 0 at the base and Home at the end.          *)
(***************************************************************************)
EXTENDS Integers, FiniteSets, FiniteSetsExt, Functions

CONSTANTS Players, Home,     \* 100
          Snakes, Ladders,   \* of the board: from cell to cell
          Dice

VARIABLES at,                \* pawns -> places
          gone               \* players who have left

vars == <<at, gone>>

Pawns == Players \X {1, 2}

TypeOK == at \in [Pawns -> 0..Home] /\ gone \subseteq Players

Init == at = [w \in Pawns |-> 0] /\ gone = {}
-----------------------------------------------------------------------------
(* canPawnMove, getCanMovePanwsByplayerIndex                                *)
CanPawnMove(w, dice) == at[w] # Home /\ at[w] + dice <= Home

(* getNewPositionIfLadderOrSnake                                            *)
Carried(cell) ==
  IF cell \in DOMAIN Snakes THEN Snakes[cell]
  ELSE IF cell \in DOMAIN Ladders THEN Ladders[cell] ELSE cell
NextPosition(w, dice) == Carried(Min({at[w] + dice, Home}))

(* getOtherPawnsOnPosition: a single pawn, of a player still there.         *)
OtherPawnsOnPosition(w, cell) ==
  LET there == {v \in Pawns : at[v] = cell /\ v[1] \notin gone}
  IN  IF cell # Home /\ Cardinality(there) = 1 THEN {v \in there : v[1] # w[1]} ELSE {}

(* shouldEndGame                                                            *)
Finished == {p \in Players : at[<<p, 1>>] = Home /\ at[<<p, 2>>] = Home}

(* checkIfPassTurnToNext: there are pawns to be moved, and none of them can *)
(* use the dice.                                                            *)
PassesTurn(p, dice) ==
  p \notin Finished /\ \A i \in {1, 2} : ~CanPawnMove(<<p, i>>, dice)

(* The game is not over: nobody is home with both pawns, two are left.      *)
GoesOn == Finished = {} /\ Cardinality(Players \ gone) > 1

(* movePawn                                                                 *)
MovePawn(w, dice) ==
  LET next == NextPosition(w, dice)
      killed == OtherPawnsOnPosition(w, next)
  IN  /\ GoesOn /\ w[1] \notin gone
      /\ CanPawnMove(w, dice)
      /\ at' = [v \in Pawns |-> IF v = w THEN next ELSE IF v \in killed THEN 0 ELSE at[v]]
      /\ UNCHANGED gone

(* handleLeaveTable: the pawns stay where they are.                         *)
LeaveTable(p) ==
  /\ GoesOn /\ p \notin gone
  /\ gone' = gone \union {p}
  /\ UNCHANGED at

Next ==
  \/ \E w \in Pawns, dice \in Dice : MovePawn(w, dice)
  \/ \E p \in Players : LeaveTable(p)

Spec == Init /\ [][Next]_vars
-----------------------------------------------------------------------------
(* calculateTotalPointsOfMyPawns                                            *)
Points(p) == at[<<p, 1>>] + at[<<p, 2>>]

(* isWinner                                                                 *)
Winners ==
  {p \in Players \ gone : Points(p) = Max({Points(q) : q \in Players \ gone})}

(* Moves: no pawn stands at the head of a snake or the foot of a ladder,    *)
(* and a move sends back one pawn at most, never one of two that stand      *)
(* together, nor one's own, nor that of somebody who cannot move it again.  *)
PawnsAreSafe ==
  /\ \A w \in Pawns : at[w] \notin DOMAIN Snakes \union DOMAIN Ladders
  /\ \A w \in Pawns, dice \in Dice :
       CanPawnMove(w, dice) =>
         \A v \in OtherPawnsOnPosition(w, NextPosition(w, dice)) :
           /\ v[1] # w[1] /\ v[1] \notin gone
           /\ \A u \in Pawns \ {v} : u[1] \notin gone => at[u] # at[v]

(* The end: somebody wins, and only who is still there; whoever brings both *)
(* pawns home wins alone; and until then a turn is passed only by players   *)
(* who are so near home that the dice is too high for them.                 *)
HomeWins ==
  /\ Winners # {} /\ Winners \subseteq Players \ gone
  /\ Finished # {} => Winners = Finished
  /\ \A p \in Players, dice \in Dice :
       PassesTurn(p, dice) => \E i \in {1, 2} : at[<<p, i>>] \in (Home - dice + 1)..(Home - 1)
=============================================================================
