------------------------------ MODULE LudoRules ------------------------------
(***************************************************************************)
(* The rules of Ludo: the paths of the pawns, which of them can move, what  *)
(* a move does to other pawns, and who wins.  A pawn is [player |-> ,       *)
(* number |-> ], its place the number of steps it has gone on the path of   *)
(* its player: 0 at the base, 1 on the starting cell, Home at the end.      *)
(***************************************************************************)
EXTENDS Integers, FiniteSets, FiniteSetsExt

CONSTANTS Start,          \* player -> starting cell: PL1 1, PL2 27, PL3 14, PL4 40
          PawnsEach,      \* 4
          Ring,           \* 52 cells, counted round the board
          Lane,           \* 5 cells of a home path
          Dice,           \* 1..6; the largest is Lane + 1
          Protected,      \* protectedCells
          TargetPawns     \* pawns at home that win: 2 in a quick game, 4 in others

VARIABLES place,          \* pawns on the board -> steps gone
          left,           \* players who have left
          won             \* the player whose last pawn has come home, or 0

vars == <<place, left, won>>

Players == DOMAIN Start
Home == Ring - 1 + Lane + 1
Pawns == [player : Players, number : 1..PawnsEach]
OnBoard == DOMAIN place
OfPlayer(p) == {w \in OnBoard : w.player = p}

TypeOK ==
  /\ OnBoard \subseteq Pawns
  /\ \A w \in OnBoard : place[w] \in 0..Home
  /\ left \subseteq Players /\ won \in Players \union {0}

(* initialPawnPositions: all pawns begin on the starting cell.              *)
Init ==
  /\ place = [w \in Pawns |-> 1]
  /\ left = {} /\ won = 0
-----------------------------------------------------------------------------
(* movePawnPaths: the cell a pawn stands on; a player's path leaves out the *)
(* cell before his starting cell and turns into his own lane.               *)
Cell(w, steps) ==
  IF steps = 0 THEN [at |-> "base", of |-> w.player, cell |-> 0]
  ELSE IF steps = Home THEN [at |-> "home", of |-> 0, cell |-> 0]
  ELSE IF steps < Ring THEN [at |-> "ring", of |-> 0, cell |-> ((Start[w.player] + steps - 2) % Ring) + 1]
  ELSE [at |-> "lane", of |-> w.player, cell |-> steps - Ring + 1]

OnHomePath(steps) == steps >= Ring /\ steps < Home
Leaves == {1, Lane + 1} \intersect Dice

(* canPawnMoveByDice                                                        *)
CanMove(steps, dice) ==
  /\ steps # Home
  /\ steps = 0 => dice \in Leaves
  /\ OnHomePath(steps) => Home - steps >= dice

(* getNextPosition; 0 where it throws.                                      *)
NextPosition(steps, dice) ==
  IF steps = Home \/ (steps = 0 /\ dice \notin Leaves) \/ (OnHomePath(steps) /\ Home - steps < dice) THEN 0
  ELSE IF steps = 0 THEN 1 ELSE steps + dice

(* The pawns of others that stand where a pawn comes to.                    *)
Standing(cell) == {w \in OnBoard : Cell(w, place[w]) = cell}

(* Mutant: a block of two pawns is sent back too.                           *)
KilledAll(w, next) ==
  LET cell == Cell(w, next)
  IN  IF next # Home /\ (cell.at = "ring" => cell.cell \notin Protected)
      THEN {v \in Standing(cell) : v.player # w.player} ELSE {}

(* movePawn: one pawn alone on a cell that is not protected is sent back.   *)
Killed(w, next) ==
  LET cell == Cell(w, next)
      there == Standing(cell)
  IN  IF next # Home /\ Cardinality(there) = 1 /\ (cell.at = "ring" => cell.cell \notin Protected)
      THEN {v \in there : v.player # w.player} ELSE {}

AtHome(p) == {w \in OfPlayer(p) : place[w] = Home}

(* The move that wins is not written to the table.                          *)
MovePawn(w, dice) ==
  LET next == NextPosition(place[w], dice)
      wins == next = Home /\ Cardinality(AtHome(w.player) \union {w}) = TargetPawns
  IN  /\ won = 0
      /\ CanMove(place[w], dice)
      /\ won' = IF wins THEN w.player ELSE 0
      /\ place' = IF wins THEN place
                  ELSE [v \in OnBoard |-> IF v = w THEN next
                                          ELSE IF v \in Killed(w, next) THEN 1 ELSE place[v]]
      /\ UNCHANGED left

(* takeOutAllPawns                                                          *)
TakeOutAllPawns(p) ==
  /\ won = 0
  /\ p \notin left
  /\ Players # left \union {p}
  /\ left' = left \union {p}
  /\ place' = [w \in OnBoard \ OfPlayer(p) |-> place[w]]
  /\ UNCHANGED won

Next ==
  \/ \E w \in OnBoard, dice \in Dice : MovePawn(w, dice)
  \/ \E p \in Players : TakeOutAllPawns(p)

Spec == Init /\ [][Next]_vars
-----------------------------------------------------------------------------
(* calculateScore: the way a pawn has gone, twice for one at home.          *)
Way(w) == IF place[w] = Home THEN 2 * (Home - 1) ELSE place[w] - 1
Score(p) == MapThenSumSet(LAMBDA w : IF place[w] > 1 THEN Way(w) ELSE 0, OfPlayer(p))

(* findWinners: nobody when nobody has moved, unless one player is left.    *)
FindWinners ==
  LET best == Max({IF p \in left THEN 0 ELSE Score(p) : p \in Players})
  IN  IF best > 0 THEN {p \in Players : Score(p) = best}
      ELSE IF Cardinality(Players \ left) = 1 THEN Players \ left ELSE {}

(* What is offered to a player can be done, and what can be done is offered:*)
(* a pawn can move just when its next place is defined, and there it is at  *)
(* home or on its way, never past home.                                     *)
MovesAreLegal ==
  \A w \in OnBoard, dice \in Dice :
    /\ CanMove(place[w], dice) <=> NextPosition(place[w], dice) # 0
    /\ CanMove(place[w], dice) => NextPosition(place[w], dice) \in 1..Home

(* A pawn comes back only from a cell where it stood alone, never from a    *)
(* protected one, from a lane, or from home, and never for its own side.    *)
BlocksAreSafe ==
  \A w \in OnBoard, dice \in Dice :
    CanMove(place[w], dice) =>
      \A v \in Killed(w, NextPosition(place[w], dice)) :
        LET cell == Cell(v, place[v])
        IN  /\ v.player # w.player
            /\ cell.at = "ring" /\ cell.cell \notin Protected
            /\ \A u \in OnBoard \ {v} : Cell(u, place[u]) # cell

(* At the time limit the prize is shared by the best of those still there;  *)
(* whoever is the only one left wins, moved or not.                         *)
BestScoreWins ==
  /\ FindWinners \subseteq Players \ left
  /\ \A p \in FindWinners, q \in Players \ left : Score(p) >= Score(q)
  /\ Cardinality(Players \ left) = 1 => FindWinners = Players \ left
=============================================================================
