------------------------------- MODULE MegaGame -------------------------------
(***************************************************************************)
(* One game of a Ludo mega tournament: a player alone with four pawns of    *)
(* his own and twelve to hit, a number of turns, and a score.  Rolls, moves *)
(* and skips hold the lock of the table from reading to storing it; the end *)
(* takes no lock of the table: it follows a roll a second later, a move     *)
(* while that holds its lock, a skip that does not wait for it, and a       *)
(* message of the player at once.                                           *)
(*                                                                         *)
(* Each store and each delete is a step of its own.  Points for speed are   *)
(* left out, and so is the clock: a timer that still counts fires at any    *)
(* moment.  What becomes of the result is MegaTournament's.                 *)
(***************************************************************************)
EXTENDS Integers, FiniteSets, Sequences, SequencesExt, FiniteSetsExt

CONSTANTS Pawns,        \* own pawns
          Home,         \* the last place of the path; the lane is the Lane places before it
          Lane,
          Targets,      \* enemy pawns -> [base |-> , at |-> , points |-> ]: places on the player's
                        \* path, or 0 off it, and what the way it has gone is worth
          Safe,         \* SAFE_POSITIONS
          Dice,         \* the outcomes; the largest is the six
          ExtraRoll,    \* isExtraRollAfterSixEnabled
          TotalMoves, Lives,
          PerHome, PerMove,   \* BONUS_PER_HOME_LANDING, BONUS_PER_REMAINING_MOVE
          MaxMessages   \* bound

VARIABLES table,        \* the table in Redis
          pointer,      \* the player's pointer to it
          calls,        \* handlers at work
          timer,        \* one timer still counts
          results,      \* history: the scores stored
          final,        \* history: the scores told when the game had come to its end
          messages,     \* bound: to come
          slips         \* history: what the code lets through, after which we look away

vars == <<table, pointer, calls, timer, results, final, messages, slips>>

Six == Max(Dice)
NoTable == [exists |-> FALSE, place |-> [p \in Pawns |-> 1],
            enemy |-> [e \in DOMAIN Targets |-> Targets[e].at], action |-> "rollDice", dice |-> <<>>,
            started |-> FALSE, lives |-> 0, moves |-> 0, bonus |-> 0]
Call(what) == [do |-> what, copy |-> NoTable, locked |-> FALSE]

TypeOK ==
  /\ table.place \in [Pawns -> 1..Home]
  /\ table.action \in {"rollDice", "movePawn"}
  /\ table.dice \in Seq(Dice) /\ Len(table.dice) <= 3
  /\ table.lives \in -1..Lives /\ table.moves \in 0..(TotalMoves + MaxMessages) /\ table.bonus \in Nat
  /\ Cardinality({c \in calls : c.locked}) <= 1
  /\ {pointer, timer, table.exists} \subseteq BOOLEAN
  /\ slips \subseteq {"skipped late", "played on", "two games"}

(* The end of handlePlayRequest.                                            *)
Init ==
  /\ table = [NoTable EXCEPT !.exists = TRUE, !.lives = Lives, !.moves = TotalMoves]
  /\ pointer = TRUE
  /\ calls = {}
  /\ timer = TRUE
  /\ results = <<>> /\ final = {}
  /\ messages = MaxMessages
  /\ slips = {}
-----------------------------------------------------------------------------
OnHomePath(at) == at >= Home - Lane /\ at < Home

(* canPawnMoveByDice; no pawn of the player's ever goes back to the base.   *)
CanMoveByDice(at, dice) == at # Home /\ (OnHomePath(at) => Home - at >= dice)
CanMove(t) == {m \in Pawns \X DOMAIN t.dice : CanMoveByDice(t.place[m[1]], t.dice[m[2]])}

HomePawnCount(place) == Cardinality({p \in Pawns : place[p] = Home})
Points(place) == MapThenSumSet(LAMBDA p : place[p] - 1, Pawns)
TotalScore(t) == t.bonus + Points(t.place)
ShouldEndGame(t) == t.moves <= 0 \/ t.lives < 0 \/ HomePawnCount(t.place) = Cardinality(Pawns)
SumOf(dice) == FoldLeft(LAMBDA sum, d : sum + d, 0, dice)

(* A pawn that was sent back is worth nothing.                              *)
PointsOfEnemy(t, e) == IF t.enemy[e] = Targets[e].at THEN Targets[e].points ELSE 0
PointsOfAll(t, killed) == MapThenSumSet(LAMBDA e : PointsOfEnemy(t, e), killed)

NextTurn(t) == [t EXCEPT !.dice = <<>>, !.moves = @ - 1]
Start(t) == [t EXCEPT !.started = TRUE]

(* rollDice: the third six costs the turn; a dice nobody can move by is     *)
(* scored as it is.                                                         *)
RollDice(t, dice) ==
  LET u == Start([t EXCEPT !.dice = Append(@, dice)])
      three == Len(u.dice) = 3 /\ \A i \in 1..3 : u.dice[i] = Six
      v == IF three THEN NextTurn(u) ELSE u
  IN  IF dice = Six /\ ExtraRoll THEN v
      ELSE IF CanMove(v) # {} THEN [v EXCEPT !.action = "movePawn"]
      ELSE NextTurn([v EXCEPT !.bonus = @ + SumOf(v.dice)])

(* movePawn: pawns it meets go back and their points are won; so is another *)
(* turn, and when it comes home.                                            *)
MovePawn(t, p, i) ==
  LET next == t.place[p] + t.dice[i]
      killed == IF next \in Safe THEN {} ELSE {e \in DOMAIN Targets : t.enemy[e] = next}
      u == [t EXCEPT
              !.place[p] = next,
              !.enemy = [e \in DOMAIN Targets |-> IF e \in killed THEN Targets[e].base ELSE @[e]],
              !.bonus = @ + (IF next = Home THEN PerHome ELSE 0)
                          + PointsOfAll(t, killed),
              !.moves = @ + (IF next = Home \/ killed # {} THEN 1 ELSE 0),
              !.dice = RemoveAt(@, i)]
  IN  Start(IF CanMove(u) # {} THEN u
            ELSE NextTurn([u EXCEPT !.action = "rollDice", !.bonus = @ + SumOf(u.dice)]))

SkipTurn(t) == Start([NextTurn(t) EXCEPT !.action = "rollDice", !.lives = @ - 1])

FinalScore(t) ==
  TotalScore(t) + (IF HomePawnCount(t.place) = Cardinality(Pawns) THEN t.moves * PerMove ELSE 0)
-----------------------------------------------------------------------------
Unlocked == \A c \in calls : ~c.locked
Replace(done, new) == calls' = (calls \ done) \union new
Slip(condition, what) == slips' = slips \union (IF condition THEN {what} ELSE {})
Received == messages > 0 /\ messages' = messages - 1
Quiet == UNCHANGED <<pointer, results, final, messages>>

Ended(t) == final' = IF ShouldEndGame(t) THEN final \union {FinalScore(t)} ELSE final

Ending == \E c \in calls : c.do \in {"end", "delete", "delete pointer", "result"}

(* A handler has the lock, has read the table, and will store what it made  *)
(* of it; by then whoever ends the game may have deleted it.                *)
Begin(what, t) ==
  /\ Unlocked
  /\ Replace({}, {[do |-> what, copy |-> t, locked |-> TRUE]})
  /\ Slip(Ending, "played on")
  /\ UNCHANGED <<table, pointer, timer, results, final>>

Roll ==
  /\ table.exists /\ table.action = "rollDice"
  /\ Received
  /\ \E dice \in Dice : Begin("store roll", RollDice(table, dice))

(* A client moves a pawn it was offered; the code looks at the dice only.   *)
Move ==
  /\ table.exists /\ table.action = "movePawn"
  /\ Received
  /\ \E m \in CanMove(table) : Begin("store move", MovePawn(table, m[1], m[2]))

(* handleReadyToStart: the first turn.                                      *)
ReadyToStart ==
  /\ table.exists /\ ~table.started
  /\ Received
  /\ Begin("store start", Start(table))

SkipMessage ==
  /\ table.exists
  /\ Received
  /\ Begin("store skip", SkipTurn(table))

(* The timer looks at the counter, gives the lock back and takes it again.  *)
Timer ==
  /\ timer /\ Unlocked
  /\ timer' = FALSE
  /\ Replace({}, {[Call(IF table.started THEN "skipTurn" ELSE "startGame") EXCEPT !.copy = table]})
  /\ UNCHANGED table /\ Quiet /\ UNCHANGED slips

TimedOut(c) ==
  /\ c.do \in {"skipTurn", "startGame"}
  /\ IF ~table.exists \/ (c.do = "startGame" /\ table.started)
     THEN Replace({c}, {}) /\ UNCHANGED slips
     ELSE /\ Unlocked
          /\ Replace({c}, {[do |-> IF c.do = "startGame" THEN "store start" ELSE "store skip", locked |-> TRUE,
                            copy |-> IF c.do = "startGame" THEN Start(table) ELSE SkipTurn(table)]})
          /\ Slip(table # c.copy \/ Ending, "skipped late")
  /\ UNCHANGED <<table, timer>> /\ Quiet

(* The table is stored and a timer set for the next action; or the game     *)
(* ends: a skip that ends it stores nothing, so that a timer that was set   *)
(* before still counts, and gives its lock back.                            *)
StoreTable(c) ==
  LET over == c.do # "store start" /\ ShouldEndGame(c.copy)
  IN  /\ c.do \in {"store roll", "store move", "store start", "store skip"}
      /\ table' = IF over /\ c.do = "store skip" THEN table ELSE c.copy
      /\ timer' = IF over /\ c.do = "store skip" THEN timer ELSE ~over
      /\ Ended(c.copy)
      /\ Replace({c}, IF ~over THEN {}
                      ELSE {[Call("end") EXCEPT !.locked = c.do = "store move"]})
      /\ UNCHANGED <<pointer, results, messages, slips>>

(* leaveTable: the game ends at once.                                       *)
LeaveTable ==
  /\ table.exists
  /\ Received
  /\ Replace({}, {Call("end")})
  /\ final' = final \union {FinalScore(table)}
  /\ Slip(calls # {}, "played on")
  /\ UNCHANGED <<table, pointer, timer, results>>

(* handleEndGame: the table is read, ...                                    *)
EndGame(c) ==
  /\ c.do = "end"
  /\ IF table.exists
     THEN Replace({c}, {[c EXCEPT !.do = "delete", !.copy = table]})
     ELSE Replace({c}, {})
  /\ UNCHANGED <<table, timer, slips>> /\ Quiet

(* ... deleted, and then the pointer of the player, ...                     *)
DeleteTable(c) ==
  /\ c.do = "delete"
  /\ table' = NoTable
  /\ timer' = FALSE
  /\ Replace({c}, {[c EXCEPT !.do = "delete pointer"]})
  /\ UNCHANGED <<pointer, results, final, messages, slips>>

DeletePointer(c) ==
  /\ c.do = "delete pointer"
  /\ pointer' = FALSE
  /\ Replace({c}, {[c EXCEPT !.do = "result"]})
  /\ UNCHANGED <<table, timer, results, final, messages, slips>>

(* ... and its result stored.                                               *)
StoreResult(c) ==
  /\ c.do = "result"
  /\ results' = Append(results, FinalScore(c.copy))
  /\ Replace({c}, {})
  /\ UNCHANGED <<table, pointer, timer, final, messages, slips>>

(* The player enters again before the game is over: the pointer goes to the *)
(* new table, and the end of this one takes it away.                        *)
PlayAgain ==
  /\ pointer /\ table.exists /\ messages > 0
  /\ pointer' = FALSE
  /\ slips' = slips \union {"two games"}
  /\ UNCHANGED <<table, calls, timer, results, final, messages>>

(* What follows a slip is not explored.                                     *)
Next ==
  /\ slips = {}
  /\ \/ Roll \/ Move \/ ReadyToStart \/ SkipMessage \/ LeaveTable \/ PlayAgain \/ Timer
     \/ \E c \in calls :
          TimedOut(c) \/ StoreTable(c) \/ EndGame(c) \/ DeleteTable(c) \/ DeletePointer(c)
          \/ StoreResult(c)

Spec == Init /\ [][Next]_vars
-----------------------------------------------------------------------------
(* getReconnectionData, checkIfReconnected, forceReconnect, which fail when *)
(* the pointer leads nowhere.                                               *)
Reconnected == IF pointer THEN IF table.exists THEN "started" ELSE "none"
               ELSE IF results # <<>> THEN "completed" ELSE "none"

(* getLastEvent                                                             *)
LastEvent == IF table.exists THEN IF table.started THEN "next" ELSE "readyToStart"
             ELSE IF results # <<>> THEN "gameFinished" ELSE "none"

(* One result per game, the score the player had when the game was over,    *)
(* not a point more; and until then a client that comes back is sent back.  *)
ResultIsFinal ==
  slips = {} /\ calls = {} =>
    /\ table.exists = (results = <<>>)
    /\ \A i \in DOMAIN results : {results[i]} = final
    /\ table.exists => Reconnected = "started"
    /\ ~table.exists => ~pointer /\ LastEvent = "gameFinished"

(* The game goes on, and no longer than it may: whoever is asked to move a  *)
(* pawn has one that can, a timer will skip his turn, and a game that is    *)
(* over is being ended.                                                     *)
GameGoesOn ==
  slips = {} /\ table.exists =>
    /\ table.action = "movePawn" => CanMove(table) # {}
    /\ calls = {} => timer /\ ~ShouldEndGame(table)
=============================================================================
