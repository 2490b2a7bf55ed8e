----------------------------- MODULE SnakesTable -----------------------------
(***************************************************************************)
(* One table of Snakes and Ladders, from the match to its removal.  Rolls,  *)
(* moves and leaving hold the lock of the table from reading to storing it; *)
(* skipping a turn, the end by the time limit, the start and the clearing   *)
(* of a stuck table do not.  Every handler reads the whole table, changes   *)
(* its copy and stores it later.                                            *)
(*                                                                         *)
(* Where pawns stand is left out (SnakesRules has it): whether one can      *)
(* move, kills or is the last to come home, and who leads, is a choice.  No *)
(* clock is kept: a pending timer fires at any moment.                      *)
(***************************************************************************)
EXTENDS Integers, FiniteSets

CONSTANTS Games,        \* the games to begin: [players |-> 2..4, moves |-> ]; moves is a bound:
                        \* messages
          Lives,        \* INITIAL_LIVES
          MaxClears,    \* bound: tables cleared by staff
          MaxCalls      \* bound: handlers at work at once

VARIABLES players,      \* of the game
          table,        \* the table in Redis
          active,       \* players with a pointer to this table (userTableCache)
          calls,        \* handlers at work
          timers,       \* pending timers that still count: one with a counter that has been reached
                        \* does nothing
          fees, paid,   \* history: players debited, and the share of the prize each winner got
          refunds,      \* history: times everybody got the fee back
          results,      \* history: the rows each player has in the game history
          moves, clears,\* bounds: what is still to come
          slips         \* history: what the code lets through, after which we look away

vars == <<players, table, active, calls, timers, fees, paid, refunds, results, moves, clears, slips>>

Seats == 1..4
Slips == {"notDebited", "paidBeforeDebit", "overwritten", "overtaken", "endedTwice",
          "leftTwice", "clearedInPlay"}

NoTable == [exists |-> FALSE, left |-> {}, turn |-> 1, action |-> "rollDice", dice |-> FALSE,
            lives |-> <<>>, home |-> FALSE]

(* A handler: what it does, for whom, with which copy of the table; stale   *)
(* when the table has been written since the copy was read.                 *)
Call(what, s) == [do |-> what, seat |-> s, copy |-> NoTable, locked |-> FALSE, stale |-> FALSE]

TypeOK ==
  /\ players \subseteq Seats
  /\ table.turn \in players
  /\ table.action \in {"rollDice", "movePawn"} /\ {table.dice, table.home, table.exists} \subseteq BOOLEAN
  /\ timers \subseteq {"skipTurn", "endGame"}
  /\ \A s \in DOMAIN table.lives : table.lives[s] \in 0..Lives
  /\ {table.left, active, fees, DOMAIN paid} \subseteq SUBSET players
  /\ Cardinality({c \in calls : c.locked}) <= 1
  /\ \A s \in DOMAIN paid : paid[s] \in Seats
  /\ DOMAIN results = players
  /\ slips \subseteq Slips

Init ==
  /\ \E g \in Games : players = 1..g.players /\ moves = g.moves
  /\ table = NoTable
  /\ active = {}
  /\ calls = {Call("startGame", 1)}
  /\ timers = {}
  /\ fees = {} /\ paid = <<>> /\ refunds = 0
  /\ results = [s \in players |-> {}]
  /\ clears = MaxClears
  /\ slips = {}
-----------------------------------------------------------------------------
Remaining(t) == players \ t.left
When(condition, x) == IF condition THEN {x} ELSE {}
Slip(what) == slips' = slips \union {what}

(* storeGameTable: whoever has read the table before works on an old copy.  *)
Store(t, done, new) ==
  /\ table' = t
  /\ calls' = {[c EXCEPT !.stale = @ \/ c.copy.exists] : c \in calls \ done} \union new
Work(done, new) == calls' = (calls \ done) \union new /\ UNCHANGED table
StoreSlip(c) == slips' = IF c.stale THEN slips \union {"overwritten"} ELSE slips

Money == <<fees, paid, refunds>>
Bounds == <<players, moves, clears>>
Unlocked == \A c \in calls : ~c.locked

(* The counter is counted up: the timer of the turn no longer counts, and   *)
(* one for the next turn is set unless the game ends.                       *)
Counted(going) == timers' = (timers \ {"skipTurn"}) \union When(going, "skipTurn")

(* setNextTurn                                                              *)
NextTurn(t) ==
  LET n == Cardinality(players)
      nth(i) == 1 + ((t.turn - 1 + i) % n)
      first == CHOOSE i \in 1..n : nth(i) \in Remaining(t) /\ \A j \in 1..(i - 1) : nth(j) \in t.left
  IN  nth(first)
Passed(t) == [t EXCEPT !.turn = NextTurn(t), !.action = "rollDice"]

(* A handler takes the lock of the table and reads it; what it will store   *)
(* is copy.                                                                 *)
Begin(c, copy) ==
  /\ Unlocked
  /\ Work({}, {[c EXCEPT !.copy = copy, !.locked = TRUE]})
  /\ UNCHANGED <<players, clears, active, timers, Money, results, slips>>
-----------------------------------------------------------------------------
(* startGame: the table is there, and a client that comes back finds it,    *)
(* before the fees are taken.                                               *)
StartGame(c) ==
  /\ c.do = "startGame"
  /\ Store([NoTable EXCEPT !.exists = TRUE, !.lives = [s \in players |-> Lives]],
           {c}, {Call("debitJoinFee", 1)})
  /\ active' = players
  /\ UNCHANGED <<Bounds, timers, Money, results, slips>>

(* debitJoinFee; when one cannot pay, the table stays as it is.             *)
DebitJoinFee(c) ==
  /\ c.do = "debitJoinFee"
  /\ Work({c}, {})
  /\ \/ /\ fees' = players
        /\ timers' = {"endGame", "skipTurn"}
        /\ UNCHANGED slips
     \/ Slip("notDebited") /\ UNCHANGED <<fees, timers>>
  /\ UNCHANGED <<Bounds, active, paid, refunds, results>>

(* handleTimeout: the lock is only held to read the counter.                *)
TurnTimer(t) ==
  /\ t = "skipTurn"
  /\ Unlocked
  /\ timers' = timers \ {t}
  /\ Work({}, When(table.exists, Call("skipTurn", table.turn)))
  /\ UNCHANGED <<Bounds, active, Money, results, slips>>

(* The job of the time limit.                                               *)
EndTimer(t) ==
  /\ t = "endGame"
  /\ timers' = timers \ {t}
  /\ Work({}, {Call("endGame", 1)})
  /\ UNCHANGED <<Bounds, active, Money, results, slips>>

Done(c) == Work({c}, {}) /\ UNCHANGED <<Bounds, active, timers, Money, results, slips>>

(* handleSkipTurn, without the lock: the table is read and a life taken,    *)
(* unless the dice, or both pawns at home, leave nothing to move; ...       *)
Skip(s, done) ==
  /\ IF table.lives[s] = 0
     THEN Work(done, {[Call("skipTurn_leave", s) EXCEPT !.copy = table]})
     ELSE \E cost \in {0, 1} :
            /\ cost = 0 => table.dice \/ table.home
            /\ Work(done, {[Call("skipTurn_store", s) EXCEPT !.copy =
                 [table EXCEPT !.lives[s] = @ - cost, !.action = "rollDice"]]})
  /\ UNCHANGED <<players, clears, active, timers, Money, results, slips>>

SkipRead(c) ==
  /\ c.do = "skipTurn"
  /\ IF ~table.exists \/ table.turn # c.seat THEN Done(c) ELSE Skip(c.seat, {c}) /\ UNCHANGED moves

SkipMessage(s) == table.exists /\ table.turn = s /\ Skip(s, {})

(* ... it is stored, ...                                                    *)
SkipStore(c) ==
  /\ c.do \in {"skipTurn_store", "skipTurn_leave"}
  /\ Store(c.copy, {c},
       {[c EXCEPT !.do = IF @ = "skipTurn_store" THEN "skipTurn_read" ELSE "skipTurn_leaving",
                  !.stale = FALSE]})
  /\ IF c.do = "skipTurn_store" THEN Counted(FALSE) ELSE UNCHANGED timers
  /\ StoreSlip(c)
  /\ UNCHANGED <<Bounds, active, Money, results>>

(* ... read again, maybe as somebody else has stored it meanwhile; who has  *)
(* lost the last life, or whoever is on turn by now, is made to leave; ...  *)
SkipReadAgain(c) ==
  /\ c.do \in {"skipTurn_read", "skipTurn_leaving"}
  /\ Work({c}, IF ~table.exists THEN {}
               ELSE IF c.do = "skipTurn_leaving" THEN {Call("leaveTable", table.turn)}
               ELSE {[c EXCEPT !.do = "skipTurn_pass", !.copy = table, !.stale = FALSE]})
  /\ slips' = slips \union When(c.stale, "overtaken")
  /\ UNCHANGED <<Bounds, active, timers, Money, results>>

(* ... and stored again with the turn passed on, and nothing else reset.    *)
SkipPass(c) ==
  /\ c.do = "skipTurn_pass"
  /\ LET t == [c.copy EXCEPT !.turn = NextTurn(c.copy), !.dice = FALSE]
     IN  /\ Store(t, {c}, When(t.home, Call("endGame", 1)))
         /\ timers' = timers \union When(~t.home, "skipTurn")
  /\ StoreSlip(c)
  /\ UNCHANGED <<Bounds, active, Money, results>>
-----------------------------------------------------------------------------
(* handleRollDice: the turn passes when no pawn can move; the dice stays.   *)
RollDice(s) ==
  /\ table.exists /\ s = table.turn /\ table.action = "rollDice"
  /\ \E movable \in BOOLEAN :
       LET t == [table EXCEPT !.dice = TRUE]
       IN  Begin(Call("store", 1), IF movable THEN [t EXCEPT !.action = "movePawn"] ELSE Passed(t))

(* handleMovePawn: a kill or a pawn at home gives another roll, and the     *)
(* second pawn at home ends the game.  Nobody asks who sends the message.   *)
MovePawn(s) ==
  /\ table.exists /\ table.action = "movePawn"
  /\ \E again \in BOOLEAN, home \in BOOLEAN :
       LET t == [table EXCEPT !.action = "rollDice", !.dice = FALSE, !.home = @ \/ home]
       IN  /\ home => again
           /\ Begin(Call("store", 1), IF again THEN t ELSE Passed(t))

(* handleLeaveTable: nobody asks whether he has left before.                *)
Leaving(c) == Begin(c, [table EXCEPT !.left = @ \union {c.seat}])
LeaveTable(s) ==
  /\ table.exists
  /\ Leaving(Call("leaveTable", s))

(* A turn that was skipped with the last life.                              *)
LeaveAfterSkip(c) ==
  /\ c.do = "leaveTable" /\ ~c.locked
  /\ IF ~table.exists THEN Done(c)
     ELSE /\ Unlocked
          /\ Work({c}, {[c EXCEPT !.copy = [table EXCEPT !.left = @ \union {c.seat}], !.locked = TRUE]})
          /\ UNCHANGED <<Bounds, active, timers, Money, results, slips>>

(* What a roll or a move stores, under the lock.                            *)
StoreTurn(c) ==
  /\ c.do = "store"
  /\ Store(c.copy, {c}, When(c.copy.home, [Call("endGame", 1) EXCEPT !.locked = TRUE]))
  /\ Counted(~c.copy.home)
  /\ StoreSlip(c)
  /\ UNCHANGED <<Bounds, active, Money, results>>

(* Mutant: the pointer stays.                                               *)
Unpointed(seats) == UNCHANGED active

(* deleteUserActiveTable                                                    *)
NoLongerActive(seats) == active' = active \ seats

(* createSLGameHistory, for who leaves.                                     *)
Recorded(s) == results' = [results EXCEPT ![s] = @ \union {"lost"}]

(* What leaving stores: the last to stay has won, ...                       *)
StoreLeft(c) ==
  LET turn == c.copy.turn = c.seat
      last == Cardinality(Remaining(c.copy)) = 1
      ending == [Call("endGame_left", c.seat) EXCEPT !.locked = TRUE]
  IN  /\ c.do = "leaveTable" /\ c.locked
      /\ NoLongerActive({c.seat})
      /\ Store(c.copy, {c}, IF last THEN {ending}
                            ELSE When(turn, [c EXCEPT !.do = "leaveTable_pass", !.stale = FALSE]))
      /\ IF last \/ turn THEN UNCHANGED results ELSE Recorded(c.seat)
      /\ slips' = slips \union When(c.stale, "overwritten")
                        \union When(results[c.seat] # {}, "leftTwice")
      /\ UNCHANGED <<Bounds, timers, Money>>

(* ... and a turn passes on.                                                *)
StorePassed(c) ==
  /\ c.do = "leaveTable_pass"
  /\ Store(Passed(c.copy), {c}, {})
  /\ Counted(TRUE)
  /\ Recorded(c.seat)
  /\ StoreSlip(c)
  /\ UNCHANGED <<Bounds, active, Money>>
-----------------------------------------------------------------------------
(* isWinner: the players still there with the most points.                  *)
Winners(t) == (SUBSET Remaining(t)) \ {{}}

(* handleEndGame: "completed" is stored, but a table that is read again     *)
(* does not know it; the credits are sent and not waited for.  The wallet   *)
(* takes no second one for a table.  Without a table it breaks off, and     *)
(* leaving with it, before the result is written.                           *)
EndRead(c) ==
  /\ c.do \in {"endGame", "endGame_left"} /\ ~c.copy.exists
  /\ IF ~table.exists
     THEN /\ Work({c}, {})
          /\ slips' = slips \union When(c.do = "endGame_left", "endedTwice")
          /\ UNCHANGED <<Bounds, active, timers, Money, results>>
     ELSE /\ \E winners \in Winners(table) :
               /\ Store(table, {c}, {[c EXCEPT !.copy = table]})
               /\ paid' = [s \in DOMAIN paid \union winners |->
                             IF s \in DOMAIN paid THEN paid[s] ELSE Cardinality(winners)]
               /\ results' = [s \in players |->
                    IF s \in table.left THEN results[s]
                    ELSE results[s] \union {IF s \in winners THEN "won" ELSE "lost"}]
          /\ slips' = slips \union When(paid # <<>>, "endedTwice")
                            \union When(fees = {}, "paidBeforeDebit")
                            \union When(refunds > 0, "clearedInPlay")
          /\ UNCHANGED <<Bounds, active, timers, fees, refunds>>

(* deleteGameTable, and what is left of leaving.                            *)
EndDelete(c) ==
  /\ c.do \in {"endGame", "endGame_left"} /\ c.copy.exists
  /\ Store(NoTable, {c}, {})
  /\ NoLongerActive(Remaining(c.copy))
  /\ IF c.do = "endGame_left" THEN Recorded(c.seat) ELSE UNCHANGED results
  /\ StoreSlip(c)
  /\ UNCHANGED <<Bounds, timers, Money>>

(* clearTable: staff refund everybody ...                                   *)
ClearTable ==
  /\ table.exists /\ clears > 0
  /\ clears' = clears - 1
  /\ refunds' = refunds + 1
  /\ Work({}, {[Call("clearTable", 1) EXCEPT !.copy = table]})
  /\ slips' = slips \union When(calls # {} \/ fees = {} \/ paid # <<>>, "clearedInPlay")
  /\ UNCHANGED <<players, moves, active, timers, fees, paid, results>>

(* ... and delete the table.                                                *)
ClearDelete(c) ==
  /\ c.do = "clearTable"
  /\ Store(NoTable, {c}, {})
  /\ NoLongerActive(players)
  /\ slips' = slips \union When(calls # {c} \/ c.stale, "clearedInPlay")
  /\ UNCHANGED <<Bounds, timers, Money, results>>

Message(s) ==
  /\ moves > 0 /\ moves' = moves - 1
  /\ RollDice(s) \/ MovePawn(s) \/ LeaveTable(s) \/ SkipMessage(s)

Run(c) ==
  \/ StartGame(c) \/ DebitJoinFee(c) \/ SkipRead(c) \/ SkipStore(c) \/ SkipReadAgain(c)
  \/ SkipPass(c) \/ LeaveAfterSkip(c) \/ StoreTurn(c) \/ StoreLeft(c) \/ StorePassed(c)
  \/ EndRead(c) \/ EndDelete(c) \/ ClearDelete(c)

(* What follows a slip is not explored.                                     *)
Followed(x) == IF slips = {} THEN x ELSE {}
MayBegin(x) == IF Cardinality(calls) < MaxCalls THEN Followed(x) ELSE {}

Next ==
  \/ \E c \in Followed(calls) : Run(c)
  \/ \E t \in MayBegin(timers) : TurnTimer(t) \/ EndTimer(t)
  \/ \E s \in MayBegin(players) : Message(s)
  \/ slips = {} /\ ClearTable

Spec == Init /\ [][Next]_vars
-----------------------------------------------------------------------------
(* The prize: it is paid only for a game whose fees were taken, its shares  *)
(* add up to it, whoever got one is not down as a loser, and nobody gets    *)
(* his fee back besides.                                                    *)
PrizeIsShared ==
  slips = {} =>
    /\ paid # <<>> => fees = players /\ refunds = 0
    /\ \A s \in DOMAIN paid : paid[s] = Cardinality(DOMAIN paid)
    /\ \A s \in DOMAIN paid : results[s] \subseteq {"won"}

(* Everybody who paid has one result when the table is gone, or his fee.    *)
EverybodyHasAResult ==
  slips = {} /\ fees # {} /\ ~table.exists /\ calls = {} =>
    IF refunds > 0 THEN paid = <<>> ELSE \A s \in players : Cardinality(results[s]) = 1

(* The game goes on: the turn is with somebody still there, and a timer     *)
(* that still counts or a handler at work will pass it on; a table that     *)
(* nothing else ends ends with the time limit.                              *)
GameGoesOn ==
  slips = {} /\ table.exists =>
    /\ calls # {} \/ table.turn \in Remaining(table)
    /\ calls # {} \/ "skipTurn" \in timers
    /\ calls # {} \/ "endGame" \in timers

(* Who has left a table is not sent back to it, and who has not is.         *)
PointersAreTrue ==
  slips = {} /\ calls = {} => active = (IF table.exists THEN Remaining(table) ELSE {})
=============================================================================
