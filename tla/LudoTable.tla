------------------------------ MODULE LudoTable ------------------------------
(***************************************************************************)
(* One table of Ludo, from the match to its removal: a normal game with a   *)
(* join fee, one of them with a time limit, or a game of a tournament       *)
(* round.  Messages and timers read and write the table under its lock and  *)
(* are one action each; the end of a game that a timer begins is not waited *)
(* for, so that its settlement and the removal of the table are actions of  *)
(* their own, with other handlers in between.                               *)
(*                                                                         *)
(* Where pawns stand is left out (LudoRules has it): whether one can move,  *)
(* kills, comes home or wins is a choice.  A timer is set for a turn number *)
(* and does nothing once that is reached; "ahead" counts the turns up to    *)
(* it, and the timer goes when it is 0.                                     *)
(***************************************************************************)
EXTENDS Integers, FiniteSets, Sequences, SequencesExt

CONSTANTS Tables,         \* the games to begin: [kind |-> , players |-> 2..4, moves |-> ]; moves is
                          \* a bound: messages from players
          Lives,          \* initialLives
          ExtraRoll,      \* isExtraRollAfterSixEnabled
          MoveDelay,      \* the delays, in ticks: 1.3 seconds (movePawnDelay)
          TurnTime,       \* 12 seconds
          StartTimeout,   \* 15 seconds; the time before the first turn of a round
          Duration,       \* the time limit of a game
          MaxDice         \* bound: dice rolled and not yet used

VARIABLES kind, players,  \* of the game
          table,          \* the table in Redis
          document,       \* the status of the game table in MongoDB
          active,         \* players with a pointer to this table (userActiveTable)
          jobs,           \* pending timers and calls
          fees, prizes,   \* history: players debited, and the winners of every settlement
          moves,          \* bound: messages to come
          slips           \* history: what the code lets through, after which we look away

vars == <<kind, players, table, document, active, jobs, fees, prizes, moves, slips>>

Kinds == {"quick", "furious4", "tournament"}
Seats == 1..4

NoTable == [exists |-> FALSE, started |-> FALSE, turn |-> 1, action |-> "rollDice", dice |-> <<>>,
            extra |-> 0, ready |-> {}, left |-> {}, lives |-> <<>>, got6 |-> {}, barred |-> {}]

Timer(what, ahead, delay) == [do |-> what, ahead |-> ahead, left |-> delay, seats |-> {}, gone |-> {}]
Call(what, seats) == [Timer(what, 0, 0) EXCEPT !.seats = seats]

TypeOK ==
  /\ kind \in Kinds /\ players \subseteq Seats
  /\ table.turn \in players
  /\ table.action \in {"rollDice", "movePawn"}
  /\ table.dice \in Seq(BOOLEAN) /\ Len(table.dice) <= MaxDice
  /\ table.extra \in 0..MaxDice
  /\ {table.ready, table.left, table.got6, table.barred, active} \subseteq SUBSET players
  /\ \A s \in DOMAIN table.lives : table.lives[s] \in -1..Lives
  /\ document \in {"none", "started", "gameDiscarded", "completed"}
  /\ \A j \in jobs : j.ahead \in 0..2 /\ j.left \in Nat /\ {j.seats, j.gone} \subseteq SUBSET players
  /\ fees \in {{}, players} /\ \A i \in DOMAIN prizes : prizes[i] \subseteq players
  /\ moves \in Nat
  /\ slips \subseteq {"not debited", "begun unready", "win lost", "ended twice", "half started"}

(* constructInitialTableInfo, constructInitialTableState                    *)
InitialTable(seats) ==
  [NoTable EXCEPT !.exists = TRUE, !.lives = [s \in seats |-> Lives]]

Init ==
  /\ \E t \in Tables : kind = t.kind /\ players = 1..t.players /\ moves = t.moves
  /\ table = NoTable
  /\ document = "none"
  /\ active = {}
  /\ jobs = {Call("startGame", {})}
  /\ fees = {} /\ prizes = <<>>
  /\ slips = {}
-----------------------------------------------------------------------------
Due(what) == {j \in jobs : j.do = what /\ j.left = 0}
Remaining(t) == players \ t.left

(* turnNo is counted up by n: timers whose turn is reached are gone.        *)
Counted(js, n) ==
  {[j EXCEPT !.ahead = @ - n] : j \in {k \in js : k.ahead > n}} \union {j \in js : j.ahead = 0}

Write(t, n, done, new) == table' = t /\ jobs' = Counted(jobs \ done, n) \union new
Look(done, new) == jobs' = (jobs \ done) \union new /\ UNCHANGED table
Game == <<kind, players>>
Money == <<fees, prizes>>
Quiet == UNCHANGED <<Game, document, active, Money, moves, slips>>
Drop(j) == Look({j}, {}) /\ Quiet

SkipTimer == Timer("skipTurn", 1, TurnTime)

(* playerOrder: clockwise round the board.                                  *)
Order == <<3, 4, 2, 1>>

(* Mutant: empty seats are not passed over.                                 *)
NextSeat(t) == Order[t.turn]

NextTurn(t) ==
  LET around == <<Order[t.turn], Order[Order[t.turn]], Order[Order[Order[t.turn]]], t.turn>>
  IN  around[Min({i \in 1..4 : around[i] \in Remaining(t)} \union {4})]

(* When nobody at the table may roll a six any more, everybody may again.   *)
Barred(t, s) ==
  IF Remaining(t) \subseteq t.barred \union {s} THEN [t EXCEPT !.barred = {}, !.got6 = {}]
  ELSE [t EXCEPT !.barred = @ \union {s}]

(* The turn passes; one who has rolled a six in it may not roll another.    *)
Passed(t) == [t EXCEPT !.turn = NextTurn(t), !.action = "rollDice", !.dice = <<>>, !.extra = 0]
TurnOver(t) == Passed(IF t.turn \in t.got6 THEN Barred(t, t.turn) ELSE t)

(* A win that waits for its timer is lost when the turns overtake it, or    *)
(* when the game ends for another player first.  A turn may be skipped or   *)
(* left before everybody is ready, and so the game begins without fees.     *)
Waiting(n) == {j \in jobs : j.do = "endGame" /\ j.ahead <= n}
Overtaken(n) ==
  slips' = slips \union (IF Waiting(n) # {} THEN {"win lost"} ELSE {})
                 \union (IF kind # "tournament" /\ ~table.started THEN {"begun unready"} ELSE {})

(* A turn is taken: timers are counted down and a new one is set.           *)
Turn(t, done) == Write(t, 1, done, {SkipTimer}) /\ Overtaken(1)

Removed(done) == table' = NoTable /\ jobs' = {j \in jobs \ done : j.ahead = 0}

(* discardGame                                                              *)
DiscardGame(done) ==
  /\ Removed(done)
  /\ active' = {}
  /\ document' = "gameDiscarded"
  /\ UNCHANGED <<Game, Money>>

(* What endGame and endRound record: the document, and the prize, or the    *)
(* report to the tournament.                                                *)
Settle(winners) ==
  /\ prizes' = Append(prizes, winners)
  /\ document' = "completed"
  /\ slips' = IF prizes # <<>> THEN slips \union {"ended twice"}
              ELSE IF \E j \in Waiting(2) : j.seats # winners THEN slips \union {"win lost"}
              ELSE slips

(* Mutant: a game that has not begun is paid out too.                       *)
EndAnyGame(t, winners, leavers, done) ==
  /\ Settle(winners)
  /\ Removed(done)
  /\ active' = active \ (Remaining(t) \union leavers)
  /\ UNCHANGED <<Game, fees>>

(* endGame where it is waited for, under the lock: a game that has not      *)
(* begun is discarded.  Whoever ends it by leaving has lost his pointer.    *)
EndGame(t, winners, leavers, done) ==
  IF kind # "tournament" /\ ~t.started THEN DiscardGame(done) /\ UNCHANGED slips
  ELSE /\ Settle(winners)
       /\ Removed(done)
       /\ active' = active \ (Remaining(t) \union leavers)
       /\ UNCHANGED <<Game, fees>>
-----------------------------------------------------------------------------
(* startGame, and startRoundGame for a tournament; when it breaks off       *)
(* before the table is stored, pointers and document stay behind.           *)
StartGame(j) ==
  LET pointed == IF kind = "tournament" THEN {} ELSE players
  IN  /\ j \in Due("startGame")
      /\ \/ /\ table' = InitialTable(players)
            /\ document' = "started"
            /\ active' = pointed
            /\ jobs' = {IF kind = "tournament" THEN Timer("rollDice", 1, StartTimeout)
                         ELSE Timer("discardGame", 1, StartTimeout)}
                        \union {Timer("scheduledEnd", 0, Duration) : k \in {kind} \ {"quick"}}
            /\ UNCHANGED slips
         \/ /\ document' \in {"none", "started", "gameDiscarded"}
            /\ active' = IF document' = "gameDiscarded" THEN {} ELSE pointed
            /\ slips' = IF document' = "gameDiscarded" THEN slips ELSE slips \union {"half started"}
            /\ Look({j}, {})
      /\ UNCHANGED <<Game, Money, moves>>

(* Nobody has begun: the join fee has not been taken.  The table goes under *)
(* the lock; pointers and document, which nobody waits for, come later.     *)
DiscardTimer(j) ==
  /\ j \in Due("discardGame")
  /\ table' = NoTable
  /\ jobs' = {k \in jobs \ {j} : k.ahead = 0} \union {Call("discardPointers", {})}
  /\ Quiet

DiscardPointers(j) ==
  /\ j \in Due("discardPointers")
  /\ active' = {}
  /\ Look({j}, {Call("discardDocument", {})})
  /\ UNCHANGED <<Game, document, Money, moves, slips>>

DiscardDocument(j) ==
  /\ j \in Due("discardDocument")
  /\ document' = "gameDiscarded"
  /\ Look({j}, {})
  /\ UNCHANGED <<Game, active, Money, moves, slips>>

(* The first turn of a tournament game.                                     *)
RollTimer(j) ==
  /\ j \in Due("rollDice")
  /\ Look({j}, {SkipTimer})
  /\ Quiet

(* skipTurn: a life is lost, and with the last one the place at the table.  *)
(* leaveTable then counts the turn, and skipTurn counts it again.           *)
SkipTurn(done) ==
  LET s == table.turn
      t == [table EXCEPT !.lives[s] = @ - 1, !.started = TRUE]
      gone == [t EXCEPT !.left = @ \union {s}]
  IN  IF t.lives[s] >= 0
      THEN Turn(TurnOver(t), done) /\ UNCHANGED <<Game, document, active, Money>>
      ELSE IF Cardinality(Remaining(gone)) = 1 THEN EndGame([gone EXCEPT !.started = table.started], Remaining(gone), {s}, done)
      ELSE /\ Write(TurnOver(gone), 2, done, {SkipTimer})
           /\ Overtaken(2)
           /\ active' = active \ {s}
           /\ UNCHANGED <<Game, document, Money>>

SkipTimerFires(j) == j \in Due("skipTurn") /\ SkipTurn({j}) /\ UNCHANGED moves

(* The lock is given back while endGame is still on its way.                *)
EndTimer(j) ==
  /\ j \in Due("endGame")
  /\ Look({j}, {[Call("settle", j.seats) EXCEPT !.gone = table.left]})
  /\ Quiet

(* endRound asks whether the table is still there, endGame does not.        *)
SettleCall(j) ==
  /\ j \in Due("settle")
  /\ IF kind = "tournament" /\ ~table.exists THEN Drop(j)
     ELSE /\ Settle(j.seats)
          /\ Look({j}, {[Call("removeTable", {}) EXCEPT !.gone = j.gone]})
          /\ UNCHANGED <<Game, active, fees, moves>>

RemoveTable(j) ==
  /\ j \in Due("removeTable")
  /\ Removed({j})
  /\ active' = active \ (players \ j.gone)
  /\ UNCHANGED <<Game, document, Money, moves, slips>>

(* findWinners: nobody when nobody has moved, unless one is left.           *)
Winners(t) ==
  {w \in SUBSET Remaining(t) : w = {} => Cardinality(Remaining(t)) # 1}

(* The time limit of a game: it ends under the lock.                        *)
ScheduledEnd(j) ==
  /\ j \in Due("scheduledEnd")
  /\ kind = "furious4"
  /\ IF ~table.exists THEN Drop(j)
     ELSE \E winners \in Winners(table) : EndGame(table, winners, {}, {j}) /\ UNCHANGED moves

(* The game of a round has a time limit of its own when a seat was empty;   *)
(* no lock is taken for it.                                                 *)
EndSomeRoundGamesEarlier(j) ==
  /\ j \in Due("scheduledEnd")
  /\ kind = "tournament"
  /\ IF ~table.exists THEN Drop(j)
     ELSE \E winners \in Winners(table) :
            Look({j}, {[Call("settle", winners) EXCEPT !.gone = table.left]}) /\ Quiet

(* endRound: the tables still there are removed first, and the documents    *)
(* written when the tournament has been told.                               *)
EndRound(j) ==
  /\ j \in Due("scheduledEnd")
  /\ kind = "tournament"
  /\ table.exists /\ document = "started"
  /\ \E winners \in Winners(table) :
       table' = NoTable /\ jobs' = {k \in jobs \ {j} : k.ahead = 0} \union {Call("roundEnded", winners)}
  /\ active' = active \ Remaining(table)
  /\ UNCHANGED <<Game, document, Money, moves, slips>>

RoundEnded(j) ==
  /\ j \in Due("roundEnded")
  /\ Settle(j.seats)
  /\ Look({j}, {})
  /\ UNCHANGED <<Game, active, fees, moves>>
-----------------------------------------------------------------------------
Received == moves > 0 /\ moves' = moves - 1

(* readyToStart: with the last of the players the game begins, and then the *)
(* fees are taken.  A player who has left may still be ready.               *)
ReadyToStart(s) ==
  LET t == [table EXCEPT !.ready = @ \union {s}]
      pointer == Call("pointer", {s})
  IN  /\ s \in players /\ document # "none"
      /\ Received
      /\ IF ~table.exists \/ kind = "tournament" \/ table.started
         THEN Look({}, {pointer}) /\ UNCHANGED <<fees, slips>>
         ELSE IF t.ready # players
         THEN Write(t, 0, {}, {pointer}) /\ UNCHANGED <<fees, slips>>
         ELSE \/ /\ Write([t EXCEPT !.started = TRUE], 1, {}, {pointer, SkipTimer})
                 /\ fees' = players
                 /\ UNCHANGED slips
              \/ /\ Write([t EXCEPT !.started = TRUE], 1, {}, {SkipTimer})
                 /\ slips' = slips \union {"not debited"}
                 /\ UNCHANGED fees
      /\ UNCHANGED <<Game, document, active, prizes>>

(* onReadyToStart points to the table after the locks are released.         *)
Pointer(j) ==
  /\ j \in Due("pointer")
  /\ active' = active \union j.seats
  /\ Look({j}, {})
  /\ UNCHANGED <<Game, document, Money, moves, slips>>

OnTurn(s, action) ==
  /\ table.exists /\ s = table.turn
  /\ table.action = action

(* rollDice: a third six in a row ends the turn, and so does a dice no pawn *)
(* can move by.                                                             *)
Sixes(dice) == Len(dice) > 2 /\ dice[Len(dice) - 1] /\ dice[Len(dice) - 2]
Rolled(t, six, movable) ==
  LET u == [t EXCEPT !.dice = Append(@, six), !.started = TRUE]
      got == [u EXCEPT !.got6 = @ \union {t.turn}]
  IN  IF six /\ ExtraRoll THEN IF Sixes(u.dice) THEN Passed(Barred(got, t.turn)) ELSE got
      ELSE IF movable THEN [u EXCEPT !.action = "movePawn"]
      ELSE Passed(IF t.turn \notin t.got6 THEN u
                  ELSE IF Remaining(t) \subseteq t.barred \union {t.turn}
                  THEN [u EXCEPT !.barred = {}, !.got6 = @ \ {t.turn}]
                  ELSE [u EXCEPT !.barred = @ \union {t.turn}])

RollDice(s) ==
  /\ OnTurn(s, "rollDice")
  /\ kind = "tournament" \/ table.started
  /\ Len(table.dice) < MaxDice
  /\ Received
  /\ \E six \in BOOLEAN, movable \in BOOLEAN :
       /\ six => s \notin table.barred
       /\ Turn(Rolled(table, six, movable), {})
  /\ UNCHANGED <<Game, document, active, Money>>

(* movePawn: a kill or a pawn at home gives another roll.  What the last    *)
(* pawn at home would change is not written, and the game ends later.       *)
Moved(t, i, extra, movable) ==
  LET u == [t EXCEPT !.dice = RemoveAt(@, i), !.extra = @ + extra]
  IN  IF movable THEN u
      ELSE IF u.extra > 0 THEN [u EXCEPT !.action = "rollDice", !.extra = @ - 1]
      ELSE TurnOver(u)

MovePawn(s) ==
  /\ OnTurn(s, "movePawn")
  /\ Received
  /\ \E i \in DOMAIN table.dice :
       \/ \E extra \in {0, 1}, movable \in BOOLEAN :
            /\ movable => Len(table.dice) > 1
            /\ table.extra + extra <= MaxDice
            /\ Turn(Moved(table, i, extra, movable), {})
       \/ Look({}, {[Timer("endGame", 2, MoveDelay) EXCEPT !.seats = {s}]}) /\ UNCHANGED slips
  /\ UNCHANGED <<Game, document, active, Money>>

(* The message: the player on turn gives up his turn.                       *)
SkipTurnMessage(s) ==
  /\ table.exists /\ s = table.turn
  /\ SkipTurn({})
  /\ Received

(* leaveTable: the turn passes when it is his, even before the game begins. *)
LeaveTable(s) ==
  LET t == [table EXCEPT !.left = @ \union {s}]
  IN  /\ table.exists
      /\ s \in Remaining(table)
      /\ Received
      /\ IF Cardinality(Remaining(t)) = 1 THEN EndGame(t, Remaining(t), {s}, {})
         ELSE /\ IF s = table.turn
                 THEN /\ Write([Passed(t) EXCEPT !.started = TRUE], 1, {}, {SkipTimer})
                      /\ Overtaken(1)
                 ELSE Write(t, 0, {}, {}) /\ UNCHANGED slips
              /\ active' = active \ {s}
              /\ UNCHANGED <<Game, document, Money>>

(* Time passes when every call and timer that is due has run.               *)
Tick ==
  /\ jobs # {}
  /\ \A j \in jobs : j.left > 0
  /\ jobs' = {[j EXCEPT !.left = IF Cardinality(jobs) = 1 THEN 0 ELSE @ - 1] : j \in jobs}
  /\ UNCHANGED table /\ Quiet

RunJob(j) ==
  \/ StartGame(j) \/ DiscardTimer(j) \/ DiscardPointers(j) \/ DiscardDocument(j) \/ RollTimer(j) \/ SkipTimerFires(j) \/ EndTimer(j)
  \/ SettleCall(j) \/ RemoveTable(j) \/ ScheduledEnd(j)
  \/ EndSomeRoundGamesEarlier(j) \/ EndRound(j) \/ RoundEnded(j) \/ Pointer(j)

Act(s) ==
  \/ ReadyToStart(s) \/ RollDice(s) \/ MovePawn(s) \/ SkipTurnMessage(s) \/ LeaveTable(s)

(* What follows a slip is not explored.                                     *)
Followed(x) == IF slips = {} THEN x ELSE {}

Next ==
  \/ \E j \in Followed(jobs) : RunJob(j)
  \/ \E s \in Followed(players) : Act(s)
  \/ Tick

Spec == Init /\ [][Next]_vars
-----------------------------------------------------------------------------
(* connected: what a client that comes back is told.                        *)
Connected(s) ==
  IF s \in active THEN IF ~table.exists THEN "waiting"
                       ELSE IF s \in table.left THEN "completed" ELSE "started"
  ELSE IF document = "started" /\ table.exists /\ s \notin table.left THEN "started" ELSE "waiting"

(* forceReconnect, for the table the client names.                          *)
ForceReconnect(s) ==
  IF document \in {"gameDiscarded", "completed"} THEN document
  ELSE IF ~table.exists THEN "waiting" ELSE IF s \in table.left THEN "completed" ELSE "started"

CheckIfJoined(s) == kind # "tournament" /\ document = "started" /\ table.exists /\ s \notin table.left

(* getLastEvent: without a table it is the document that tells the end.     *)
LastEvent ==
  IF table.exists THEN IF kind # "tournament" /\ ~table.started THEN "none" ELSE "next"
  ELSE IF document = "completed" THEN IF kind = "tournament" THEN "roundFinished" ELSE "gameFinished"
  ELSE "discardGame"

(* Fees and prizes: a prize is paid once and for a game whose fees were     *)
(* taken; fees that were taken are paid out before the table goes; a game   *)
(* that was discarded took none.                                            *)
PrizeIsBacked ==
  slips = {} =>
    /\ Len(prizes) <= 1
    /\ (document = "completed") <=> (prizes # <<>>)
    /\ kind # "tournament" /\ prizes # <<>> => fees = players
    /\ fees # {} /\ ~table.exists => prizes # <<>>

(* The turn is with somebody who is still there and has lives left, and     *)
(* whoever may not roll a six is let off when everybody has had his.        *)
TurnIsTaken ==
  slips = {} /\ table.exists =>
    /\ table.turn \in Remaining(table)
    /\ \A s \in Remaining(table) : table.lives[s] >= 0
    /\ table.barred \subseteq table.got6

(* The game never stands still: while there is a table a timer or a call is *)
(* pending that carries it on.                                              *)
GameGoesOn ==
  slips = {} /\ table.exists => \E j \in jobs : j.ahead > 0 \/ j.do \in {"settle", "removeTable"}

(* Whoever asks is told the truth: a player at a table in play is sent back *)
(* to it by every way of coming back, and the event a client has missed is  *)
(* the end of the game only when the game has ended.                        *)
ClientsAreToldTheTruth ==
  slips = {} =>
    /\ \A s \in Remaining(table) : table.exists /\ document = "started" =>
         /\ Connected(s) = "started" /\ ForceReconnect(s) = "started"
         /\ kind # "tournament" => CheckIfJoined(s)
    /\ LastEvent \in {"gameFinished", "roundFinished"} => prizes # <<>>
    /\ LastEvent = "discardGame" /\ kind # "tournament" => prizes = <<>>
=============================================================================
