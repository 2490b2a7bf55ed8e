------------------------------- MODULE EplTable -------------------------------
(***************************************************************************)
(* One game of the Empire Premier League: two players, one bats and one     *)
(* bowls, every turn both name a number of runs, and equal numbers mean     *)
(* out.  Only leaving holds the lock of the table, and timers wait for it;  *)
(* everybody else reads the table and stores what it makes of its copy, one *)
(* await after the other, and is a job here with the copy it has read; who  *)
(* only reads does it in one step.  The turns are a chain of such jobs that *)
(* each set the next.                                                       *)
(***************************************************************************)
EXTENDS Integers, FiniteSets, Sequences

CONSTANTS Turns,        \* TOTAL_NUMBER_OF_TURNS
          Runs,         \* what can be named; who says nothing has the 0 of the last turn's end
          MaxScore,     \* bound on the scores
          Second, TurnTime, InningsTime,  \* delays in ticks: 1, 5 and 3 + 1 seconds
          MaxMoves,     \* bound: messages
          AtOnce        \* bound: messages under way at once

VARIABLES table,        \* the table in Redis
          jobs,         \* what is under way or waits for its time
          fees,         \* history: players debited
          ended,        \* history: games ended, as told to the players: the winner, or 0
          moves,        \* bound: messages to come
          slips         \* history: what the code lets through, after which we look away

vars == <<table, jobs, fees, ended, moves, slips>>

Players == 1..2

NoTable == [exists |-> FALSE, completed |-> FALSE, innings |-> 1, turn |-> 0, out |-> FALSE,
            acted |-> FALSE, batsman |-> 1, score |-> <<0, 0>>, runs |-> <<0, 0>>, target |-> 0,
            left |-> {}]

(* What is to be done next, in how many ticks, for whom, and the table as   *)
(* it was read for it, NoTable before.                                      *)
Job(what, delay) == [do |-> what, left |-> delay, by |-> 0, runs |-> 0, copy |-> NoTable]

TypeOK ==
  /\ table.innings \in 1..3 /\ table.turn \in 0..(Turns + 1)
  /\ {table.exists, table.completed, table.out, table.acted} \subseteq BOOLEAN
  /\ table.batsman \in Players
  /\ table.score \in [Players -> 0..MaxScore] /\ table.target \in 0..(MaxScore + 1)
  /\ {table.left, fees} \subseteq SUBSET Players
  /\ \A j \in jobs : j.left \in 0..TurnTime /\ j.by \in 0..2
  /\ \A i \in DOMAIN ended : ended[i] \in 0..2
  /\ slips \subseteq {"not debited", "two chains", "third innings", "endless", "left behind",
                      "ended twice", "overtaken"}

Init ==
  /\ table = NoTable
  /\ jobs = {Job("startGame", 0)}
  /\ fees = {}
  /\ ended = <<>>
  /\ moves = MaxMoves
  /\ slips = {}
-----------------------------------------------------------------------------
When(condition, slip) == IF condition THEN {slip} ELSE {}
Due(j, what) == j \in jobs /\ j.do = what /\ j.left = 0
HasRead(j, what) == Due(j, what) /\ j.copy.exists
Then(j, new) == jobs' = (jobs \ {j}) \union new
Bowler(t) == 3 - t.batsman

(* What a message does is not part of the chain.                            *)
Chain(j) == j.do \notin {"batBowl", "checkOut", "leave", "leaveLast", "tellLeft"}

(* handleLeaveTable holds the lock from its reading to its end, and a timer *)
(* takes and releases it before it begins.                                  *)
Locked == \E j \in jobs : j.do \in {"leave", "leaveLast", "tellLeft"}

(* retrieveGameTable, by who will store it                                  *)
Read(j) ==
  /\ j \in jobs /\ j.left = 0 /\ ~j.copy.exists
  /\ j.do \notin {"startGame", "debit", "turn", "result", "gameEnded", "tellLeft", "won"}
  /\ j.do \in {"inningStart", "inningEnd"} => ~Locked
  /\ jobs' = (jobs \ {j}) \union {[j EXCEPT !.copy = table]}
  /\ UNCHANGED <<table, fees, ended, moves, slips>>

(* storeGameTable: over whatever has been stored since the copy was read.   *)
Store(j, t, more) ==
  table' = t /\ slips' = slips \union more \union When(j.copy # table, "overtaken")

(* startGame, and debitJoinFee: a call that fails leaves the game where it  *)
(* is, whoever was debited.                                                 *)
StartGame(j) ==
  /\ Due(j, "startGame")
  /\ \E s \in Players : table' = [NoTable EXCEPT !.exists = TRUE, !.batsman = s]
  /\ Then(j, {Job("debit", 0)})
  /\ UNCHANGED <<fees, ended, moves, slips>>

DebitJoinFee(j) ==
  /\ Due(j, "debit")
  /\ \/ fees' = Players /\ Then(j, {Job("inningStart", 0)}) /\ UNCHANGED slips
     \/ fees' \in SUBSET Players /\ slips' = slips \union {"not debited"} /\ Then(j, {})
  /\ UNCHANGED <<table, ended, moves>>

(* handleInningStart, by a timer or by handleInningEnd                      *)
InningStart(j) ==
  /\ HasRead(j, "inningStart") \/ HasRead(j, "nextInnings")
  /\ IF j.copy.completed THEN Then(j, {}) /\ UNCHANGED <<table, slips>>
     ELSE /\ Store(j, [j.copy EXCEPT !.turn = 1, !.out = FALSE],
                   When(\E k \in jobs \ {j} : Chain(k), "two chains"))
          /\ Then(j, {Job("turn", InningsTime)})
  /\ UNCHANGED <<fees, ended, moves>>

(* Mutant: nothing is set for the end of the innings.                       *)
TurnWithoutEnd(j) ==
  /\ Due(j, "turn")
  /\ Then(j, IF table.completed \/ table.turn > Turns THEN {} ELSE {Job("turnTimeout", 0)})
  /\ UNCHANGED <<table, fees, ended, moves, slips>>

(* scheduleTurnEvents: a turn begins, or the innings is over.               *)
Turn(j) ==
  /\ Due(j, "turn")
  /\ Then(j, IF table.completed THEN {}
             ELSE IF table.turn > Turns THEN {Job("target", 0)} ELSE {Job("turnTimeout", 0)})
  /\ UNCHANGED <<table, fees, ended, moves, slips>>

(* handleTurnTimeout stores the table as it has read it.                    *)
TurnTimeout(j) ==
  /\ HasRead(j, "turnTimeout")
  /\ IF j.copy.completed THEN UNCHANGED <<table, slips>> ELSE Store(j, j.copy, {})
  /\ Then(j, {Job("result", TurnTime)})
  /\ UNCHANGED <<fees, ended, moves>>

(* handleTurnResult: once somebody has named runs, every turn adds them, as *)
(* batBowlAction is reset only in a copy that is thrown away.               *)
ResultBegins(j) ==
  /\ Due(j, "result")
  /\ Then(j, {Job(IF table.acted THEN "addScore" ELSE "turnResult", 0)})
  /\ UNCHANGED <<table, fees, ended, moves, slips>>

Scored(t) == [t EXCEPT !.score = [s \in Players |-> t.score[s] + t.runs[s]]]

(* calculateAndUpdateScore, of both players                                 *)
AddScore(j) ==
  /\ HasRead(j, "addScore")
  /\ \A s \in Players : Scored(j.copy).score[s] <= MaxScore
  /\ Store(j, Scored(j.copy), {})
  /\ Then(j, {Job("turnResult", 0)})
  /\ UNCHANGED <<fees, ended, moves>>

(* The next turn is counted, and the runs are forgotten, unless the batsman *)
(* is out or has won; the chain of the turns goes on all the same.          *)
TurnResult(j) ==
  LET t == j.copy
  IN  /\ HasRead(j, "turnResult")
      /\ IF t.out
         THEN Then(j, {Job("out", Second)}) /\ UNCHANGED <<table, slips>>
         ELSE IF t.innings = 2 /\ t.score[t.batsman] > t.target
         THEN Then(j, {Job("won", Second)}) /\ UNCHANGED <<table, slips>>
         ELSE /\ Store(j, [t EXCEPT !.turn = @ + 1, !.runs = <<0, 0>>], {})
              /\ Then(j, {Job("turn", Second)})
      /\ UNCHANGED <<fees, ended, moves>>

(* calculateTargetScore: nothing to chase when nothing was scored.          *)
WithTarget(t) == IF t.score[t.batsman] > 0 THEN [t EXCEPT !.target = t.score[t.batsman] + 1] ELSE t

InningIsOver(j) ==
  /\ HasRead(j, "target") \/ HasRead(j, "out")
  /\ Store(j, WithTarget(j.copy), {})
  /\ Then(j, {Job("inningEnd", 0)} \union (IF j.do = "out" THEN {Job("turn", Second)} ELSE {}))
  /\ UNCHANGED <<fees, ended, moves>>

(* handleInningEnd: the players change places and lose what they scored.    *)
InningEnd(j) ==
  LET t == j.copy
  IN  /\ HasRead(j, "inningEnd")
      /\ CASE t.innings = 1 ->
                /\ Store(j, [t EXCEPT !.innings = 2, !.turn = 1, !.out = FALSE, !.batsman = Bowler(t),
                                      !.score = <<0, 0>>, !.runs = <<0, 0>>], {})
                /\ Then(j, {Job("nextInnings", 0)})
           [] t.innings = 2 ->
                Store(j, [t EXCEPT !.completed = TRUE], {}) /\ Then(j, {Job("gameEnded", 0)})
           [] OTHER -> Then(j, {}) /\ UNCHANGED <<table, slips>>
      /\ UNCHANGED <<fees, ended, moves>>

Winner(t) == IF t.score[1] > t.score[2] THEN 1 ELSE IF t.score[1] < t.score[2] THEN 2 ELSE 0

(* handleGameEnded: only for a table that is stored as completed, which the *)
(* game of a batsman who has won is not.  The one with the higher score has *)
(* won, gone or not; nobody is paid.                                        *)
GameEnded(j) ==
  /\ Due(j, "gameEnded") \/ Due(j, "tellLeft") \/ Due(j, "won")
  /\ IF table.completed
     THEN /\ ended' = Append(ended, Winner(table))
          /\ slips' = slips \union When(Winner(table) \in table.left, "left behind")
                            \union When(ended # <<>>, "ended twice")
     ELSE slips' = slips \union {"endless"} /\ UNCHANGED ended
  /\ Then(j, IF j.do = "won" THEN {Job("turn", Second)} ELSE {})
  /\ UNCHANGED <<table, fees, moves>>

(* handleBatBowlRequest, in any turn or between two.                        *)
BatBowl(j) ==
  LET named == [j.copy EXCEPT !.runs[j.by] = j.runs, !.acted = TRUE]
  IN  /\ HasRead(j, "batBowl")
      /\ Store(j, [named EXCEPT !.out = named.runs[1] = named.runs[2]], {})
      /\ Then(j, {Job("checkOut", 0)})
      /\ UNCHANGED <<fees, ended, moves>>

(* checkAndHandleIsOut: out means the next innings, with the same batsman,  *)
(* while the turn goes on.                                                  *)
CheckOut(j) ==
  LET t == j.copy
  IN  /\ HasRead(j, "checkOut")
      /\ IF t.out
         THEN /\ Store(j, [t EXCEPT !.innings = @ + 1, !.target = t.score[t.batsman] + 1],
                       When(t.innings = 2, "third innings"))
              /\ Then(j, {Job("inningStart", 0)})
         ELSE Then(j, {}) /\ UNCHANGED <<table, slips>>
      /\ UNCHANGED <<fees, ended, moves>>

(* handleLeaveTable: the first to leave completes the game, for the other.  *)
LeaveTable(j) ==
  LET t == [j.copy EXCEPT !.left = @ \union {j.by}]
  IN  /\ HasRead(j, "leave")
      /\ Store(j, t, {})
      /\ Then(j, IF Cardinality(Players \ t.left) = 1
                 THEN {[j EXCEPT !.do = "leaveLast", !.copy = t]} ELSE {})
      /\ UNCHANGED <<fees, ended, moves>>

LeaveLast(j) ==
  /\ HasRead(j, "leaveLast")
  /\ Store(j, [j.copy EXCEPT !.completed = TRUE], {})
  /\ Then(j, {Job("tellLeft", 0)})
  /\ UNCHANGED <<fees, ended, moves>>

(* A client knows the table from inningStarted on.  Its message is there as *)
(* soon as the table has been read for it, and a second one leaves later.   *)
Message(what, s, runs) ==
  /\ table.turn > 0
  /\ what = "leave" => ~Locked
  /\ moves > 0 /\ moves' = moves - 1
  /\ Cardinality({j \in jobs : ~Chain(j)}) < AtOnce
  /\ jobs' = jobs \union {[Job(what, 0) EXCEPT !.by = s, !.runs = runs, !.copy = table]}
  /\ UNCHANGED <<table, fees, ended, slips>>

Tick ==
  /\ slips = {} /\ jobs # {} /\ \A j \in jobs : j.left > 0
  /\ jobs' = {[j EXCEPT !.left = @ - 1] : j \in jobs}
  /\ UNCHANGED <<table, fees, ended, moves, slips>>

(* What follows a slip is not explored.                                     *)
Followed(x) == IF slips = {} THEN x ELSE {}

Next ==
  \/ \E j \in Followed(jobs) :
       \/ Read(j) \/ StartGame(j) \/ DebitJoinFee(j) \/ InningStart(j) \/ Turn(j) \/ TurnTimeout(j)
       \/ ResultBegins(j) \/ AddScore(j) \/ TurnResult(j) \/ InningIsOver(j) \/ InningEnd(j)
       \/ GameEnded(j) \/ BatBowl(j) \/ CheckOut(j) \/ LeaveTable(j) \/ LeaveLast(j)
  \/ \E s \in Followed(Players) :
       Message("leave", s, 0) \/ \E runs \in Runs : Message("batBowl", s, runs)
  \/ Tick

Spec == Init /\ [][Next]_vars
-----------------------------------------------------------------------------
(* The game goes on: until it is completed a chain is pending that will     *)
(* bring the next turn.                                                     *)
GameGoesOn == slips = {} /\ ~table.completed => \E j \in jobs : Chain(j)

(* A game is over when, and only when, the players are told how it ended,   *)
(* once.                                                                    *)
EndIsTold ==
  slips = {} =>
    /\ ended # <<>> => table.completed /\ Len(ended) = 1
    /\ table.completed => ended # <<>> \/ \E j \in jobs : j.do \in {"gameEnded", "tellLeft"}
=============================================================================
