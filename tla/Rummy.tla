-------------------------------- MODULE Rummy --------------------------------
(***************************************************************************)
(* One table of Rummy, from its first round to its removal.  A handler that *)
(* keeps the table lock from its reading to its last writing is one action; *)
(* what it calls afterwards, under a lock taken anew, is a job with no      *)
(* delay, and what it hands to addTimeoutAction is a job with a delay.      *)
(* declareReq, finishReq and groupReq give the lock back as soon as they    *)
(* have read the table and write what they read, changed, later: they are   *)
(* two actions, with the copy in between.                                   *)
(*                                                                         *)
(* Cards are counted, never named; scores are the points of the game, and   *)
(* the commission, a share of what the winner is paid, is left out.         *)
(***************************************************************************)
EXTENDS Integers, FiniteSets, Sequences, SequencesExt

CONSTANTS Seats,          \* the seats of the table, PL1, PL2, ... as 1..n
          FirstDrop,      \* 20: points for dropping before the first turn
          MiddleDrop,     \* 40: points for dropping later
          MaxScore,       \* 80: points for a wrong declaration
          HandScores,     \* what the groups of a hand may be worth
          Next500,        \* the delays, in ticks: half a second (nextTimeout)
          Deal,           \* 3 seconds (dealCardsTimeout)
          Start,          \* 10 seconds (startTimeout)
          Finish,         \* 30 seconds (finishDeclarationTimeout)
          Turn,           \* 60 seconds (turnTimeout)
          MaxRounds,      \* bounds, by the number of players the table begins with
          MaxJoins, MaxMoves

VARIABLES table,          \* the table in Redis
          jobs,           \* pending calls, timers and handlers half done
          pool,           \* history: points paid by losers and not yet won by anyone
          rounds, joins, moves,  \* bounds: rounds to begin, players to seat, messages to come
          slips           \* history: what the code lets through, after which we look away

vars == <<table, jobs, pool, rounds, joins, moves, slips>>

Playing == {"dealCards", "drawCard", "discardCard"}
Statuses == Playing \union {"waiting", "roundStarted", "declareCards", "roundEnded", "gameEnded", "removed"}

NewPlayer(late) ==
  [active |-> ~late, late |-> late, drawn |-> FALSE, extra |-> 0, moved |-> FALSE,
   declare |-> FALSE, dropped |-> FALSE, score |-> 0]

NoTable == [status |-> "removed", turn |-> 0, joinNo |-> 0, declaredNo |-> 0, droppedScore |-> 0,
            firstDeclared |-> 0, wildCard |-> FALSE, players |-> <<>>]

(* A handler half done keeps the table it has read: base; clean: nobody has *)
(* written the table since.                                                 *)
Timed(what, delay, user) ==
  [do |-> what, left |-> delay, user |-> user, clean |-> TRUE, base |-> NoTable]
Call(what, user) == Timed(what, 0, user)
Half(what, user) == [Call(what, user) EXCEPT !.base = table]

Present(t) == DOMAIN t.players
Active(t) == {s \in Present(t) : t.players[s].active}
Late(t) == {s \in Present(t) : t.players[s].late}

TypeOK ==
  /\ table.status \in Statuses
  /\ Present(table) \subseteq Seats
  /\ {table.turn, table.firstDeclared} \subseteq Seats \union {0}
  /\ {table.joinNo, table.declaredNo, table.droppedScore} \subseteq Nat
  /\ table.wildCard \in BOOLEAN
  /\ \A s \in Present(table) :
       LET p == table.players[s]
       IN  /\ {p.active, p.late, p.drawn, p.moved, p.declare, p.dropped} \subseteq BOOLEAN
           /\ p.extra \in 0..2 /\ p.score \in 0..MaxScore
  /\ \A j \in jobs : j.left \in Nat /\ j.user \in Seats \union {0}
  /\ pool \in Int
  /\ {rounds, joins, moves} \subseteq Nat
  /\ slips \subseteq {"overwritten", "winner left", "no wild card", "counted twice", "draw", "two left"}

(* createNewReTable                                                         *)
CreateNewTable(seats) ==
  /\ table = [NoTable EXCEPT !.status = "waiting", !.turn = 1, !.joinNo = Cardinality(seats),
                             !.players = [s \in seats |-> NewPlayer(FALSE)]]
  /\ jobs = {Call("startRound", 0)}

Init ==
  /\ \E n \in {m \in 2..Len(MaxRounds) : 1..m \subseteq Seats} :
       /\ CreateNewTable(1..n)
       /\ rounds = MaxRounds[n]
       /\ joins = MaxJoins[n]
       /\ moves = MaxMoves[n]
  /\ pool = 0
  /\ slips = {}
-----------------------------------------------------------------------------
After(s, seats) == IF \E x \in seats : x > s THEN Min({x \in seats : x > s}) ELSE Min(seats)

(* getReNextActivePlayer: with nobody active the next player of any kind.   *)
NextActive(t) == After(t.turn, IF Active(t) = {} THEN Present(t) ELSE Active(t))

Bounds == <<rounds, joins, moves>>
Due(what) == {j \in jobs : j.do = what /\ j.left = 0}

(* turnNo or roundId has moved: the timer that drops the player on turn     *)
(* will find so and do nothing.                                             *)
Stale(js) == {j \in js : j.do # "dropPlayer"}

Touched(js) == {[j EXCEPT !.clean = @ /\ j.base.status = "removed"] : j \in js}

(* updateReTable, and what follows; where turnNo or roundId was counted up, *)
(* the timers of the turn before are stale.                                 *)
Write(t, done, new) == table' = t /\ jobs' = Touched(jobs \ done) \union new
WriteTurn(t, done, new) == table' = t /\ jobs' = Touched(Stale(jobs \ done)) \union new

Look(done, new) == jobs' = (jobs \ done) \union new /\ UNCHANGED table
Drop(j) == Look({j}, {}) /\ UNCHANGED <<pool, Bounds, slips>>
Quiet == UNCHANGED <<pool, Bounds, slips>>

-----------------------------------------------------------------------------
(* Mutant: what earlier leavers paid is not forgotten between rounds.       *)
StartedKeepingDropped(t, dealer) ==
  [t EXCEPT !.status = "roundStarted", !.turn = dealer, !.declaredNo = 0,
            !.joinNo = Cardinality(Present(t)), !.firstDeclared = 0, !.wildCard = FALSE,
            !.players = [s \in Present(t) |-> NewPlayer(FALSE)]]

(* startReRound: everyone at the table plays, the late ones too.           *)
Started(t, dealer) ==
  [t EXCEPT !.status = "roundStarted", !.turn = dealer, !.declaredNo = 0, !.droppedScore = 0,
            !.joinNo = Cardinality(Present(t)), !.firstDeclared = 0, !.wildCard = FALSE,
            !.players = [s \in Present(t) |-> NewPlayer(FALSE)]]

StartRound(j) ==
  /\ j \in Due("startRound")
  /\ \/ /\ table.status = "waiting"
        /\ Write([table EXCEPT !.status = "roundStarted"], {j}, {Timed("dealCards", Start, 0)})
        /\ rounds' = rounds - 1
        /\ UNCHANGED <<pool, joins, moves, slips>>
     \/ /\ table.status = "roundEnded"
        /\ rounds > 0
        /\ \E dealer \in Present(table) :
             WriteTurn(Started(table, dealer), {j}, {Timed("dealCards", Start, 0)})
        /\ rounds' = rounds - 1
        /\ UNCHANGED <<pool, joins, moves, slips>>
     \/ table.status \notin {"waiting", "roundEnded"} /\ Drop(j)

(* The timer looks before it calls startReRound.                            *)
StartRoundTimer(j) ==
  /\ j \in Due("startRoundTimer")
  /\ Look({j}, IF Cardinality(Present(table)) >= 2 /\ table.status = "roundEnded"
               THEN {Call("startRound", 0)} ELSE {})
  /\ Quiet

(* dealReCards; only the late count as having declared, whoever has dropped *)
(* since the round started.                                                 *)
DealCards(j) ==
  /\ j \in Due("dealCards")
  /\ IF table.status \in {"roundEnded", "gameEnded", "removed"} THEN Drop(j)
     ELSE /\ Write([table EXCEPT !.status = "dealCards", !.wildCard = TRUE,
                                 !.declaredNo = Cardinality(Late(table))],
                   {j}, {Timed("play", Deal, 0)})
          /\ Quiet

(* play: the player on turn is to draw, and is dropped when he does not.    *)
Play(j) ==
  /\ j \in Due("play")
  /\ IF table.status \notin Playing THEN Drop(j)
     ELSE Write([table EXCEPT !.status = "drawCard"], {j}, {Timed("dropPlayer", Turn, 0)}) /\ Quiet

(* The timer of a turn looks, and drops the player as if he had left.       *)
DropTimer(j) ==
  /\ j \in Due("dropPlayer")
  /\ Look({j}, IF table.turn \in Present(table) THEN {Call("leave", table.turn)} ELSE {})
  /\ Quiet
-----------------------------------------------------------------------------
Received == moves > 0 /\ moves' = moves - 1
Player(s) == table.players[s]

(* drawCard asks whose turn it is, but neither for the state of the game    *)
(* nor whether a card was drawn before.                                     *)
DrawCard(s) ==
  /\ s \in Present(table)
  /\ table.turn = s
  /\ table.wildCard
  /\ Player(s).extra < 2
  /\ Write([table EXCEPT !.status = "discardCard",
                         !.players[s].drawn = TRUE, !.players[s].extra = @ + 1], {}, {})
  /\ slips' = IF table.status \in Playing THEN slips ELSE slips \union {"draw"}
  /\ Received /\ UNCHANGED <<pool, rounds, joins>>

MayDiscard(s) ==
  /\ s \in Present(table)
  /\ table.turn = s
  /\ Player(s).drawn
  /\ table.status = "discardCard"
  /\ Player(s).extra = 1

(* discardCard: the turn passes at once, the next player is told later.     *)
Discarded(t, s) ==
  [t EXCEPT !.players[s].drawn = FALSE, !.players[s].extra = 0, !.players[s].moved = TRUE,
            !.turn = NextActive(t)]

DiscardCard(s) ==
  /\ MayDiscard(s)
  /\ WriteTurn(Discarded(table, s), {}, {Timed("play", Next500, 0)})
  /\ Received /\ UNCHANGED <<pool, rounds, joins, slips>>

(* groupReq: the copy read is written back, without the lock.               *)
GroupRequest(s) ==
  /\ s \in Present(table)
  /\ table.wildCard
  /\ Due("group") = {}
  /\ Look({}, {Half("group", s)})
  /\ Received /\ UNCHANGED <<pool, rounds, joins, slips>>

(* What is written without the lock takes back whatever happened since the  *)
(* copy was read.                                                           *)
Overwrites(j) == slips' = IF j.clean THEN slips ELSE slips \union {"overwritten"}

GroupWritten(j) ==
  /\ j \in Due("group")
  /\ IF table.status = "removed" THEN Look({j}, {}) ELSE Write(j.base, {j}, {})
  /\ Overwrites(j)
  /\ UNCHANGED <<pool, Bounds>>

(* declareReq: the card is laid off under the lock, and the table as it was *)
(* before that is kept.                                                     *)
DeclareRequest(s) ==
  /\ table.firstDeclared = 0
  /\ MayDiscard(s)
  /\ ~Player(s).late
  /\ WriteTurn(Discarded(table, s), {}, {Half("declare", s)})
  /\ Received /\ UNCHANGED <<pool, rounds, joins, slips>>

(* checkDeclaredCards                                                       *)
Declares(t, s, valid) ==
  [t EXCEPT !.players[s].declare = TRUE, !.players[s].active = FALSE,
            !.players[s].score = IF valid THEN @ ELSE MaxScore,
            !.players[s].dropped = @ \/ ~valid, !.declaredNo = @ + 1]

(* The second half: the copy comes back with the declaration in it.  A      *)
(* valid one opens the time for the others to finish; a wrong one costs the *)
(* full score, and the last active player has won.                          *)
DeclarationMade(j) ==
  LET shown(valid) == Declares(j.base, j.user, valid)
      wrong == shown(FALSE)
      winner == IF Cardinality(Active(wrong)) = 1 THEN Min(Active(wrong))
                ELSE IF Present(wrong) = {j.user} THEN j.user ELSE 0
  IN  /\ j \in Due("declare")
      /\ \/ table.status = "removed" /\ Look({j}, {})
         \/ /\ table.status # "removed"
            /\ Write([shown(TRUE) EXCEPT !.status = "declareCards", !.firstDeclared = j.user],
                     {j}, {Timed("finishRound", Finish, 0)})
         \/ /\ table.status # "removed" /\ winner # 0
            /\ Write([wrong EXCEPT !.firstDeclared = winner], {j}, {Call("roundEnd", 0)})
         \/ /\ table.status # "removed" /\ winner = 0
            /\ Write([wrong EXCEPT !.turn = NextActive(wrong)], {j}, {Timed("play", Next500, 0)})
      /\ Overwrites(j)
      /\ UNCHANGED <<pool, Bounds>>

(* finishReq, in two halves as well: the others show what they hold.  A     *)
(* player who has dropped may show his hand too.                            *)
FinishRequest(s) ==
  /\ table.status = "declareCards"
  /\ s \in Present(table)
  /\ ~Player(s).declare /\ ~Player(s).late
  /\ Look({}, {Half("finish", s)})
  /\ Received /\ UNCHANGED <<pool, rounds, joins, slips>>

Finished(j) ==
  /\ j \in Due("finish")
  /\ \/ table.status = "removed" /\ Look({j}, {})
     \/ /\ table.status # "removed"
        /\ \E score \in HandScores :
             LET t == [Declares(j.base, j.user, TRUE) EXCEPT !.players[j.user].score = score]
             IN  Write(t, {j}, IF t.declaredNo = t.joinNo THEN {Call("roundEnd", 0)} ELSE {})
  /\ Overwrites(j)
  /\ UNCHANGED <<pool, Bounds>>

(* finishRound, when the time is over, unless all have declared.            *)
FinishRound(j) ==
  /\ j \in Due("finishRound")
  /\ Look({j}, IF table.status = "declareCards" /\ table.declaredNo # table.joinNo
               THEN {Call("roundEnd", 0)} ELSE {})
  /\ Quiet
-----------------------------------------------------------------------------
Points(t, s) ==
  IF t.players[s].declare THEN t.players[s].score
  ELSE IF t.players[s].moved THEN MiddleDrop ELSE FirstDrop

(* A player in the round stops playing and owes the points of a drop, which *)
(* one who leaves pays at once.                                             *)
OutOfRound(t, s) ==
  IF t.players[s].late
  THEN [t EXCEPT !.players[s].active = FALSE, !.players[s].dropped = TRUE,
                 !.joinNo = @ - 1, !.declaredNo = @ - 1]
  ELSE [t EXCEPT !.players[s].active = FALSE, !.players[s].dropped = TRUE,
                 !.players[s].score = Points(t, s),
                 !.declaredNo = IF t.players[s].declare THEN @ ELSE @ + 1]

Without(t, s) == [t EXCEPT !.players = RestrictDomain(@, LAMBDA x : x # s)]

(* What dropPlayer goes on to once the player is out: the last active       *)
(* player has won, or the next one is asked.                                *)
AfterDrop(t, s, done) ==
  LET on == [t EXCEPT !.turn = IF @ = s THEN NextActive(t) ELSE @]
  IN  IF Cardinality(Active(t)) = 1 /\ t.firstDeclared = 0
      THEN Write([t EXCEPT !.firstDeclared = Min(Active(t))], done, {Call("roundEnd", 0)})
      ELSE IF (Cardinality(Present(t)) = 1 \/ Active(t) = {}) /\ t.status = "declareCards"
      THEN Write(t, done, {Call("roundEnd", 0)})
      ELSE WriteTurn(on, done, IF on.status = "dealCards" THEN {} ELSE {Call("play", 0)})

(* The one who leaves is debited, and the winner of the round will get it.  *)
KeptForWinner(t, s) ==
  LET owed == IF t.players[s].late THEN 0 ELSE Points(t, s)
  IN  [Without(OutOfRound(t, s), s) EXCEPT !.droppedScore = @ + owed]

(* Calls which leave the table without a way on: nobody in it has won, no   *)
(* wild card was drawn yet, or one player counts twice among those who have *)
(* declared.                                                                *)
LeavingSlips(s) ==
  {x \in {"winner left", "no wild card", "counted twice"} :
     CASE x = "winner left" -> table.firstDeclared = s
       [] x = "no wild card" -> ~table.wildCard /\ Cardinality(Active(table) \ {s}) <= 1
       [] x = "counted twice" -> Player(s).dropped /\ ~Player(s).declare}

(* dropPlayer for a player who leaves, in a round.                          *)
LeaveRound(s, done) ==
  /\ s \in Present(table)
  /\ table.status \notin {"waiting", "roundEnded", "gameEnded", "removed"}
  /\ Cardinality(Present(table)) >= 2
  /\ AfterDrop(KeptForWinner(table, s), s, done)
  /\ pool' = pool + IF Player(s).late THEN 0 ELSE Points(table, s)
  /\ slips' = slips \union LeavingSlips(s)
  /\ UNCHANGED <<rounds, joins>>

(* dropPlayer between rounds: nobody pays.                                  *)
LeaveBetween(s, done) ==
  LET t == Without(table, s)
  IN  /\ s \in Present(table)
      /\ table.status = "roundEnded"
      /\ Cardinality(Present(table)) >= 2
      /\ Write(t, done, IF Cardinality(Present(t)) = 1 THEN {Call("endGame", 0)} ELSE {})
      /\ slips' = IF Due("gameEnded") # {} /\ table.firstDeclared = s
                  THEN slips \union {"winner left"} ELSE slips
      /\ UNCHANGED <<pool, rounds, joins>>

MayLeave(s) == s \in Present(table) /\ Cardinality(Present(table)) >= 2
                 /\ table.status \notin {"waiting", "gameEnded", "removed"}
Leave(j) ==
  /\ j \in Due("leave")
  /\ \/ (LeaveRound(j.user, {j}) \/ LeaveBetween(j.user, {j})) /\ UNCHANGED moves
     \/ ~MayLeave(j.user) /\ Drop(j)

LeaveByHand(s) == (LeaveRound(s, {}) \/ LeaveBetween(s, {})) /\ Received

(* dropPlayer for a player who stays and watches: dropReq.                  *)
DropRequest(s) ==
  /\ s \in Present(table)
  /\ table.status \in Playing \union {"roundStarted"}
  /\ ~Player(s).late
  /\ Cardinality(Present(table)) >= 2
  /\ AfterDrop(OutOfRound(table, s), s, {})
  /\ slips' = slips \union LeavingSlips(s)
  /\ Received /\ UNCHANGED <<pool, rounds, joins>>
-----------------------------------------------------------------------------
(* getRoundResult: the winner is the player who declared first, or the only *)
(* one there is.                                                            *)
Winner(t) == IF t.firstDeclared \in Present(t) THEN t.firstDeclared
             ELSE IF Cardinality(Present(t)) = 1 THEN Min(Present(t)) ELSE 0

(* Those who still held cards are charged what their hands are worth.       *)
Owed(t, hands, s) == IF s \in DOMAIN hands THEN hands[s] ELSE t.players[s].score
Total(t, hands) ==
  t.droppedScore + MapThenSumSet(LAMBDA s : Owed(t, hands, s),
                                 {s \in Present(t) : s # Winner(t) \/ s \in DOMAIN hands})
Charged(t, hands) ==
  MapThenSumSet(LAMBDA s : Owed(t, hands, s), {s \in Present(t) : s # Winner(t)} \ Late(t))

HandsOf(t) == IF t.wildCard THEN [Active(t) \ {t.firstDeclared} -> HandScores] ELSE {<<>>}

(* createReRoundHistory: the winner is paid, the losers are charged.        *)
Settle(t, hands) == Charged(t, hands) - Total(t, hands)

(* roundReEnd: the round is settled before anything is asked; without a     *)
(* wild card the call fails when the money has moved.                       *)
RoundEnd(j) ==
  /\ j \in Due("roundEnd")
  /\ \/ (table.status = "removed" \/ Winner(table) = 0) /\ Drop(j)
     \/ /\ table.status # "removed" /\ Winner(table) # 0
        /\ \E hands \in HandsOf(table) : pool' = pool + Settle(table, hands)
        /\ IF ~table.wildCard \/ table.status = "gameEnded" THEN Look({j}, {})
           ELSE Write([table EXCEPT !.status = "roundEnded"], {j}, {Call("gameEnded", 0)})
        /\ UNCHANGED <<Bounds, slips>>

(* gameReEnded: who cannot pay another round leaves.                        *)
GameEnded(j) ==
  /\ j \in Due("gameEnded")
  /\ \/ (table.status \in {"gameEnded", "removed"} \/ Winner(table) = 0) /\ Drop(j)
     \/ /\ table.status \notin {"gameEnded", "removed"} /\ Winner(table) # 0
        /\ \E poor \in SUBSET Present(table) :
             LET t == [table EXCEPT !.players = RestrictDomain(@, LAMBDA s : s \notin poor)]
             IN  Write(t, {j}, {IF Cardinality(Present(t)) >= 2 THEN Timed("startRoundTimer", Start, 0)
                                ELSE Call("endGame", 0)})
        /\ Quiet

EndGame(j) ==
  /\ j \in Due("endGame")
  /\ IF table.status = "removed" THEN Drop(j)
     ELSE Write([table EXCEPT !.status = "gameEnded"], {j}, {Call("endTable", 0)}) /\ Quiet

(* endReTable: one who has come in the meantime goes with the table; for    *)
(* two a round is to start, which is refused now that the game has ended.   *)
EndTable(j) ==
  /\ j \in Due("endTable")
  /\ IF table.status = "removed" THEN Drop(j)
     ELSE IF Cardinality(Active(table)) > 1 THEN /\ Look({j}, {Call("startRound", 0)})
          /\ slips' = slips \union {"two left"} /\ UNCHANGED <<pool, Bounds>>
     ELSE Write(NoTable, {j}, {}) /\ Quiet
-----------------------------------------------------------------------------
(* match finds a table with a free seat; the newcomer is seated later.      *)
FindSeat ==
  /\ table.status \notin {"gameEnded", "removed"}
  /\ Present(table) # Seats
  /\ joins > 0
  /\ joins' = joins - 1
  /\ Look({}, {Call("join", 0)})
  /\ UNCHANGED <<pool, rounds, moves, slips>>

(* joinExistingReTable: once cards are dealt the newcomer is late and       *)
(* counts as having declared.                                               *)
JoinExistingTable(j) ==
  LET free == Seats \ Present(table)
      late == table.status \notin {"waiting", "roundStarted"}
  IN  /\ j \in Due("join")
      /\ IF table.status = "removed" \/ free = {} THEN Drop(j)
         ELSE /\ Write([table EXCEPT !.joinNo = @ + 1, !.declaredNo = IF late THEN @ + 1 ELSE @,
                          !.players = [s \in Present(table) \union {Min(free)} |->
                                         IF s \in Present(table) THEN @[s] ELSE NewPlayer(late)]],
                       {j}, {})
              /\ Quiet

(* Time passes when every call that is due has run; to a timer that is      *)
(* alone it passes at once.                                                 *)
Tick ==
  /\ jobs # {}
  /\ \A j \in jobs : j.left > 0
  /\ jobs' = {[j EXCEPT !.left = IF Cardinality(jobs) = 1 THEN 0 ELSE @ - 1] : j \in jobs}
  /\ UNCHANGED table /\ Quiet

RunJob(j) ==
  \/ StartRound(j) \/ StartRoundTimer(j) \/ DealCards(j) \/ Play(j) \/ DropTimer(j) \/ Leave(j)
  \/ GroupWritten(j) \/ DeclarationMade(j) \/ Finished(j) \/ FinishRound(j)
  \/ RoundEnd(j) \/ GameEnded(j) \/ EndGame(j) \/ EndTable(j) \/ JoinExistingTable(j)

Act(s) ==
  \/ DrawCard(s) \/ DiscardCard(s) \/ GroupRequest(s) \/ DeclareRequest(s) \/ FinishRequest(s)
  \/ LeaveByHand(s) \/ DropRequest(s)

(* What follows a slip is not explored.                                     *)
Followed(x) == IF slips = {} THEN x ELSE {}

Next ==
  \/ \E j \in Followed(jobs) : RunJob(j)
  \/ \E s \in Followed(Seats) : Act(s)
  \/ FindSeat
  \/ Tick

Spec == Init /\ [][Next]_vars
-----------------------------------------------------------------------------
(* What the losers of a round pay is what its winner gets: between rounds   *)
(* nothing is owed, and during a round what has been paid is what those who *)
(* left were charged and the winner will be given.                          *)
PointsAreConserved ==
  slips = {} =>
    pool = IF table.status \in {"roundEnded", "gameEnded", "removed"} THEN 0 ELSE table.droppedScore

(* A table never comes to a standstill: while it exists, some call, timer   *)
(* or handler is pending that carries the game on.                          *)
GameGoesOn ==
  slips = {} /\ table.status # "removed" => \E j \in jobs : j.do \notin {"join", "group"}
=============================================================================
