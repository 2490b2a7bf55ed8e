------------------------------ MODULE SkillPatti ------------------------------
(***************************************************************************)
(* One table of Skill Patti, from the first round to its removal.  Every    *)
(* handler reads and writes the table under the table lock and is one       *)
(* action; what it starts without waiting, or under a lock taken anew, is   *)
(* a job with no delay, and what it hands to addTimeoutAction is a job with *)
(* a delay.  Other handlers run between a handler and its jobs.             *)
(*                                                                         *)
(* The counters turnNo and roundNo serve only to tell whether a timer still *)
(* belongs to the turn it was set in: a job is fresh until one of them      *)
(* moves.  Amounts are whole chips; the commission, a fixed share of every  *)
(* payment out of the pot, is left out; so are equal hands, which share a   *)
(* pot: of two hands one is always the better.                              *)
(***************************************************************************)
EXTENDS Integers, FiniteSets, Sequences, SequencesExt

CONSTANTS Seats,          \* the seats of the table, PL1, PL2, ... as 1..n
          InitialBet, PotLimit,
          BuyIn,          \* chips a player brings
          Reserve,        \* what the wallet still holds for a rebuy
          Raises,         \* the amounts a player may raise by
          Short,          \* the delays, in ticks: 3 seconds (startTimeout, roundEndDelay, ...)
          Pause,          \* 5 seconds (sideshowTimeout, rebuyDelay)
          Decide,         \* 7 seconds (decideWinnerTimeout)
          Turn,           \* 20 seconds (turnTimeout, rebuyTimeout)
          Games,          \* the tables to begin: [players |-> 2.., rounds |->, joins |->, moves |->],
                          \* the last three being bounds
          MaxUnpaid       \* bound: chips whose debits are refused

VARIABLES table,          \* the table in Redis
          jobs,           \* pending calls and timers
          wallet,         \* chips the wallets have given to this table, less those returned
          debits,         \* calls of debitTable the wallet has not answered, a bag of records
          unpaid,         \* history: chips at the table whose debit the wallet refused
          house,          \* history: chips of pots that nobody was entitled to
          rounds, joins, moves,  \* bounds: rounds to begin, players to seat, messages to come
          slips           \* history: calls the code lets through out of season

vars == <<table, jobs, wallet, debits, unpaid, house, rounds, joins, moves, slips>>

Betting == {"playing", "sideshow", "showdown"}
Over == {"roundEnded", "gameEnded"}
Statuses == {"waiting", "roundStarted", "initialBet", "dealCards", "removed"} \union Betting \union Over

NewPlayer == [amount |-> BuyIn, reserve |-> Reserve, lastBet |-> 0, active |-> FALSE, cards |-> FALSE,
              seen |-> FALSE, allin |-> FALSE, sidepot |-> 0, rebuying |-> FALSE]
Debit(amount, then) == [amount |-> amount, then |-> then]
NoTable == [status |-> "removed", turn |-> 0, dealer |-> 0, hidden |-> TRUE, chaal |-> 0, pot |-> 0,
            accepted |-> "unset", common |-> FALSE, endInfo |-> FALSE, players |-> <<>>]

Timed(what, delay, user) ==
  [do |-> what, left |-> delay, fresh |-> TRUE, user |-> user, side |-> FALSE, then |-> "nothing"]
Call(what, user) == Timed(what, 0, user)

Present(t) == DOMAIN t.players
Amounts(t) == MapThenSumSet(LAMBDA s : t.players[s].amount, Present(t))

TypeOK ==
  /\ table.status \in Statuses
  /\ Present(table) \subseteq Seats
  /\ {table.turn, table.dealer} \subseteq Seats \union {0}
  /\ {table.hidden, table.common, table.endInfo} \subseteq BOOLEAN
  /\ table.accepted \in {"unset", "yes", "no"}
  /\ \A s \in Present(table) :
       LET p == table.players[s]
       IN  /\ {p.amount, p.reserve, p.lastBet, p.sidepot, table.chaal, table.pot} \subseteq Nat
           /\ {p.active, p.cards, p.seen, p.allin, p.rebuying} \subseteq BOOLEAN
  /\ \A j \in jobs : j.left \in Nat /\ j.fresh \in BOOLEAN /\ j.user \in Seats \union {0}
  /\ wallet \in Int /\ {house, unpaid} \subseteq Nat
  /\ \A i \in DOMAIN debits : debits[i].amount \in Nat /\ debits[i].then \in {"nothing", "startRound"}
  /\ {rounds, joins, moves} \subseteq Nat
  /\ slips \subseteq {"join", "unpaid", "showdown", "pack", "leave"}

(* createNewTable: the queue seats two players or more, their chips are to  *)
(* be debited, which it does not wait for, and the first round starts.      *)
CreateNewTable(seats) ==
  /\ table = [NoTable EXCEPT !.status = "waiting", !.turn = 1,
                             !.chaal = InitialBet, !.players = [s \in seats |-> NewPlayer]]
  /\ jobs = {Call("startRound", 0)}
  /\ debits = [s \in seats |-> Debit(BuyIn, "nothing")]

Init ==
  /\ \E g \in Games :
       CreateNewTable(1..g.players) /\ rounds = g.rounds /\ joins = g.joins /\ moves = g.moves
  /\ wallet = 0 /\ unpaid = 0 /\ house = 0
  /\ slips = {}
-----------------------------------------------------------------------------
ActivePlayers(t) == {s \in Present(t) : t.players[s].active}
AllinPlayers(t) == {s \in Present(t) : ~t.players[s].active /\ t.players[s].allin}

After(s, seats) == IF \E x \in seats : x > s THEN Min({x \in seats : x > s}) ELSE Min(seats)

(* getNextActivePlayer: with nobody active the next player of any kind.     *)
NextActive(t) == After(t.turn, IF ActivePlayers(t) = {} THEN Present(t) ELSE ActivePlayers(t))

(* getPrevPlayerIndex                                                       *)
PrevActive(t) ==
  LET before == {s \in ActivePlayers(t) : s < t.turn}
  IN  IF before # {} THEN Max(before)
      ELSE IF ActivePlayers(t) # {} THEN Max(ActivePlayers(t)) ELSE 0

(* getNextDealer                                                            *)
NextDealer(t) ==
  LET ready == {s \in Present(t) : ~t.players[s].rebuying}
  IN  IF ready = {} THEN 0 ELSE After(t.dealer, ready)

(* The one player left has matched the bet, or nobody is left to bet.       *)
Matched(t) ==
  \/ ActivePlayers(t) = {}
  \/ /\ Cardinality(ActivePlayers(t)) = 1
     /\ t.players[Min(ActivePlayers(t))].lastBet >= t.chaal
LimitReached(t) == t.pot >= PotLimit
Alone(t) == Matched(t) \/ Cardinality(ActivePlayers(t) \union AllinPlayers(t)) <= 1

(* What a player has to pay: twice the bet when he has seen his cards.      *)
Chaal(t, s) == IF t.players[s].seen /\ t.hidden THEN 2 * t.chaal ELSE t.chaal
Limit(t) == PotLimit - t.pot

EndIf(t, ended) == IF ended THEN [t EXCEPT !.status = "roundEnded"] ELSE t
AllSeen(t) == t.hidden /\ \A s \in ActivePlayers(t) : t.players[s].seen

Money == <<wallet, debits, unpaid, house>>
Bounds == <<rounds, joins, moves, slips>>
Due(what) == {j \in jobs : j.do = what /\ j.left = 0}

(* The timers of a turn or a side show that is over will find the counters  *)
(* moved and do nothing: they are dropped here.                             *)
Stale(js) ==
  {[j EXCEPT !.fresh = @ /\ j.do # "nextTimer"] : j \in {k \in js : k.do \notin {"skipTurn", "sideshow"}}}

(* revealCards takes the lock anew, and its caller goes on after it.  The   *)
(* call that ends leaveTable comes after the call made inside it.           *)
Reveal(next) == [Call("reveal", 0) EXCEPT !.then = next]
Following(j) == IF j.then = "reveal" THEN {Reveal("nothing")} ELSE {}
AfterReveal(t, next) == IF AllSeen(t) THEN {Reveal(next)} ELSE {Call(next, 0)}

(* A job that finds no table, or finds its guard false, changes nothing.    *)
Drop(j) == jobs' = (jobs \ {j}) \union Following(j) /\ UNCHANGED <<table, Money, Bounds>>

(* The table is written and more work follows; where turnNo or roundNo was  *)
(* counted up, the timers of the turn before become stale.                  *)
Write(t, done, new) == table' = t /\ jobs' = (jobs \ done) \union new
WriteTurn(t, done, new) == table' = t /\ jobs' = Stale(jobs \ done) \union new

-----------------------------------------------------------------------------
MayStartRound(t) == t.status \in {"waiting", "roundEnded"}

(* startRound.  The pot of the round before is forgotten.                   *)
StartRound(j) ==
  /\ j \in Due("startRound")
  /\ \/ ~MayStartRound(table) /\ Drop(j)
     \/ /\ MayStartRound(table)
        /\ rounds > 0
        /\ LET dealer == IF table.dealer = 0 THEN 1 ELSE NextDealer(table)
           IN  WriteTurn([table EXCEPT
                 !.status = "roundStarted", !.chaal = InitialBet, !.pot = 0, !.hidden = TRUE,
                 !.turn = dealer, !.dealer = dealer, !.common = FALSE, !.endInfo = FALSE,
                 !.players = [s \in Present(table) |->
                    [@[s] EXCEPT !.active = table.players[s].amount > InitialBet /\ ~table.players[s].rebuying,
                                 !.lastBet = 0, !.sidepot = 0, !.seen = FALSE,
                                 !.allin = FALSE, !.cards = FALSE]]],
               {j}, {Timed("initialBet", Short, 0)})
        /\ rounds' = rounds - 1
        /\ UNCHANGED <<Money, joins, moves, slips>>

(* The timer that starts the next round looks before it takes the lock.     *)
StartRoundTimer(j) ==
  /\ j \in Due("startRoundTimer")
  /\ IF /\ Cardinality({s \in Present(table) : ~table.players[s].rebuying}) > 1
        /\ table.status = "roundEnded"
     THEN Write(table, {j}, {Call("startRound", 0)}) /\ UNCHANGED <<Money, Bounds>>
     ELSE Drop(j)

(* initialBet: every active player pays the first bet.                      *)
PlaceInitialBet(j) ==
  /\ j \in Due("initialBet")
  /\ IF table.status # "roundStarted" THEN Drop(j)
     ELSE /\ Write([table EXCEPT
               !.status = "initialBet", !.chaal = InitialBet,
               !.pot = @ + InitialBet * Cardinality(ActivePlayers(table)),
               !.players = [s \in Present(table) |->
                  IF @[s].active THEN [@[s] EXCEPT !.amount = @ - InitialBet, !.lastBet = 0]
                  ELSE @[s]]],
             {j}, {Timed("dealCards", Short, 0)})
          /\ UNCHANGED <<Money, Bounds>>

(* dealCards; the time to deal is counted as one tick.                      *)
DealCards(j) ==
  /\ j \in Due("dealCards")
  /\ IF table.status \in Over \union {"removed"} THEN Drop(j)
     ELSE /\ Write([table EXCEPT
               !.status = "dealCards", !.hidden = TRUE, !.common = TRUE,
               !.players = [s \in Present(table) |->
                              [@[s] EXCEPT !.cards = @ \/ table.players[s].active, !.seen = FALSE]]],
             {j}, {Timed("startPlaying", Short, 0)})
          /\ UNCHANGED <<Money, Bounds>>

StartPlaying(j) ==
  /\ j \in Due("startPlaying")
  /\ IF table.status # "dealCards" THEN Drop(j)
     ELSE Write([table EXCEPT !.status = "playing"], {j}, {Call("next", 0)})
          /\ UNCHANGED <<Money, Bounds>>

(* next: the round ends, or the turn passes and its timer is set.  After a  *)
(* side show the turn has been passed already; where its player has left    *)
(* there is no such player, the call throws and nobody has a turn.          *)
NextTurn(j) ==
  /\ j \in Due("next")
  /\ IF table.status \in Over \union {"removed"} THEN Drop(j)
     ELSE IF Matched(table) \/ LimitReached(table)
     THEN Write(table, {j}, {Call("roundEnd", 0)} \union Following(j)) /\ UNCHANGED <<Money, Bounds>>
     ELSE IF j.side /\ table.turn \notin Present(table) THEN Drop(j)
     ELSE /\ WriteTurn([table EXCEPT !.turn = IF j.side THEN @ ELSE NextActive(table),
                                     !.accepted = "unset", !.status = "playing"],
                       {j}, {Timed("skipTurn", Turn, 0)} \union Following(j))
          /\ UNCHANGED <<Money, Bounds>>

(* The skipTurn timer looks, gives the lock back and has the player leave.  *)
SkipTurn(j) ==
  /\ j \in Due("skipTurn")
  /\ IF table.status \notin Over /\ table.turn \in Present(table)
     THEN Write(table, {j}, {Call("leave", table.turn)}) /\ UNCHANGED <<Money, Bounds>>
     ELSE Drop(j)

(* The next timer forgets the answer to the side show before it looks.      *)
NextTimer(j) ==
  /\ j \in Due("nextTimer")
  /\ Write([table EXCEPT !.accepted = "unset"], {j},
           IF j.fresh /\ table.status \notin Over THEN {[Call("next", 0) EXCEPT !.side = j.side]} ELSE {})
  /\ UNCHANGED <<Money, Bounds>>

(* revealCards: the bet doubles, and what followed the call follows.        *)
RevealCards(j) ==
  /\ j \in Due("reveal")
  /\ LET after == CASE j.then = "nothing" -> {}
                    [] j.then \in {"nextTimer", "roundEnded"} -> {Timed(j.then, Short, 0)}
                    [] OTHER -> {Call(j.then, 0)}
     IN  Write(IF table.common /\ table.hidden
               THEN [table EXCEPT !.hidden = FALSE, !.chaal = 2 * @,
                       !.players = [s \in Present(table) |->
                                      [@[s] EXCEPT !.seen = @ \/ table.players[s].active]]]
               ELSE table,
               {j}, after)
  /\ UNCHANGED <<Money, Bounds>>


(* roundEnd, called again where two calls saw the round over.               *)
RoundEnd(j) ==
  /\ j \in Due("roundEnd")
  /\ IF table.status \in {"gameEnded", "removed"} THEN Drop(j)
     ELSE /\ Write([table EXCEPT !.status = "roundEnded"], {j},
                   {IF table.hidden THEN Reveal("roundEnded") ELSE Timed("roundEnded", Short, 0)}
                     \union Following(j))
          /\ UNCHANGED <<Money, Bounds>>
-----------------------------------------------------------------------------
(* What the best hand still waiting takes: an all-in player no more than    *)
(* the pot was when he went all in.                                         *)
Take(t, s, left) ==
  IF t.players[s].allin /\ t.players[s].sidepot < left THEN t.players[s].sidepot ELSE left

(* gameEnd: the hands are paid in the order of their strength.  What is     *)
(* left when all are paid goes to nobody.                                   *)
PotLeft(t, hands) ==
  LET left[i \in 0..Len(hands)] ==
        IF i = 0 THEN t.pot ELSE left[i - 1] - Take(t, hands[i], left[i - 1])
  IN  left

(* The order of the hands is the luck of the cards; with no cards dealt the *)
(* first player of the table takes the pot.                                 *)
Contenders(t) == ActivePlayers(t) \union AllinPlayers(t)
Rankings(t) ==
  {hands \in SetToSeqs(Contenders(t)) : t.common \/ hands = <<>> \/ hands[1] = Min(Contenders(t))}

PaidOut(t, hands) ==
  LET left == PotLeft(t, hands)
  IN  [t EXCEPT !.pot = 0, !.hidden = FALSE, !.endInfo = TRUE,
         !.players = [s \in Present(t) |->
            [@[s] EXCEPT !.amount = @ + SumSet({left[i - 1] - left[i] :
                                          i \in {k \in DOMAIN hands : hands[k] = s}})]]]

Broke(t) == {s \in Present(t) : t.players[s].amount <= InitialBet /\ ~t.players[s].rebuying}
CanRebuy(t) == {s \in Broke(t) : t.players[s].amount + t.players[s].reserve >= InitialBet}

(* gameEnded under maintenance: every player is paid and the table is gone. *)
CloseForMaintenance(j, t, left) ==
  /\ wallet' = wallet - Amounts(t)
  /\ house' = house + left
  /\ table' = NoTable
  /\ jobs' = jobs \ {j}
  /\ UNCHANGED <<debits, unpaid, Bounds>>

(* gameEnded: the pot is paid, players without chips are asked to rebuy or  *)
(* are sent away, and the next round is set up or the game ends.            *)
GameEnded(j) ==
  /\ j \in Due("roundEnded")
  /\ IF table.status \in {"gameEnded", "removed"} THEN Drop(j)
     ELSE \E hands \in Rankings(table) :
       LET paid == PaidOut(table, hands)
           left == PotLeft(table, hands)[Len(hands)]
           asked == [paid EXCEPT !.players =
                       [s \in Present(paid) |->
                          [@[s] EXCEPT !.rebuying = @ \/ s \in CanRebuy(paid)]]]
           few == Cardinality(Present(paid)) < 2
       IN \/ CloseForMaintenance(j, paid, left)
          \/ /\ WriteTurn(IF few THEN [asked EXCEPT !.status = "gameEnded"] ELSE asked, {j},
                  {Timed("rebuy", Pause, s) : s \in CanRebuy(paid)}
                  \union {Timed("rebuyBalanceLeave", Pause, s) : s \in Broke(paid) \ CanRebuy(paid)}
                  \union {IF few THEN Call("endGame", 0) ELSE Timed("startRoundTimer", Decide, 0)})
             /\ house' = house + left
             /\ UNCHANGED <<wallet, debits, unpaid, Bounds>>

EndGame(j) ==
  /\ j \in Due("endGame")
  /\ IF table.status = "removed" THEN Drop(j)
     ELSE /\ Write([table EXCEPT !.status = "gameEnded"], {j},
                   {Timed("endTable", Short, 0)} \union Following(j))
          /\ UNCHANGED <<Money, Bounds>>

(* endTable: the last player takes what he has, and the pot where he played *)
(* for it.  With two players a new round is to begin, which an ended game   *)
(* refuses.                                                                 *)
EndTable(j) ==
  /\ j \in Due("endTable")
  /\ IF table.status = "removed" THEN Drop(j)
     ELSE IF Cardinality(Present(table)) > 1
     THEN Write(table, {j}, {Call("startRound", 0)}) /\ UNCHANGED <<Money, Bounds>>
     ELSE LET won == IF Contenders(table) # {} THEN table.pot ELSE 0
          IN  /\ wallet' = wallet - Amounts(table) - won
              /\ house' = house + table.pot - won
              /\ Write(NoTable, {j}, {})
              /\ UNCHANGED <<debits, unpaid, Bounds>>

Without(t, s) == [t EXCEPT !.players = RestrictDomain(@, LAMBDA x : x # s)]

(* tableService.leaveTable: where the turn goes, and whether the round or   *)
(* the game is over.                                                        *)
WithoutPlayer(t, s, sideshow) ==
  LET gone == Without(t, s)
      moved == IF \/ sideshow
                  \/ t.turn = s /\ t.status = "dealCards"
                  \/ t.turn = s /\ t.status = "playing" /\ t.accepted # "unset"
               THEN [gone EXCEPT !.turn = NextActive(gone)] ELSE gone
      ended == EndIf(moved, Alone(moved) /\ moved.status \notin Over)
  IN  IF Cardinality(Present(ended)) < 2 THEN [ended EXCEPT !.status = "gameEnded"] ELSE ended

(* What tableService.leaveTable calls when the table is written.            *)
CallAfterLeaving(t, after, s, sideshow) ==
  IF Cardinality(Present(after)) < 2 THEN {Call("endGame", 0)}
  ELSE IF Alone(after) /\ after.status # "gameEnded" /\ t.status # "roundEnded"
  THEN {Call("roundEnd", 0)}
  ELSE IF after.turn = s /\ after.status = "playing" /\ (after.accepted = "unset" \/ sideshow)
  THEN {[Call("next", 0) EXCEPT !.side = sideshow]} ELSE {}

(* leaveTable, whoever asks for it: the player's chips go back to the       *)
(* wallet; a side show he was part of is settled.                           *)
LeaveTable(s, done) ==
  LET receiver == table.status = "sideshow" /\ PrevActive(table) = s
      starter == table.status = "sideshow" /\ ~receiver /\ table.turn = s
      settled == IF receiver THEN [table EXCEPT !.accepted = "no", !.status = "playing"]
                 ELSE IF starter THEN [table EXCEPT !.accepted = "yes", !.status = "playing"]
                 ELSE table
      after == WithoutPlayer(settled, s, receiver \/ starter)
      calls == CallAfterLeaving(settled, after, s, receiver \/ starter)
      timers == IF receiver THEN {Timed("sideshowReject", Pause, 0)}
                ELSE IF starter THEN {[Timed("nextTimer", Pause, 0) EXCEPT !.side = TRUE]}
                ELSE {}
      reveal == IF ~AllSeen(after) THEN calls
                ELSE IF calls = {} THEN {Reveal("nothing")}
                ELSE {[c EXCEPT !.then = "reveal"] : c \in calls}
  IN  /\ s \in Present(table)
      /\ Cardinality(Present(table)) > 1
      /\ IF receiver \/ starter THEN WriteTurn(after, done, timers \union reveal)
         ELSE Write(after, done, reveal)
      /\ wallet' = wallet - table.players[s].amount
      /\ slips' = IF table.status = "waiting" THEN slips \union {"leave"} ELSE slips
      /\ UNCHANGED <<debits, unpaid, house, rounds, joins>>

Leave(j) ==
  /\ j \in Due("leave")
  /\ \/ LeaveTable(j.user, {j}) /\ UNCHANGED moves
     \/ ~(j.user \in Present(table) /\ Cardinality(Present(table)) > 1) /\ Drop(j)

(* The leaveTable message.                                                  *)
LeaveByHand(s) == moves > 0 /\ LeaveTable(s, {}) /\ moves' = moves - 1

(* The timers that end a player's time to buy chips.                        *)
AskForRebuy(j) ==
  /\ j \in Due("rebuy")
  /\ IF j.user \in Present(table)
     THEN Write(table, {j}, {Timed("rebuyTimeout", Turn, j.user)}) /\ UNCHANGED <<Money, Bounds>>
     ELSE Drop(j)

LeaveForChips(j) ==
  /\ j \in Due("rebuyTimeout") \union Due("rebuyBalanceLeave")
  /\ IF /\ j.user \in Present(table)
        /\ j.do = "rebuyTimeout" => table.players[j.user].rebuying
     THEN Write(table, {j}, {Call("leave", j.user)}) /\ UNCHANGED <<Money, Bounds>>
     ELSE Drop(j)

(* pack, of the player named or else of the player whose turn it is by now. *)
Pack(j) ==
  LET s == IF j.user # 0 THEN j.user ELSE table.turn
      packed == [table EXCEPT !.players[s].active = FALSE, !.status = "playing"]
      next == [Call("next", 0) EXCEPT !.side = j.user # 0]
  IN  /\ j \in Due("pack")
      /\ IF table.status = "removed" THEN Drop(j)
         ELSE IF s \notin Present(table) \/ ~(table.players[s].active \/ table.players[s].cards)
         THEN Write(table, {j}, IF j.user # 0 THEN {next} ELSE {}) /\ UNCHANGED <<Money, Bounds>>
         ELSE /\ IF Alone(packed)
                 THEN WriteTurn(EndIf(packed, TRUE), {j}, {Call("roundEnd", 0)})
                 ELSE WriteTurn(packed, {j}, IF AllSeen(packed) THEN {Reveal("nextTimer")} ELSE {next})
              /\ slips' = IF table.status \in Betting THEN slips ELSE slips \union {"pack"}
              /\ UNCHANGED <<Money, rounds, joins, moves>>

(* The sideshow timers: the receiver who did not answer packs; the loser of *)
(* a side show packs; after a refusal the next player goes on.              *)
SideshowTimer(j) ==
  /\ j \in Due("sideshow")
  /\ IF table.status \notin Over \union {"removed"}
     THEN Write([table EXCEPT !.turn = NextActive(table)], {j}, {Call("pack", j.user)})
          /\ UNCHANGED <<Money, Bounds>>
     ELSE Drop(j)

SideshowSettled(j) ==
  /\ j \in Due("sideshowAccept") \union Due("sideshowReject")
  /\ IF table.status \in Over \union {"removed"} THEN Drop(j)
     ELSE Write([table EXCEPT !.status = "playing", !.accepted = "unset"], {j},
                {IF j.do = "sideshowAccept" THEN Call("pack", j.user)
                 ELSE [Call("next", 0) EXCEPT !.side = TRUE]})
          /\ UNCHANGED <<Money, Bounds>>
-----------------------------------------------------------------------------
Player(s) == table.players[s]
Received == moves > 0 /\ moves' = moves - 1
OnTurn(s) == s \in Present(table) /\ Player(s).active /\ table.turn = s

(* The bet moves from the player into the pot.                              *)
Bet(t, s, amount, last) ==
  [t EXCEPT !.players[s].amount = @ - amount, !.players[s].lastBet = last, !.pot = @ + amount]

(* Mutant: chips are staked that the player does not have.                  *)
CanBetAnything(t, s) == TRUE

CanBet(t, s) == LET owed == Chaal(t, s)
                IN  (IF owed > Limit(t) THEN Limit(t) ELSE owed) < t.players[s].amount

(* chaalBet: the player pays the bet, or what the limit leaves of it.       *)
ChaalBet(t, s) ==
  LET owed == Chaal(t, s)
      bet == Bet(t, s, IF owed > Limit(t) THEN Limit(t) ELSE owed, t.chaal)
  IN  EndIf(bet, LimitReached(bet) \/ (ActivePlayers(bet) = {s} /\ Matched(bet)))

Proceed(t) ==
  WriteTurn(t, {}, {Call(IF t.status = "roundEnded" THEN "roundEnd" ELSE "next", 0)})

ChaalMessage(s) ==
  /\ table.status = "playing"
  /\ OnTurn(s)
  /\ CanBet(table, s)
  /\ Limit(table) >= 0
  /\ Proceed(ChaalBet(table, s))
  /\ Received /\ UNCHANGED <<Money, rounds, joins, slips>>

Raise(s, amount) ==
  LET bet == Bet([table EXCEPT !.chaal = amount], s, amount, amount)
  IN  /\ table.status = "playing"
      /\ OnTurn(s)
      /\ 0 < amount /\ amount < Player(s).amount
      /\ amount <= Limit(table)
      /\ Limit(table) >= Chaal(table, s) => amount > Chaal(table, s)
      /\ Proceed(EndIf(bet, LimitReached(bet) \/ (ActivePlayers(bet) = {s} /\ Matched(bet))))
      /\ Received /\ UNCHANGED <<Money, rounds, joins, slips>>

(* allin: the player stakes all he has and acts no more; the pot as it is   *)
(* then is the most he can win.                                             *)
Allin(s) ==
  LET all == Player(s).amount
      bet == [Bet(table, s, all, all) EXCEPT
                !.players[s].active = FALSE, !.players[s].allin = TRUE, !.players[s].seen = TRUE,
                !.players[s].sidepot = table.pot + all,
                !.chaal = IF all > @ THEN all ELSE @]
      ended == EndIf(bet, Matched(bet) \/ LimitReached(bet))
      next == IF ended.status = "roundEnded" THEN "roundEnd" ELSE "next"
  IN  /\ table.status = "playing"
      /\ OnTurn(s)
      /\ all <= Limit(table)
      /\ WriteTurn(ended, {}, AfterReveal(ended, next))
      /\ Received /\ UNCHANGED <<Money, rounds, joins, slips>>

See(s) ==
  LET seen == [table EXCEPT !.players[s].seen = TRUE]
  IN  /\ table.status \in {"playing", "sideshow"}
      /\ s \in Present(table)
      /\ Player(s).active
      /\ Write(seen, {}, IF AllSeen(seen) THEN {Reveal("nothing")} ELSE {})
      /\ Received /\ UNCHANGED <<Money, rounds, joins, slips>>

(* The pack message: the turn is looked at, and the lock is given back      *)
(* before the packing begins.                                               *)
PackMessage(s) ==
  /\ table.status = "playing"
  /\ s \in Present(table) /\ table.turn = s
  /\ Write(table, {}, {Call("pack", 0)})
  /\ Received /\ UNCHANGED <<Money, rounds, joins, slips>>

(* showdown, which does not ask whether the game is being played.           *)
Showdown(s) ==
  LET t == [table EXCEPT !.status = "showdown"]
  IN  /\ OnTurn(s)
      /\ Cardinality(ActivePlayers(t)) = 2
      /\ Limit(t) > Chaal(t, s)
      /\ CanBet(t, s)
      /\ WriteTurn(ChaalBet(t, s), {}, {Call("roundEnd", 0)})
      /\ slips' = IF table.status \in Betting THEN slips ELSE slips \union {"showdown"}
      /\ Received /\ UNCHANGED <<Money, rounds, joins>>

(* sideshow: the player pays the bet and asks the player before him.        *)
Sideshow(s) ==
  LET t == [table EXCEPT !.status = "sideshow"]
      receiver == PrevActive(t)
  IN  /\ table.status = "playing"
      /\ OnTurn(s)
      /\ Cardinality(ActivePlayers(t)) >= 3
      /\ Limit(t) > Chaal(t, s)
      /\ Player(s).seen /\ Player(receiver).seen
      /\ CanBet(t, s)
      /\ WriteTurn(ChaalBet(t, s), {}, {Timed("sideshow", Turn, receiver)})
      /\ Received /\ UNCHANGED <<Money, rounds, joins, slips>>

(* sideshowRes: the weaker hand, which the cards decide, is out.            *)
SideshowRes(s) ==
  /\ table.status = "sideshow"
  /\ s \in Present(table)
  /\ s = PrevActive(table)
  /\ \E accepted \in BOOLEAN, loser \in {0, s, table.turn} \intersect ({0} \union Present(table)) :
       LET t == [table EXCEPT !.accepted = IF accepted THEN "yes" ELSE "no", !.status = "playing"]
           out == IF loser = 0 THEN t ELSE [t EXCEPT !.players[loser].active = FALSE]
       IN  /\ ~accepted => loser = 0
           /\ WriteTurn([out EXCEPT !.turn = NextActive(out)], {},
                {IF loser # 0 THEN Timed("sideshowAccept", Pause, loser)
                 ELSE Timed("sideshowReject", Pause, 0)})
  /\ Received /\ UNCHANGED <<Money, rounds, joins, slips>>

(* debitTable asks the wallet, which may refuse what the table has counted  *)
(* already: its balance is the table's copy of it no more.  A join that was *)
(* refused leaves the newcomer seated and starts no round.                  *)
DebitTable(i) ==
  LET debit == debits[i]
  IN  /\ debits' = RemoveAt(debits, i)
      /\ \/ /\ wallet' = wallet + debit.amount
            /\ jobs' = IF debit.then = "startRound" THEN jobs \union {Call("startRound", 0)} ELSE jobs
            /\ UNCHANGED <<unpaid, slips>>
         \/ /\ unpaid + debit.amount <= MaxUnpaid
            /\ unpaid' = unpaid + debit.amount
            /\ slips' = IF debit.then = "startRound" THEN slips \union {"unpaid"} ELSE slips
            /\ UNCHANGED <<jobs, wallet>>
      /\ UNCHANGED <<table, house, rounds, joins, moves>>

(* rebuyRes: chips for any part of what the table thinks is left, asked for *)
(* or not; the debit is not waited for.                                     *)
RebuyRes(s) ==
  \E amount \in 1..Player(s).reserve :
    LET t == [table EXCEPT !.players[s].amount = @ + amount, !.players[s].reserve = @ - amount,
                           !.players[s].rebuying = FALSE]
        ready == {x \in Present(t) : ~t.players[x].rebuying}
    IN  /\ debits' = Append(debits, Debit(amount, "nothing"))
        /\ Write(t, {}, IF Cardinality(ready) = 2 /\ t.status = "roundEnded" /\ t.endInfo
                        THEN {Call("startRound", 0)} ELSE {})
        /\ Received /\ UNCHANGED <<wallet, unpaid, house, rounds, joins, slips>>

(* match finds a free seat; the newcomer is seated under the lock, later.   *)
FindSeat ==
  /\ table.status \notin {"gameEnded", "removed"}
  /\ Present(table) # Seats
  /\ joins > 0
  /\ joins' = joins - 1
  /\ Write(table, {}, {Call("join", 0)})
  /\ UNCHANGED <<Money, rounds, moves, slips>>

(* joinExistingTable: the first free seat; a table that waits for a second  *)
(* player goes on when the newcomer's chips are debited.                    *)
JoinExistingTable(j) ==
  LET free == Seats \ Present(table)
      seated == [table EXCEPT !.players = [s \in Present(table) \union {Min(free)} |->
                                             IF s \in Present(table) THEN @[s] ELSE NewPlayer]]
      idle == /\ Cardinality({s \in Present(table) : ~table.players[s].rebuying}) = 1
              /\ table.status = "roundEnded" /\ table.endInfo
  IN  /\ j \in Due("join")
      /\ IF table.status = "removed" \/ free = {} THEN Drop(j)
         ELSE /\ Write(seated, {j}, {})
              /\ debits' = Append(debits, Debit(BuyIn, IF idle THEN "startRound" ELSE "nothing"))
              /\ slips' = IF table.status = "gameEnded" THEN slips \union {"join"} ELSE slips
              /\ UNCHANGED <<wallet, unpaid, house, rounds, joins, moves>>

(* Time passes when every call and every timer that is due has run, and the *)
(* wallet has answered; to a timer that is alone it passes at once.         *)
Tick ==
  /\ jobs # {} /\ debits = <<>>
  /\ \A j \in jobs : j.left > 0
  /\ jobs' = {[j EXCEPT !.left = IF Cardinality(jobs) = 1 THEN 0 ELSE @ - 1] : j \in jobs}
  /\ UNCHANGED <<table, Money, Bounds>>

RunTimer(j) ==
  \/ StartRoundTimer(j) \/ PlaceInitialBet(j) \/ DealCards(j) \/ StartPlaying(j)
  \/ SkipTurn(j) \/ NextTimer(j) \/ GameEnded(j) \/ EndTable(j)
  \/ AskForRebuy(j) \/ LeaveForChips(j) \/ SideshowTimer(j) \/ SideshowSettled(j)
RunCall(j) ==
  \/ StartRound(j) \/ NextTurn(j) \/ RevealCards(j) \/ RoundEnd(j) \/ EndGame(j)
  \/ Leave(j) \/ Pack(j) \/ JoinExistingTable(j)
RunJob(j) == RunTimer(j) \/ RunCall(j)

Act(s) ==
  \/ ChaalMessage(s) \/ Allin(s) \/ See(s) \/ PackMessage(s) \/ Showdown(s) \/ Sideshow(s)
  \/ SideshowRes(s) \/ (s \in Present(table) /\ RebuyRes(s)) \/ LeaveByHand(s)
  \/ \E amount \in Raises : Raise(s, amount)

(* What follows a slip is not explored.                                     *)
Followed(x) == IF slips = {} THEN x ELSE {}

Next ==
  \/ \E j \in Followed(jobs) : RunJob(j)
  \/ \E s \in Followed(Seats) : Act(s)
  \/ \E i \in Followed(DOMAIN debits) : DebitTable(i)
  \/ FindSeat
  \/ Tick

Spec == Init /\ [][Next]_vars
-----------------------------------------------------------------------------
(* Every chip a wallet has given, is asked for or has refused is at the     *)
(* table, in the pot, or was in a pot nobody was entitled to: no round      *)
(* begins, no player leaves or buys chips and no pot is paid in a way that  *)
(* makes or loses chips, unless a handler ran that asked for no status.     *)
ChipsAreConserved ==
  slips = {} => wallet + MapThenSumSet(LAMBDA i : debits[i].amount, DOMAIN debits) + unpaid
                  = Amounts(table) + table.pot + house

(* A table never comes to a standstill: while it exists, some call or timer *)
(* is pending that carries the game on, and between rounds the time to buy  *)
(* chips counts as one, unless a newcomer's debit was refused.              *)
CarriesOn(j) ==
  /\ j.do # "join"
  /\ j.do = "reveal" => j.then # "nothing"
  /\ j.do \in {"rebuy", "rebuyTimeout", "rebuyBalanceLeave"} => table.status = "roundEnded"
GameGoesOn ==
  slips = {} /\ table.status # "removed" =>
    \/ \E j \in jobs : CarriesOn(j)
    \/ \E i \in DOMAIN debits : debits[i].then = "startRound"
=============================================================================
