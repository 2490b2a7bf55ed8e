------------------------------ MODULE Callbreak ------------------------------
(***************************************************************************)
(* One table of Callbreak, from the moment its fourth player is seated to   *)
(* its removal.  Bids and cards, the automatic ones too, are made under the *)
(* table lock, which the one that ends the bidding or a hand keeps for two  *)
(* seconds more.  The calls that timers make without the lock, to begin a   *)
(* round, the bidding or the next hand and to end the game, read the table  *)
(* and write what they read later: they are two actions each.              *)
(*                                                                         *)
(* Cards are counted, never named (CallbreakRules has their rules): any     *)
(* player may win a hand, a round or the game.  Bids are kept as made or    *)
(* not made.                                                                *)
(***************************************************************************)
EXTENDS Integers, FiniteSets

CONSTANTS Hands,          \* 13 cards, so 13 hands to a round
          Rounds,         \* totalRounds of the table type
          Keep,           \* the delays, in ticks: 2 seconds, with the lock held
          Short,          \* autoTimeout, startTimeout, ...
          Turn,           \* actionTimeout
          MaxMoves        \* bound: messages from players

VARIABLES table,          \* the table in Redis
          jobs,           \* pending calls, timers and handlers half done
          fees, payouts,  \* history: players who paid, and times the table has paid out
          moves,          \* bound: messages to come
          slips           \* history: what the code lets through, after which we look away

vars == <<table, jobs, fees, payouts, moves, slips>>

Seats == 1..4
Statuses == {"roundStarted", "dealCards", "handBid", "playing", "roundEnded", "gameEnded", "removed"}

NoTable == [status |-> "removed", turn |-> 1, turnNo |-> 0, handNo |-> 0, roundNo |-> 0,
            dealer |-> 1, active |-> {}, bid |-> {}, thrown |-> {}]

Timed(what, delay) ==
  [do |-> what, left |-> delay, turnNo |-> 0, auto |-> FALSE, clean |-> TRUE, base |-> NoTable]
Call(what) == Timed(what, 0)
Half(what) == [Call(what) EXCEPT !.base = table]

TypeOK ==
  /\ table.status \in Statuses
  /\ {table.turn, table.dealer} \subseteq Seats
  /\ {table.active, table.bid, table.thrown} \subseteq SUBSET Seats
  /\ table.handNo \in 0..Hands + 1 /\ table.roundNo \in 0..Rounds
  /\ table.turnNo \in 0..4 * Hands + 5
  /\ \A j \in jobs : j.left \in Nat /\ j.turnNo \in Nat /\ j.auto \in BOOLEAN
  /\ fees \in {0, 4} /\ payouts \in Nat /\ moves \in Nat
  /\ slips \subseteq {"overwritten", "not debited", "not paid"}

Init ==
  /\ table = [NoTable EXCEPT !.status = "roundStarted", !.active = Seats]
  /\ jobs = {Call("gameStart")}
  /\ fees = 0 /\ payouts = 0
  /\ moves = MaxMoves
  /\ slips = {}
-----------------------------------------------------------------------------
Due(what) == {j \in jobs : j.do = what /\ j.left = 0}
Next4(s) == IF s = 4 THEN 1 ELSE s + 1

(* The lock stays taken while a handler waits out its delay.                *)
Keepers == {"firstThrow", "endHand"}
Unlocked == \A j \in jobs : j.do \notin Keepers

Touched(js) == {[j EXCEPT !.clean = @ /\ j.base = NoTable] : j \in js}
Write(t, done, new) == table' = t /\ jobs' = Touched(jobs \ done) \union new
Look(done, new) == jobs' = (jobs \ done) \union new /\ UNCHANGED table
Exists == table.status # "removed"
Money == <<fees, payouts>>
Quiet == UNCHANGED <<Money, moves, slips>>
Drop(j) == Look({j}, {}) /\ Quiet

(* The player on turn has the time of a turn, or the short one when he has  *)
(* left; in that case the timer acts whatever the turn is by then.          *)
TurnTimer(what, t) ==
  [Timed(what, IF t.turn \in t.active THEN Turn ELSE Short)
     EXCEPT !.turnNo = t.turnNo, !.auto = t.turn \notin t.active]

(* startRound                                                               *)
Started(t, dealer) ==
  [t EXCEPT !.status = "roundStarted", !.roundNo = @ + 1, !.handNo = 1, !.turnNo = 0,
            !.dealer = dealer, !.turn = dealer, !.bid = {}, !.thrown = {}]

(* gameStart: when the fees cannot be taken the table is left as it is.     *)
GameStart(j) ==
  /\ j \in Due("gameStart")
  /\ Exists
  /\ \/ /\ fees' = 4
        /\ Write(Started(table, 1), {j}, {Timed("dealCards", Short)})
        /\ UNCHANGED slips
     \/ /\ Look({j}, {})
        /\ slips' = slips \union {"not debited"}
        /\ UNCHANGED fees
  /\ UNCHANGED <<payouts, moves>>

(* A timer, or the call it has made, finds the table gone.                  *)
LateTimer(j) ==
  /\ j.left = 0
  /\ j.do \notin Keepers
  /\ j.base = NoTable
  /\ table.status = "removed"
  /\ Drop(j)

(* What is written without the lock undoes whatever happened since.         *)
Overwrites(j) == slips' = IF j.clean THEN slips ELSE slips \union {"overwritten"}

(* The handlers that take no lock read the table, and write it later.       *)
ReadUnlocked(j) ==
  /\ j.do \in {"startRound", "afterDealCards", "nextHand", "gameEnded"}
  /\ j.left = 0 /\ j.base = NoTable
  /\ Exists
  /\ Look({j}, {Half(j.do)})
  /\ Quiet

Halfway(what) == {j \in Due(what) : j.base # NoTable}

(* The player with the best score of the last round deals.                  *)
StartRound(j) ==
  /\ j \in Halfway("startRound")
  /\ \E dealer \in Seats : Write(Started(j.base, dealer), {j}, {Timed("dealCards", Short)})
  /\ Overwrites(j) /\ UNCHANGED <<Money, moves>>

DealCards(j) ==
  /\ j \in Due("dealCards")
  /\ Exists /\ Unlocked
  /\ Write([table EXCEPT !.status = "dealCards"], {j}, {Timed("afterDealCards", Short)})
  /\ Quiet

(* handBid: the player on turn is asked for his bid.                        *)
AskedToBid(t) == [t EXCEPT !.status = "handBid"]
HandBid(j) ==
  /\ j \in Halfway("afterDealCards")
  /\ Write(AskedToBid(j.base), {j}, {TurnTimer("handBid", j.base)})
  /\ Overwrites(j) /\ UNCHANGED <<Money, moves>>

(* throwCard: the player on turn is asked for a card.                       *)
AskedToThrow(t) == [t EXCEPT !.status = "playing"]
NextHand(j) ==
  /\ j \in Halfway("nextHand")
  /\ Write(AskedToThrow(j.base), {j}, {TurnTimer("throwCard", j.base)})
  /\ Overwrites(j) /\ UNCHANGED <<Money, moves>>
-----------------------------------------------------------------------------
(* The timer of a turn compares the turn before it waits for the lock.      *)
BidTimer(j) ==
  /\ j \in Due("handBid")
  /\ Exists
  /\ Look({j}, IF j.turnNo < 4 /\ (j.turnNo = table.turnNo \/ j.auto) THEN {Call("autoHandBid")} ELSE {})
  /\ Quiet

ThrowTimer(j) ==
  /\ j \in Due("throwCard")
  /\ Exists
  /\ Look({j}, IF j.turnNo = table.turnNo \/ j.auto THEN {Call("autoThrowCard")} ELSE {})
  /\ Quiet

(* A bid, and the question to the next player; after the fourth the cards.  *)
Bid(done) ==
  LET t == [table EXCEPT !.bid = @ \union {table.turn}, !.turnNo = @ + 1, !.turn = Next4(@)]
  IN  Write(t, done, {IF t.turnNo = 4 THEN Timed("firstThrow", Keep) ELSE TurnTimer("handBid", t)})

(* autoHandBid asks for the state of the game, not for the turn again.      *)
AutoHandBid(j) ==
  /\ j \in Due("autoHandBid")
  /\ Exists /\ Unlocked
  /\ IF table.status = "handBid" THEN Bid({j}) /\ Quiet ELSE Drop(j)

FirstThrow(j) ==
  /\ j \in Due("firstThrow")
  /\ Write(AskedToThrow(table), {j}, {TurnTimer("throwCard", table)})
  /\ Quiet

(* Mutant: a card thrown is not remembered.                                 *)
ThrowForgotten(done) ==
  LET t == [table EXCEPT !.turnNo = @ + 1, !.turn = Next4(@)]
  IN  Write(t, done, {IF t.turnNo % 4 = 0 /\ t.turnNo > 6 THEN Timed("endHand", Keep)
                      ELSE TurnTimer("throwCard", t)})

(* A card, and the question to the next player; after the fourth the hand   *)
(* is over.  When all hands are played there is no card to throw, and the   *)
(* turn passes once before the handler fails to compare cards.              *)
Throw(done) ==
  LET t == [table EXCEPT !.thrown = IF table.handNo <= Hands THEN @ \union {table.turn} ELSE @,
                         !.turnNo = @ + 1, !.turn = Next4(@)]
  IN  Write(t, done, {IF t.turnNo % 4 = 0 /\ t.turnNo > 6 THEN Timed("endHand", Keep)
                      ELSE TurnTimer("throwCard", t)})

(* autoThrowCard: likewise.                                                 *)
AutoThrowCard(j) ==
  /\ j \in Due("autoThrowCard")
  /\ Exists /\ Unlocked
  /\ IF table.status = "playing" /\ (table.handNo <= Hands \/ table.turnNo % 4 = 0)
     THEN Throw({j}) /\ Quiet ELSE Drop(j)

(* endHand: the winner leads the next hand.                                 *)
EndHand(j) ==
  /\ j \in Due("endHand")
  /\ \E winner \in table.thrown :
       Write([table EXCEPT !.thrown = {}, !.dealer = winner, !.turn = winner, !.handNo = @ + 1],
             {j}, {Timed(IF table.handNo = Hands THEN "roundEnded" ELSE "nextHand", Short)})
  /\ Quiet

(* endRound                                                                 *)
EndRound(j) ==
  LET last == table.roundNo = Rounds
  IN  /\ j \in Due("roundEnded")
      /\ Exists /\ Unlocked
      /\ Write([table EXCEPT !.turnNo = 0, !.status = IF last THEN "gameEnded" ELSE "roundEnded"],
               {j}, {Timed(IF last THEN "gameEnded" ELSE "startRound", Short)})
      /\ Quiet
-----------------------------------------------------------------------------
Received == moves > 0 /\ moves' = moves - 1

HandBidMessage(s) ==
  /\ s \in table.active
  /\ Unlocked
  /\ table.status = "handBid" /\ table.turnNo < 4
  /\ table.turn = s
  /\ Bid({})
  /\ Received /\ UNCHANGED <<Money, slips>>

(* The player may throw as soon as the hand before is over.                 *)
ThrowCardMessage(s) ==
  /\ s \in table.active
  /\ Unlocked
  /\ table.status = "playing" /\ table.turnNo >= 4
  /\ table.turn = s
  /\ s \notin table.thrown
  /\ table.handNo <= Hands
  /\ Throw({})
  /\ Received /\ UNCHANGED <<Money, slips>>

(* endGame of the service, through addWinningAmount to removeTable; when    *)
(* the wallets cannot be reached the table stays.                           *)
PaidOut(done) ==
  \/ /\ payouts' = payouts + 1
     /\ Write(NoTable, done, {})
     /\ slips' = IF fees = 0 THEN slips \union {"not debited"} ELSE slips
  \/ /\ Write([table EXCEPT !.status = "gameEnded"], done, {})
     /\ slips' = slips \union {"not paid"}
     /\ UNCHANGED payouts

(* leaveTable: the cards of a player who leaves are played for him; when    *)
(* one is left he has won.                                                  *)
LeaveTable(s) ==
  LET active == table.active \ {s}
  IN  /\ s \in table.active
      /\ Unlocked
      /\ table.status # "gameEnded"
      /\ IF Cardinality(active) = 1 THEN PaidOut({})
         ELSE Write([table EXCEPT !.active = active], {}, {}) /\ UNCHANGED <<payouts, slips>>
      /\ Received /\ UNCHANGED fees

(* gameEnded, called by the timer: the table is written as it was read.     *)
GameEnded(j) ==
  /\ j \in Halfway("gameEnded")
  /\ IF j.clean THEN PaidOut({j})
     ELSE Write(j.base, {j}, {}) /\ slips' = slips \union {"overwritten"} /\ UNCHANGED payouts
  /\ UNCHANGED <<fees, moves>>

(* clearTable, for staff: those who are still there are given the fee back, *)
(* whether it was taken or not.                                             *)
ClearTable ==
  /\ Exists /\ Unlocked
  /\ payouts' = payouts + 1
  /\ Write(NoTable, {}, {})
  /\ slips' = IF fees = 0 THEN slips \union {"not debited"} ELSE slips
  /\ Received /\ UNCHANGED fees

(* Time passes when every call that is due has run.                         *)
Tick ==
  /\ jobs # {}
  /\ \A j \in jobs : j.left > 0
  /\ jobs' = {[j EXCEPT !.left = IF Cardinality(jobs) = 1 THEN 0 ELSE @ - 1] : j \in jobs}
  /\ UNCHANGED table /\ Quiet

RunJob(j) ==
  \/ GameStart(j) \/ LateTimer(j) \/ ReadUnlocked(j) \/ StartRound(j) \/ DealCards(j)
  \/ HandBid(j) \/ NextHand(j) \/ BidTimer(j) \/ ThrowTimer(j) \/ AutoHandBid(j)
  \/ FirstThrow(j) \/ AutoThrowCard(j) \/ EndHand(j) \/ EndRound(j) \/ GameEnded(j)

(* What follows a slip is not explored.                                     *)
Followed(x) == IF slips = {} THEN x ELSE {}

Next ==
  \/ \E j \in Followed(jobs) : RunJob(j)
  \/ \E s \in Followed(Seats) : HandBidMessage(s) \/ ThrowCardMessage(s) \/ LeaveTable(s)
  \/ slips = {} /\ ClearTable
  \/ Tick

Spec == Init /\ [][Next]_vars
-----------------------------------------------------------------------------
(* A table pays out once, when it is removed, and only what was paid in:    *)
(* addWinningAmount, or the refund of endStuckTable, never both.            *)
PaidOnce ==
  slips = {} => /\ payouts = IF table.status = "removed" THEN 1 ELSE 0
                /\ payouts = 1 => fees = 4

(* Nobody misses a hand and nobody throws twice, whoever throws for whom:   *)
(* the cards on the table are those of the players from the leader up to    *)
(* the one on turn, and bidding is over before the first of them.           *)
HandsAreComplete ==
  slips = {} /\ table.status = "playing" /\ table.handNo <= Hands =>
    /\ table.bid = Seats
    /\ \/ table.thrown = {s \in Seats : (s - table.dealer) % 4 < table.turnNo % 4}
       \/ table.thrown = Seats /\ table.turnNo % 4 = 0 /\ ~Unlocked

(* The game never stands still: a table in play has a pending call or timer.*)
GameGoesOn == slips = {} /\ table.status # "removed" => jobs # {}
=============================================================================
