------------------------------- MODULE Aviator -------------------------------
(***************************************************************************)
(* Aviator: everybody bets on the same round, which a bet after the end of *)
(* the last one starts; the round waits, flies, and crashes at a value     *)
(* drawn when it starts, and who cashes out before that is paid.  One      *)
(* process keeps the timer and the flight; the round, its lock, the bets   *)
(* and the value are in Redis.                                             *)
(*                                                                         *)
(* slips names what the code lets through and spoils what follows.  Two    *)
(* cash outs of one bet are both paid.  Seeds and multipliers are left out; *)
(* of the histories, only that writing them may fail and end the handler.  *)
(***************************************************************************)
EXTENDS Integers, Sequences, FiniteSets

CONSTANTS
  Users,
  MaxBets,         \* bound: bets
  MaxCashouts,     \* bound: cash outs
  MaxRounds,       \* bound: rounds
  CallIds,         \* bound: bets under way, numbers
  FlightIds        \* bound: flights, numbers

VARIABLES info,      \* roundInfo: number and status
          lock,      \* roundLock
          crash,     \* whether the value of the crash is there
          bets,      \* aviator_<roundNo>
          calls,     \* bets on their way
          cashing,   \* user -> round it is cashing out
          flights,   \* timers and flights of the process
          debits, credits,   \* what the wallet has booked: user and round
          bound,     \* how many bets and cash outs so far
          slips

vars == <<info, lock, crash, bets, calls, cashing, flights, debits, credits, bound, slips>>

None == -1
NoCall == [at |-> "none", user |-> "nobody", no |-> None, seen |-> [no |-> None, status |-> "none"]]
NoFlight == [at |-> "none", seen |-> [no |-> None, status |-> "none"]]

Init ==
  /\ info = [no |-> 0, status |-> "ended"]
  /\ lock = FALSE /\ crash = FALSE /\ bets = {}
  /\ calls = [c \in CallIds |-> NoCall] /\ cashing = [u \in Users |-> None]
  /\ flights = [f \in FlightIds |-> NoFlight]
  /\ debits = <<>> /\ credits = <<>> /\ bound = [bets |-> 0, cashouts |-> 0]
  /\ slips = {}

Slip(what, when) == slips' = slips \union (IF when THEN {what} ELSE {})
Booked(s, u, n) == \E i \in DOMAIN s : s[i] = <<u, n>>
Times(s, u, n) == Cardinality({i \in DOMAIN s : s[i] = <<u, n>>})
BetRound(i) == IF i.status = "ended" THEN i.no + 1 ELSE i.no
End(c) == calls' = [calls EXCEPT ![c] = NoCall]
Betting(u) == {c \in CallIds : calls[c].user = u /\ calls[c].at \in {"read", "debited"}}
-----------------------------------------------------------------------------
(* A bet is on the round that waits or flies already, or on the next one;  *)
(* who has one on its way already is not stopped.                           *)
Bet(c, u) ==
  /\ calls[c] = NoCall /\ (\A d \in CallIds : d < c => calls[d] # NoCall)
  /\ bound.bets < MaxBets /\ info.no < MaxRounds
  /\ <<BetRound(info), u>> \notin bets
  /\ bound' = [bound EXCEPT !.bets = @ + 1]
  /\ calls' = [calls EXCEPT ![c] = [at |-> "read", user |-> u, no |-> BetRound(info), seen |-> info]]
  /\ Slip("two bets at once", Betting(u) # {})
  /\ UNCHANGED <<info, lock, crash, bets, cashing, flights, debits, credits>>

(* The wallet may refuse. *)
DebitBetAmount(c) ==
  /\ calls[c].at = "read"
  /\ \/ /\ debits' = Append(debits, <<calls[c].user, calls[c].no>>)
        /\ calls' = [calls EXCEPT ![c].at = "debited"]
     \/ End(c) /\ UNCHANGED debits
  /\ UNCHANGED <<info, lock, crash, bets, cashing, flights, credits, bound, slips>>

PlayerBet(c) ==
  LET n == calls[c].no
  IN  /\ calls[c].at = "debited"
      /\ bets' = bets \union {<<n, calls[c].user>>}
      /\ calls' = [calls EXCEPT ![c].at = "recording"]
      /\ Slip("bet after the end", n < info.no \/ (n = info.no /\ info.status = "ended"))
      /\ UNCHANGED <<info, lock, crash, cashing, flights, debits, credits, bound>>

(* A history that cannot be written keeps the bet and starts no round.      *)
CreateUserHistory(c) ==
  LET last == calls[c].seen.status = "ended"
  IN  /\ calls[c].at = "recording"
      /\ \/ /\ IF last THEN calls' = [calls EXCEPT ![c].at = "starting"] ELSE End(c)
            /\ UNCHANGED slips
         \/ End(c) /\ Slip("history not written", last)
      /\ UNCHANGED <<info, lock, crash, bets, cashing, flights, debits, credits, bound>>

StartRound(c) ==
  /\ calls[c].at = "starting"
  /\ IF lock \/ info.status # "ended"
     THEN End(c)
     ELSE calls' = [calls EXCEPT ![c].at = "locking", ![c].seen = info]
  /\ UNCHANGED <<info, lock, crash, bets, cashing, flights, debits, credits, bound, slips>>

SetRoundLock(c) ==
  /\ calls[c].at = "locking"
  /\ lock' = TRUE
  /\ calls' = [calls EXCEPT ![c].at = "initializing"]
  /\ Slip("two starts", lock \/ info # calls[c].seen)
  /\ UNCHANGED <<info, crash, bets, cashing, flights, debits, credits, bound>>

(* The old bets and the old value go, and the timer of the new round is set; *)
(* who is still cashing out will be paid for the new round.                 *)
InitializeRound(c) ==
  LET n == calls[c].seen.no
  IN  /\ calls[c].at = "initializing"
      /\ bets' = {b \in bets : b[1] # n} /\ crash' = FALSE
      /\ info' = [no |-> n + 1, status |-> "waiting"]
      /\ \E f \in FlightIds :
           /\ flights[f] = NoFlight /\ \A g \in FlightIds : g < f => flights[g] # NoFlight
           /\ flights' = [flights EXCEPT ![f].at = "timer"]
      /\ calls' = [calls EXCEPT ![c].at = "drawing"]
      /\ Slip("cash out across rounds", \E u \in Users : cashing[u] # None)
      /\ UNCHANGED <<lock, cashing, debits, credits, bound>>

GenerateGameResult(c) ==
  /\ calls[c].at = "drawing"
  /\ crash' = TRUE
  /\ calls' = [calls EXCEPT ![c].at = "unlocking"]
  /\ UNCHANGED <<info, lock, bets, cashing, flights, debits, credits, bound, slips>>

(* Where the history of the round cannot be written the lock stays.         *)
ReleaseRoundLock(c) ==
  /\ calls[c].at = "unlocking"
  /\ \/ lock' = FALSE /\ UNCHANGED slips
     \/ UNCHANGED lock /\ Slip("history not written", TRUE)
  /\ End(c)
  /\ UNCHANGED <<info, crash, bets, cashing, flights, debits, credits, bound>>
-----------------------------------------------------------------------------
(* Ten seconds later; a round without a value would never end.              *)
OnRoundStarted(f) ==
  /\ flights[f].at = "timer"
  /\ info' = [info EXCEPT !.status = "started"]
  /\ flights' = [flights EXCEPT ![f] = IF crash THEN [@ EXCEPT !.at = "flying"] ELSE NoFlight]
  /\ Slip("start took longer than the timer", ~crash \/ lock)
  /\ UNCHANGED <<lock, crash, bets, calls, cashing, debits, credits, bound>>

(* The profit of a round nobody has bet on cannot be computed, or the       *)
(* history cannot be written: the round never ends.                         *)
OnCrash(f) ==
  LET played == \E b \in bets : b[1] = info.no
  IN  /\ flights[f].at = "flying"
      /\ \/ /\ played
            /\ flights' = [flights EXCEPT ![f] = [at |-> "landing", seen |-> info]]
            /\ UNCHANGED slips
         \/ /\ flights' = [flights EXCEPT ![f] = NoFlight]
            /\ Slip(IF played THEN "history not written" ELSE "round without bets", TRUE)
      /\ UNCHANGED <<info, lock, crash, bets, calls, cashing, debits, credits, bound>>

EndRound(f) ==
  /\ flights[f].at = "landing"
  /\ info' = [flights[f].seen EXCEPT !.status = "ended"]
  /\ flights' = [flights EXCEPT ![f] = NoFlight]
  /\ UNCHANGED <<lock, crash, bets, calls, cashing, debits, credits, bound, slips>>

(* Whoever has bet is paid while the round flies; nothing marks the bet.    *)
OnCashout(u) ==
  /\ cashing[u] = None /\ bound.cashouts < MaxCashouts
  /\ info.status = "started" /\ <<info.no, u>> \in bets
  /\ cashing' = [cashing EXCEPT ![u] = info.no]
  /\ bound' = [bound EXCEPT !.cashouts = @ + 1]
  /\ UNCHANGED <<info, lock, crash, bets, calls, flights, debits, credits, slips>>

(* The number of the round is read again.                                   *)
AddWinningAmount(u) ==
  /\ cashing[u] # None
  /\ credits' = Append(credits, <<u, info.no>>)
  /\ cashing' = [cashing EXCEPT ![u] = None]
  /\ UNCHANGED <<info, lock, crash, bets, calls, flights, debits, bound, slips>>

Restart ==
  /\ flights' = [f \in FlightIds |-> NoFlight] /\ calls' = [c \in CallIds |-> NoCall]
  /\ cashing' = [u \in Users |-> None]
  /\ Slip("cut off by a restart", \/ \E f \in FlightIds : flights[f] # NoFlight
                                  \/ \E c \in CallIds : calls[c] # NoCall)
  /\ UNCHANGED <<info, lock, crash, bets, debits, credits, bound>>

Next ==
  \/ \E c \in CallIds :
       \/ \E u \in Users : Bet(c, u)
       \/ DebitBetAmount(c) \/ PlayerBet(c) \/ CreateUserHistory(c) \/ StartRound(c) \/ SetRoundLock(c)
       \/ InitializeRound(c) \/ GenerateGameResult(c) \/ ReleaseRoundLock(c)
  \/ \E f \in FlightIds : OnRoundStarted(f) \/ OnCrash(f) \/ EndRound(f)
  \/ \E u \in Users : OnCashout(u) \/ AddWinningAmount(u)
  \/ Restart

Spec == Init /\ [][Next]_vars
-----------------------------------------------------------------------------
TypeOK ==
  /\ info.no \in 0..(MaxRounds + Cardinality(CallIds)) /\ info.status \in {"waiting", "started", "ended"}
  /\ lock \in BOOLEAN /\ crash \in BOOLEAN
  /\ \A b \in bets : b[1] \in 1..MaxRounds /\ b[2] \in Users
  /\ bound.bets <= MaxBets /\ bound.cashouts <= MaxCashouts

(* Whoever plays has paid, whatever slips: a bet that is placed was debited *)
(* from its player, for its round.  And as long as nothing slips, nobody is *)
(* debited twice for a round, the round of a debit is the last or the next, *)
(* its player is in it while it is still to end, and a payment is for a     *)
(* round whose bet was debited.                                             *)
BetsArePlayed ==
  /\ \A b \in bets : Booked(debits, b[2], b[1])
  /\ slips = {} =>
       /\ \A i \in DOMAIN debits :
            LET u == debits[i][1]
                n == debits[i][2]
            IN  /\ Times(debits, u, n) = 1
                /\ n <= BetRound(info)
                /\ n = BetRound(info) => \/ <<n, u>> \in bets
                                         \/ \E c \in CallIds : /\ calls[c].at = "debited"
                                                               /\ calls[c].user = u /\ calls[c].no = n
       /\ \A i \in DOMAIN credits : Times(debits, credits[i][1], credits[i][2]) = 1

WillStart(call) ==
  \/ call.at \in {"starting", "locking", "initializing"}
  \/ call.at = "recording" /\ call.seen.status = "ended"

(* A round that waits or flies has one timer or flight to end it; a lock    *)
(* has somebody who starts a round; and who has bet on the next round will  *)
(* see it started.                                                          *)
RoundGoesOn ==
  slips = {} =>
    /\ Cardinality({f \in FlightIds : flights[f] # NoFlight}) = (IF info.status = "ended" THEN 0 ELSE 1)
    /\ lock <=> \E c \in CallIds : calls[c].at \in {"initializing", "drawing", "unlocking"}
    /\ info.status = "ended" /\ (\E b \in bets : b[1] = info.no + 1) =>
         \E c \in CallIds : WillStart(calls[c])
    /\ info.status = "started" => crash
=============================================================================
