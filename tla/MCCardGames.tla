------------------------------ MODULE MCCardGames ------------------------------
(***************************************************************************)
(* The tables of the three card games, their rules on small decks, the      *)
(* rounds of Aviator, the results of a mega tournament and the connections  *)
(* of a player, one at a time: a behaviour is that of one table, of one     *)
(* hand of cards, of Aviator, of one tournament or of one player, and the   *)
(* variables the others need stand still.                                   *)
(***************************************************************************)
EXTENDS Integers, Sequences, FiniteSets

VARIABLES game,
          table, jobs, moves, slips,
          wallet, house, rounds, joins,   \* Skill Patti; Rummy shares the bounds
          pool,                           \* Rummy
          fees, payouts,                  \* Callbreak; debits and credits of Aviator
          info, lock, bets, calls, flights, \* Aviator
          hands, thrown, firstCard, leadCard, total, commonCard, shown, declared  \* rules

vars == <<game, table, jobs, moves, slips, wallet, house, rounds, joins, pool, fees, payouts,
          info, lock, bets, calls, flights, hands, thrown, firstCard, leadCard, total, commonCard, shown, declared>>
-----------------------------------------------------------------------------
Table(players, numRounds, numJoins, numMoves) ==
  [players |-> players, rounds |-> numRounds, joins |-> numJoins, moves |-> numMoves]
SPGames == {Table(2, 2, 0, 3), Table(2, 2, 1, 2), Table(3, 1, 0, 3)}

SP == INSTANCE SkillPatti WITH
        Seats <- 1..3, InitialBet <- 1, PotLimit <- 6, BuyIn <- 4, Reserve <- 1, Raises <- {2},
        Short <- 1, Pause <- 2, Decide <- 3, Turn <- 4,
        Games <- SPGames,
        MaxUnpaid <- 4, debits <- fees, unpaid <- payouts

RE == INSTANCE Rummy WITH
        Seats <- 1..3, FirstDrop <- 20, MiddleDrop <- 40, MaxScore <- 80, HandScores <- {7},
        Next500 <- 1, Deal <- 2, Start <- 3, Finish <- 4, Turn <- 5,
        MaxRounds <- <<0, 2, 1>>, MaxJoins <- <<0, 1, 0>>, MaxMoves <- <<0, 3, 2>>

CB == INSTANCE Callbreak WITH
        Hands <- 2, Rounds <- 2, Keep <- 1, Short <- 2, Turn <- 3, MaxMoves <- 3

Card(number, suit) == [number |-> number, suit |-> suit]
Suit(suit, n) == {Card(i, suit) : i \in 2..n}
Deck == Suit("heart", 4) \union Suit("club", 3) \union Suit("spade", 4)

CBRules == INSTANCE CallbreakRules WITH
        HandSize <- 2, Scores <- [1..4 -> {-10, 0, 11, 20}], hand <- hands

(* A trail, pairs, colours and the sequences round the ace.                 *)
SPRules == INSTANCE SkillPattiRules WITH
        Cards <- {Card(14, "H"), Card(14, "S"), Card(14, "C"), Card(13, "H"), Card(12, "H"),
                  Card(13, "S"), Card(2, "S"), Card(3, "H")}

(* The joker is the 0 of spades; groups of three and four cards, alone or   *)
(* beside a run, with and without a claim.                                  *)
ReDeck == <<Card(0, "S"), Card(2, "H"), Card(3, "H"), Card(3, "S"), Card(4, "H"), Card(5, "H"),
            Card(12, "H"), Card(13, "H"), Card(14, "H"), Card(14, "S")>>
Groups == UNION {{[i \in 1..n |-> ReDeck[p[i]]] : p \in {q \in [1..n -> 1..10] : \A i \in 2..n : q[i - 1] <= q[i]}}
                 : n \in {3, 4}}
Group(cards, claim) == [cards |-> cards, claim |-> claim]
Run == <<Card(3, "H"), Card(4, "H"), Card(5, "H")>>
RunWithJoker == <<Card(0, "S"), Card(3, "H"), Card(4, "H")>>
ReHands == {<<Group(g, "undefined")>> : g \in Groups}
           \union {<<Group(g, claim), Group(run, "undefined")>> :
                     g \in Groups, claim \in {"undefined", "pureSequence"}, run \in {Run, RunWithJoker}}

RERules == INSTANCE RummyRules WITH
        WildNumber <- 5, MaxScore <- 20, Hands <- ReHands, hand <- hands

AV == INSTANCE Aviator WITH
        Users <- {"ann", "bob"}, MaxBets <- 3, MaxCashouts <- 2, MaxRounds <- 2,
        CallIds <- 1..2, FlightIds <- 1..2,
        crash <- table, cashing <- wallet, debits <- fees, credits <- payouts, bound <- moves

NoTable == table = 0 /\ jobs = 0 /\ moves = 0 /\ slips = {}
NoChips == wallet = 0 /\ house = 0
NoFees == fees = 0 /\ payouts = 0
NoRounds == rounds = 0 /\ joins = 0
NoTrick == thrown = 0 /\ firstCard = 0 /\ leadCard = 0 /\ total = 0
NoShow == commonCard = 0 /\ shown = 0
NoFlight == info = 0 /\ lock = 0 /\ bets = 0 /\ calls = 0 /\ flights = 0
NoHand == hands = 0 /\ NoTrick /\ NoShow /\ declared = 0
NoRules == NoHand /\ NoFlight

Played(user, score) == [user |-> user, score |-> score]
Places(from, to, part) == [minRank |-> from, maxRank |-> to, percentage |-> part]

TR == INSTANCE TournamentResults WITH
        Games <- <<Played("ann", 5), Played("ann", 3), Played("bob", 5)>>, JoinFee <- 105,
        Prizes <- <<Places(1, 1, 50), Places(2, 3, 15)>>, AtOnce <- 2, MaxFinals <- 2,
        entering <- jobs, rating <- bets, entries <- table, highestScore <- house, told <- rounds,
        finals <- calls, status <- info, total <- pool, paid <- wallet, stats <- payouts

RC == INSTANCE Reconnection WITH
        MaxSockets <- 3, MaxTables <- 2, MaxSteps <- 2,
        style <- info, open <- bets, latest <- moves, conns <- calls, rooms <- rounds, told <- joins,
        stored <- wallet, storing <- house, locked <- lock, place <- table, stage <- pool,
        seatings <- jobs, steps <- fees

Init ==
  \/ game = "connections" /\ RC!Init /\ payouts = 0 /\ flights = 0 /\ NoHand
  \/ game = "results" /\ TR!Init /\ moves = 0 /\ joins = 0 /\ fees = 0 /\ lock = 0 /\ flights = 0 /\ NoHand
  \/ game = "aviator" /\ AV!Init /\ jobs = 0 /\ house = 0 /\ NoRounds /\ pool = 0 /\ NoHand
  \/ game = "skill patti" /\ SP!Init /\ pool = 0 /\ NoRules
  \/ game = "rummy" /\ RE!Init /\ NoChips /\ NoFees /\ NoRules
  \/ game = "callbreak" /\ CB!Init /\ NoChips /\ NoRounds /\ pool = 0 /\ NoRules
  \/ /\ \/ game = "callbreak rules" /\ CBRules!Init /\ NoShow /\ declared = 0
        \/ game = "skill patti rules" /\ SPRules!Init /\ NoTrick /\ declared = 0
        \/ game = "rummy rules" /\ RERules!Init /\ NoTrick /\ NoShow
     /\ NoTable /\ NoChips /\ NoRounds /\ pool = 0 /\ NoFees /\ NoFlight

Flight == <<info, lock, bets, calls, flights>>
Hand == <<hands, thrown, firstCard, leadCard, total, commonCard, shown, declared>>
Rules == <<Hand, Flight>>
Tables == <<table, jobs, moves, slips, wallet, house, rounds, joins, pool, fees, payouts, Flight>>

PlaySkillPatti == game = "skill patti" /\ SP!Next /\ UNCHANGED <<game, pool, Rules>>
PlayRummy == game = "rummy" /\ RE!Next /\ UNCHANGED <<game, wallet, house, fees, payouts, Rules>>
PlayCallbreak ==
  game = "callbreak" /\ CB!Next /\ UNCHANGED <<game, wallet, house, rounds, joins, pool, Rules>>
ThrowACard ==
  game = "callbreak rules" /\ CBRules!Next /\ UNCHANGED <<game, Tables, commonCard, shown, declared>>
ShowTheCards ==
  /\ game = "skill patti rules" /\ SPRules!Next
  /\ UNCHANGED <<game, Tables, thrown, firstCard, leadCard, total, declared>>
DeclareAHand ==
  /\ game = "rummy rules" /\ RERules!Next
  /\ UNCHANGED <<game, Tables, thrown, firstCard, leadCard, total, commonCard, shown>>

PlayAviator ==
  game = "aviator" /\ AV!Next /\ UNCHANGED <<game, jobs, house, rounds, joins, pool, Hand>>

RankPlayers == game = "results" /\ TR!Next /\ UNCHANGED <<game, moves, joins, fees, lock, flights, Hand>>

ConnectAPlayer == game = "connections" /\ RC!Next /\ UNCHANGED <<game, payouts, flights, Hand>>

Next ==
  \/ ConnectAPlayer \/ RankPlayers \/ PlayAviator \/ PlaySkillPatti \/ PlayRummy \/ PlayCallbreak
  \/ ThrowACard \/ ShowTheCards \/ DeclareAHand

Spec == Init /\ [][Next]_vars

(* What comes after a step that spoils the order of connections or of the   *)
(* rounds of Aviator is not looked at.                                      *)
Unspoiled == game \in {"connections", "aviator"} => slips = {}
-----------------------------------------------------------------------------
(* What a table, its jobs and its players, or a hand of cards, can be.      *)
TypeOK ==
  CASE game = "skill patti" -> SP!TypeOK
    [] game = "rummy" -> RE!TypeOK
    [] game = "callbreak" -> CB!TypeOK
    [] game = "callbreak rules" -> CBRules!TypeOK
    [] game = "skill patti rules" -> SPRules!TypeOK
    [] game = "rummy rules" -> RERules!TypeOK
    [] game = "aviator" -> AV!TypeOK
    [] game = "results" -> TR!TypeOK
    [] game = "connections" -> RC!TypeOK

(* SkillPatti: chips leave a wallet, or are asked of one, for the table, the *)
(* pot or another player, never for nowhere.  Rummy: what the losers of a   *)
(* round pay is what its winner gets.  Callbreak: a table pays out once,    *)
(* and only what was paid in.  Aviator: who plays has paid, and once for a  *)
(* round; who is paid has bet.  TournamentResults: what is paid is what the *)
(* entries and the statistics say.                                          *)
MoneyIsConserved ==
  CASE game = "skill patti" -> SP!ChipsAreConserved
    [] game = "rummy" -> RE!PointsAreConserved
    [] game = "callbreak" -> CB!PaidOnce
    [] game = "aviator" -> AV!BetsArePlayed
    [] game = "results" -> TR!PrizesAreBooked
    [] OTHER -> TRUE

(* While a table exists something is pending that carries the game on; a     *)
(* round of Aviator has one flight, and a bet on the next round starts it.   *)
(* Reconnection: a player who is connected, on the newest socket alone, is  *)
(* in the room of the table and knows how far its game has come.            *)
GameGoesOn ==
  CASE game = "skill patti" -> SP!GameGoesOn
    [] game = "rummy" -> RE!GameGoesOn
    [] game = "callbreak" -> CB!GameGoesOn
    [] game = "aviator" -> AV!RoundGoesOn
    [] game = "connections" -> RC!NewestSocketStays /\ RC!RoomFollowsSeat /\ RC!ToldTheTruth
    [] OTHER -> TRUE

(* Callbreak: nobody misses a hand and nobody throws twice; the highest     *)
(* trump takes the trick, or the highest card of the suit led, although     *)
(* getStrongCard starts from another card; whoever can follow suit does,    *)
(* automatic throws too; the best score wins, and equal scores share.       *)
TricksAreFair ==
  /\ game = "callbreak" => CB!HandsAreComplete
  /\ game = "callbreak rules" =>
       CBRules!StrongestCardWins /\ CBRules!SuitIsFollowed /\ CBRules!ScoresDecide

(* SkillPattiRules: the best three of four cards win the pot, the better    *)
(* three the side show, in whatever order the cards were dealt.             *)
(* RummyRules: what the code takes for a sequence can be laid as one, and   *)
(* no claim of a client makes a hand valid or cheap.  TournamentResults:    *)
(* more points never win less, equals share, and a rank only falls.         *)
HandsAreJudgedRight ==
  /\ game = "skill patti rules" => SPRules!BestHandWins /\ SPRules!SideShowIsFair
  /\ game = "rummy rules" => RERules!SequencesAreRuns /\ RERules!DeclarationIsHonest
  /\ game = "results" => TR!HighestScoreIsTrue /\ TR!RanksOnlyFall /\ TR!PrizesAreFair
=============================================================================
