----------------------------- MODULE MCServices -----------------------------
(***************************************************************************)
(* The account, the wallet's book and the payouts of players, the tables of *)
(* Ludo, Snakes and Ladders, cricket and a mega tournament, with the rules  *)
(* of Ludo and of Snakes and Ladders, and the queues that bring players to  *)
(* tables: small instances, one at a time.  A behaviour is that of one      *)
(* service, and the variables the others need stand still.                  *)
(***************************************************************************)
EXTENDS Games

VARIABLES board, gone, won,                 \* rules
          balance, book,                    \* wallet
          clock, queue, waitsIn, locks, held, timers, number  \* queues

vars == <<game, Tables, board, gone, won, balance, book, clock, queue, waitsIn, locks, held,
          timers, number>>
-----------------------------------------------------------------------------
Play(k, p, m) == [kind |-> k, players |-> p, moves |-> m]

MCLudoGames == {Play("quick", 2, 6), Play("furious4", 3, 4), Play("tournament", 3, 3)}
MCSnakesGames == {Play("", 2, 4), Play("", 3, 2)}
MCRuns == 0..2
MCTargets == [e \in {1} |-> [base |-> 0, at |-> 2, points |-> 2]]

LR == INSTANCE LudoRules WITH
        Start <- <<1, 5>>, PawnsEach <- 2, Ring <- 8, Lane <- 2, Dice <- 1..3,
        Protected <- {1, 3, 5}, TargetPawns <- 2, place <- board, left <- gone

SR == INSTANCE SnakesRules WITH
        Players <- {1, 2}, Home <- 8, Snakes <- [i \in {7} |-> 2], Ladders <- [i \in {3} |-> 5],
        Dice <- 1..3, at <- board

Fee(m, w, b) == [p \in {"main", "win", "bonus"} |-> CASE p = "main" -> m [] p = "win" -> w [] OTHER -> b]

Debit(u, t, g, ref, m, w, b) ==
  [user |-> u, type |-> t, game |-> g, ref |-> ref,
   amount |-> m + w + b, fee |-> Fee(m, w, b), credit |-> FALSE]

Credit(u, t, g, ref, m, w, b) == [Debit(u, t, g, ref, m, w, b) EXCEPT !.credit = TRUE]

MCUsers == {"ann", "bob"}
MCReq ==
  << Debit("ann", "joinFee", "ludo", "t1", 425, 0, 25),
     Debit("ann", "joinFee", "ludo", "t1", 425, 0, 25),
     Debit("ann", "withdrawal", "none", "o1", 0, 161, 0),
     Credit("ann", "winning", "ludo", "t1", 0, 333, 0),
     Debit("ann", "joinFee", "skillpatti", "t2", 350, 0, 50),
     Debit("ann", "adminRefund", "none", "t2", 200, 0, 0),
     Credit("ann", "deposit", "none", "o1", 130, 0, 0),
     Debit("bob", "joinFee", "ludo", "t1", 210, 0, 11) >>

MCOpening == [u \in MCUsers |-> IF u = "ann" THEN Fee(400, 160, 40) ELSE Fee(200, 20, 80)]

AB == INSTANCE AccountBook WITH
        Users <- MCUsers, Calls <- DOMAIN MCReq, Refs <- {"t1", "t2", "o1"}, Req <- MCReq,
        Opening <- MCOpening

Booked(u, t, ref, w, credit, due) ==
  [user |-> u, type |-> t, ref |-> ref, parts |-> w, credit |-> credit, due |-> due, expired |-> FALSE]

WB == INSTANCE WalletBatch WITH
        Users <- MCUsers,
        Opening <- [u \in MCUsers |-> IF u = "ann" THEN Fee(80, 120, 40) ELSE Fee(40, 40, 0)],
        Before <- << Booked("ann", "signupBonus", "none", Fee(160, 120, 80), TRUE, TRUE),
                     Booked("ann", "ludoTournamentJoinFee", "mega", Fee(80, 0, 40), FALSE, FALSE),
                     Booked("bob", "deposit", "o0", Fee(160, 40, 0), TRUE, FALSE),
                     Booked("bob", "ludoTournamentJoinFee", "mega", Fee(120, 0, 0), FALSE, FALSE) >>,
        Fees <- [g \in {"ludo", "aviator", "snakeAndLadders", "skillpatti", "rummyempire"} |->
                   [amount |-> 120, bonus |-> 40]],
        Prizes <- [u \in MCUsers |-> IF u = "ann" THEN 80 ELSE 40],
        Reward <- 40, SignupBonus <- Fee(80, 0, 120), MaxCalls <- 2,
        started <- moves, lapsed <- won

Payout(amount, account) == [amount |-> amount, account |-> account]

PL == INSTANCE PayoutLimits WITH
        Request <- <<Payout(40, "similar name"), Payout(60, "own name"), Payout(60, "similar name")>>,
        NameAtBank <- [a \in {"own name", "similar name", "other name"} |->
                         CASE a = "own name" -> "MATCHED" [] a = "similar name" -> "PARTIAL_MATCH"
                           [] OTHER -> "NOT_MATCHED"],
        Opening <- 180, Deposits <- <<20>>, Charges <- 2, TaxRate <- 30, AtOnce <- <<2, 2, 1>>, LastDay <- 1,
        Limits <- [min |-> 20, max |-> 80, kyc |-> 50, perDay |-> 2, lifetime |-> 126, taxFree |-> 30],
        IsKycVerified <- TRUE, IsPlayStoreUser <- TRUE, NameVerification <- TRUE, TaxDeduction <- TRUE,
        win <- balance, orders <- book, accounts <- document, beneficiary <- active, transfers <- prizes,
        deposits <- fees, now <- clock, day <- moves

PA == INSTANCE PlayerAccount WITH
        Numbers <- MCUsers, Registered <- {[u \in {} |-> 0], [u \in MCUsers |-> IF u = "ann" THEN 1 ELSE 2]},
        Sent <- [u \in MCUsers |-> IF u = "ann" THEN 1 ELSE 2],
        MaxRetries <- 1, FailureLimit <- 1, KycLimit <- 1, FreeLimit <- 1, LastDay <- 2, MaxCalls <- 2,
        auth <- document, users <- players, counter <- number, bonuses <- prizes, games <- won,
        opened <- book, day <- clock, started <- moves

LQ == INSTANCE LudoQueue WITH
        Users <- {"ann", "bob", "cat"}, TypeSeq <- <<1, 2>>, Room <- <<3, 2>>, Restricted <- {1},
        Ip <- [u \in {"ann", "bob", "cat"} |-> IF u = "cat" THEN 2 ELSE 1],
        MatchingTime <- 1, LastTick <- 3, MaxJoins <- 1, Callers <- {"ann", "bob"},
        Waiting <- [u \in {"bob", "cat"} |-> 1],
        tables <- table, passes <- jobs, joins <- moves

MQ == INSTANCE MatchingQueue WITH
        Users <- {"ann", "bob", "cat"}, Types <- {1, 2}, MaxPlayer <- <<3, 2>>, Restricted <- {1},
        Ip <- [u \in {"ann", "bob", "cat"} |-> IF u = "cat" THEN 2 ELSE 1],
        MatchingTime <- 2, Extension <- 2, LastTick <- 5, MaxJoins <- 3,
        app <- kind, tables <- table, due <- jobs, removing <- calls, joins <- moves

CQ == INSTANCE CardQueue WITH
        Users <- {"ann", "bob", "cat"}, Types <- {1, 2}, Room <- <<3, 2>>, MatchingTime <- 1,
        LastTick <- 2, Callers <- {"ann", "bob", "cat"}, Waiting <- [u \in {"bob"} |-> 1],
        MaxCalls <- 2, MaxPasses <- 2,
        app <- kind, tables <- table, passes <- jobs, count <- moves, out <- gone

CR == INSTANCE CallbreakRoom WITH
        Users <- {"ann", "bob", "cat", "dan"}, Room <- 3, MaxTables <- 2, MaxJoins <- 5,
        tables <- table, offer <- queue, joins <- moves

NoTable == table = 0 /\ jobs = 0 /\ moves = 0 /\ slips = {}
NoRules == board = 0 /\ gone = 0 /\ won = 0
NoAccount == balance = 0 /\ book = 0
NoLocks == locks = 0 /\ held = 0 /\ number = 0
NoQueue == clock = 0 /\ queue = 0 /\ waitsIn = 0 /\ timers = 0 /\ NoLocks
NoWallet == NoAccount /\ NoQueue

NoGame == NoTable /\ NoSeats /\ active = 0 /\ fees = 0 /\ prizes = 0 /\ calls = 0 /\ NoHistory

Init ==
  \/ game = "wallet" /\ AB!Init /\ NoGame /\ NoRules /\ NoQueue
  \/ /\ game = "wallet batch" /\ WB!Init
     /\ NoSeats /\ active = 0 /\ fees = 0 /\ prizes = 0 /\ calls = 0 /\ NoHistory /\ table = 0
     /\ board = 0 /\ gone = 0 /\ NoQueue
  \/ /\ game = "payouts" /\ PL!Init /\ table = 0 /\ jobs = 0 /\ kind = 0 /\ players = 0
     /\ NoHistory /\ NoRules /\ queue = 0 /\ waitsIn = 0 /\ timers = 0 /\ NoLocks
  \/ /\ game = "account" /\ PA!Init
     /\ table = 0 /\ kind = 0 /\ active = 0 /\ fees = 0 /\ calls = 0 /\ NoHistory /\ board = 0 /\ gone = 0
     /\ balance = 0 /\ queue = 0 /\ waitsIn = 0 /\ timers = 0 /\ locks = 0 /\ held = 0
  \/ GamesInit /\ NoRules /\ NoWallet
  \/ /\ game \in {"ludo rules", "snakes rules"}
     /\ IF game = "ludo rules" THEN LR!Init ELSE SR!Init /\ won = 0
     /\ NoGame /\ NoWallet
  \/ /\ game \in {"ludo queue", "matching queue", "card queue", "callbreak room"}
     /\ CASE game = "ludo queue" -> LQ!Init /\ kind = 0 /\ gone = 0 /\ timers = 0 /\ NoLocks
          [] game = "matching queue" -> MQ!Init /\ gone = 0 /\ timers = 0 /\ NoLocks
          [] game = "card queue" -> CQ!Init
          [] game = "callbreak room" ->
               CR!Init /\ kind = 0 /\ jobs = 0 /\ gone = 0 /\ clock = 0 /\ waitsIn = 0 /\ NoLocks
     /\ players = 0 /\ document = 0 /\ fees = 0 /\ prizes = 0 /\ NoHistory /\ board = 0 /\ won = 0 /\ NoAccount

Locks == <<locks, held, timers, number>>
Account == <<balance, book, clock, queue, waitsIn, Locks>>
Rules == <<board, gone, won, Account>>
PlayGames == GamesNext /\ UNCHANGED Rules
MoveLudoPawn == game = "ludo rules" /\ LR!Next /\ UNCHANGED <<game, Account, Tables>>
MoveSnakesPawn == game = "snakes rules" /\ SR!Next /\ UNCHANGED <<game, won, Account, Tables>>
Book == game = "wallet" /\ AB!Next /\ UNCHANGED <<game, board, gone, won, clock, queue, waitsIn, Locks, Tables>>
BookBatches ==
  /\ game = "wallet batch" /\ WB!Next
  /\ UNCHANGED <<game, table, kind, players, document, active, fees, prizes, calls, refunds, results, clears,
                 board, gone, clock, queue, waitsIn, Locks>>
PayOut ==
  /\ game = "payouts" /\ PL!Next
  /\ UNCHANGED <<game, table, jobs, kind, players, refunds, results, clears, board, gone, won,
                 queue, waitsIn, Locks>>
KeepAccounts ==
  /\ game = "account" /\ PA!Next
  /\ UNCHANGED <<game, table, kind, active, fees, calls, refunds, results, clears, board, gone,
                 balance, queue, waitsIn, timers, locks, held>>
Elsewhere ==
  <<game, players, document, fees, prizes, refunds, results, clears, board, won, balance, book>>
WaitForLudo == game = "ludo queue" /\ LQ!Next /\ UNCHANGED <<Elsewhere, kind, gone, Locks>>
WaitForMatch == game = "matching queue" /\ MQ!Next /\ UNCHANGED <<Elsewhere, gone, Locks>>
WaitForCards == game = "card queue" /\ CQ!Next /\ UNCHANGED Elsewhere
WaitForCallbreak ==
  /\ game = "callbreak room" /\ CR!Next
  /\ UNCHANGED <<Elsewhere, kind, jobs, gone, clock, waitsIn, locks, held, number>>

Next == Book \/ BookBatches \/ PayOut \/ KeepAccounts \/ PlayGames \/ MoveLudoPawn \/ MoveSnakesPawn
        \/ WaitForLudo \/ WaitForMatch \/ WaitForCards \/ WaitForCallbreak

Spec == Init /\ [][Next]_vars

(* In a queue, what comes after a step that spoils the order is not looked at. *)
Unspoiled == game \in {"ludo queue", "matching queue", "card queue", "callbreak room"} => slips = {}
-----------------------------------------------------------------------------
(* What the wallet, a table, its jobs and its handlers, or a board, can be. *)
TypeOK ==
  CASE game = "wallet" -> AB!TypeOK
    [] game = "wallet batch" -> WB!TypeOK
    [] game = "payouts" -> PL!TypeOK
    [] game = "account" -> PA!TypeOK
    [] game \in {"ludo", "snakes", "cricket", "mega"} -> GamesTypeOK
    [] game = "ludo rules" -> LR!TypeOK
    [] game = "snakes rules" -> SR!TypeOK
    [] game = "ludo queue" -> LQ!TypeOK
    [] game = "matching queue" -> MQ!TypeOK
    [] game = "card queue" -> CQ!TypeOK
    [] game = "callbreak room" -> CR!TypeOK

(* WalletArithmetic, AccountBook, WalletBatch, PayoutLimits: transactions   *)
(* explain balances, a debit takes its amount, and the balance check        *)
(* promises what it does; a bonus lapses once; conversions, refunds by hand *)
(* and refunds of a tournament are made whole, and once; and payouts keep   *)
(* their limits, reach their owner's account, and are taxed once.  And a    *)
(* player's account: a code opens it once, names and referrals add up.      *)
BookIsSound ==
  /\ game = "wallet" => AB!BookExplainsBalance /\ AB!DebitsTakeTheirAmount /\ AB!CheckAgreesWithDebit
  /\ game = "wallet batch" => WB!BookExplainsBalance /\ WB!BonusLapsesOnce /\ WB!CallsAreWhole
  /\ game = "payouts" => /\ PL!LimitsHold /\ PL!TransfersReachTheirOwner
                         /\ PL!DepositsCountOnce /\ PL!PurseIsExplained
  /\ game = "account" => PA!LoginsAreSound /\ PA!NamesAreFree /\ PA!ReferralsAddUp /\ PA!LimitsHold

(* LudoQueue, MatchingQueue, CardQueue, CallbreakRoom: nobody is seated     *)
(* twice, or after having been told to have left; a player is known to wait *)
(* exactly while it waits; players of one address are kept apart; and       *)
(* nobody waits longer than it was told, or for ever.                       *)
SeatsAreKept ==
  CASE game = "ludo queue" -> LQ!SeatedOnce /\ LQ!WaitersAreKnown /\ LQ!AddressesAreApart
    [] game = "matching queue" ->
         MQ!SeatedOnce /\ MQ!WaitersAreKnown /\ MQ!AddressesAreApart /\ MQ!NobodyWaitsTooLong
    [] game = "card queue" -> CQ!SeatedOnce /\ CQ!WaitersAreKnown /\ CQ!NobodyWaitsForEver
    [] game = "callbreak room" -> CR!SeatedOnce /\ CR!WaitersAreKnown /\ CR!NobodyWaitsForEver
    [] OTHER -> TRUE

(* LudoRules, SnakesRules: what is offered to a player can be done, a move  *)
(* sends back one pawn at most, never one that is safe, and the best of     *)
(* those still there win.                                                   *)
RulesAreKept ==
  /\ game = "ludo rules" => LR!MovesAreLegal /\ LR!BlocksAreSafe /\ LR!BestScoreWins
  /\ game = "snakes rules" => SR!PawnsAreSafe /\ SR!HomeWins
=============================================================================
