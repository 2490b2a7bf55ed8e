# Empire Backend: models and proofs

Empire is a NestJS backend of about twenty services for real-money games: a
wallet, payments, a Redis-based table service for each game, tournaments, and
what surrounds them.  The services run as separate processes, talk over a
message broker, keep documents in MongoDB and tables, queues and locks in
Redis.  Nothing in the repository uses a database transaction.  Nearly every
rule that matters ("a deposit is credited once", "no more entries than places")
is therefore kept, or not kept, by the order of single database operations in
handlers that run at the same time.  That order is what these modules model.

Paths below are relative to `src/`.

## 1. The system

| component | state it keeps | operations | how it meets the others |
|---|---|---|---|
| **wallet** (`apps/wallet`, `libs/.../mongoose-wallet.reposiotry.ts`) | three purses in the user document (main, win, bonus), transaction documents, referral earning | `#updateWallet` for every debit and credit, balance checks before a game, batches (prizes, refunds, expiry of bonuses, conversion) | every other service sends it messages; a message is handled as soon as it arrives |
| **payment: deposits** (`deposit.use-cases.ts`) | payment document with a status | create an order, report its status (webhook of the gateway, poll of the client) | asks the gateway, then the wallet |
| **payment: payouts** (`payout.use-cases.ts`) | payment document, tax record | create, webhook, manual approval and rejection | debits the wallet first, then asks the gateway, refunds or rewards through the wallet |
| **locker** (`locker.service.ts`, `redis.service.ts` of each game) | a Redis key for each table, player or table type | `acquireLock` with retries, `releaseLock` | taken around the handlers of the games |
| **ludo mega tournament** (`apps/ludo-mega-tournament`) | tournament document (status, enteredUserCount, extendedCount), player documents, tables in Redis, jobs in a Bull queue | play request, end of a game, `closeTournament` job, cancel, repeat | wallet for join fees, prizes and refunds; locker |
| **ludo gameplay** (`apps/ludo-gameplay`) | waiting queues, tables and reconnection data in Redis | join, match, ready, roll, move, leave | scheduler for ticks and turn timers, wallet, game record |
| **ludo tournament** (`apps/ludo-tournament`) | tournament document with rounds and players | create, join, start, end a round, cancel | wallet, scheduler, ludo gameplay |
| **snakes and ladders, EPL cricket** (`apps/sl-gameplay`, `apps/epl-gameplay`) | queue, tables, innings in Redis | join, match, play, end | as ludo |
| **skill patti, rummy, callbreak** (`apps/sp-`, `re-`, `cbr-gameplay`) | queues and tables with cards in Redis, timers in a Bull queue or in memory | join, deal, bet, declare, settle, leave | as ludo |
| **connections** (each game's gateway, `apps/socket-gateway`) | sockets and their rooms; a socket id or nothing in Redis | connect, send a player back to the table, close older sockets | reads queues and tables of the games |
| **aviator** (`apps/aviator-gameplay`) | round lock, round number, bets | start a round, bet, cash out | wallet |
| **scheduler** (`apps/scheduler`) | timers in memory, matching ticks | schedule, fire | calls back the games |
| **socket gateway, rest api** | sockets of logged-in players | route requests | every service |
| **auth, user** (`apps/auth`, `apps/user`) | login document of a number, user document, counter of names | send and check a code, create, rename, refer, upload a card, grant free games | referral bonuses through the wallet |
| **game record, notification, promo** | one document for each record | single-document updates, queries | mostly read by the others |

Behaviours that are hard to test, in the order of what they cost when they go
wrong: read-modify-write of balances without a lock; checks that look and
bookings that follow several operations later; handlers that write a status
before, or after, money moves and break off in between; webhooks that are
repeated and cross with polls and staff; locks that expire or are deleted by
somebody else; decisions on a document read before the lock was taken; jobs and
cancellations that take no lock at all.  PROJECT.json lists each at its line.

What makes the parts correct:

* wallet: balances and transactions tell the same story; no purse is overdrawn;
  a request that was answered is not booked again; the check before a game
  agrees with the debit after it;
* deposit: a credit has a payment behind it, and a payment in the end a credit;
* payout: the money reaches the bank or the wallet, not both and not neither;
* locker: one request works under a key at a time; nobody waits for ever; keys
  of dead processes go away;
* mega tournament: no more entries than places; prizes are paid, once, and not
  before the games are over; a canceled tournament refunds instead;
* ludo tournament: no more players than places; everybody is ranked once; each
  round has an end; nobody is ranked for a prize beside a refund;
* queues: nobody sits at two tables or is forgotten; whoever is told to wait
  does, and not for ever;
* tables: while there is a table something carries its game on; the turn is with
  somebody who can take it; fees and prizes, bets and pots add up; everybody has
  one result;
* rules: what is offered can be played, and the winner is the one the rules of
  the game name;
* connections: the newest socket is the one that stays, it is in the room of the
  table, and it knows how far the game has come;
* accounts: a code opens one login; a name is had by one player; referrals add
  up.

## 2. Modules

```
WalletArithmetic  <-  WalletRequests  <-  AccountBook  <---------+
                             ^                 ^  (refines)      |
                             +-----  Wallet  --+  <-  WalletProofs
Locker, Aviator  <-  LockerProofs     DepositOrder  <-  DepositOrderProofs
PayoutOrder  <-  PayoutOrderProofs    MegaTournament  <-  MegaTournamentProofs
LudoTournament  <-  LudoTournamentProofs
LudoTable, SnakesTable, EplTable, MegaGame  <-  Games  <-  GamesProofs
                                                  ^
                                                  +-----  MCServices
queues   LudoQueue  MatchingQueue  CardQueue  CallbreakRoom
tables   LudoTable  SnakesTable  EplTable  MegaGame  SkillPatti  Rummy  Callbreak  Aviator
rules    LudoRules  SnakesRules  SkillPattiRules  RummyRules  CallbreakRules
money    WalletBatch  PayoutLimits  TournamentResults
players  PlayerAccount  Reconnection
```

The modules of the second group share no state with each other: a service is
reached through its messages, and what one module needs of another is a choice
or a constant in it.  MCServices and MCCardGames instantiate them side by side;
a behaviour of these runs is one of one module, named by the variable `game`.
The four tables whose games are proved about are put together by **Games**, with
what a game can be (number of players, delays, pawns, targets) as constants and an
assumption on them for each game; MCServices extends it with the rules, the queues
and the services around the wallet, and gives the constants small values.

**WalletArithmetic** is `#calculateAndUpdateBalances`: how a request is split
over the purses (bonus first, then main, the rest from the winnings), what
counts as not enough balance, how the new balances are rounded, and the split
that `checkLudoWalletBalance` and its siblings promise.  Money is a whole
number of 1/40 paisa so that the two roundings of Big.js (`toFixed(2)` on
balances, `round(3)` on a shortage) are visible and different.

**WalletRequests** declares what a request is (type, game, reference, amount,
credit or debit), when two requests are the same to the double transaction
check (`AlreadyExists`), and which types are exempt from it.

WalletRequests also says what a set of bookings makes of a player's purses
(`Posted`) and when balances and bookings tell the same story (`Explained`), for
the two modules that book.

**AccountBook** is the abstract wallet: a request is booked or refused in one
step.  It is what `#updateWallet` is meant to be.

**Wallet** is `#updateWallet` as it is: `ReadWallet` (`findById`),
`CheckTransaction` (`findOne`), `SetBalances` (`$set` of absolute values),
`SaveTransaction`, and for a referral `AddEarning` (`$inc`).  Any other call
may run between two of them, and `Crash` stops all calls at once.

**Locker** models both lock implementations found in the games.  A request
takes a set of keys at the same time (`Promise.all`), each in a retry loop;
`Enter` begins the work, `Leave` and `Release` are the finally block, which
deletes each key by name, whoever has set it.  `Timed` are the requests that set
keys with an expiry (`LockerService`), `InsideTry` those that acquire inside the
try block, so that giving up runs the finally block (`connected`, `joinTable`,
`readyToStart` of ludo).  Expiry needs either a dead setter or a wait for
another key (`aged`): the code's 12 s are longer than a handler.

**DepositOrder** is one handler, `getDepositOrderStatus`, run by polls and
webhooks: `GetOrder`, `AskGateway`, `UpdateOrder`, `CreditReferralBonus`,
`LookUpDeposit`, `CreditDeposit`.  It writes the final status first and pays
afterwards.  `Fail` breaks it off between any two steps.

**PayoutOrder** is `createPayoutOrder`, the webhook handler, approval and
rejection.  They share the steps that follow the reading of the order, and pay
first and write the status last.

**MegaTournament** is a tournament from its first entry to prizes or refunds.
`CheckIfJoinable` .. `StoreGameTable` are `handlePlayRequest` under the join
lock; `RetrieveGameTable` .. `MarkAsCompleted` are `handleEndGame`, which reads
the tournament before it takes the tournament's lock and decides on that copy;
`StartClose`, `ExtendTournament`, `DoCloseTournament` are the job, which takes no
lock; `CheckIfCancelable` .. `RefundJoinFees` the cancellation, which takes none
either.

**LudoTournament** is a scheduled tournament of rounds.  `AquireLock` ..
`SavePlayer` are `joinTournament`, which takes the older lock inside its try
block; `FindTournament` .. `FireStartTimer` are `startTournament` with the timer
it leaves behind, which writes `started` whatever the status has become.
`WriteCanceled` and `CloseTournament` are `cancelTournament`, called by staff and
by the start of a tournament with one player left.  A round has two ends:
`ReportTable` .. `RemoveTable` report a table when its game is over
(`endSomeRoundGamesEarlier`), `CollectResults` is the scheduler's end of the whole
round, and both lead to `ReadRound` .. `SaveNextRound` (`endRound`), which reads
tournament and players, lists the losers without waiting for them, and either
ends the tournament or draws the next round (`StartNewRound`).  No lock is taken
in any of it.  A game is its seats and its winners, and an entry of the
leaderboard stands for the prize that goes with it.  `TotalRounds(n)`, the number
of powers of the seats below n, is what the loop of `calculateTotalRounds`
counts.

**LudoQueue, MatchingQueue, CardQueue, CallbreakRoom** are the four ways in which
players come to a table.  LudoQueue is the hash of waiting players, the key that
says where a player waits, and the pass that matches every second without a lock
and without waiting for the games it starts; one Redis command is one step.
MatchingQueue is the locked queue of snakes and of cricket (`app`), with their
timeouts; CardQueue that of rummy and skill patti, where a match fills the empty
seats of running tables first; CallbreakRoom the one waiting table of a type, of
which Redis keeps two copies.

**LudoTable, SnakesTable, EplTable, MegaGame, SkillPatti, Rummy, Callbreak** are a
table each, from its first player to its removal.  A handler that holds the
table's lock from its reading to its last writing is one action; one that reads
under a lock, or none, and writes later is two, with its copy in between.  What a
handler starts without awaiting it is a job with no delay, what it hands to a
timer a job with a delay.  Turn numbers serve the code only to tell stale timers
from fresh ones, so the models keep the difference and no counter.  Where pawns
stand and what cards are is left to the rules modules: at a table, whether a pawn
comes home or who holds the better hand is a choice.

**LudoRules, SnakesRules, SkillPattiRules, RummyRules, CallbreakRules** are the
pure code of the games: paths, moves, kills and blocks; hands, sequences and sets;
tricks and scores.  Each is checked against a definition written from the rules
of the game, over every reachable small board or every hand of a small pack.

**Aviator** is the shared round: its lock, the bets, the flight in the memory of
one process, the cash outs and a restart.

**WalletBatch** are the wallet's calls that book more than once or for several
players, or that look before they book: join fees of a table, prizes, refunds,
conversions, the expiry of bonuses.  **PayoutLimits** is what stands before a
payout (limits, name of the account, tax of a financial year, the beneficiary at
Cashfree), one query at a time.  **TournamentResults** is what the end of a mega
game stores and what a finalization makes of it: entry numbers, the highest
score, ranks, ties and the split of prizes.

**PlayerAccount** is the login document of a number and the user behind it.
**Reconnection** is one player's sockets at one gateway, in the six styles
(`style`) the gateways have: in Redis a socket id (skill patti, rummy), a room of
the user (callbreak, ludo, snakes and mega tournaments), and the lobby.

**Slips.**  Where the code lets something through that spoils what follows (two
calls write over each other, a debit is not awaited, a message is taken for
somebody else's), the action that does it adds a name to the variable `slips`.
No handler's guard depends on it; only what is explored does: the tables take no
further step of a handler behind a slip (`Followed`, and the first conjunct of
MegaGame's Next), the queues, Aviator and the connections are cut there by a
constraint, and the modules about money and accounts go on.  The properties say
what holds as long as a certain slip has not occurred, and so the slips of a
module are the ways in which its properties fail within the bounds, and there are
no others.  The main ones are described in section 3.

Of several hazards the failure is itself the slip.  Overlapping passes and revived
entries of a queue, offers read too early, crossed ends of rounds and games, stores
over each other, failed debits, stale pictures: the code lets them happen, so no
property can say that they do not, and a property excused by the slip would not
notice if they got worse.  What such a property shows is that nothing else goes
wrong, in all the other interleavings; the hazards of PROJECT.json say of each which
slip it is.  `stale`, `crossed`, `revived` and `robbed` are the same for the
tournaments and locks.

What belongs to the environment is kept small: the gateway decides an order
once; a wallet call inside a payment or tournament handler is its check and its
booking, as module Wallet shows what happens within.  Variables marked
*history* (`raced`, `answered`, `late`, `crossed`, `robbed`, `stale`, `revived`) are
written by the actions and read by no guard.

## 3. What the runs show

| run | expects | bounds | shows |
|---|---|---|---|
| MCWallet | pass | 2 players, 5 calls, 1 restart | what survives any interleaving (`WalletStaysSound`: no overdraft, earning = referral transactions, balances and transactions agree for players without a race; a retry after the answer is refused), and that an undisturbed Wallet implements AccountBook (`BookIsImplemented`) |
| MCWalletDouble | violation | the same, no restart | two simultaneous calls for one order are both booked |
| MCLocker | pass | 3 requests of both implementations, 2 keys taken in any order, 2 tries, 1 death | exclusion except under a vanished key; every request ends; timed keys go away |
| MCLockerLudo | violation | 3 requests for one key inside try | a refused request lets a third one in beside the holder |
| MCDepositOrder | pass | 2 orders, one of an invited player; 1 poll, 3 webhooks, 2 failures | no credit without payment; a success is credited or visibly broken off; final statuses stay; one referral for each deposit, and paid orders are credited in the end (`DepositIsSettled`) |
| MCPayoutOrder | pass | 2 webhooks, 1 approval, 1 rejection, tax on, 1 failure | status follows the money; latecomers book nothing; bank or wallet, not both; the debit has an order, the tax record follows, outcomes do not flip and a return is refunded in the end (`OrderIsSettled`) |
| MCPayoutOrderStaff | violation | no failure | approval and rejection at the same time: transfer and refund |
| MCMegaTournament | pass | 3 requests for 2 places, a game ended twice, the job, 1 failure, repeatable | places, single prizes, nobody left out |
| MCMegaTournamentLive | pass | 2 requests, 1 extension, 2 jobs, 1 cancellation | refunds once and never beside prizes; full or closed tournaments pay, live ones end (`TournamentComesToAnEnd`) |
| MCLudoTournament | pass | 1, 3 or 4 players at tables for 2, one of whom may leave, 2 more for the last place, 1 start, 1 cancellation, 1 worker for each kind of round end, 1 failure; ties in the first round of three players | everybody who stays is listed once; no more players than places, unless a refused request deleted the lock; nothing is listed after a refund; a started tournament comes to its end |
| MCCardGames | pass | tables of skill patti and rummy for 2 players over 2 rounds with a third to join, or 3 over one (in skill patti 3 messages without a joiner, 2 with one); a callbreak game of 2 rounds of 2 tricks; packs of 8 to 10 cards; 2 players and 2 rounds of Aviator; 3 results and 2 finalizations; 3 sockets, 2 tables; 4 chips of skill patti whose debit was refused (`MaxUnpaid`) | see the next table |
| MCServices | pass | the account book with 8 requests that are no whole paise; batches of 2 calls and a crash; 3 payouts over 2 days; 2 accounts; tables of 2 and 3 players with one life; boards of 8 cells; queues of 3 or 4 players, 2 types, and rooms of 2 and 3 | see the next table |

The two last runs put one question to many components; each of their invariants
is a conjunction with a part for each:

| invariant | parts |
|---|---|
| `MoneyIsConserved` | chips are at the table, in the pot, with the house or with another player, never nowhere, and there are as many as wallets gave, debits under way will give and refused ones did not (SkillPatti); the winner of a round gets what its losers pay (Rummy); a table pays once, and no more than its fees (Callbreak); a bet that is placed was debited, whatever slips; a debit is once for a round and is played, and what is paid is for such a round (Aviator); what is paid is what entries and statistics say (TournamentResults) |
| `GameGoesOn` | something pending carries the game of every existing table on, and the turn is with somebody who can take it; a bet starts the next round of Aviator; a connected player is on the newest socket, in the room, and knows how far the game is (Reconnection) |
| `TricksAreFair` | nobody misses a trick or plays twice; the highest trump, or the highest card of the suit led, takes it; suit is followed, by automatic throws too; the best score wins |
| `HandsAreJudgedRight` | the best three of four cards win the pot; what counts as a sequence in Rummy can be laid as one and no claim of a client makes a hand valid; more points never win less, and equals share (TournamentResults) |
| `BookIsSound` | transactions explain balances up to half a paisa a booking, the check before a game agrees with the debit; bonuses lapse once and batches are whole; payouts keep their limits, reach their owner's account and are taxed once; a code opens a login once, names and referrals add up |
| `GamesAreSettled` | prizes are paid once, for games whose fees were taken; everybody has one result and is told it |
| `SeatsAreKept` | nobody is seated twice or after having left; who waits is known to wait; players of one address are apart; nobody waits longer than told |
| `ClientsAreToldTheTruth` | who comes back is sent to the table still played, and to no other |
| `RulesAreKept` | what is offered can be moved; one pawn at most is sent back, never a safe one; the best of those still there win |

The bounds are the smallest at which the cases in question occur: two handlers
of the same kind to race and a third of another kind to cross them, two keys for
an embrace, one crash (all later ones find the same persistent state as the
first), one request more than places.  `RetryLimit` is 2 in the place of 500
and 10: a try more repeats a state.  `MaxFailures`, `MaxCrashes` and `MaxDeaths`
bound how often something breaks off and are the only bounds on otherwise
unlimited events.  `TieRounds` and
`TiePlayers` bound where games can be tied: a tie adds a round, and ties in every
round would go on for ever.  Deadlock checking is off: every model is of finitely many
calls and stops when they are through.

In MCServices and MCCardGames the constraint `Unspoiled` cuts the exploration behind a
slip for the queues, Aviator and the connections; the state with the slip itself is
still checked.  That every bet placed was debited is proved without the cut.
WalletBatch, PayoutLimits, PlayerAccount and TournamentResults are explored beyond
their slips, as each of their properties is excused by some slips only.  Rounds, joins
and messages at the card tables are bounded by `MaxRounds`, `MaxJoins` and `MaxMoves`
(in skill patti `Games`, the tables to begin; in rummy a sequence by the number of
players at the start: more players, fewer rounds): two rounds are needed for a timer
of one to be pending in the next, a join for a player who sits without cards, and no
third of either meets a state the second has not met. Delays are small numbers in the
order of the code's, since only which of two timers is first matters.

MCLudoTournament has the constraint `Undisturbed`: behind a state in which calls
about one round have crossed (`crossed`) or the start timer has revived a
tournament (`revived`) nothing is explored.  Each property of that run but
`TypeOK` holds by its wording from such a state on, both variables only ever
turn true, and the state itself is still checked; `TypeOK` is proved without it.
Its constraint `Apart` follows late registrations and broken calls until the
first game ends, and rounds without them: a round reads the players when the
registration is long closed.

**Fairness.**  Handlers that have begun go on (the event loop runs every
continuation; `Fail` and `Die` take a handler away instead of leaving it
waiting), webhooks are delivered (gateways retry), Redis expires keys, the Bull
queue runs its job, and every table is ended (its timer takes a life each turn
nobody plays).  In LudoTournament time passes, handlers that have begun go on,
and the scheduled end of a round fires; games need not end by themselves, as that
end collects them.  Polls of a client, staff, cancellations and new requests are
never fair.  `PaidIsCredited` and the liveness properties of the tournament name
the exceptions the code really has: a handler that broke off is not repeated by
anybody.

**Violations** are disagreements between the code and its own messages:

* `NoDoubleTransaction`: the `findOne` of the double transaction check and the
  `save` are four operations apart and no unique index stands behind them.
* `MutualExclusion` (ludo): the lock is taken inside the try whose finally
  deletes it.
* `NotBothApprovedAndRejected`: both look before either writes.

Met while modelling, and described here without a run of their own:

* A request of LockerService for two keys may wait up to 500 times 100-500 ms
  for the second while the first lives 12 s; the first expires and another
  request enters.  `ExclusiveUnlessRobbed` allows exactly this.
* A payout handler whose gateway answered pending writes "pending" over the
  final status another handler has written; `OutcomeNeverFlips` says that it is
  only ever taken back to pending.
* `getUserEntryCount` counts player documents, which exist after a game; a player
  whose games still run can enter more often than `maxEntriesPerUser`.
* A play request that was found joinable before a cancellation is debited after
  the refunds; `RefundedOnce` excepts it as a stale copy.
* The last entry of a repeatable mega tournament is paid and counted, and gets
  no table: `#repeatTournament` takes `dayjs().diff(endAt)`, negative while the
  end is ahead, so `createLudoMegaTournament` refuses the next tournament ('End
  time should be in the future'), and the exception ends the play request.
  `RepeatTournament` models it.
* The start timer of a ludo tournament writes `started` over `canceled` or
  `ended` (`ludo-tournament.service.ts:859`), although `startTournament` itself
  refuses a canceled one (:791).  With one player left at the start this always
  happens: the tournament is canceled, refunded, ended, and then started.
* `cancelTournament` of a ludo tournament writes `canceled` first and throws
  'can not be cancelled, it's Already ended' afterwards (:887, :902).  `endAt` is two
  rounds later than the schedule at creation and becomes now when the tournament is
  over; the model takes it to be past exactly then, so it has no tournament that
  outlives the prediction and no cancellation in the very millisecond of the end.
* `endSomeRoundGamesEarlier` takes no lock and marks the players of its table
  after another end of the same round may have read the players and drawn its
  conclusions from them; a winner who has left counts as remaining there, so that a
  loser who stayed is on no entry of the leaderboard.  The model notes it as
  `crossed`, which `EveryoneIsListedOnce` excepts.
* The leaderboard is meant to pass over players who are listed already, but
  compares ids as objects (:436), which never match; what keeps entries single
  is only that the rounds follow each other (`EveryoneIsListedOnce`).
* A promoted player, or a winner, who leaves may be on no leaderboard entry.
* A second refund of a ludo tournament stops at the first player ('Transaction
  already exists'), so a registration saved after the first refund is not given
  back.
* Two ends of one game leave more results than entries, after which the counts
  never agree and the prizes stay unpaid (the exception in `PrizesArePaid`).

Of the queues and tables, accounts and connections (what spoils a property is a
slip of its module, the rest is modelled as it is):

* *Ludo.*  A matching pass that overlaps another starts a second game with the
  same players; `removeFromQueue` writes back an entry the pass has deleted.
  `readyToStart` starts a game before it debits, so a failed debit plays without
  fees; two ends of a game can overlap.  `discardGame` is not awaited: the table, the
  pointers of its players and the document go one after the other, the last two
  without the lock.
* *Snakes.*  A skip takes no lock and stores over a roll or a move; having stored,
  it reads the table again, and what was stored in between is what it passes the
  turn of; `serialize` leaves the status out, so the guard against a second end
  reads a fresh one; a table in play that is cleared is refunded before it goes.
* *Cricket.*  Nobody is ever paid and tables are never deleted; a successful chase
  does not end the game; an out starts a second chain of timers, and innings can
  reach three.  Only leaving holds a lock, so any two handlers can store over each
  other; `batBowlAction` is reset in a copy that is thrown away.
* *Mega tournament.*  A second entry overwrites the pointer to a running game and
  the end of the first deletes it; a skip returns the end of the game without
  awaiting it, so its lock is free while the table is being deleted; two ends of one
  game get one entry number; a
  finalization uses a copy from before the lock.
* *Skill patti.*  Between a bet and the next turn the status stays `playing`, so a
  double click pays twice; a pack looks whose turn it is, gives the lock back, and then
  packs whoever is on turn; a pot left over after all-ins goes to nobody (`house`); with
  two players left `endTable` can leave the table standing.  No debit of a seat or a
  rebuy is awaited by what puts the chips on the table: a refused one leaves chips no
  wallet gave (`unpaid`), and a refused join debit also loses the start of the round on
  a waiting table (slip `unpaid`).  `rebuyRes` checks neither that the player was asked
  nor the status of the table, and takes any amount up to the reserve.
* *Rummy.*  `declareReq`, `finishReq` and `groupReq` write back a table read under
  a lock they no longer hold; a player can drop out of turn.
* *Callbreak.*  The timers that begin a round or a hand and end the game take no
  lock and write over a player's leaving; a debit that fails leaves the table
  stuck, a payout that fails is swallowed; joining works on an offer read before
  the lock.
* *Rummy and skill patti queues.*  The lock of the queue has no expiry: a crash
  during a match leaves it set.
* *Aviator.*  Two starts can pass the check of the round lock; a restart in flight
  leaves the round started for ever; a round without bets never ends; a cash out
  leaves its bet as it was, so a second one is paid as well, with or without a race,
  and winnings are booked for the round read again; a history that cannot be written
  leaves the bet and starts no round, or ends none.
* *Wallet batches.*  Prizes set one purse from an older balance without a double
  transaction check, and those of a ludo tournament without rounding; a bonus lapses in
  two writes sent together, the balance and the marks, and a crash leaves one; the
  refund of a mega tournament takes every transaction of the tournament for a join fee;
  `adminRefund` looks by order or table, whoever the user is.
* *Payouts.*  A player has one beneficiary at Cashfree, removed and added before
  every transfer: simultaneous payouts both go to the later account.  Juspay's
  `compareNames` throws 'Method not implemented', so a later large payout to an
  unapproved known account is refused.  A deposit dated before but paid after a
  taxed payout is never counted.
* *Accounts.*  The login document is written whole from a copy, and so are the
  counter of names and a referral, in three writes; the expiry of a code is not
  looked at when it is answered.
* *Connections.*  Skill patti and rummy write the id of a socket before they look
  at the user lock, and at a connection read the old id and write the new one
  without waiting: two connections at once, or a late message of the older socket,
  close the newest or lose it.  The table's lock is released before a returning
  player is answered, so the picture can be stale, and a player who leaves
  meanwhile stays in the room.  The lobby asks one game after the other and can
  miss a player on the way from one to the next.

## 4. What is proved

TLAPS checks these for every value of the constants, under the named
assumptions of each module (mostly: which sets are disjoint, which constants
are naturals).

* **WalletProofs** begins with lemmas without state: a sum over a finite set is the
  sum over the set without one element plus that element (`SumUnfolds`,
  `SumSplits`, `SumGrows`), which the library defines by an order of `CHOOSE` and
  does not prove; the two roundings; and what one more booking does to balances
  that were explained (`BookingIsExplained`, `BookingOfAnother`).
  `CheckedFeeIsDebited`: for every wallet and every join fee, a passed balance
  check means that the debit is accepted with the announced split.
* **WalletProofs, the account book.** `DebitsAreWhole` from `DebitAddsUp`;
  `BookTypeCorrect`; `BalancesAreExplained`, by the sums: after any sequence of
  requests a purse is the opening one plus its bookings, up to half a paisa for
  each.  The book is an instance here, and `SameAccount`, `SameTypes` and
  `SameBooks` say that it calculates as the service does.
* **WalletProofs, the service.** `TypeCorrect`; `WalletNeverOverdrawn`; `RetriesAreRefused`.
  `NeverOverdrawn` is not inductive: a call writes what it read earlier.  The
  invariant `Solvent` adds that every balance still held by a call is within
  means; then `PurseArithmetic` (a debit of a solvent wallet leaves a solvent
  wallet, including the rounding) carries the step `SetBalances`.  For retries,
  `AnswersAreFiled`: a call that was answered has left its transaction, and
  transactions are never deleted.
  `LedgerIsExplained` needs that the calls of a player who never had two at work
  take turns (`OneAtATime`), so that what a call has read is what the document
  still says (`FreshSnapshots`), and that only `SetBalances` books.
  `EarningIsTheSum` counts the referral bonuses credited, each rounded to paise as
  `creditReferralBonus` does; `WalletIsSound` puts the
  three together as the run states them.
  `WalletImplementsTheBook` is the refinement: while no two calls of a player
  overlap and no restart tears one, `SetBalances` is the one step that maps to a
  booking or a refusal of AccountBook and every other step stutters; `Checked` (a
  call past the double transaction check has no earlier transaction like it) and
  `SameArithmetic` (the copy it computes with is the wallet) are what that takes.
* **LockerProofs.** `OnlyHoleIsAVanishedKey` from `HoldsOrRobbed` (a request on
  its way in still holds each key it took, or the key was robbed);
  `OneKeyExcludes`: with one key each, and acquired before the try, exclusion is
  unconditional, from `NothingVanishes`.
* **LockerProofs, Aviator**, whose round lock is a flag that is checked and then set.
  `AviatorBetsArePlayed` and `AviatorRoundGoesOn` from `AviatorInv`.  That every bet
  placed was debited needs no exception (`BetsArePaid`).  Until two calls cross or a
  history cannot be written, at most one bet of a player is on its way (`OneBet`), one
  call holds the round lock (`OneStarts`), a round that waits or flies has exactly one
  timer or flight (`OneFlight`), a bet on its way is on this round or the next
  (`CallsInRound`), one that is placed starts its round (`BetsInRound`), what is debited
  is played and debited once (`DebitsArePlayed`), and what is credited is for a round
  that was debited (`CreditsArePlayed`).  That a player is paid once is not claimed: the
  code pays a second cash out of the same bet.  Neither property is inductive: that no
  player is debited twice for a round needs to know the rounds of the calls under way,
  and that nothing hangs needs that the caller who will start the round has seen the one
  that is over.
* **DepositOrderProofs.** `NothingCreditedUnpaid` and `FinalStatusesStay` from
  `Consistent` (whatever a check carries, an order stores or the wallet books
  repeats what the gateway decided); `SuccessLeadsToCredit`, which is inductive.
  `ReferralsAreMatched` from `BookedOnce`: on an order whose checks have not
  overlapped one is at work at most (`OneAtWork`), it has booked exactly what the
  stage it is at says (`InStep`), and once it is through every later check finds
  the order final.
* **PayoutOrderProofs.** `FinalStatusHasItsMoney` and `NothingIsBookedAgain` from
  `Payments` (what each stage implies of the answer carried and the bookings
  made); `MoneyGoesOneWay` from `Outcome` (an order under review is nobody
  else's, and only a rejection refunds what the gateway has not returned).
  `EveryDebitHasItsOrder` is inductive; `TaxRecordGoesWithTheRefund` from
  `TaxInvariant` (before the order is stored nobody else has moved; whoever is past
  the deletion of the tax record finds it deleted); `OutcomesStand` from
  `SuccessIsPaid` (who carries or has written a success has seen the transfer paid)
  together with the two above: a flip would need a refund of a paid transfer.
* **MegaTournamentProofs.** `NoMoreEntriesThanPlaces` from `EntryInvariant`: the
  join lock admits one request, so its copy of the count is current, and a
  debit is ahead of its count by at most itself.
  `PrizesArePaidOnce` from `PaysAlone`: as long as no copy was stale, the first to
  write `ended` or `finalizing` is alone on its way to the prizes.
  `FeesAreRefundedOnce` from `CancelsAlone` (a canceled tournament is canceled by
  one call and pays no prizes) and `RefundsFollow` (what that call has found is
  every counted entry, once).  `NobodyMissesThePrizes` is a statement about steps:
  `EntriesAreGames` ties the two counts a finalization compares to the sets they
  count, so equal counts mean equal sets (`CountsTell`), unless a game ended twice.
* **LudoTournamentProofs.** `NoMorePlayersThanPlaces` from `RegistrationInvariant`:
  as long as no lock was robbed, at most one registration is at work, and what it
  has checked still leaves it a place.  `NoPrizesAfterRefund` from
  `QuietAfterRefund`: once a refund is on its way the tournament is not started
  and no end of a round is between reading it and listing its players, so the
  status alone keeps later ones out.
  `EveryoneIsListed` is the longest.  `Orderly` says that in an undisturbed
  tournament one end of a round draws its conclusions at a time.  `RoundInvariant`
  says, once the first round is drawn, which seats and copies fit the round
  (`TablesFit`, `CopyFits`), where each player stands while no end is deciding
  (`PlayerFits`: still playing, waiting for the next round, promised an entry by a
  listing that is on its way, or listed), and where an end that has read the players
  puts each of them (`DecidedFor`), so that nobody is listed twice or dropped when
  the seats of the next round are drawn.  It holds as long as the tournament is
  `Sound`: undisturbed, not canceled and with no call broken off, the exceptions of
  the property itself.  Its assumption, one start job, is what `createTournament`
  schedules.

* **GamesProofs** proves the three invariants of MCServices that are about tables,
  `GamesAreSettled`, `GameGoesOn` and `ClientsAreToldTheTruth`, of Games with any
  constants that satisfy its assumptions: 2 to 4 players in Ludo and Snakes, any
  number of moves, lives, calls, messages and delays, any finite set of pawns, and in
  cricket a turn as the longest delay (`epl-gameplay/.../constants.ts`: 5 s, against 1 s
  and 3 + 1 s).
  `EveryGameIsSettled`, `EveryGameGoesOn` and `EveryClientIsToldTheTruth` follow from
  `GamesInv`, which is the invariant of the table that is played; each table has its
  own section, and its theorems are also stated of the table alone
  (`LudoPrizeIsBacked`, `SnakesPrizeIsShared`, `CricketEndIsTold`, ...).
  What these properties lack to be inductive differs from game to game:
  * *Ludo*, `LudoInv`.  Which timers go with the turn, and so must be gone when the
    table is; that the fees of a table outside a tournament are taken when it starts,
    so that no end of it finds them missing (`FeesAreTaken`); that two are still there
    who have lives (`Seated`), as otherwise the turn cannot be passed on.
  * *Snakes*, `SnakesInv`.  Handlers work on copies, so the invariant says what an
    unspoiled copy shares with the stored table (`CopiesAreFresh`), which handler will
    pass the turn on or end the game (`Carried`), and where the result of a player who
    is leaving is meanwhile (`ResultsFit`).
  * *Cricket*, `CricketInv`.  One chain of timers carries the turn at a time
    (`TurnIsCounted`), and no copy reaches a third innings.  The out that starts a
    second chain is a slip.
  * *Mega tournament*, `MegaInv`.  Whoever stores a table has the lock (`MegaLocked`);
    what it is about to store can be played on and a skip stores no other score
    (`CopiesAreTrue`); one call ends the game and nobody stores beside it (`OneEnd`),
    so the score it took when it began is the one written at the end
    (`EndHasItsScore`).

The strengthenings `Orderly` and `RoundInvariant` were model-checked as invariants
before they were proved; so was `EachBookedOnce`.  `LudoInv` was checked in all 128,769
states of the Ludo tables of MCServices, `SnakesInv` in all 1,390,238 of tables for
2 players with 4 moves and for 3 with 3.

As in the runs, the properties of tables are of behaviours without a slip: what is
proved is that nothing but the slips listed in section 3 can break them.

Only model-checked:

* liveness (fairness and ENABLED are beyond the prover): `PaidIsCredited` in
  `DepositIsSettled`, `ReturnedIsRefunded` in `OrderIsSettled`, the progress of locks
  and tournaments;
* what needs induction over data: the rules (`RulesAreKept`, `HandsAreJudgedRight`) are
  recursive over hands and boards, and of a mega tournament's table MegaGame's `TypeOK`
  bounds points that are folded over pawns and dice;
* the queues (`SeatsAreKept`): who is seated is what folds make of a sequence of those
  who wait (`SplitWaitingUsers`, `AllChunks`), which is induction over data again;
* the card tables (`MoneyIsConserved` and `GameGoesOn` of MCCardGames but for Aviator's
  parts, `TricksAreFair`), and batches, payout limits and accounts (`BookIsSound` beyond
  the account book): their invariants have not been worked out;
* `TypeOK` of the two composite runs, which is the conjunction of the modules', of which
  those of Ludo, Snakes, cricket and the account book are proved.

## 5. What is not modelled, and what would come next

Left out for good: HTTP, validation of input, wording of notifications, SMS,
uploads, queries, histories and statistics, chat and counts of players,
configuration and environment; maintenance switches; GST; the leaderboards that
administrators draw up.  `re-gameplay/.../common.service.ts` holds a second copy of
the code of skill patti (from line 873) that nothing calls, and schedulers
`createConfigSchedule` and its siblings are not started in skill patti and rummy.
The scheduler hands jobs on after a delay; every module has its timers as actions.

Left out of modelled components: the split of a skill patti pot between equal
hands and the commission; cards at the tables (the rules have them) and positions
of pawns (likewise); `changeTable` and the reconnection to a tournament game in
ludo; scores, ranks and `saveRepeatedTournament` of a ludo tournament; the limit of
entries per player of a mega tournament, which only counts finished games; more
than one financial year; the tokens and roles of a login.  The gateway of cricket
answers every connection that there is nothing to return to.

What would come next, in this order:

1. **Proofs about queues**: where a match puts whom as an assumption on a constant
   operator, and from it the seats of MatchingQueue (`SeatedOnce`) by the lock of the
   type; the same for CardQueue, whose lock has no expiry.
2. **Proofs about money**: pots and chips of SkillPatti, whose sums the lemmas of
   WalletProofs already cover, and the prizes of TournamentResults.
3. **Abstract tables**: one specification of a settled game (fees, one end,
   prizes or refunds) that LudoTable, SnakesTable and Callbreak implement while no
   slip has occurred; the invariants of GamesProofs are what a mapping needs.
4. The rest of the ludo tournament, and `changeTable`.
