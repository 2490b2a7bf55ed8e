---------------------------- MODULE LudoTournament ----------------------------
(***************************************************************************)
(* One scheduled Ludo tournament: registration, rounds of games in which    *)
(* the winners of the tables go on, the leaderboard with its prizes, and    *)
(* the cancellation by staff.  A round is ended by the scheduler, or by the *)
(* end of its last game; neither takes a lock.  Only the registration does. *)
(*                                                                         *)
(* A game is its table, its end and its winners: nobody, one player or      *)
(* several.  Scores, ranks and the split of the prizes are left out; an     *)
(* entry of the leaderboard stands for itself and for its prize.            *)
(***************************************************************************)
EXTENDS Naturals, FiniteSets

CONSTANTS Users,
          Registrations,      \* the sets of players registered at the beginning
          Joins, UserOf,      \* calls of joinTournament, and the player of each
          Starts,             \* calls of startTournament
          Cancels,            \* calls of cancelTournament
          Ends,               \* workers for the ends of games, each one call at a time
          RoundEnds,          \* workers for the scheduled ends of rounds
          Leavers,            \* players who may leave, each once
          MinNoPlayers, MaxNoPlayers, NoPlayersPerGame,
          TieRounds,          \* bound on the rounds in which games can be tied,
          TiePlayers,         \* and on the players of a tournament in which they can
          MaxFailures,        \* bound on the calls that throw or die halfway
          NoUser

Enders == Ends \union RoundEnds
Handlers == Joins \union Starts \union Cancels \union Enders

ASSUME TournamentAssumption ==
  /\ IsFiniteSet(Users) /\ NoUser \notin Users
  /\ Registrations \subseteq SUBSET Users /\ Leavers \subseteq Users
  /\ UserOf \in [Joins -> Users]
  /\ {MinNoPlayers, MaxNoPlayers, NoPlayersPerGame, TieRounds, TiePlayers, MaxFailures}
       \subseteq Nat
  /\ NoPlayersPerGame > 1
  /\ \A us \in Registrations : Cardinality(us) <= MaxNoPlayers
  /\ Joins \cap (Starts \union Cancels \union Enders) = {}
  /\ Starts \cap (Cancels \union Enders) = {}
  /\ Cancels \cap Enders = {} /\ Ends \cap RoundEnds = {}

VARIABLES status, active,     \* tournament document
          round, total,       \* tournament document: currentRoundNo, totalRounds
          joined,             \* players with a player document
          lost, played,       \* player documents: lostRoundNo, lastPlayedRoundNo
          board,              \* leaderboard entries of each player
          refundRequests,     \* messages to the wallet that are on their way
          refunded,           \* players whose entry fee was given back
          games,              \* game tables, in Redis while they are live
          promoted,           \* promoted user in Redis
          scheduled,          \* ends of rounds the scheduler has in memory
          clock,              \* 0, 1 after registerTill, 2 after startAt
          locked,             \* the tournament's lock is set
          pc, copy,           \* where each call is, and what it remembers
          left, failures,
          robbed,             \* history: a refused request deleted the lock
          crossed,            \* history: calls about one round overlapped
          revived             \* history: the start timer wrote over canceled or ended

tournament == <<status, active, round, total>>
players == <<joined, lost, played>>
money == <<refundRequests, refunded>>
tables == <<games, promoted, scheduled>>
environment == <<clock, left, failures>>
history == <<robbed, crossed, revived>>
vars == <<status, active, round, total, joined, lost, played, board, refundRequests, refunded,
          games, promoted, scheduled, clock, locked, pc, copy, left, failures, robbed, crossed,
          revived>>

Statuses == {"created", "started", "ended", "canceled"}
Joining == {"check", "debit", "player"}
Starting == {"gather", "terminate", "begin", "beginAlone", "abandon", "timer"}
Canceling == {"cancel", "close"}
Reporting == {"look", "mark", "count", "remove"}
Concluding == {"players", "winners", "write", "save", "draw"}
AtWork == Joining \union Starting \union Canceling \union Reporting \union Concluding
          \union {"read"}

Games == [round : Nat, by : Handlers, seats : SUBSET Users, live : BOOLEAN, over : BOOLEAN,
          won : SUBSET Users]
Copies == [round : Nat, total : Nat, results : SUBSET Games, losers : SUBSET Users,
           remaining : SUBSET Users]

TypeOK ==
  /\ status \in Statuses
  /\ active \in BOOLEAN
  /\ {round, total} \subseteq Nat
  /\ joined \subseteq Users
  /\ {lost, played, board} \subseteq [Users -> Nat]
  /\ refundRequests \in Nat
  /\ refunded \subseteq Users
  /\ games \subseteq Games
  /\ promoted \in Users \union {NoUser}
  /\ scheduled \subseteq Nat \X Handlers
  /\ clock \in 0..2
  /\ locked \in BOOLEAN
  /\ pc \in [Handlers -> {"idle", "done", "refused", "broken"} \union AtWork]
  /\ copy \in [Handlers -> Copies]
  /\ left \subseteq Leavers
  /\ failures \in 0..MaxFailures
  /\ {robbed, crossed, revived} \subseteq BOOLEAN

Unread == [round |-> 0, total |-> 0, results |-> {}, losers |-> {}, remaining |-> {}]

(* calculateTotalRounds divides by the seats of a game and rounds up, until *)
(* one is left: as many times as powers of the seats are below the number.  *)
TotalRounds(n) == Cardinality({k \in 0..n : NoPlayersPerGame ^ k < n})

(* createTournament.                                                        *)
Init ==
  /\ status = "created"
  /\ active = TRUE
  /\ round = 0
  /\ total = TotalRounds(MaxNoPlayers)
  /\ joined \in Registrations
  /\ lost = [u \in Users |-> 0]
  /\ played = [u \in Users |-> 0]
  /\ board = [u \in Users |-> 0]
  /\ refundRequests = 0
  /\ refunded = {}
  /\ games = {}
  /\ promoted = NoUser
  /\ scheduled = {}
  /\ clock = 0
  /\ locked = FALSE
  /\ pc = [h \in Handlers |-> "idle"]
  /\ copy = [h \in Handlers |-> Unread]
  /\ left = {}
  /\ failures = 0
  /\ robbed = FALSE
  /\ crossed = FALSE
  /\ revived = FALSE

Goto(h, s) == pc' = [pc EXCEPT ![h] = s]
Forget(h) == copy' = [copy EXCEPT ![h] = Unread]
Note(accident) == crossed' = (crossed \/ accident)
Remaining == {u \in joined : lost[u] = 0}

(* A call is between reading the round and having written its end.          *)
IsConcluding(h) == pc[h] \in Concluding \/ copy[h].losers # {}

(* A registration takes less than the thirty seconds from registerTill to   *)
(* startAt.                                                                 *)
TimePasses ==
  /\ clock < 2
  /\ clock = 1 => \A j \in Joins : pc[j] \notin Joining
  /\ clock' = clock + 1
  /\ UNCHANGED <<tournament, players, board, money, tables, locked, pc, copy, left, failures,
                 history>>

-----------------------------------------------------------------------------
(* Mutant: the lock is set whoever holds it.                                *)
AquireLockAnyway(j) ==
  /\ j \in Joins
  /\ pc[j] = "idle"
  /\ clock < 2
  /\ locked' = TRUE
  /\ Goto(j, "check")
  /\ UNCHANGED <<tournament, players, board, money, tables, environment, copy, history>>

(* joinTournament: the lock is acquired inside the try block.  Requests     *)
(* after startAt, which are all refused, are left out.                      *)
AquireLock(j) ==
  /\ j \in Joins
  /\ pc[j] = "idle"
  /\ clock < 2
  /\ ~locked
  /\ locked' = TRUE
  /\ Goto(j, "check")
  /\ UNCHANGED <<tournament, players, board, money, tables, environment, copy, history>>

(* 'Still Processing the previous request' after ten tries, and the finally *)
(* block deletes the lock of whoever has set it.                            *)
RefuseLock(j) ==
  /\ j \in Joins
  /\ pc[j] = "idle"
  /\ clock < 2
  /\ locked
  /\ locked' = FALSE
  /\ robbed' = TRUE
  /\ Goto(j, "done")
  /\ UNCHANGED <<tournament, players, board, money, tables, environment, copy, crossed, revived>>

IsOpenFor(u) ==
  /\ active
  /\ clock = 0
  /\ Cardinality(joined) < MaxNoPlayers
  /\ u \notin joined

CheckTournament(j) ==
  /\ pc[j] = "check"
  /\ \/ IsOpenFor(UserOf[j]) /\ Goto(j, "debit") /\ UNCHANGED locked
     \/ ~IsOpenFor(UserOf[j]) /\ Goto(j, "done") /\ locked' = FALSE
  /\ UNCHANGED <<tournament, players, board, money, tables, environment, copy, history>>

DebitTournamentJoinFee(j) ==
  /\ pc[j] = "debit"
  /\ \/ Goto(j, "player") /\ UNCHANGED locked
     \/ Goto(j, "done") /\ locked' = FALSE
  /\ UNCHANGED <<tournament, players, board, money, tables, environment, copy, history>>

SavePlayer(j) ==
  /\ pc[j] = "player"
  /\ joined' = joined \union {UserOf[j]}
  /\ locked' = FALSE
  /\ Goto(j, "done")
  /\ Note(\E s \in Starts : pc[s] \notin {"idle", "gather"})
  /\ UNCHANGED <<tournament, lost, played, board, money, tables, environment, copy, robbed,
                 revived>>

(* Mutant: the player has lost in the round before.                         *)
IgnoreTournamentBefore(u) ==
  /\ u \in joined \cap (Leavers \ left)
  /\ lost' = [lost EXCEPT ![u] = round - 1]
  /\ left' = left \union {u}
  /\ UNCHANGED <<tournament, joined, played, board, money, tables, clock, locked, pc, copy,
                 failures, history>>

(* ignoreTournament, when a player leaves his table or the tournament.      *)
IgnoreTournament(u) ==
  /\ u \in joined \cap (Leavers \ left)
  /\ lost' = [lost EXCEPT ![u] = IF round = 0 THEN 1 ELSE round]
  /\ left' = left \union {u}
  /\ UNCHANGED <<tournament, joined, played, board, money, tables, clock, locked, pc, copy,
                 failures, history>>

-----------------------------------------------------------------------------
(* startTournament, which the scheduler calls at registerTill.              *)
FindTournament(s) ==
  /\ s \in Starts
  /\ pc[s] = "idle"
  /\ clock > 0
  /\ Goto(s, IF status = "canceled" THEN "refused" ELSE "gather")
  /\ UNCHANGED <<tournament, players, board, money, tables, environment, locked, copy, history>>

GetTournamentUserIds(s) ==
  /\ pc[s] = "gather"
  /\ copy' = [copy EXCEPT ![s].remaining = joined]
  /\ \/ Cardinality(joined) < MinNoPlayers /\ Goto(s, "terminate")
     \/ /\ Cardinality(joined) >= MinNoPlayers
        /\ Goto(s, IF Cardinality(Remaining) = 1 THEN "beginAlone" ELSE "begin")
  /\ UNCHANGED <<tournament, players, board, money, tables, environment, locked, history>>

TerminateTournament(s) ==
  /\ pc[s] = "terminate"
  /\ status' = "canceled"
  /\ active' = FALSE
  /\ refundRequests' = refundRequests + 1
  /\ Goto(s, "done")
  /\ Note(\E h \in Enders : IsConcluding(h))
  /\ UNCHANGED <<round, total, players, board, refunded, tables, environment, locked, copy,
                 robbed, revived>>

BeginFirstRound(s) ==
  /\ pc[s] \in {"begin", "beginAlone"}
  /\ round' = 1
  /\ total' = TotalRounds(Cardinality(copy[s].remaining))
  /\ copy' = [copy EXCEPT ![s].round = 1]
  /\ Goto(s, IF pc[s] = "begin" THEN "draw" ELSE "cancel")
  /\ UNCHANGED <<status, active, players, board, money, tables, environment, locked, history>>

(* The start of a tournament with one player left cancels it first.         *)
EndAbandoned(s) ==
  /\ pc[s] = "abandon"
  /\ status' = "ended"
  /\ active' = FALSE
  /\ Goto(s, "timer")
  /\ UNCHANGED <<round, total, players, board, money, tables, environment, locked, copy, history>>

(* The timer set for startAt writes the status whatever it has become.      *)
FireStartTimer(s) ==
  /\ pc[s] = "timer"
  /\ clock = 2
  /\ status' = "started"
  /\ revived' = (revived \/ status # "created")
  /\ Goto(s, "done")
  /\ Forget(s)
  /\ UNCHANGED <<active, round, total, players, board, money, tables, environment, locked,
                 robbed, crossed>>

-----------------------------------------------------------------------------
(* cancelTournament, by staff or from startTournament.  The status is       *)
(* written before anything is looked at.  endAt is set to now by whatever   *)
(* ends the tournament; until then it is the prediction createTournament    *)
(* made, two rounds after the last (line 690), and rounds begin on schedule *)
(* or early: endAt lies in the past once the tournament is not active.      *)
WriteCanceled(x) ==
  /\ \/ x \in Cancels /\ pc[x] = "idle"
     \/ x \in Starts /\ pc[x] = "cancel"
  /\ status' = "canceled"
  /\ Goto(x, IF active THEN "close" ELSE "refused")
  /\ Note(\E h \in Enders : IsConcluding(h))
  /\ UNCHANGED <<active, round, total, players, board, money, tables, environment, locked, copy,
                 robbed, revived>>

(* The document that findByIdAndUpdate returned has the status before, so   *)
(* save writes it once more.  The refund is not waited for.                 *)
CloseTournament(x) ==
  /\ pc[x] = "close"
  /\ status' = "canceled"
  /\ active' = FALSE
  /\ refundRequests' = refundRequests + 1
  /\ Goto(x, IF x \in Starts THEN "abandon" ELSE "done")
  /\ Note(\E h \in Enders : IsConcluding(h))
  /\ UNCHANGED <<round, total, players, board, refunded, tables, environment, locked, copy,
                 robbed, revived>>

(* refundLudoTournamentJoinFee: a second one stops at the first player, for *)
(* whom the wallet says 'Transaction already exists'.                       *)
RefundJoinFees ==
  /\ refundRequests > 0
  /\ refundRequests' = refundRequests - 1
  /\ refunded' = IF refunded = {} THEN joined ELSE refunded
  /\ UNCHANGED <<tournament, players, board, tables, environment, locked, pc, copy, history>>

-----------------------------------------------------------------------------
(* startRound: the players are shuffled and seated, the last table with     *)
(* those who remain; one who remains alone is promoted.                     *)
SeatingsOf(us) ==
  LET rest == Cardinality(us) % NoPlayersPerGame
      seats == {s \in SUBSET us : Cardinality(s) \in {NoPlayersPerGame, rest} \ {0}}
  IN  {d \in SUBSET seats :
         /\ UNION d = us
         /\ \A s, t \in d : s # t => s \cap t = {}
         /\ Cardinality({s \in d : Cardinality(s) # NoPlayersPerGame}) <= 1}

GameAt(h, r, s) == [round |-> r, by |-> h, seats |-> s, live |-> TRUE, over |-> FALSE, won |-> {}]

StoreInitialTables(h, r, seating) ==
  /\ games' = games \union {GameAt(h, r, s) : s \in {t \in seating : Cardinality(t) > 1}}
  /\ promoted' = IF \E s \in seating : Cardinality(s) = 1
                 THEN CHOOSE u \in Users : {u} \in seating
                 ELSE NoUser

WinnersOf(results) == UNION {g.won : g \in results}
SeatedIn(results) == UNION {g.seats : g \in results}

(* Whom the handler passes to _startNewRound.                               *)
Qualified(h) ==
  IF h \in Starts THEN copy[h].remaining
  ELSE WinnersOf(copy[h].results) \union ({promoted} \ {NoUser})

AfterDraw(h) == IF h \in Starts THEN "timer" ELSE IF h \in Ends THEN "remove" ELSE "idle"

(* Mutant: nobody schedules the end of the round.                           *)
StartNewRoundUnscheduled(h) ==
  /\ pc[h] = "draw"
  /\ \E seating \in SeatingsOf(Qualified(h)) : StoreInitialTables(h, copy[h].round, seating)
  /\ Goto(h, AfterDraw(h))
  /\ UNCHANGED <<tournament, players, board, money, scheduled, environment, locked, copy, history>>

(* _startNewRound, on the caller's copy of the tournament, whose status is  *)
(* neither ended nor canceled.                                              *)
StartNewRound(h) ==
  /\ pc[h] = "draw"
  /\ \E seating \in SeatingsOf(Qualified(h)) : StoreInitialTables(h, copy[h].round, seating)
  /\ scheduled' = scheduled \union {<<copy[h].round, h>>}
  /\ Goto(h, AfterDraw(h))
  /\ UNCHANGED <<tournament, players, board, money, environment, locked, copy, history>>

-----------------------------------------------------------------------------
(* findWinners: the players with the highest score, nobody where all who    *)
(* remain have none.                                                        *)
Winners(g) ==
  {w \in SUBSET g.seats :
     \/ Cardinality(w) <= 1
     \/ g.round <= TieRounds /\ Cardinality(joined) <= TiePlayers}

Finished(g, w) == IF g.over THEN g ELSE [g EXCEPT !.over = TRUE, !.won = w]

(* endRound of the table's service: a game is over, by its last move, its   *)
(* timer, a player who leaves or the scheduler; the document of the table   *)
(* gets the winners.                                                        *)
ReportTable(e) ==
  /\ e \in Ends
  /\ pc[e] = "idle"
  /\ copy[e].losers = {}
  /\ \E g \in games :
       /\ g.live
       /\ \E w \in (IF g.over THEN {g.won} ELSE Winners(g)) :
            LET f == Finished(g, w)
            IN  /\ games' = (games \ {g}) \union {f}
                /\ copy' = [copy EXCEPT ![e] = [Unread EXCEPT !.round = g.round, !.results = {f}]]
  /\ Goto(e, "look")
  /\ UNCHANGED <<tournament, players, board, money, promoted, scheduled, environment, locked,
                 history>>

(* Mutant: neither status nor round are looked at.                          *)
AnyRound(h) == TRUE

(* 'is not Found or Active', 'result is already declared'.                  *)
IsCurrentRound(h) == status = "started" /\ round = copy[h].round

(* endSomeRoundGamesEarlier.  A call that throws leaves its table in Redis. *)
LookAtRound(e) ==
  /\ pc[e] = "look"
  /\ \/ /\ IsCurrentRound(e)
        /\ copy' = [copy EXCEPT ![e].total = total]
        /\ Goto(e, "mark")
     \/ ~IsCurrentRound(e) /\ Forget(e) /\ Goto(e, "idle")
  /\ UNCHANGED <<tournament, players, board, money, tables, environment, locked, history>>

(* Both bulk writes: winners keep their lostRoundNo.                        *)
LostAfter(h, us) ==
  [u \in Users |-> IF u \in us \ WinnersOf(copy[h].results) THEN copy[h].round ELSE lost[u]]
PlayedAfter(h, us) == [u \in Users |-> IF u \in us THEN copy[h].round ELSE played[u]]

(* The end of a round is deciding on the players it has read.               *)
HasReadPlayers(h) == pc[h] \in {"winners", "write", "save"}

MarkPlayers(e) ==
  /\ pc[e] = "mark"
  /\ lost' = LostAfter(e, joined \cap SeatedIn(copy[e].results))
  /\ played' = PlayedAfter(e, joined \cap SeatedIn(copy[e].results))
  /\ Goto(e, "count")
  /\ Note(round # copy[e].round \/ \E h \in Enders : HasReadPlayers(h))
  /\ UNCHANGED <<tournament, joined, board, money, tables, environment, locked, copy, robbed,
                 revived>>

CountRemaining(e) ==
  /\ pc[e] = "count"
  /\ Goto(e, IF copy[e].round = copy[e].total \/ Cardinality(Remaining) <= 1
             THEN "read" ELSE "remove")
  /\ UNCHANGED <<tournament, players, board, money, tables, environment, locked, copy, history>>

RemoveTable(e) ==
  /\ pc[e] = "remove"
  /\ games' = {IF g \in copy[e].results THEN [g EXCEPT !.live = FALSE] ELSE g : g \in games}
  /\ Goto(e, "idle")
  /\ copy' = [copy EXCEPT ![e] = [Unread EXCEPT !.losers = copy[e].losers]]
  /\ UNCHANGED <<tournament, players, board, money, promoted, scheduled, environment, locked,
                 history>>

(* endRound of the gameplay service, minutes after the start: games still   *)
(* going on are over, the others have their winners in the documents.       *)
CollectResults(r) ==
  /\ r \in RoundEnds
  /\ pc[r] = "idle"
  /\ copy[r].losers = {}
  /\ \A s \in Starts : pc[s] # "timer"
  /\ \E end \in scheduled :
       LET mine == {g \in games : g.round = end[1]}
       IN  \E w \in [mine -> SUBSET Users] :
             /\ \A g \in mine : w[g] \in (IF g.over THEN {g.won} ELSE Winners(g))
             /\ games' = (games \ mine) \union
                         {[Finished(g, w[g]) EXCEPT !.live = g.live /\ g.over] : g \in mine}
             /\ copy' = [copy EXCEPT ![r] = [Unread EXCEPT
                           !.round = end[1], !.results = {Finished(g, w[g]) : g \in mine}]]
             /\ scheduled' = scheduled \ {end}
  /\ Goto(r, "read")
  /\ UNCHANGED <<tournament, players, board, money, promoted, environment, locked, history>>

-----------------------------------------------------------------------------
(* endRound of the tournament service.                                      *)
ReadRound(h) ==
  /\ pc[h] = "read"
  /\ \/ /\ IsCurrentRound(h)
        /\ copy' = [copy EXCEPT ![h].total = total]
        /\ Goto(h, "players")
     \/ ~IsCurrentRound(h) /\ Forget(h) /\ Goto(h, "idle")
  /\ Note(IsCurrentRound(h) /\ \E g \in Enders \ {h} : IsConcluding(g))
  /\ UNCHANGED <<tournament, players, board, money, tables, environment, locked, robbed, revived>>

(* Mutant: whoever is out counts as a loser of this round.                  *)
ReadPlayersAnyRound(h) ==
  LET seated == SeatedIn(copy[h].results)
      remaining == (Remaining \ seated) \union (joined \cap WinnersOf(copy[h].results))
  IN  /\ pc[h] = "players"
      /\ copy' = [copy EXCEPT ![h].losers = joined \ remaining, ![h].remaining = remaining]
      /\ Goto(h, IF copy[h].round = copy[h].total \/ Cardinality(remaining) <= 1
                 THEN "winners" ELSE "write")
      /\ UNCHANGED <<tournament, players, board, money, tables, environment, locked, history>>

(* The results are laid over the players that were read: a winner counts as *)
(* remaining even if he has left.                                           *)
ReadPlayers(h) ==
  LET seated == SeatedIn(copy[h].results)
      winners == WinnersOf(copy[h].results)
      remaining == (Remaining \ seated) \union (joined \cap winners)
      losers == {u \in joined \ remaining : u \in seated \/ played[u] = copy[h].round}
  IN  /\ pc[h] = "players"
      /\ copy' = [copy EXCEPT ![h].losers = losers, ![h].remaining = remaining]
      /\ Goto(h, IF copy[h].round = copy[h].total \/ Cardinality(remaining) <= 1
                 THEN "winners" ELSE "write")
      /\ UNCHANGED <<tournament, players, board, money, tables, environment, locked, history>>

Listed(us) == [u \in Users |-> IF u \in us THEN board[u] + 1 ELSE board[u]]

(* generateLeaderBoardAndCreditWinAmount for the losers, which only the end *)
(* of the tournament waits for.  It is meant to pass over players who are   *)
(* listed already, but compares their ids as objects.                       *)
ListLosers(h) ==
  /\ copy[h].losers # {}
  /\ pc[h] # "broken"
  /\ board' = Listed(copy[h].losers)
  /\ copy' = [copy EXCEPT ![h].losers = {}]
  /\ UNCHANGED <<tournament, players, money, tables, environment, locked, pc, history>>

ListWinners(h) ==
  /\ pc[h] = "winners"
  /\ copy[h].losers = {}
  /\ board' = Listed(copy[h].remaining)
  /\ Goto(h, "write")
  /\ UNCHANGED <<tournament, players, money, tables, environment, locked, copy, history>>

(* Players whose table was reported before are passed over.  Neither this   *)
(* write nor the save after it is waited for; they are sent in this order,  *)
(* and neither takes as long as a round.                                    *)
WritePlayers(h) ==
  LET us == {u \in joined \cap SeatedIn(copy[h].results) : played[u] # copy[h].round}
  IN  /\ pc[h] = "write"
      /\ lost' = LostAfter(h, us)
      /\ played' = PlayedAfter(h, us)
      /\ Goto(h, "save")
      /\ UNCHANGED <<tournament, joined, board, money, tables, environment, locked, copy, history>>

IsLastRound(h) == copy[h].round = copy[h].total \/ Cardinality(copy[h].remaining) <= 1

EndTournament(h) ==
  /\ pc[h] = "save"
  /\ IsLastRound(h)
  /\ status' = "ended"
  /\ active' = FALSE
  /\ Goto(h, IF h \in Ends THEN "remove" ELSE "idle")
  /\ IF h \in Ends THEN UNCHANGED copy ELSE Forget(h)
  /\ UNCHANGED <<round, total, players, board, money, tables, environment, locked, history>>

(* The save writes the number of the round, and not the status.             *)
SaveNextRound(h) ==
  /\ pc[h] = "save"
  /\ ~IsLastRound(h)
  /\ round' = copy[h].round + 1
  /\ total' = copy[h].round + TotalRounds(Cardinality(copy[h].remaining))
  /\ copy' = [copy EXCEPT ![h].round = copy[h].round + 1]
  /\ Goto(h, "draw")
  /\ UNCHANGED <<status, active, players, board, money, tables, environment, locked, history>>

-----------------------------------------------------------------------------
(* A call throws, or its process dies and leaves the lock.                  *)
Fail(h) ==
  /\ failures < MaxFailures
  /\ pc[h] \in AtWork
  /\ failures' = failures + 1
  /\ locked' \in (IF pc[h] \in Joining THEN {FALSE, locked} ELSE {locked})
  /\ Goto(h, "broken")
  /\ UNCHANGED <<tournament, players, board, money, tables, clock, copy, left, history>>

JoinOn(j) == AquireLock(j) \/ RefuseLock(j) \/ CheckTournament(j) \/ DebitTournamentJoinFee(j)
             \/ SavePlayer(j)
StartOn(s) == FindTournament(s) \/ GetTournamentUserIds(s) \/ TerminateTournament(s)
              \/ BeginFirstRound(s) \/ EndAbandoned(s) \/ FireStartTimer(s)
CancelOn(x) == WriteCanceled(x) \/ CloseTournament(x)
ReportOn(e) == LookAtRound(e) \/ MarkPlayers(e) \/ CountRemaining(e) \/ RemoveTable(e)
ConcludeOn(h) == ReadRound(h) \/ ReadPlayers(h) \/ ListLosers(h) \/ ListWinners(h)
                 \/ WritePlayers(h) \/ EndTournament(h) \/ SaveNextRound(h) \/ StartNewRound(h)

Next ==
  \/ TimePasses
  \/ RefundJoinFees
  \/ \E u \in Users : IgnoreTournament(u)
  \/ \E h \in Handlers : \/ JoinOn(h) \/ StartOn(h) \/ CancelOn(h)
                         \/ ReportTable(h) \/ ReportOn(h) \/ CollectResults(h) \/ ConcludeOn(h)
                         \/ Fail(h)

Spec == Init /\ [][Next]_vars

(* Time passes, handlers that have begun go on, and the scheduler fires.    *)
(* Players need not finish their games nor join.                            *)
Fairness ==
  /\ WF_vars(TimePasses)
  /\ \A h \in Handlers : WF_vars(StartOn(h) \/ CloseTournament(h) \/ ReportOn(h) \/ ConcludeOn(h))
  /\ \A s \in Starts : WF_vars(WriteCanceled(s))
  /\ \A r \in RoundEnds : WF_vars(CollectResults(r))

FairSpec == Spec /\ Fairness

-----------------------------------------------------------------------------
SomeCallBrokeOff == \E h \in Handlers : pc[h] = "broken"
IsRefunding == refundRequests > 0 \/ refunded # {}

(* No two calls have concluded one round together, and the start timer has  *)
(* not put a tournament that was over back to started.                      *)
Undisturbed == ~crossed /\ ~revived

(* However many players register at once, there are no more than places,    *)
(* unless a request that was refused the lock deleted it.                   *)
PlayersWithinLimit == Cardinality(joined) <= MaxNoPlayers \/ robbed

(* When a tournament is over, everybody who stayed is on the leaderboard    *)
(* once, and nobody twice, though games are reported early and again at the *)
(* end of their round, ties add rounds, and an odd player is promoted:      *)
(* unless calls crossed, or one broke off halfway.                          *)
EveryoneIsListedOnce ==
  status = "ended" /\ ~IsRefunding /\ Undisturbed /\ ~SomeCallBrokeOff =>
    \A u \in joined : board[u] = 1 \/ (board[u] = 0 /\ u \in left)

(* Once refunds are on their way nobody is listed any more, unless the end  *)
(* of a round was under way, or the start timer put the tournament back to  *)
(* started.                                                                 *)
NothingIsListedAfterRefund ==
  [][board' # board /\ Undisturbed => ~IsRefunding]_vars

(* A tournament that has started comes to its end, with as many rounds as   *)
(* ties make necessary, unless calls crossed or one broke off.              *)
StartedComesToAnEnd ==
  status = "started" ~> status \in {"ended", "canceled"} \/ ~Undisturbed \/ SomeCallBrokeOff
=============================================================================
