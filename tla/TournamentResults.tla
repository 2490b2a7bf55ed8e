-------------------------- MODULE TournamentResults --------------------------
(***************************************************************************)
(* The results of a mega tournament: what the end of a game stores, the     *)
(* rank it is told, and what a finalization makes of the stored entries:    *)
(* ranks, the split of the prizes, statistics and histories, and the money. *)
(* Every entry has been played for, so that none is joined any more; when a *)
(* finalization may start is the subject of MegaTournament.  Amounts are in *)
(* hundredths.                                                             *)
(*                                                                         *)
(* slips names what the code lets through when two calls cross or when one  *)
(* dies halfway.                                                           *)
(***************************************************************************)
EXTENDS Integers, FiniteSetsExt, SequencesExt

CONSTANTS
  Games,        \* sequence of [user, score]: the games that were entered
  JoinFee,
  Prizes,       \* sequence of [minRank, maxRank, percentage]
  AtOnce,       \* bound: games that end at the same time
  MaxFinals     \* bound: finalizations

VARIABLES entering, rating, entries, highestScore, told, finals, status, total, paid, stats, slips

vars == <<entering, rating, entries, highestScore, told, finals, status, total, paid, stats, slips>>

GameIds == DOMAIN Games
Users == {Games[g].user : g \in GameIds}
FinalIds == 1..MaxFinals
Scores == {Games[g].score : g \in GameIds}
Stages == {"none", "read", "done"}

(* #validateTournamentCreationRequest, and prizes that do not grow with the *)
(* rank nor exceed the fees together.                                       *)
PlacesOf(p) == p.maxRank - p.minRank + 1
TournamentIsValid ==
  /\ JoinFee > 0 /\ Len(Games) >= 2 /\ Len(Prizes) > 0
  /\ \A i \in 1..Len(Prizes) - 1 :
       Prizes[i + 1].minRank = Prizes[i].maxRank + 1 /\ Prizes[i + 1].percentage <= Prizes[i].percentage
  /\ FoldLeft(LAMBDA s, p : s + p.percentage * PlacesOf(p), 0, Prizes) <= 100

NoFinal == [at |-> "none", todo |-> {}, rows |-> <<>>, prizes |-> <<>>]

Init ==
  /\ TournamentIsValid
  /\ entering = [g \in GameIds |-> [at |-> "none", count |-> 0]]
  /\ rating = [g \in GameIds |-> [at |-> "none", highest |-> 0]]
  /\ entries = <<>> /\ highestScore = 0
  /\ told = [g \in GameIds |-> [rank |-> 0, status |-> "none"]]
  /\ finals = [f \in FinalIds |-> NoFinal]
  /\ status = "full" /\ total = 0
  /\ paid = [u \in Users |-> 0]
  /\ stats = [u \in Users |-> [earned |-> 0, won |-> 0, lost |-> 0]]
  /\ slips = {}

Results == <<entering, rating, entries, highestScore, told>>
Final == <<finals, status, total, paid, stats>>
Slip(what, happened) == slips' = IF happened THEN slips \union {what} ELSE slips
EntriesOf(u) == {i \in DOMAIN entries : entries[i].user = u}
RankWithScore(score) == Cardinality({i \in DOMAIN entries : entries[i].score > score}) + 1
-----------------------------------------------------------------------------
Begun(g) == entering[g].at # "none" \/ rating[g].at # "none"
MayBegin(g) == Begun(g) \/ Cardinality({h \in GameIds : Begun(h) /\ told[h].rank = 0}) < AtOnce

(* storeGameResult: the entry and the highest score, side by side.  The     *)
(* number of an entry follows the count of those the player has.            *)
CountEntries(g) ==
  /\ MayBegin(g) /\ entering[g].at = "none"
  /\ entering' = [entering EXCEPT ![g] = [at |-> "read", count |-> Cardinality(EntriesOf(Games[g].user))]]
  /\ Slip("entries crossed", \E h \in GameIds \ {g} : entering[h].at = "read" /\ Games[h].user = Games[g].user)
  /\ UNCHANGED <<rating, entries, highestScore, told, Final>>

StoreEntryResult(g) ==
  /\ entering[g].at = "read"
  /\ entries' = Append(entries, [user |-> Games[g].user, score |-> Games[g].score,
                                 entryNo |-> entering[g].count + 1, rank |-> 0, winAmount |-> 0])
  /\ entering' = [entering EXCEPT ![g].at = "done"]
  /\ UNCHANGED <<rating, highestScore, told, Final, slips>>

ReadHighestScore(g) ==
  /\ MayBegin(g) /\ rating[g].at = "none"
  /\ rating' = [rating EXCEPT ![g] = IF highestScore < Games[g].score
                                     THEN [at |-> "read", highest |-> highestScore]
                                     ELSE [at |-> "done", highest |-> 0]]
  /\ Slip("scores crossed", highestScore < Games[g].score /\ \E h \in GameIds \ {g} : rating[h].at = "read")
  /\ UNCHANGED <<entering, entries, highestScore, told, Final>>

UpdateTournamentHighestScore(g) ==
  /\ rating[g].at = "read"
  /\ highestScore' = Games[g].score
  /\ rating' = [rating EXCEPT ![g] = [at |-> "done", highest |-> 0]]
  /\ UNCHANGED <<entering, entries, told, Final, slips>>

(* The rank in the event that ends the game, and the tournament as it is    *)
(* read with it.                                                            *)
TellRank(g) ==
  /\ entering[g].at = "done" /\ rating[g].at = "done" /\ told[g].rank = 0
  /\ told' = [told EXCEPT ![g] = [rank |-> RankWithScore(Games[g].score), status |-> status]]
  /\ UNCHANGED <<entering, rating, entries, highestScore, Final, slips>>
-----------------------------------------------------------------------------
Rounded(n, d) == (2 * n + d) \div (2 * d)          \* toFixed: half up

(* #calculateWinAmount                                                      *)
WinAmount(rank) ==
  LET won == {i \in DOMAIN Prizes : Prizes[i].minRank <= rank /\ rank <= Prizes[i].maxRank}
  IN  IF won = {} THEN 0 ELSE Rounded(JoinFee * Len(Games) * Prizes[Min(won)].percentage, 100)

(* Entries in the order of their scores; equal ones in any order.           *)
Orders ==
  {order \in SetToSeqs(DOMAIN entries) :
     \A i \in 1..Len(order) - 1 : entries[order[i]].score >= entries[order[i + 1]].score}

(* Equal scores get the first of their ranks, and share their prizes.       *)
Ranked(order) ==
  [i \in DOMAIN order |->
     LET score == entries[order[i]].score
         equal == {k \in DOMAIN order : entries[order[k]].score = score}
     IN  [user |-> entries[order[i]].user, entryNo |-> entries[order[i]].entryNo,
          rank |-> Min(equal),
          winAmount |-> Rounded(MapThenSumSet(WinAmount, equal), Cardinality(equal))]]

Goto(f, s) == finals' = [finals EXCEPT ![f].at = s]

(* Each end of a game may finalize, one at a time under the lock of the      *)
(* tournament, if the tournament was full when its rank was told.           *)
MayFinalize ==
  /\ \A f \in FinalIds : finals[f].at \in {"none", "done", "died"}
  /\ Cardinality({f \in FinalIds : finals[f].at # "none"}) < Cardinality({g \in GameIds : told[g].status = "full"})

(* updateLeaderboard reads the entries, and writes three collections.       *)
ReadEntries(f) ==
  /\ finals[f].at = "none" /\ \A e \in FinalIds : e < f => finals[e].at # "none"
  /\ MayFinalize /\ Len(entries) = Len(Games)
  /\ \E order \in Orders :
       finals' = [finals EXCEPT ![f] = [at |-> "write", todo |-> {"entries", "stats"},
                                        rows |-> Ranked(order), prizes |-> <<>>]]
  /\ Slip("finalized twice", \E e \in FinalIds \ {f} : finals[e].at # "none")
  /\ UNCHANGED <<Results, status, total, paid, stats>>

Todo(f, what) ==
  /\ finals[f].at = "write" /\ what \in finals[f].todo
  /\ finals' = [finals EXCEPT ![f].todo = @ \ {what}]

(* An update goes to the first entry of a player with the number.           *)
WriteEntries(f) ==
  /\ Todo(f, "entries")
  /\ entries' =
       FoldLeft(LAMBDA es, row :
                  LET i == Min({k \in DOMAIN es : es[k].user = row.user /\ es[k].entryNo = row.entryNo})
                  IN  [es EXCEPT ![i].rank = row.rank, ![i].winAmount = row.winAmount],
                entries, finals[f].rows)
  /\ UNCHANGED <<entering, rating, highestScore, told, status, total, paid, stats, slips>>

RowsOf(f, u) == {i \in DOMAIN finals[f].rows : finals[f].rows[i].user = u}

(* Statistics and histories, one for each row.                              *)
WriteStats(f) ==
  /\ Todo(f, "stats")
  /\ stats' =
       [u \in Users |->
          LET rows == RowsOf(f, u)
              win(i) == finals[f].rows[i].winAmount
              won == {i \in rows : win(i) > 0}
          IN  [earned |-> stats[u].earned + MapThenSumSet(win, rows),
               won |-> stats[u].won + Cardinality(won),
               lost |-> stats[u].lost + Cardinality(rows \ won)]]
  /\ UNCHANGED <<Results, status, total, paid, slips>>

(* getPrizes                                                                *)
GetPrizes(f) ==
  /\ finals[f].at = "write" /\ finals[f].todo = {}
  /\ finals' = [finals EXCEPT ![f].at = "credit", ![f].rows = <<>>,
                 ![f].prizes = SelectSeq(entries, LAMBDA e : e.winAmount > 0)]
  /\ UNCHANGED <<Results, status, total, paid, stats, slips>>

PrizeSum(f, u) ==
  LET won == {i \in DOMAIN finals[f].prizes : u = finals[f].prizes[i].user}
  IN  MapThenSumSet(LAMBDA i : finals[f].prizes[i].winAmount, won)

CreditPrizes(f) ==
  /\ finals[f].at = "credit"
  /\ paid' = [u \in Users |-> paid[u] + PrizeSum(f, u)]
  /\ Goto(f, "mark")
  /\ UNCHANGED <<Results, status, total, stats, slips>>

MarkAsCompleted(f) ==
  /\ finals[f].at = "mark"
  /\ status' = "completed"
  /\ total' = MapThenSumSet(LAMBDA u : PrizeSum(f, u), Users)
  /\ finals' = [finals EXCEPT ![f] = [NoFinal EXCEPT !.at = "done"]]
  /\ UNCHANGED <<Results, paid, stats, slips>>

(* The service dies, once.                                                  *)
Die(f) ==
  /\ finals[f].at \in {"write", "credit", "mark"} /\ "died halfway" \notin slips
  /\ finals' = [finals EXCEPT ![f] = [NoFinal EXCEPT !.at = "died"]]
  /\ Slip("died halfway", TRUE)
  /\ UNCHANGED <<Results, status, total, paid, stats>>

Next ==
  \/ \E g \in GameIds : CountEntries(g) \/ StoreEntryResult(g) \/ ReadHighestScore(g)
                        \/ UpdateTournamentHighestScore(g) \/ TellRank(g)
  \/ \E f \in FinalIds : ReadEntries(f) \/ WriteEntries(f) \/ WriteStats(f) \/ GetPrizes(f)
                         \/ CreditPrizes(f) \/ MarkAsCompleted(f) \/ Die(f)

Spec == Init /\ [][Next]_vars
-----------------------------------------------------------------------------
TypeOK ==
  /\ \A g \in GameIds : entering[g].at \in Stages /\ rating[g].at \in Stages /\ told[g].rank \in 0..Len(Games)
  /\ highestScore \in {0} \union Scores
  /\ \A i \in DOMAIN entries : entries[i].entryNo \in 1..Len(Games) /\ entries[i].rank \in 0..Len(Games)
  /\ \A f \in FinalIds : finals[f].at \in {"none", "write", "credit", "mark", "done", "died"}
  /\ status \in {"full", "completed"}
  /\ slips \subseteq {"entries crossed", "scores crossed", "finalized twice", "died halfway"}

Kept(slip, statement) == slip \in slips \/ statement

(* The highest score is the highest of the games that ended, unless two     *)
(* ends crossed.                                                            *)
HighestScoreIsTrue ==
  LET rated == {g \in GameIds : rating[g].at = "done"}
  IN  Kept("scores crossed", highestScore = Max({0} \union {Games[g].score : g \in rated}))

(* A rank only gets worse while others end their games, and the last one is *)
(* the rank in the leaderboard.                                             *)
RanksOnlyFall ==
  LET ranked(g) == \E i \in DOMAIN entries : entries[i].rank > 0 /\ entries[i].score = Games[g].score
  IN  /\ \A g \in GameIds : told[g].rank <= RankWithScore(Games[g].score)
      /\ Kept("entries crossed",
              \A g \in GameIds : ranked(g) =>
                \A i \in DOMAIN entries :
                  entries[i].score = Games[g].score => entries[i].rank = RankWithScore(entries[i].score))

(* Whoever has more points wins no less, equals win the same, and together  *)
(* they win what the places they take are worth, but for rounding.          *)
PrizesAreFair ==
  LET win(i) == entries[i].winAmount
      pool == MapThenSumSet(WinAmount, 1..Len(Games))
      sum == MapThenSumSet(win, DOMAIN entries)
  IN  status = "completed" /\ "entries crossed" \notin slips =>
        /\ \A i, k \in DOMAIN entries : entries[i].score >= entries[k].score => win(i) >= win(k)
        /\ \A i, k \in DOMAIN entries : entries[i].score = entries[k].score => win(i) = win(k)
        /\ 2 * (sum - pool) <= Len(Games) /\ 2 * (pool - sum) <= Len(Games)

(* When the tournament is completed everybody has been paid what its        *)
(* entries say, once, and the statistics say the same, unless a             *)
(* finalization died or two of them ran; and the total is what was paid.    *)
PrizesAreBooked ==
  status = "completed" /\ {"finalized twice", "died halfway"} \cap slips = {} =>
    /\ \A u \in Users : paid[u] = MapThenSumSet(LAMBDA i : entries[i].winAmount, EntriesOf(u))
    /\ total = MapThenSumSet(LAMBDA u : paid[u], Users)
    /\ \A u \in Users : stats[u].won + stats[u].lost = Cardinality(EntriesOf(u))
    /\ Kept("entries crossed", \A u \in Users : stats[u].earned = paid[u])
=============================================================================
