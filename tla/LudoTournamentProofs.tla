------------------------- MODULE LudoTournamentProofs -------------------------
(***************************************************************************)
(* Theorems about a tournament with any number of players, registrations,  *)
(* cancellations and calls that end games and rounds.                      *)
(***************************************************************************)
EXTENDS LudoTournament, FiniteSetTheorems, TLAPS

(* Each stage of a handler belongs to calls of one kind, and only the end   *)
(* of a round lists losers.                                                 *)
Fits(h, stage, losers) ==
  /\ stage \in Joining => h \in Joins
  /\ stage \in Starting \union {"cancel"} => h \in Starts
  /\ stage = "close" => h \in Starts \union Cancels
  /\ stage = "draw" => h \in Starts \union Enders
  /\ stage \in Reporting => h \in Ends
  /\ stage \in (Concluding \ {"draw"}) \union {"read"} => h \in Enders
  /\ losers # {} => h \in Enders

Kinds == \A h \in Handlers : Fits(h, pc[h], copy[h].losers)

Stages == {"idle", "done", "refused", "broken"} \union AtWork

LEMMA RoundsType == ASSUME NEW n \in Nat PROVE TotalRounds(n) \in Nat
<1>1. IsFiniteSet(0..n)
  BY FS_Interval
<1>2. IsFiniteSet({k \in 0..n : NoPlayersPerGame ^ k < n})
  BY <1>1, FS_Subset, Zenon
<1> QED BY <1>2, FS_CardinalityType DEF TotalRounds

LEMMA SetsOfUsers == ASSUME NEW us \in SUBSET Users PROVE Cardinality(us) \in Nat
BY TournamentAssumption, FS_Subset, FS_CardinalityType

LEMMA ResultsType ==
  ASSUME NEW results \in SUBSET Games
  PROVE  WinnersOf(results) \subseteq Users /\ SeatedIn(results) \subseteq Users
BY DEF WinnersOf, SeatedIn, Games

(* An odd player is a player.                                               *)
LEMMA PromotedType ==
  ASSUME NEW us \in SUBSET Users, NEW seating \in SeatingsOf(us),
         \E s \in seating : Cardinality(s) = 1
  PROVE  \E u \in Users : {u} \in seating
<1>1. PICK s \in seating : Cardinality(s) = 1
  OBVIOUS
<1>2. s \subseteq Users
  BY DEF SeatingsOf
<1>3. IsFiniteSet(s)
  BY <1>2, TournamentAssumption, FS_Subset
<1>4. \E u : s = {u}
  BY <1>1, <1>3, FS_Singleton
<1> QED BY <1>1, <1>2, <1>4

LEMMA QualifiedType == ASSUME TypeOK, NEW h \in Handlers PROVE Qualified(h) \subseteq Users
<1>1. copy[h] \in Copies
  BY DEF TypeOK
<1> QED BY <1>1, ResultsType DEF TypeOK, Qualified, Copies

(* A handler that goes to a stage of its kind leaves the others where they  *)
(* are.                                                                     *)
LEMMA OneGoes ==
  ASSUME TypeOK, Kinds, NEW h \in Handlers, NEW stage \in Stages, Goto(h, stage),
         copy' \in [Handlers -> Copies], \A g \in Handlers \ {h} : copy'[g] = copy[g],
         Fits(h, stage, copy'[h].losers)
  PROVE  pc' \in [Handlers -> Stages] /\ Kinds'
<1>1. pc \in [Handlers -> Stages]
  BY DEF TypeOK, Stages
<1>2. pc'[h] = stage /\ \A g \in Handlers \ {h} : pc'[g] = pc[g]
  BY <1>1 DEF Goto
<1>3. pc' \in [Handlers -> Stages]
  BY <1>1 DEF Goto
<1>4. ASSUME NEW g \in Handlers PROVE Fits(g, pc'[g], copy'[g].losers)
  <2>1. CASE g = h
    BY <1>2, <2>1
  <2>2. CASE g # h
    BY <1>2, <2>2 DEF Kinds
  <2> QED BY <2>1, <2>2
<1>5. Kinds'
  BY <1>4 DEF Kinds, Fits
<1> QED BY <1>3, <1>5

LEMMA CopyType ==
  ASSUME TypeOK, NEW h \in Handlers, NEW c \in Copies, copy' = [copy EXCEPT ![h] = c]
  PROVE  /\ copy' \in [Handlers -> Copies] /\ copy'[h] = c
         /\ \A g \in Handlers \ {h} : copy'[g] = copy[g]
BY DEF TypeOK

LEMMA WinnersType ==
  ASSUME NEW g \in Games, NEW w \in (IF g.over THEN {g.won} ELSE Winners(g))
  PROVE  w \in SUBSET Users
BY DEF Games, Winners

LEMMA FinishedType ==
  ASSUME NEW g \in Games, NEW w \in SUBSET Users PROVE Finished(g, w) \in Games
BY DEF Games, Finished

LEMMA LiveType ==
  ASSUME NEW g \in Games, NEW l \in BOOLEAN PROVE [g EXCEPT !.live = l] \in Games
BY DEF Games

LEMMA TypeStep == ASSUME TypeOK, Kinds, [Next]_vars PROVE TypeOK' /\ Kinds'
<1> USE TournamentAssumption DEF TypeOK, Statuses, Joining, Starting,
        Canceling, Reporting, Concluding, AtWork, Stages, tournament, players, money, tables,
        environment, history, Unread, Note
<1>1. ASSUME NEW h \in Handlers, JoinOn(h) PROVE TypeOK' /\ Kinds'
  <2>1. CASE AquireLock(h)
    <3>1. Goto(h, "check")
      BY <2>1 DEF AquireLock
    <3>2. copy' = copy /\ Fits(h, "check", copy'[h].losers)
      BY <2>1, <3>1 DEF AquireLock, Kinds, Fits, Enders
    <3>3. pc' \in [Handlers -> Stages] /\ Kinds'
      BY <3>1, <3>2, OneGoes
    <3> QED BY <2>1, <3>3 DEF AquireLock
  <2>2. CASE RefuseLock(h)
    <3>1. Goto(h, "done")
      BY <2>2 DEF RefuseLock
    <3>2. copy' = copy /\ Fits(h, "done", copy'[h].losers)
      BY <2>2, <3>1 DEF RefuseLock, Kinds, Fits, Enders
    <3>3. pc' \in [Handlers -> Stages] /\ Kinds'
      BY <3>1, <3>2, OneGoes
    <3> QED BY <2>2, <3>3 DEF RefuseLock
  <2>3. CASE CheckTournament(h)
    <3>1. PICK stage \in {"debit", "done"} : Goto(h, stage)
      BY <2>3 DEF CheckTournament
    <3>2. copy' = copy /\ Fits(h, stage, copy'[h].losers)
      BY <2>3, <3>1 DEF CheckTournament, Kinds, Fits, Enders
    <3>3. pc' \in [Handlers -> Stages] /\ Kinds'
      BY <3>1, <3>2, OneGoes
    <3> QED BY <2>3, <3>3 DEF CheckTournament
  <2>4. CASE DebitTournamentJoinFee(h)
    <3>1. PICK stage \in {"player", "done"} : Goto(h, stage)
      BY <2>4 DEF DebitTournamentJoinFee
    <3>2. copy' = copy /\ Fits(h, stage, copy'[h].losers)
      BY <2>4, <3>1 DEF DebitTournamentJoinFee, Kinds, Fits, Enders
    <3>3. pc' \in [Handlers -> Stages] /\ Kinds'
      BY <3>1, <3>2, OneGoes
    <3> QED BY <2>4, <3>3 DEF DebitTournamentJoinFee
  <2>5. CASE SavePlayer(h)
    <3>1. Goto(h, "done")
      BY <2>5 DEF SavePlayer
    <3>2. copy' = copy /\ Fits(h, "done", copy'[h].losers)
      BY <2>5, <3>1 DEF SavePlayer, Kinds, Fits, Enders
    <3>3. pc' \in [Handlers -> Stages] /\ Kinds'
      BY <3>1, <3>2, OneGoes
    <3>4. joined' \subseteq Users
      BY <2>5 DEF SavePlayer, Kinds, Fits
    <3> QED BY <2>5, <3>3, <3>4 DEF SavePlayer
  <2> QED BY <1>1, <2>1, <2>2, <2>3, <2>4, <2>5 DEF JoinOn
<1>2. ASSUME NEW h \in Handlers, StartOn(h) PROVE TypeOK' /\ Kinds'
  <2>1. CASE FindTournament(h)
    <3>1. PICK stage \in {"refused", "gather"} : Goto(h, stage)
      BY <2>1 DEF FindTournament
    <3>2. copy' = copy /\ Fits(h, stage, copy'[h].losers)
      BY <2>1, <3>1 DEF FindTournament, Kinds, Fits, Enders
    <3>3. pc' \in [Handlers -> Stages] /\ Kinds'
      BY <3>1, <3>2, OneGoes
    <3> QED BY <2>1, <3>3 DEF FindTournament
  <2>2. CASE GetTournamentUserIds(h)
    <3>1. PICK stage \in {"terminate", "begin", "beginAlone"} : Goto(h, stage)
      BY <2>2 DEF GetTournamentUserIds
    <3>2. copy' \in [Handlers -> Copies] /\ \A g \in Handlers \ {h} : copy'[g] = copy[g]
      BY <2>2 DEF GetTournamentUserIds, Copies
    <3>3. copy'[h].losers \subseteq copy[h].losers
      BY <2>2 DEF GetTournamentUserIds, Copies
    <3>4. Fits(h, stage, copy'[h].losers)
      BY <2>2, <3>1, <3>3 DEF GetTournamentUserIds, Kinds, Fits, Enders
    <3>5. pc' \in [Handlers -> Stages] /\ Kinds'
      BY <3>1, <3>2, <3>4, OneGoes
    <3> QED BY <2>2, <3>2, <3>5 DEF GetTournamentUserIds
  <2>3. CASE TerminateTournament(h)
    <3>1. Goto(h, "done")
      BY <2>3 DEF TerminateTournament
    <3>2. copy' = copy /\ Fits(h, "done", copy'[h].losers)
      BY <2>3, <3>1 DEF TerminateTournament, Kinds, Fits, Enders
    <3>3. pc' \in [Handlers -> Stages] /\ Kinds'
      BY <3>1, <3>2, OneGoes
    <3>4. crossed' \in BOOLEAN /\ refundRequests' \in Nat
      BY <2>3 DEF TerminateTournament
    <3> QED BY <2>3, <3>3, <3>4 DEF TerminateTournament
  <2>4. CASE BeginFirstRound(h)
    <3>1. PICK stage \in {"draw", "cancel"} : Goto(h, stage)
      BY <2>4 DEF BeginFirstRound
    <3>2. copy' \in [Handlers -> Copies] /\ \A g \in Handlers \ {h} : copy'[g] = copy[g]
      BY <2>4 DEF BeginFirstRound, Copies
    <3>3. copy'[h].losers \subseteq copy[h].losers
      BY <2>4 DEF BeginFirstRound, Copies
    <3>4. Fits(h, stage, copy'[h].losers)
      BY <2>4, <3>1, <3>3 DEF BeginFirstRound, Kinds, Fits, Enders
    <3>5. pc' \in [Handlers -> Stages] /\ Kinds'
      BY <3>1, <3>2, <3>4, OneGoes
    <3>6. total' \in Nat /\ round' \in Nat
      BY <2>4, RoundsType, SetsOfUsers DEF BeginFirstRound, Copies
    <3> QED BY <2>4, <3>2, <3>5, <3>6 DEF BeginFirstRound
  <2>5. CASE EndAbandoned(h)
    <3>1. Goto(h, "timer")
      BY <2>5 DEF EndAbandoned
    <3>2. copy' = copy /\ Fits(h, "timer", copy'[h].losers)
      BY <2>5, <3>1 DEF EndAbandoned, Kinds, Fits, Enders
    <3>3. pc' \in [Handlers -> Stages] /\ Kinds'
      BY <3>1, <3>2, OneGoes
    <3> QED BY <2>5, <3>3 DEF EndAbandoned
  <2>6. CASE FireStartTimer(h)
    <3>1. Goto(h, "done")
      BY <2>6 DEF FireStartTimer
    <3>2. copy' \in [Handlers -> Copies] /\ \A g \in Handlers \ {h} : copy'[g] = copy[g]
      BY <2>6 DEF FireStartTimer, Forget, Copies
    <3>3. copy'[h].losers \subseteq copy[h].losers
      BY <2>6 DEF FireStartTimer, Forget, Copies
    <3>4. Fits(h, "done", copy'[h].losers)
      BY <2>6, <3>1, <3>3 DEF FireStartTimer, Forget, Kinds, Fits, Enders
    <3>5. pc' \in [Handlers -> Stages] /\ Kinds'
      BY <3>1, <3>2, <3>4, OneGoes
    <3> QED BY <2>6, <3>2, <3>5 DEF FireStartTimer
  <2> QED BY <1>2, <2>1, <2>2, <2>3, <2>4, <2>5, <2>6 DEF StartOn
<1>3. ASSUME NEW h \in Handlers, CancelOn(h) PROVE TypeOK' /\ Kinds'
  <2>1. CASE WriteCanceled(h)
    <3>1. PICK stage \in {"close", "refused"} : Goto(h, stage)
      BY <2>1 DEF WriteCanceled
    <3>2. copy' = copy /\ Fits(h, stage, copy'[h].losers)
      BY <2>1, <3>1 DEF WriteCanceled, Kinds, Fits, Enders
    <3>3. pc' \in [Handlers -> Stages] /\ Kinds'
      BY <3>1, <3>2, OneGoes
    <3> QED BY <2>1, <3>3 DEF WriteCanceled
  <2>2. CASE CloseTournament(h)
    <3>1. PICK stage \in {"abandon", "done"} : Goto(h, stage) /\ (stage = "abandon" => h \in Starts)
      BY <2>2 DEF CloseTournament
    <3>2. copy' = copy /\ Fits(h, stage, copy'[h].losers)
      BY <2>2, <3>1 DEF CloseTournament, Kinds, Fits, Enders
    <3>3. pc' \in [Handlers -> Stages] /\ Kinds'
      BY <3>1, <3>2, OneGoes
    <3>4. crossed' \in BOOLEAN /\ refundRequests' \in Nat
      BY <2>2 DEF CloseTournament
    <3> QED BY <2>2, <3>3, <3>4 DEF CloseTournament
  <2> QED BY <1>3, <2>1, <2>2 DEF CancelOn
<1>4. ASSUME NEW h \in Handlers, ReportTable(h) PROVE TypeOK' /\ Kinds'
  <2>1. PICK g \in games, w \in SUBSET Users :
          /\ games' = (games \ {g}) \union {Finished(g, w)}
          /\ copy' = [copy EXCEPT ![h] =
                        [Unread EXCEPT !.round = g.round, !.results = {Finished(g, w)}]]
    <3>1. PICK g \in games : \E w \in (IF g.over THEN {g.won} ELSE Winners(g)) :
            /\ games' = (games \ {g}) \union {Finished(g, w)}
            /\ copy' = [copy EXCEPT ![h] =
                          [Unread EXCEPT !.round = g.round, !.results = {Finished(g, w)}]]
      BY <1>4 DEF ReportTable
    <3> QED BY <3>1, WinnersType
  <2>2. g.round \in Nat /\ Finished(g, w) \in Games
    BY FinishedType DEF Games
  <2>3. games' \subseteq Games
    BY <2>1, <2>2
  <2>4. [Unread EXCEPT !.round = g.round, !.results = {Finished(g, w)}] \in Copies
    BY <2>2 DEF Copies
  <2>5. /\ copy' \in [Handlers -> Copies] /\ copy'[h].losers = {}
        /\ \A k \in Handlers \ {h} : copy'[k] = copy[k]
    BY <2>1, <2>4, CopyType
  <2>6. Goto(h, "look") /\ Fits(h, "look", copy'[h].losers)
    BY <1>4, <2>5 DEF ReportTable, Fits
  <2>7. pc' \in [Handlers -> Stages] /\ Kinds'
    BY <2>5, <2>6, OneGoes
  <2> QED BY <1>4, <2>3, <2>5, <2>7 DEF ReportTable
<1>5. ASSUME NEW h \in Handlers, ReportOn(h) PROVE TypeOK' /\ Kinds'
  <2>1. CASE LookAtRound(h)
    <3>1. PICK stage \in {"mark", "idle"} : Goto(h, stage)
      BY <2>1 DEF LookAtRound
    <3>2. Unread \in Copies /\ [copy[h] EXCEPT !.total = total] \in Copies
      BY DEF Copies
    <3>3. copy' \in [Handlers -> Copies] /\ \A g \in Handlers \ {h} : copy'[g] = copy[g]
      BY <2>1, <3>2, CopyType DEF LookAtRound, Forget
    <3>4. copy'[h].losers \subseteq copy[h].losers
      BY <2>1 DEF LookAtRound, Forget, Copies
    <3>5. Fits(h, stage, copy'[h].losers)
      BY <2>1, <3>1, <3>4 DEF LookAtRound, Forget, Kinds, Fits, Enders
    <3>6. pc' \in [Handlers -> Stages] /\ Kinds'
      BY <3>1, <3>3, <3>5, OneGoes
    <3> QED BY <2>1, <3>3, <3>6 DEF LookAtRound
  <2>2. CASE MarkPlayers(h)
    <3>1. Goto(h, "count")
      BY <2>2 DEF MarkPlayers
    <3>2. copy' = copy /\ Fits(h, "count", copy'[h].losers)
      BY <2>2, <3>1 DEF MarkPlayers, LostAfter, PlayedAfter, Kinds, Fits, Enders
    <3>3. pc' \in [Handlers -> Stages] /\ Kinds'
      BY <3>1, <3>2, OneGoes
    <3>4. lost' \in [Users -> Nat] /\ played' \in [Users -> Nat]
      BY <2>2 DEF MarkPlayers, LostAfter, PlayedAfter, Copies
    <3>5. crossed' \in BOOLEAN
      BY <2>2 DEF MarkPlayers
    <3>6. UNCHANGED <<tournament, joined, board, money, tables, environment, locked, copy, robbed,
                      revived>>
      BY <2>2 DEF MarkPlayers
    <3> QED BY <3>3, <3>4, <3>5, <3>6
  <2>3. CASE CountRemaining(h)
    <3>1. PICK stage \in {"read", "remove"} : Goto(h, stage)
      BY <2>3 DEF CountRemaining
    <3>2. copy' = copy /\ Fits(h, stage, copy'[h].losers)
      BY <2>3, <3>1 DEF CountRemaining, Kinds, Fits, Enders
    <3>3. pc' \in [Handlers -> Stages] /\ Kinds'
      BY <3>1, <3>2, OneGoes
    <3> QED BY <2>3, <3>3 DEF CountRemaining
  <2>4. CASE RemoveTable(h)
    <3>1. Goto(h, "idle")
      BY <2>4 DEF RemoveTable
    <3>2. copy' \in [Handlers -> Copies] /\ \A g \in Handlers \ {h} : copy'[g] = copy[g]
      BY <2>4 DEF RemoveTable, Copies
    <3>3. copy'[h].losers \subseteq copy[h].losers
      BY <2>4 DEF RemoveTable, Copies
    <3>4. Fits(h, "idle", copy'[h].losers)
      BY <2>4, <3>1, <3>3 DEF RemoveTable, Kinds, Fits, Enders
    <3>5. pc' \in [Handlers -> Stages] /\ Kinds'
      BY <3>1, <3>2, <3>4, OneGoes
    <3>6. games' \subseteq Games
      <4>1. \A g \in games : [g EXCEPT !.live = FALSE] \in Games
        BY LiveType
      <4> QED BY <2>4, <4>1 DEF RemoveTable
    <3> QED BY <2>4, <3>2, <3>5, <3>6 DEF RemoveTable
  <2> QED BY <1>5, <2>1, <2>2, <2>3, <2>4 DEF ReportOn
<1>6. ASSUME NEW h \in Handlers, CollectResults(h) PROVE TypeOK' /\ Kinds'
  <2> DEFINE Collected(end, mine, w) ==
          /\ games' = (games \ mine) \union
                      {[Finished(g, w[g]) EXCEPT !.live = g.live /\ g.over] : g \in mine}
          /\ copy' = [copy EXCEPT ![h] = [Unread EXCEPT
                        !.round = end[1], !.results = {Finished(g, w[g]) : g \in mine}]]
          /\ scheduled' = scheduled \ {end}
  <2>1. PICK end \in scheduled :
          \E w \in [{g \in games : g.round = end[1]} -> SUBSET Users] :
            Collected(end, {g \in games : g.round = end[1]}, w)
    BY <1>6 DEF CollectResults
  <2> DEFINE mine == {g \in games : g.round = end[1]}
  <2>2. PICK w \in [mine -> SUBSET Users] : Collected(end, mine, w)
    BY <2>1
  <2>3. \A g \in mine : Finished(g, w[g]) \in Games
    BY FinishedType
  <2>4. \A g \in mine : [Finished(g, w[g]) EXCEPT !.live = g.live /\ g.over] \in Games
    <3> TAKE g \in mine
    <3>1. (g.live /\ g.over) \in BOOLEAN
      BY DEF Games
    <3> QED BY <2>3, <3>1, LiveType
  <2>5. games' \subseteq Games /\ {Finished(g, w[g]) : g \in mine} \subseteq Games
    BY <2>2, <2>3, <2>4
  <2>6. scheduled' \subseteq Nat \X Handlers /\ end[1] \in Nat
    BY <2>1, <2>2
  <2>7. [Unread EXCEPT !.round = end[1], !.results = {Finished(g, w[g]) : g \in mine}] \in Copies
    BY <2>5, <2>6 DEF Copies
  <2>8. /\ copy' \in [Handlers -> Copies] /\ copy'[h].losers = {}
        /\ \A k \in Handlers \ {h} : copy'[k] = copy[k]
    BY <2>2, <2>7, CopyType
  <2>9. Goto(h, "read") /\ Fits(h, "read", copy'[h].losers)
    BY <1>6, <2>8 DEF CollectResults, Fits, Enders
  <2>10. pc' \in [Handlers -> Stages] /\ Kinds'
    BY <2>8, <2>9, OneGoes
  <2> QED BY <1>6, <2>5, <2>6, <2>8, <2>10 DEF CollectResults
<1>7. ASSUME NEW h \in Handlers, ConcludeOn(h) PROVE TypeOK' /\ Kinds'
  <2>1. CASE ReadRound(h)
    <3>1. PICK stage \in {"players", "idle"} : Goto(h, stage)
      BY <2>1 DEF ReadRound
    <3>2. copy' \in [Handlers -> Copies] /\ \A g \in Handlers \ {h} : copy'[g] = copy[g]
      BY <2>1 DEF ReadRound, Forget, Copies
    <3>3. copy'[h].losers \subseteq copy[h].losers
      BY <2>1 DEF ReadRound, Forget, Copies
    <3>4. Fits(h, stage, copy'[h].losers)
      BY <2>1, <3>1, <3>3 DEF ReadRound, Forget, Kinds, Fits, Enders
    <3>5. pc' \in [Handlers -> Stages] /\ Kinds'
      BY <3>1, <3>2, <3>4, OneGoes
    <3> QED BY <2>1, <3>2, <3>5 DEF ReadRound
  <2>2. CASE ReadPlayers(h)
    <3>1. PICK stage \in {"winners", "write"} : Goto(h, stage)
      BY <2>2 DEF ReadPlayers
    <3>2. WinnersOf(copy[h].results) \subseteq Users /\ Remaining \subseteq Users
      BY ResultsType DEF Remaining, Copies
    <3>3. PICK ls \in SUBSET Users, us \in SUBSET Users :
            copy' = [copy EXCEPT ![h].losers = ls, ![h].remaining = us]
      BY <2>2, <3>2 DEF ReadPlayers
    <3>4. copy' \in [Handlers -> Copies] /\ \A g \in Handlers \ {h} : copy'[g] = copy[g]
      <4>1. copy[h] \in Copies
        OBVIOUS
      <4>2. \A c \in Copies : [c EXCEPT !.losers = ls, !.remaining = us] \in Copies
        BY DEF Copies
      <4> QED BY <3>3, <4>1, <4>2, CopyType
    <3>5. h \in Enders
      BY <2>2 DEF ReadPlayers, Kinds, Fits
    <3>6. Fits(h, stage, copy'[h].losers)
      BY <2>2, <3>1, <3>5 DEF ReadPlayers, Kinds, Fits, Enders
    <3>7. pc' \in [Handlers -> Stages] /\ Kinds'
      BY <3>1, <3>4, <3>6, OneGoes
    <3> QED BY <2>2, <3>4, <3>7 DEF ReadPlayers
  <2>3. CASE ListLosers(h)
    <3>b. [copy[h] EXCEPT !.losers = {}] \in Copies
      BY DEF Copies
    <3>1. copy' \in [Handlers -> Copies]
      BY <2>3, <3>b, CopyType DEF ListLosers
    <3>2. board' \in [Users -> Nat]
      BY <2>3 DEF ListLosers, Listed
    <3>3. \A g \in Handlers : pc'[g] = pc[g] /\ copy'[g].losers \subseteq copy[g].losers
      BY <2>3 DEF ListLosers, Copies
    <3>4. Kinds'
      BY <3>3 DEF Kinds, Fits
    <3> QED BY <2>3, <3>1, <3>2, <3>4 DEF ListLosers
  <2>4. CASE ListWinners(h)
    <3>1. Goto(h, "write")
      BY <2>4 DEF ListWinners
    <3>2. copy' = copy /\ Fits(h, "write", copy'[h].losers)
      BY <2>4, <3>1 DEF ListWinners, Listed, Kinds, Fits, Enders
    <3>3. pc' \in [Handlers -> Stages] /\ Kinds'
      BY <3>1, <3>2, OneGoes
    <3>4. board' \in [Users -> Nat]
      BY <2>4 DEF ListWinners, Listed
    <3> QED BY <2>4, <3>3, <3>4 DEF ListWinners
  <2>5. CASE WritePlayers(h)
    <3>1. Goto(h, "save")
      BY <2>5 DEF WritePlayers
    <3>2. copy' = copy /\ Fits(h, "save", copy'[h].losers)
      BY <2>5, <3>1 DEF WritePlayers, LostAfter, PlayedAfter, Kinds, Fits, Enders
    <3>3. pc' \in [Handlers -> Stages] /\ Kinds'
      BY <3>1, <3>2, OneGoes
    <3>4. lost' \in [Users -> Nat] /\ played' \in [Users -> Nat]
      BY <2>5 DEF WritePlayers, LostAfter, PlayedAfter, Copies
    <3> QED BY <2>5, <3>3, <3>4 DEF WritePlayers
  <2>6. CASE EndTournament(h)
    <3>1. PICK stage \in {"remove", "idle"} : Goto(h, stage) /\ (stage = "remove" => h \in Ends)
      BY <2>6 DEF EndTournament
    <3>2. copy' \in [Handlers -> Copies] /\ \A g \in Handlers \ {h} : copy'[g] = copy[g]
      BY <2>6 DEF EndTournament, Forget, Copies
    <3>3. copy'[h].losers \subseteq copy[h].losers
      BY <2>6 DEF EndTournament, Forget, Copies
    <3>4. Fits(h, stage, copy'[h].losers)
      BY <2>6, <3>1, <3>3 DEF EndTournament, Forget, Kinds, Fits, Enders
    <3>5. pc' \in [Handlers -> Stages] /\ Kinds'
      BY <3>1, <3>2, <3>4, OneGoes
    <3> QED BY <2>6, <3>2, <3>5 DEF EndTournament
  <2>7. CASE SaveNextRound(h)
    <3>1. Goto(h, "draw")
      BY <2>7 DEF SaveNextRound
    <3>a. [copy[h] EXCEPT !.round = copy[h].round + 1] \in Copies
      BY DEF Copies
    <3>2. copy' \in [Handlers -> Copies] /\ \A g \in Handlers \ {h} : copy'[g] = copy[g]
      BY <2>7, <3>a, CopyType DEF SaveNextRound
    <3>3. copy'[h].losers \subseteq copy[h].losers
      BY <2>7 DEF SaveNextRound, Copies
    <3>4. Fits(h, "draw", copy'[h].losers)
      BY <2>7, <3>1, <3>3 DEF SaveNextRound, Kinds, Fits, Enders
    <3>5. pc' \in [Handlers -> Stages] /\ Kinds'
      BY <3>1, <3>2, <3>4, OneGoes
    <3>6. total' \in Nat /\ round' \in Nat
      BY <2>7, RoundsType, SetsOfUsers DEF SaveNextRound, Copies
    <3> QED BY <2>7, <3>2, <3>5, <3>6 DEF SaveNextRound
  <2>8. CASE StartNewRound(h)
    <3>1. PICK stage \in {"timer", "remove", "idle"} :
            /\ Goto(h, stage)
            /\ (stage = "remove" => h \in Ends) /\ (stage = "timer" => h \in Starts)
      BY <2>8 DEF StartNewRound, AfterDraw
    <3>2. copy' = copy /\ Fits(h, stage, copy'[h].losers)
      BY <2>8, <3>1 DEF StartNewRound, AfterDraw, Kinds, Fits, Enders
    <3>3. pc' \in [Handlers -> Stages] /\ Kinds'
      BY <3>1, <3>2, OneGoes
    <3>4. PICK seating \in SeatingsOf(Qualified(h)) :
            StoreInitialTables(h, copy[h].round, seating)
      BY <2>8 DEF StartNewRound
    <3>5. promoted' \in Users \union {NoUser}
      <4>1. CASE \E s \in seating : Cardinality(s) = 1
        <5>1. promoted' = CHOOSE u \in Users : {u} \in seating
          BY <3>4, <4>1 DEF StoreInitialTables
        <5>2. Qualified(h) \in SUBSET Users
          BY QualifiedType
        <5>3. \E u \in Users : {u} \in seating
          BY <4>1, <5>2, PromotedType
        <5> QED BY <5>1, <5>3
      <4>2. CASE ~ \E s \in seating : Cardinality(s) = 1
        BY <3>4, <4>2 DEF StoreInitialTables
      <4> QED BY <4>1, <4>2
    <3>6. games' \subseteq Games
      <4>1. \A s \in seating : s \subseteq Users
        BY QualifiedType DEF SeatingsOf
      <4>2. \A s \in seating : GameAt(h, copy[h].round, s) \in Games
        BY <4>1 DEF GameAt, Games, Copies
      <4> QED BY <3>4, <4>2 DEF StoreInitialTables
    <3>7. scheduled' \subseteq Nat \X Handlers
      BY <2>8 DEF StartNewRound, Copies
    <3> QED BY <2>8, <3>3, <3>5, <3>6, <3>7 DEF StartNewRound
  <2> QED BY <1>7, <2>1, <2>2, <2>3, <2>4, <2>5, <2>6, <2>7, <2>8 DEF ConcludeOn
<1>8. ASSUME NEW h \in Handlers, Fail(h) PROVE TypeOK' /\ Kinds'
  <2>1. copy' = copy /\ Fits(h, "broken", copy'[h].losers) /\ Goto(h, "broken")
    BY <1>8 DEF Fail, Kinds, Fits
  <2>2. pc' \in [Handlers -> Stages] /\ Kinds'
    BY <2>1, OneGoes
  <2>3. failures' \in 0..MaxFailures
    BY <1>8 DEF Fail
  <2>a. locked' \in BOOLEAN
    BY <1>8 DEF Fail
  <2> QED BY <1>8, <2>1, <2>2, <2>3, <2>a DEF Fail
<1>9. ASSUME NEW u \in Users, IgnoreTournament(u) PROVE TypeOK' /\ Kinds'
  BY <1>9 DEF IgnoreTournament, Kinds, Fits
<1>10. CASE TimePasses
  BY <1>10 DEF TimePasses, Kinds, Fits
<1>11. CASE RefundJoinFees
  BY <1>11 DEF RefundJoinFees, Kinds, Fits
<1>12. CASE UNCHANGED vars
  BY <1>12 DEF vars, Kinds, Fits
<1> QED BY <1>1, <1>2, <1>3, <1>4, <1>5, <1>6, <1>7, <1>8, <1>9, <1>10, <1>11, <1>12 DEF Next

(* Every variable keeps its type, and each handler its stages.              *)
THEOREM TypeCorrect == Spec => [](TypeOK /\ Kinds)
<1>1. ASSUME Init PROVE TypeOK /\ Kinds
  <2>1. Unread \in Copies
    BY DEF Unread, Copies
  <2>2. copy \in [Handlers -> Copies]
    BY <1>1, <2>1 DEF Init
  <2>3. {round, total, failures, refundRequests} \subseteq Nat /\ failures \in 0..MaxFailures
    BY <1>1, TournamentAssumption, RoundsType DEF Init
  <2>4. joined \subseteq Users
    BY <1>1, TournamentAssumption DEF Init
  <2>5. pc \in [Handlers -> {"idle", "done", "refused", "broken"} \union AtWork]
    BY <1>1 DEF Init
  <2>6. lost \in [Users -> Nat] /\ played \in [Users -> Nat] /\ board \in [Users -> Nat]
    BY <1>1 DEF Init
  <2>7. /\ status \in Statuses /\ active \in BOOLEAN /\ locked \in BOOLEAN
        /\ robbed \in BOOLEAN /\ crossed \in BOOLEAN /\ revived \in BOOLEAN
    BY <1>1 DEF Init, Statuses
  <2>8. /\ refunded \subseteq Users /\ games \subseteq Games /\ promoted \in Users \union {NoUser}
        /\ scheduled \subseteq Nat \X Handlers /\ clock \in 0..2 /\ left \subseteq Leavers
    BY <1>1 DEF Init
  <2>9. TypeOK
    BY <2>2, <2>3, <2>4, <2>5, <2>6, <2>7, <2>8 DEF TypeOK
  <2>10. Kinds
    BY <1>1 DEF Init, Kinds, Fits, Joining, Starting, Reporting, Concluding, Unread
  <2> QED BY <2>9, <2>10
<1>2. TypeOK /\ Kinds /\ [Next]_vars => (TypeOK /\ Kinds)'
  BY TypeStep
<1> QED BY <1>1, <1>2, PTL DEF Spec
-----------------------------------------------------------------------------
(* While nobody has deleted another's lock, the request that holds it is    *)
(* alone between its look at the number of players and its player document. *)
PlacesLeft ==
  /\ Cardinality(joined) <= MaxNoPlayers
  /\ \A j \in Handlers : pc[j] \in Joining => locked
  /\ \A i, j \in Handlers : (pc[i] \in Joining /\ pc[j] \in Joining) => i = j
  /\ \A j \in Handlers : pc[j] \in {"debit", "player"} => Cardinality(joined) < MaxNoPlayers

RegistrationInvariant == robbed \/ PlacesLeft

(* The other handlers do not register anybody.                              *)
LEMMA OthersRegisterNobody ==
  ASSUME RegistrationInvariant, UNCHANGED <<joined, locked, robbed>>,
         \A j \in Handlers : pc'[j] = pc[j] \/ pc'[j] \notin Joining
  PROVE  RegistrationInvariant'
BY DEF RegistrationInvariant, PlacesLeft, Joining

LEMMA RegistrationStep ==
  ASSUME TypeOK, Kinds, RegistrationInvariant, [Next]_vars
  PROVE  RegistrationInvariant'
<1> USE TournamentAssumption DEF players, history
<1>a. \A h \in Handlers, stage \in Stages :
        Goto(h, stage) => pc'[h] = stage /\ \A g \in Handlers \ {h} : pc'[g] = pc[g]
  BY DEF TypeOK, Goto
<1>b. IsFiniteSet(joined) /\ Cardinality(joined) \in Nat /\ MaxNoPlayers \in Nat
  BY FS_Subset, FS_CardinalityType DEF TypeOK
<1>1. ASSUME NEW j \in Handlers, AquireLock(j) PROVE RegistrationInvariant'
  <2>1. pc'[j] = "check" /\ \A g \in Handlers \ {j} : pc'[g] = pc[g]
    BY <1>1, <1>a DEF AquireLock, Stages, AtWork, Joining
  <2>2. locked' /\ ~locked /\ joined' = joined /\ robbed' = robbed
    BY <1>1 DEF AquireLock
  <2> QED BY <2>1, <2>2 DEF RegistrationInvariant, PlacesLeft, Joining
<1>2. ASSUME NEW j \in Handlers, RefuseLock(j) PROVE RegistrationInvariant'
  BY <1>2 DEF RefuseLock, RegistrationInvariant
<1>3. ASSUME NEW j \in Handlers, CheckTournament(j) PROVE RegistrationInvariant'
  <2>1. pc[j] = "check" /\ joined' = joined /\ robbed' = robbed
    BY <1>3 DEF CheckTournament
  <2>2. CASE IsOpenFor(UserOf[j]) /\ Goto(j, "debit") /\ UNCHANGED locked
    <3>1. pc'[j] = "debit" /\ \A g \in Handlers \ {j} : pc'[g] = pc[g]
      BY <2>2, <1>a DEF Stages, AtWork, Joining
    <3> QED BY <2>1, <2>2, <3>1 DEF IsOpenFor, RegistrationInvariant, PlacesLeft, Joining
  <2>3. CASE Goto(j, "done") /\ locked' = FALSE
    <3>1. pc'[j] = "done" /\ \A g \in Handlers \ {j} : pc'[g] = pc[g]
      BY <2>3, <1>a DEF Stages
    <3> QED BY <2>1, <2>3, <3>1 DEF RegistrationInvariant, PlacesLeft, Joining
  <2> QED BY <1>3, <2>2, <2>3 DEF CheckTournament
<1>4. ASSUME NEW j \in Handlers, DebitTournamentJoinFee(j) PROVE RegistrationInvariant'
  <2>1. pc[j] = "debit" /\ joined' = joined /\ robbed' = robbed
    BY <1>4 DEF DebitTournamentJoinFee
  <2>2. CASE Goto(j, "player") /\ UNCHANGED locked
    <3>1. pc'[j] = "player" /\ \A g \in Handlers \ {j} : pc'[g] = pc[g]
      BY <2>2, <1>a DEF Stages, AtWork, Joining
    <3> QED BY <2>1, <2>2, <3>1 DEF RegistrationInvariant, PlacesLeft, Joining
  <2>3. CASE Goto(j, "done") /\ locked' = FALSE
    <3>1. pc'[j] = "done" /\ \A g \in Handlers \ {j} : pc'[g] = pc[g]
      BY <2>3, <1>a DEF Stages
    <3> QED BY <2>1, <2>3, <3>1 DEF RegistrationInvariant, PlacesLeft, Joining
  <2> QED BY <1>4, <2>2, <2>3 DEF DebitTournamentJoinFee
<1>5. ASSUME NEW j \in Handlers, SavePlayer(j) PROVE RegistrationInvariant'
  <2>1. /\ pc[j] = "player" /\ joined' = joined \union {UserOf[j]}
        /\ locked' = FALSE /\ robbed' = robbed
    BY <1>5 DEF SavePlayer
  <2>2. pc'[j] = "done" /\ \A g \in Handlers \ {j} : pc'[g] = pc[g]
    BY <1>5, <1>a DEF SavePlayer, Stages
  <2>3. Cardinality(joined') <= Cardinality(joined) + 1 /\ Cardinality(joined') \in Nat
    <3>1. IsFiniteSet(joined')
      BY <1>b, <2>1, FS_AddElement
    <3>2. \/ Cardinality(joined') = Cardinality(joined)
          \/ Cardinality(joined') = Cardinality(joined) + 1
      BY <1>b, <2>1, FS_AddElement
    <3> QED BY <1>b, <3>1, <3>2, FS_CardinalityType
  <2>4. CASE PlacesLeft
    <3>1. Cardinality(joined) < MaxNoPlayers /\ \A g \in Handlers : pc'[g] \notin Joining
      BY <2>1, <2>2, <2>4 DEF PlacesLeft, Joining
    <3>2. Cardinality(joined') <= MaxNoPlayers
      BY <1>b, <2>3, <3>1
    <3> QED BY <3>1, <3>2 DEF RegistrationInvariant, PlacesLeft, Joining
  <2> QED BY <2>1, <2>4 DEF RegistrationInvariant
<1>6. ASSUME NEW h \in Handlers, Fail(h) PROVE RegistrationInvariant'
  <2>1. /\ joined' = joined /\ robbed' = robbed
        /\ locked' \in (IF pc[h] \in Joining THEN {FALSE, locked} ELSE {locked})
    BY <1>6 DEF Fail
  <2>2. pc'[h] = "broken" /\ \A g \in Handlers \ {h} : pc'[g] = pc[g]
    BY <1>6, <1>a DEF Fail, Stages
  <2> QED BY <2>1, <2>2 DEF RegistrationInvariant, PlacesLeft, Joining
<1>7. ASSUME NEW h \in Handlers, StartOn(h) PROVE RegistrationInvariant'
  <2>1. UNCHANGED <<joined, locked, robbed>>
    BY <1>7 DEF StartOn, FindTournament, GetTournamentUserIds, TerminateTournament,
       BeginFirstRound, EndAbandoned, FireStartTimer
  <2>2. PICK stage \in Stages \ Joining : Goto(h, stage)
    BY <1>7 DEF StartOn, FindTournament, GetTournamentUserIds, TerminateTournament,
       BeginFirstRound, EndAbandoned, FireStartTimer, Stages, AtWork, Starting, Canceling,
       Concluding, Joining
  <2> QED BY <1>a, <2>1, <2>2, OthersRegisterNobody
<1>8. ASSUME NEW h \in Handlers, CancelOn(h) PROVE RegistrationInvariant'
  <2>1. UNCHANGED <<joined, locked, robbed>>
    BY <1>8 DEF CancelOn, WriteCanceled, CloseTournament
  <2>2. PICK stage \in Stages \ Joining : Goto(h, stage)
    BY <1>8 DEF CancelOn, WriteCanceled, CloseTournament, Stages, AtWork, Starting, Canceling,
       Joining
  <2> QED BY <1>a, <2>1, <2>2, OthersRegisterNobody
<1>9. ASSUME NEW h \in Handlers, ReportTable(h) \/ ReportOn(h) \/ CollectResults(h)
      PROVE  RegistrationInvariant'
  <2>1. UNCHANGED <<joined, locked, robbed>>
    BY <1>9 DEF ReportTable, ReportOn, LookAtRound, MarkPlayers, CountRemaining, RemoveTable,
       CollectResults
  <2>2. PICK stage \in Stages \ Joining : Goto(h, stage)
    BY <1>9 DEF ReportTable, ReportOn, LookAtRound, MarkPlayers, CountRemaining, RemoveTable,
       CollectResults, Stages, AtWork, Reporting, Joining
  <2> QED BY <1>a, <2>1, <2>2, OthersRegisterNobody
<1>10. ASSUME NEW h \in Handlers, ConcludeOn(h) PROVE RegistrationInvariant'
  <2>1. UNCHANGED <<joined, locked, robbed>>
    BY <1>10 DEF ConcludeOn, ReadRound, ReadPlayers, ListLosers, ListWinners, WritePlayers,
       EndTournament, SaveNextRound, StartNewRound
  <2>2. CASE ListLosers(h)
    BY <2>1, <2>2, OthersRegisterNobody DEF ListLosers
  <2>3. CASE ~ListLosers(h)
    <3>1. PICK stage \in Stages \ Joining : Goto(h, stage)
      BY <1>10, <2>3 DEF ConcludeOn, ReadRound, ReadPlayers, ListWinners, WritePlayers,
         EndTournament, SaveNextRound, StartNewRound, AfterDraw, Stages, AtWork, Starting,
         Reporting, Concluding, Joining
    <3> QED BY <1>a, <2>1, <3>1, OthersRegisterNobody
  <2> QED BY <2>2, <2>3
<1>11. CASE TimePasses \/ RefundJoinFees \/ (\E u \in Users : IgnoreTournament(u))
            \/ UNCHANGED vars
  <2>1. UNCHANGED <<joined, locked, robbed, pc>>
    BY <1>11 DEF TimePasses, RefundJoinFees, IgnoreTournament, vars
  <2> QED BY <2>1, OthersRegisterNobody
<1> QED BY <1>1, <1>2, <1>3, <1>4, <1>5, <1>6, <1>7, <1>8, <1>9, <1>10, <1>11 DEF Next, JoinOn

(* However many players press the button at once, no more of them have a    *)
(* player document than there are places, unless a request that was refused *)
(* the lock deleted it.                                                     *)
THEOREM NoMorePlayersThanPlaces == Spec => []PlayersWithinLimit
<1>1. Init => RegistrationInvariant
  BY TournamentAssumption DEF Init, RegistrationInvariant, PlacesLeft, Joining
<1>2. TypeOK /\ Kinds /\ RegistrationInvariant /\ [Next]_vars => RegistrationInvariant'
  BY RegistrationStep
<1>3. RegistrationInvariant => PlayersWithinLimit
  BY DEF RegistrationInvariant, PlacesLeft, PlayersWithinLimit
<1> QED BY <1>1, <1>2, <1>3, TypeCorrect, PTL DEF Spec

-----------------------------------------------------------------------------
(* Once refunds are on their way the tournament is over, and nobody is      *)
(* concluding a round of it.                                                *)
QuietAfterRefund ==
  Undisturbed /\ IsRefunding =>
    /\ status \in {"canceled", "ended"}
    /\ \A h \in Enders : ~IsConcluding(h)

(* A step that begins neither a refund nor a conclusion keeps the quiet.    *)
LEMMA QuietStays ==
  ASSUME QuietAfterRefund, Undisturbed' => Undisturbed, IsRefunding' => IsRefunding,
         status' \in {status, "canceled", "ended"},
         \A h \in Enders : IsConcluding(h)' => IsConcluding(h)
  PROVE  QuietAfterRefund'
BY DEF QuietAfterRefund

(* The stages a handler goes to leave the conclusions of the others alone.  *)
LEMMA NoNewConclusion ==
  ASSUME TypeOK, NEW h \in Handlers, NEW stage \in Stages, Goto(h, stage),
         h \in Enders /\ stage \in Concluding => pc[h] \in Concluding,
         copy'[h].losers # {} => IsConcluding(h),
         \A g \in Handlers \ {h} : copy'[g] = copy[g]
  PROVE  \A g \in Enders : IsConcluding(g)' => IsConcluding(g)
<1>1. pc'[h] = stage /\ \A g \in Handlers \ {h} : pc'[g] = pc[g]
  BY DEF TypeOK, Goto, Stages
<1>2. ASSUME NEW g \in Enders, IsConcluding(g)' PROVE IsConcluding(g)
  <2>1. CASE g = h
    BY <1>1, <1>2, <2>1 DEF IsConcluding
  <2>2. CASE g # h
    BY <1>1, <1>2, <2>2 DEF IsConcluding, Handlers
  <2> QED BY <2>1, <2>2
<1> QED BY <1>2

LEMMA QuietStep ==
  ASSUME TypeOK, Kinds, QuietAfterRefund, [Next]_vars
  PROVE  QuietAfterRefund'
<1> USE TournamentAssumption DEF Stages, AtWork, Joining, Starting, Canceling, Reporting, Concluding
<1>1. ASSUME NEW h \in Handlers, JoinOn(h) PROVE QuietAfterRefund'
  <2>1. PICK stage \in Stages \ Concluding : Goto(h, stage)
    BY <1>1 DEF JoinOn, AquireLock, RefuseLock, CheckTournament, DebitTournamentJoinFee, SavePlayer
  <2>2. UNCHANGED <<copy, status, refundRequests, refunded, revived>> /\ (crossed => crossed')
    <3>1. CASE SavePlayer(h)
      BY <3>1 DEF SavePlayer, Note, tournament, money
    <3>2. CASE ~SavePlayer(h)
      BY <1>1, <3>2 DEF JoinOn, AquireLock, RefuseLock, CheckTournament, DebitTournamentJoinFee,
         tournament, money, history
    <3> QED BY <3>1, <3>2
  <2>3. \A g \in Enders : IsConcluding(g)' => IsConcluding(g)
    BY <2>1, <2>2, NoNewConclusion DEF IsConcluding
  <2> QED BY <2>2, <2>3, QuietStays DEF Undisturbed, IsRefunding
<1>2. ASSUME NEW h \in Handlers,
             FindTournament(h) \/ GetTournamentUserIds(h) \/ BeginFirstRound(h) \/ EndAbandoned(h)
      PROVE  QuietAfterRefund'
  <2>1. UNCHANGED <<refundRequests, refunded, crossed, revived>>
        /\ status' \in {status, "canceled", "ended"}
    BY <1>2 DEF FindTournament, GetTournamentUserIds, BeginFirstRound, EndAbandoned, tournament,
       money, history
  <2>2. PICK stage \in Stages : Goto(h, stage)
    BY <1>2 DEF FindTournament, GetTournamentUserIds, BeginFirstRound, EndAbandoned
  <2>3. h \in Starts /\ h \notin Enders
    BY <1>2 DEF FindTournament, GetTournamentUserIds, BeginFirstRound, EndAbandoned, Kinds, Fits,
       Enders
  <2>4. copy'[h].losers = copy[h].losers /\ \A g \in Handlers \ {h} : copy'[g] = copy[g]
    BY <1>2 DEF FindTournament, GetTournamentUserIds, BeginFirstRound, EndAbandoned, TypeOK, Copies
  <2>5. \A g \in Enders : IsConcluding(g)' => IsConcluding(g)
    BY <2>2, <2>3, <2>4, NoNewConclusion DEF IsConcluding
  <2> QED BY <2>1, <2>5, QuietStays DEF Undisturbed, IsRefunding
<1>3. ASSUME NEW h \in Handlers, FireStartTimer(h) PROVE QuietAfterRefund'
  <2>1. /\ UNCHANGED <<refundRequests, refunded, crossed>>
        /\ revived' = (revived \/ status # "created")
    BY <1>3 DEF FireStartTimer, money
  <2> QED BY <2>1 DEF QuietAfterRefund, Undisturbed, IsRefunding
<1>4. ASSUME NEW h \in Handlers,
             TerminateTournament(h) \/ WriteCanceled(h) \/ CloseTournament(h)
      PROVE  QuietAfterRefund'
  <2>1. status' = "canceled" /\ UNCHANGED copy
        /\ crossed' = (crossed \/ \E g \in Enders : IsConcluding(g))
    BY <1>4 DEF TerminateTournament, WriteCanceled, CloseTournament, Note
  <2>2. PICK stage \in Stages \ Concluding : Goto(h, stage)
    BY <1>4 DEF TerminateTournament, WriteCanceled, CloseTournament
  <2>3. \A g \in Enders : IsConcluding(g)' => IsConcluding(g)
    BY <2>1, <2>2, NoNewConclusion DEF IsConcluding
  <2> QED BY <2>1, <2>3 DEF QuietAfterRefund, Undisturbed
<1>5. ASSUME NEW h \in Handlers, ReportTable(h) PROVE QuietAfterRefund'
  <2>1. UNCHANGED <<status, refundRequests, refunded, crossed, revived>> /\ Goto(h, "look")
    BY <1>5 DEF ReportTable, tournament, money, history
  <2>2. copy'[h].losers = {} /\ \A g \in Handlers \ {h} : copy'[g] = copy[g]
    BY <1>5 DEF ReportTable, TypeOK, Unread
  <2>3. \A g \in Enders : IsConcluding(g)' => IsConcluding(g)
    BY <2>1, <2>2, NoNewConclusion
  <2> QED BY <2>1, <2>3, QuietStays DEF Undisturbed, IsRefunding
<1>6. ASSUME NEW h \in Handlers, CollectResults(h) PROVE QuietAfterRefund'
  <2>1. UNCHANGED <<status, refundRequests, refunded, crossed, revived>> /\ Goto(h, "read")
    BY <1>6 DEF CollectResults, tournament, money, history
  <2>2. copy'[h].losers = {} /\ \A g \in Handlers \ {h} : copy'[g] = copy[g]
    BY <1>6 DEF CollectResults, TypeOK, Unread
  <2>3. \A g \in Enders : IsConcluding(g)' => IsConcluding(g)
    BY <2>1, <2>2, NoNewConclusion
  <2> QED BY <2>1, <2>3, QuietStays DEF Undisturbed, IsRefunding
<1>7. ASSUME NEW h \in Handlers, ReportOn(h) PROVE QuietAfterRefund'
  <2>1. UNCHANGED <<status, refundRequests, refunded, revived>> /\ (crossed => crossed')
    <3>1. CASE MarkPlayers(h)
      BY <3>1 DEF MarkPlayers, Note, tournament, money
    <3>2. CASE ~MarkPlayers(h)
      BY <1>7, <3>2 DEF ReportOn, LookAtRound, CountRemaining, RemoveTable, tournament, money,
         history
    <3> QED BY <3>1, <3>2
  <2>2. PICK stage \in Stages \ Concluding : Goto(h, stage)
    BY <1>7 DEF ReportOn, LookAtRound, MarkPlayers, CountRemaining, RemoveTable
  <2>3. copy'[h].losers \subseteq copy[h].losers /\ \A g \in Handlers \ {h} : copy'[g] = copy[g]
    BY <1>7 DEF ReportOn, LookAtRound, MarkPlayers, CountRemaining, RemoveTable, Forget, TypeOK,
       Copies, Unread
  <2>4. \A g \in Enders : IsConcluding(g)' => IsConcluding(g)
    BY <2>2, <2>3, NoNewConclusion DEF IsConcluding
  <2> QED BY <2>1, <2>4, QuietStays DEF Undisturbed, IsRefunding
<1>8. ASSUME NEW h \in Handlers, ReadRound(h) PROVE QuietAfterRefund'
  <2>1. UNCHANGED <<status, refundRequests, refunded, revived>> /\ (crossed => crossed')
    BY <1>8 DEF ReadRound, Note, tournament, money
  <2>2. CASE IsCurrentRound(h)
    BY <2>1, <2>2 DEF IsCurrentRound, QuietAfterRefund, Undisturbed, IsRefunding
  <2>3. CASE ~IsCurrentRound(h)
    <3>1. Goto(h, "idle") /\ Forget(h)
      BY <1>8, <2>3 DEF ReadRound
    <3>2. copy'[h].losers = {} /\ \A g \in Handlers \ {h} : copy'[g] = copy[g]
      BY <3>1 DEF Forget, TypeOK, Unread
    <3>3. \A g \in Enders : IsConcluding(g)' => IsConcluding(g)
      BY <3>1, <3>2, NoNewConclusion
    <3> QED BY <2>1, <3>3, QuietStays DEF Undisturbed, IsRefunding
  <2> QED BY <2>2, <2>3
<1>9. ASSUME NEW h \in Handlers, ListLosers(h) PROVE QuietAfterRefund'
  <2>1. UNCHANGED <<status, refundRequests, refunded, crossed, revived, pc>>
    BY <1>9 DEF ListLosers, tournament, money, history
  <2>2. copy'[h].losers = {} /\ \A g \in Handlers \ {h} : copy'[g] = copy[g]
    BY <1>9 DEF ListLosers, TypeOK, Copies
  <2>3. \A g \in Enders : IsConcluding(g)' => IsConcluding(g)
    BY <2>1, <2>2 DEF IsConcluding, Handlers
  <2> QED BY <2>1, <2>3, QuietStays DEF Undisturbed, IsRefunding
<1>10. ASSUME NEW h \in Handlers,
              \/ ReadPlayers(h) \/ ListWinners(h) \/ WritePlayers(h)
              \/ EndTournament(h) \/ SaveNextRound(h) \/ StartNewRound(h)
       PROVE  QuietAfterRefund'
  <2>1. UNCHANGED <<refundRequests, refunded, crossed, revived>> /\ status' \in {status, "ended"}
    BY <1>10 DEF ReadPlayers, ListWinners, WritePlayers, EndTournament, SaveNextRound,
       StartNewRound, tournament, money, history
  <2>2. PICK stage \in Stages : Goto(h, stage)
    BY <1>10 DEF ReadPlayers, ListWinners, WritePlayers, EndTournament, SaveNextRound,
       StartNewRound, AfterDraw
  <2>3. IsConcluding(h) /\ pc[h] \in Concluding
    BY <1>10 DEF ReadPlayers, ListWinners, WritePlayers, EndTournament, SaveNextRound,
       StartNewRound, IsConcluding
  <2>4. \A g \in Handlers \ {h} : copy'[g] = copy[g]
    BY <1>10 DEF ReadPlayers, ListWinners, WritePlayers, EndTournament, SaveNextRound,
       StartNewRound, Forget, TypeOK
  <2>5. \A g \in Enders : IsConcluding(g)' => IsConcluding(g)
    BY <2>2, <2>3, <2>4, NoNewConclusion
  <2> QED BY <2>1, <2>5, QuietStays DEF Undisturbed, IsRefunding
<1>11. ASSUME NEW h \in Handlers, Fail(h) PROVE QuietAfterRefund'
  <2>1. UNCHANGED <<status, refundRequests, refunded, crossed, revived, copy>> /\ Goto(h, "broken")
    BY <1>11 DEF Fail, tournament, money, history
  <2>2. \A g \in Enders : IsConcluding(g)' => IsConcluding(g)
    BY <2>1, NoNewConclusion DEF IsConcluding
  <2> QED BY <2>1, <2>2, QuietStays DEF Undisturbed, IsRefunding
<1>12. CASE RefundJoinFees
  <2>1. UNCHANGED <<status, crossed, revived, pc, copy>> /\ refundRequests > 0
    BY <1>12 DEF RefundJoinFees, tournament, history
  <2> QED BY <2>1, QuietStays DEF Undisturbed, IsRefunding, IsConcluding
<1>13. CASE TimePasses \/ (\E u \in Users : IgnoreTournament(u)) \/ UNCHANGED vars
  <2>1. UNCHANGED <<status, refundRequests, refunded, crossed, revived, pc, copy>>
    BY <1>13 DEF TimePasses, IgnoreTournament, vars, tournament, money, history
  <2> QED BY <2>1, QuietStays DEF Undisturbed, IsRefunding, IsConcluding
<1> QED BY <1>1, <1>2, <1>3, <1>4, <1>5, <1>6, <1>7, <1>8, <1>9, <1>10, <1>11, <1>12, <1>13
       DEF Next, StartOn, CancelOn, ConcludeOn

(* The prizes of a round and the refund of the entry fees are not both      *)
(* under way: once staff or the start have asked for refunds, nobody is put *)
(* on the leaderboard, as long as no conclusion was running then and the    *)
(* start timer has not revived the tournament.                              *)
THEOREM NoPrizesAfterRefund == Spec => NothingIsListedAfterRefund
<1>1. Init => QuietAfterRefund
  BY DEF Init, QuietAfterRefund, IsRefunding
<1>2. TypeOK /\ Kinds /\ QuietAfterRefund /\ [Next]_vars => QuietAfterRefund'
  BY QuietStep
<1>3. TypeOK /\ Kinds /\ QuietAfterRefund /\ [Next]_vars
        => [board' # board /\ Undisturbed => ~IsRefunding]_vars
  <2> SUFFICES ASSUME TypeOK, Kinds, QuietAfterRefund, Next, board' # board
               PROVE  Undisturbed => ~IsRefunding
    BY DEF vars
  <2>1. PICK h \in Handlers : ListLosers(h) \/ ListWinners(h)
    BY DEF Next, JoinOn, StartOn, CancelOn, ReportOn, ConcludeOn, TimePasses, RefundJoinFees,
       IgnoreTournament, AquireLock, RefuseLock, CheckTournament, DebitTournamentJoinFee,
       SavePlayer, FindTournament, GetTournamentUserIds, TerminateTournament, BeginFirstRound,
       EndAbandoned, FireStartTimer, WriteCanceled, CloseTournament, ReportTable, LookAtRound,
       MarkPlayers, CountRemaining, RemoveTable, CollectResults, ReadRound, ReadPlayers,
       WritePlayers, EndTournament, SaveNextRound, StartNewRound, Fail
  <2>2. h \in Enders /\ IsConcluding(h)
    BY <2>1 DEF ListLosers, ListWinners, IsConcluding, Kinds, Fits, Concluding
  <2> QED BY <2>2 DEF QuietAfterRefund
<1> QED BY <1>1, <1>2, <1>3, TypeCorrect, PTL DEF Spec, NothingIsListedAfterRefund

-----------------------------------------------------------------------------
(* The end of a round, once it has read the tournament, is alone and finds  *)
(* it started; the winners are listed after the losers; and a start that    *)
(* cancels the tournament has somebody to refund.                           *)
Early == {"look", "mark", "count", "read", "players"}
Abandoning == {"beginAlone", "cancel", "close", "abandon"}

ListsInOrder(h) ==
  /\ pc[h] \in Early => copy[h].losers = {}
  /\ pc[h] = "winners" => IsLastRound(h)
  /\ pc[h] \in {"write", "save"} /\ IsLastRound(h) => copy[h].losers = {}

AbandonsSomebody(s) ==
  /\ pc[s] \in Abandoning => joined # {}
  /\ pc[s] = "abandon" => status = "canceled" /\ IsRefunding

Orderly ==
  Undisturbed =>
    /\ \A h \in Enders : IsConcluding(h) => status = "started"
    /\ \A g, h \in Enders : IsConcluding(g) /\ IsConcluding(h) => g = h
    /\ \A h \in Enders : ListsInOrder(h)
    /\ \A s \in Starts : AbandonsSomebody(s)

LEMMA OrderStays ==
  ASSUME Orderly, Undisturbed' => Undisturbed, status' = status,
         \A h \in Enders : IsConcluding(h)' => IsConcluding(h),
         Undisturbed => \A h \in Enders : ListsInOrder(h)',
         Undisturbed => \A s \in Starts : AbandonsSomebody(s)'
  PROVE  Orderly'
BY DEF Orderly

LEMMA Goes ==
  ASSUME TypeOK, NEW h \in Handlers, NEW stage, Goto(h, stage)
  PROVE  pc'[h] = stage /\ \A g \in Handlers \ {h} : pc'[g] = pc[g]
BY DEF TypeOK, Goto

(* What the end of a round is about to do depends on itself alone.          *)
LEMMA ListsAsBefore ==
  ASSUME NEW g \in Enders, pc'[g] = pc[g], copy'[g] = copy[g], ListsInOrder(g)
  PROVE  ListsInOrder(g)'
BY DEF ListsInOrder, IsLastRound

LEMMA ConcludesAsBefore ==
  ASSUME NEW g \in Enders, pc'[g] = pc[g], copy'[g] = copy[g]
  PROVE  IsConcluding(g)' <=> IsConcluding(g)
BY DEF IsConcluding

LEMMA KindsApart ==
  /\ Enders \subseteq Handlers /\ Starts \subseteq Handlers /\ Joins \subseteq Handlers
  /\ Starts \cap Enders = {} /\ Joins \cap Enders = {} /\ Joins \cap Starts = {}
  /\ Cancels \cap Enders = {} /\ Cancels \cap Starts = {}
BY TournamentAssumption DEF Handlers, Enders

(* A step of one end of a round that neither concludes anew nor writes the  *)
(* status.                                                                  *)
LEMMA EnderMoves ==
  ASSUME TypeOK, Orderly, Undisturbed' => Undisturbed, NEW h \in Enders, NEW stage, Goto(h, stage),
         UNCHANGED <<status, joined, refundRequests, refunded>>,
         \A g \in Handlers \ {h} : copy'[g] = copy[g],
         IsConcluding(h)' => IsConcluding(h),
         Undisturbed => ListsInOrder(h)'
  PROVE  Orderly'
<1>1. h \in Handlers
  BY KindsApart
<1>2. \A g \in Handlers \ {h} : pc'[g] = pc[g]
  BY <1>1, Goes
<1>3. \A g \in Enders : IsConcluding(g)' => IsConcluding(g)
  BY <1>2, KindsApart, ConcludesAsBefore
<1>4. Undisturbed => \A g \in Enders : ListsInOrder(g)'
  <2> SUFFICES ASSUME Undisturbed, NEW g \in Enders, g # h PROVE ListsInOrder(g)'
    OBVIOUS
  <2>1. ListsInOrder(g)
    BY DEF Orderly
  <2>2. pc'[g] = pc[g] /\ copy'[g] = copy[g]
    BY <1>2, KindsApart
  <2> QED BY <2>1, <2>2, ListsAsBefore
<1>5. Undisturbed => \A s \in Starts : AbandonsSomebody(s)'
  <2>1. \A s \in Starts : pc'[s] = pc[s]
    BY <1>2, KindsApart
  <2> QED BY <2>1 DEF Orderly, AbandonsSomebody, IsRefunding
<1> QED BY <1>3, <1>4, <1>5, OrderStays

(* A step of a registration, of staff or of the wallet.                     *)
LEMMA OthersMove ==
  ASSUME Orderly, Undisturbed' => Undisturbed, UNCHANGED status,
         \A g \in Enders \union Starts : pc'[g] = pc[g] /\ copy'[g] = copy[g],
         joined \subseteq joined', IsRefunding /\ joined # {} => IsRefunding'
  PROVE  Orderly'
<1>1. \A g \in Enders : IsConcluding(g)' => IsConcluding(g)
  BY ConcludesAsBefore
<1>2. Undisturbed => \A g \in Enders : ListsInOrder(g)'
  BY ListsAsBefore DEF Orderly
<1>3. Undisturbed => \A s \in Starts : AbandonsSomebody(s)'
  BY DEF Orderly, AbandonsSomebody, Abandoning
<1> QED BY <1>1, <1>2, <1>3, OrderStays

(* Whoever is registered gets a refund that is on its way.                  *)
LEMMA RefundIsKept ==
  ASSUME TypeOK, RefundJoinFees, IsRefunding, joined # {}
  PROVE  IsRefunding'
BY DEF TypeOK, RefundJoinFees, IsRefunding, players

LEMMA StartOrder ==
  ASSUME TypeOK, Kinds, Orderly, \A s, t \in Starts : s = t, NEW h \in Handlers, StartOn(h)
  PROVE  Orderly'
<1>1. h \in Starts /\ h \notin Enders
  BY KindsApart DEF StartOn, FindTournament, GetTournamentUserIds, TerminateTournament,
     BeginFirstRound, EndAbandoned, FireStartTimer, Kinds, Fits, Starting
<1>2. PICK stage : Goto(h, stage)
  BY DEF StartOn, FindTournament, GetTournamentUserIds, TerminateTournament,
     BeginFirstRound, EndAbandoned, FireStartTimer
<1>3. \A g \in Enders : pc'[g] = pc[g]
  BY <1>1, <1>2, Goes, KindsApart
<1>4. \A g \in Enders : copy'[g] = copy[g]
  BY <1>1, KindsApart DEF StartOn, FindTournament, GetTournamentUserIds, TerminateTournament,
     BeginFirstRound, EndAbandoned, FireStartTimer, TypeOK, Forget
<1>5. joined' = joined /\ (Undisturbed' => Undisturbed)
  BY DEF StartOn, FindTournament, GetTournamentUserIds, TerminateTournament, TypeOK,
     BeginFirstRound, EndAbandoned, FireStartTimer, players, Note, Undisturbed, history
<1>6. \A g \in Enders : IsConcluding(g)' <=> IsConcluding(g)
  BY <1>3, <1>4, ConcludesAsBefore
<1>7. Undisturbed => \A g \in Enders : ListsInOrder(g)'
  BY <1>3, <1>4, ListsAsBefore DEF Orderly
<1>8. CASE UNCHANGED status /\ pc'[h] \notin Abandoning
  <2>1. Undisturbed => \A s \in Starts : AbandonsSomebody(s)'
    BY <1>1, <1>8 DEF AbandonsSomebody, Abandoning
  <2> QED BY <1>5, <1>6, <1>7, <1>8, <2>1, OrderStays
<1>9. CASE FindTournament(h) \/ GetTournamentUserIds(h) \/ BeginFirstRound(h)
  <2>1. UNCHANGED status /\ (pc'[h] \in Abandoning => pc'[h] \in {"beginAlone", "cancel"})
    BY <1>9, <1>1, Goes DEF FindTournament, GetTournamentUserIds, BeginFirstRound, tournament,
       Abandoning
  <2>2. Undisturbed /\ pc'[h] \in Abandoning => joined # {}
    <3>1. CASE FindTournament(h)
      BY <3>1, <1>1, Goes DEF FindTournament, Abandoning
    <3>2. CASE BeginFirstRound(h)
      BY <3>2, <1>1, Goes DEF BeginFirstRound, Abandoning, Orderly, AbandonsSomebody
    <3>3. CASE GetTournamentUserIds(h)
      <4> SUFFICES ASSUME pc'[h] \in Abandoning PROVE joined # {}
        OBVIOUS
      <4>1. Cardinality(Remaining) = 1
        BY <3>3, <1>1, Goes DEF GetTournamentUserIds, Abandoning
      <4>2. Remaining # {}
        BY <4>1, FS_EmptySet
      <4> QED BY <4>2 DEF Remaining
    <3> QED BY <1>9, <3>1, <3>2, <3>3
  <2>3. Undisturbed => \A s \in Starts : AbandonsSomebody(s)'
    BY <1>1, <1>5, <2>1, <2>2 DEF AbandonsSomebody, Abandoning
  <2> QED BY <1>5, <1>6, <1>7, <2>1, <2>3, OrderStays
<1>10. CASE TerminateTournament(h)
  <2>1. /\ status' = "canceled" /\ pc'[h] = "done"
        /\ crossed' = (crossed \/ \E g \in Enders : IsConcluding(g))
    BY <1>10, Goes DEF TerminateTournament, Note
  <2>2. \A s \in Starts : pc'[s] \notin Abandoning
    BY <1>1, <2>1 DEF Abandoning
  <2> QED BY <1>5, <1>6, <1>7, <2>1, <2>2 DEF Orderly, Undisturbed, AbandonsSomebody, Abandoning
<1>11. CASE EndAbandoned(h)
  <2>1. pc[h] = "abandon" /\ pc'[h] = "timer"
    BY <1>11, Goes DEF EndAbandoned
  <2>2. Undisturbed => \A g \in Enders : ~IsConcluding(g)
    BY <1>1, <2>1 DEF Orderly, AbandonsSomebody
  <2>3. \A s \in Starts : pc'[s] \notin Abandoning
    BY <1>1, <2>1 DEF Abandoning
  <2> QED BY <1>5, <1>6, <1>7, <2>2, <2>3 DEF Orderly, AbandonsSomebody, Abandoning
<1>12. CASE FireStartTimer(h)
  <2>1. status' = "started" /\ pc'[h] = "done"
    BY <1>12, Goes DEF FireStartTimer
  <2>2. \A s \in Starts : pc'[s] \notin Abandoning
    BY <1>1, <2>1 DEF Abandoning
  <2> QED BY <1>5, <1>6, <1>7, <2>1, <2>2 DEF Orderly, AbandonsSomebody, Abandoning
<1> QED BY <1>9, <1>10, <1>11, <1>12 DEF StartOn

LEMMA CancelOrder ==
  ASSUME TypeOK, Kinds, Orderly, NEW h \in Handlers, CancelOn(h)
  PROVE  Orderly'
<1>1. h \notin Enders
  BY KindsApart DEF CancelOn, WriteCanceled, CloseTournament, Kinds, Fits
<1>2. PICK stage : Goto(h, stage)
  BY DEF CancelOn, WriteCanceled, CloseTournament
<1>3. pc'[h] = stage /\ \A g \in Handlers \ {h} : pc'[g] = pc[g]
  BY <1>2, Goes
<1>4. \A g \in Enders : pc'[g] = pc[g] /\ copy'[g] = copy[g]
  BY <1>1, <1>3, KindsApart DEF CancelOn, WriteCanceled, CloseTournament
<1>5. /\ status' = "canceled" /\ UNCHANGED <<joined, refunded>>
      /\ refundRequests' \in {refundRequests, refundRequests + 1}
      /\ crossed' = (crossed \/ \E g \in Enders : IsConcluding(g)) /\ revived' = revived
  BY DEF CancelOn, WriteCanceled, CloseTournament, players, money, Note
<1>6. \A g \in Enders : (IsConcluding(g)' <=> IsConcluding(g)) /\ (ListsInOrder(g) => ListsInOrder(g)')
  BY <1>4, ConcludesAsBefore, ListsAsBefore
<1>7. ASSUME Undisturbed, NEW s \in Starts PROVE AbandonsSomebody(s)'
  <2>1. AbandonsSomebody(s) /\ s \in Handlers
    BY <1>7, KindsApart DEF Orderly
  <2>2. IsRefunding => IsRefunding'
    BY <1>5 DEF IsRefunding, TypeOK
  <2>3. CASE s # h
    BY <1>3, <1>5, <2>1, <2>2, <2>3 DEF AbandonsSomebody
  <2>4. CASE s = h /\ WriteCanceled(h)
    <3>1. pc[h] = "cancel"
      BY <1>7, <2>4, KindsApart DEF WriteCanceled
    <3>2. stage \in {"close", "refused"}
      BY <1>3, <2>4, Goes DEF WriteCanceled
    <3> QED BY <1>3, <1>5, <2>1, <2>4, <3>1, <3>2 DEF AbandonsSomebody, Abandoning
  <2>5. CASE s = h /\ CloseTournament(h)
    <3>1. pc[h] = "close" /\ refundRequests' > 0
      BY <2>5 DEF CloseTournament, TypeOK
    <3> QED BY <1>5, <2>1, <2>5, <3>1 DEF AbandonsSomebody, Abandoning, IsRefunding
  <2> QED BY <2>3, <2>4, <2>5 DEF CancelOn
<1> QED BY <1>5, <1>6, <1>7 DEF Orderly, Undisturbed

LEMMA ReportOrder ==
  ASSUME TypeOK, Kinds, Orderly, NEW h \in Handlers,
         ReportTable(h) \/ ReportOn(h) \/ CollectResults(h)
  PROVE  Orderly'
<1>1. h \in Enders
  BY DEF ReportTable, ReportOn, LookAtRound, MarkPlayers, CountRemaining, RemoveTable,
     CollectResults, Kinds, Fits, Reporting, Enders
<1>2. UNCHANGED <<status, joined, refundRequests, refunded>> /\ (Undisturbed' => Undisturbed)
  <2>1. CASE MarkPlayers(h)
    BY <2>1 DEF MarkPlayers, tournament, money, Note, Undisturbed
  <2>2. CASE ReportTable(h)
    BY <2>2 DEF ReportTable, tournament, players, money, history, Undisturbed
  <2>3. CASE CollectResults(h)
    BY <2>3 DEF CollectResults, tournament, players, money, history, Undisturbed
  <2>4. CASE LookAtRound(h) \/ CountRemaining(h) \/ RemoveTable(h)
    BY <2>4 DEF LookAtRound, CountRemaining, RemoveTable, tournament, players, money, history,
       Undisturbed
  <2> QED BY <2>1, <2>2, <2>3, <2>4 DEF ReportOn
<1>3. \A g \in Handlers \ {h} : copy'[g] = copy[g]
  BY DEF ReportTable, ReportOn, LookAtRound, MarkPlayers, CountRemaining, RemoveTable,
     CollectResults, Forget, TypeOK
<1>4. CASE ReportTable(h) \/ CollectResults(h)
  <2>1. PICK stage \in {"look", "read"} : Goto(h, stage)
    BY <1>4 DEF ReportTable, CollectResults
  <2>a. pc'[h] = stage
    BY <2>1, Goes
  <2>b. ASSUME ReportTable(h) PROVE copy'[h].losers = {}
    BY <2>b DEF ReportTable, TypeOK, Unread
  <2>c. ASSUME CollectResults(h) PROVE copy'[h].losers = {}
    BY <2>c DEF CollectResults, TypeOK, Unread
  <2>2. copy'[h].losers = {} /\ pc'[h] = stage
    BY <1>4, <2>a, <2>b, <2>c DEF ReportTable, CollectResults, TypeOK, Unread
  <2>3. ~IsConcluding(h)' /\ ListsInOrder(h)'
    BY <2>1, <2>2 DEF IsConcluding, Concluding, ListsInOrder
  <2> QED BY <1>1, <1>2, <1>3, <2>1, <2>3, EnderMoves
<1>5. CASE LookAtRound(h) \/ MarkPlayers(h) \/ CountRemaining(h)
  <2>1. /\ pc[h] \in {"look", "mark", "count"}
        /\ \E stage \in {"mark", "idle", "count", "read", "remove"} : Goto(h, stage)
    BY <1>5 DEF LookAtRound, MarkPlayers, CountRemaining
  <2>2. PICK stage \in {"mark", "idle", "count", "read", "remove"} : Goto(h, stage)
    BY <2>1
  <2>3. pc'[h] = stage /\ copy'[h].losers \subseteq copy[h].losers
    BY <1>5, <2>2, Goes DEF LookAtRound, MarkPlayers, CountRemaining, Forget, TypeOK, Unread,
       Copies
  <2>4. IsConcluding(h)' => IsConcluding(h)
    BY <2>2, <2>3 DEF IsConcluding, Concluding
  <2>5. Undisturbed => ListsInOrder(h)'
    <3>1. Undisturbed => copy[h].losers = {}
      BY <1>1, <2>1 DEF Orderly, ListsInOrder, Early
    <3> QED BY <2>2, <2>3, <3>1 DEF ListsInOrder
  <2> QED BY <1>1, <1>2, <1>3, <2>2, <2>4, <2>5, EnderMoves
<1>6. CASE RemoveTable(h)
  <2>1. Goto(h, "idle") /\ pc'[h] = "idle" /\ copy'[h].losers = copy[h].losers
    BY <1>6, Goes DEF RemoveTable, TypeOK, Unread, Copies
  <2>2. (IsConcluding(h)' => IsConcluding(h)) /\ ListsInOrder(h)'
    BY <2>1 DEF IsConcluding, Concluding, ListsInOrder, Early
  <2> QED BY <1>1, <1>2, <1>3, <2>1, <2>2, EnderMoves
<1> QED BY <1>4, <1>5, <1>6 DEF ReportOn

LEMMA ConcludeOrder ==
  ASSUME TypeOK, Kinds, Orderly, NEW h \in Enders, ConcludeOn(h)
  PROVE  Orderly'
<1>1. UNCHANGED <<joined, refundRequests, refunded>> /\ (Undisturbed' => Undisturbed)
  BY DEF ConcludeOn, ReadRound, ReadPlayers, ListLosers, ListWinners, WritePlayers,
     EndTournament, SaveNextRound, StartNewRound, players, money, history, Note, Undisturbed,
     TypeOK
<1>2. \A g \in Handlers \ {h} : copy'[g] = copy[g]
  BY DEF ConcludeOn, ReadRound, ReadPlayers, ListLosers, ListWinners, WritePlayers,
     EndTournament, SaveNextRound, StartNewRound, Forget, TypeOK
<1>h. h \in Handlers
  BY KindsApart
<1>3. CASE ReadRound(h)
  <2>1. pc[h] = "read" /\ status' = status
    BY <1>3 DEF ReadRound, tournament
  <2>2. CASE ~IsCurrentRound(h)
    <3>1. Goto(h, "idle") /\ copy'[h].losers = {} /\ pc'[h] = "idle"
      BY <1>h, <1>3, <2>2, Goes DEF ReadRound, Forget, TypeOK, Unread
    <3>2. (IsConcluding(h)' => IsConcluding(h)) /\ ListsInOrder(h)'
      BY <3>1 DEF IsConcluding, Concluding, ListsInOrder, Early
    <3> QED BY <1>1, <1>2, <2>1, <3>1, <3>2, EnderMoves
  <2>3. CASE IsCurrentRound(h)
    <3>1. Goto(h, "players") /\ copy'[h].losers = copy[h].losers
      BY <1>3, <2>3 DEF ReadRound, TypeOK, Copies
    <3>2. pc'[h] = "players" /\ \A g \in Handlers \ {h} : pc'[g] = pc[g]
      BY <1>h, <3>1, Goes
    <3>3. crossed' = (crossed \/ \E g \in Enders \ {h} : IsConcluding(g))
      BY <1>3, <2>3 DEF ReadRound, Note
    <3>4. \A g \in Enders \ {h} : /\ IsConcluding(g)' <=> IsConcluding(g)
                                  /\ ListsInOrder(g) => ListsInOrder(g)'
      BY <1>2, <3>2, KindsApart, ConcludesAsBefore, ListsAsBefore
    <3>5. ListsInOrder(h) => ListsInOrder(h)'
      BY <2>1, <3>1, <3>2 DEF ListsInOrder, Early
    <3>6. \A s \in Starts : AbandonsSomebody(s) => AbandonsSomebody(s)'
      BY <1>1, <2>1, <3>2, KindsApart DEF AbandonsSomebody, IsRefunding
    <3> QED BY <1>1, <2>1, <2>3, <3>3, <3>4, <3>5, <3>6
            DEF Orderly, Undisturbed, IsCurrentRound
  <2> QED BY <2>2, <2>3
<1>4. CASE ReadPlayers(h)
  <2>1. PICK stage \in {"winners", "write"} : \E ls, us :
          /\ copy' = [copy EXCEPT ![h].losers = ls, ![h].remaining = us] /\ Goto(h, stage)
          /\ stage = "winners" => copy[h].round = copy[h].total \/ Cardinality(us) <= 1
          /\ stage = "write" => ~(copy[h].round = copy[h].total \/ Cardinality(us) <= 1)
    BY <1>4 DEF ReadPlayers
  <2>b. PICK ls, us :
          /\ copy' = [copy EXCEPT ![h].losers = ls, ![h].remaining = us]
          /\ stage = "winners" => copy[h].round = copy[h].total \/ Cardinality(us) <= 1
          /\ stage = "write" => ~(copy[h].round = copy[h].total \/ Cardinality(us) <= 1)
    BY <2>1
  <2>2. /\ copy'[h].remaining = us
        /\ copy'[h].round = copy[h].round /\ copy'[h].total = copy[h].total
    BY <1>h, <2>b DEF TypeOK, Copies
  <2>3. pc[h] = "players" /\ status' = status
    BY <1>4 DEF ReadPlayers, tournament
  <2>a. pc'[h] = stage
    BY <1>h, <2>1, Goes
  <2>4. IsConcluding(h) /\ ListsInOrder(h)'
    BY <2>b, <2>2, <2>3, <2>a DEF IsConcluding, Concluding, ListsInOrder, IsLastRound, Early
  <2> QED BY <1>1, <1>2, <2>1, <2>3, <2>4, EnderMoves
<1>5. CASE ListLosers(h)
  <2>1. status' = status /\ pc' = pc /\ copy[h].losers # {}
    BY <1>5 DEF ListLosers, tournament
  <2>2. copy' = [copy EXCEPT ![h].losers = {}]
    BY <1>5 DEF ListLosers
  <2>3. /\ copy'[h].losers = {} /\ copy'[h].round = copy[h].round
        /\ copy'[h].total = copy[h].total /\ copy'[h].remaining = copy[h].remaining
    BY <1>h, <2>2 DEF TypeOK, Copies
  <2>4. (\A g \in Enders : IsConcluding(g)' => IsConcluding(g))
    BY <1>2, <2>1, <2>3, KindsApart DEF IsConcluding
  <2>5. \A g \in Enders : ListsInOrder(g) => ListsInOrder(g)'
    <3>1. ListsInOrder(h) => ListsInOrder(h)'
      BY <2>1, <2>3 DEF ListsInOrder, IsLastRound
    <3> QED BY <1>2, <2>1, <3>1, KindsApart, ListsAsBefore
  <2>6. \A s \in Starts : AbandonsSomebody(s) => AbandonsSomebody(s)'
    BY <1>1, <2>1 DEF AbandonsSomebody, IsRefunding
  <2> QED BY <1>1, <2>1, <2>4, <2>5, <2>6, OrderStays DEF Orderly
<1>6. CASE ListWinners(h)
  <2>1. /\ Goto(h, "write") /\ pc[h] = "winners" /\ pc'[h] = "write" /\ copy[h].losers = {}
        /\ copy' = copy /\ status' = status
    BY <1>6, <1>h, Goes DEF ListWinners, tournament
  <2>2. IsConcluding(h) /\ ListsInOrder(h)'
    BY <2>1 DEF IsConcluding, Concluding, ListsInOrder, Early
  <2> QED BY <1>1, <1>2, <2>1, <2>2, EnderMoves
<1>7. CASE WritePlayers(h)
  <2>1. /\ Goto(h, "save") /\ pc[h] = "write" /\ pc'[h] = "save"
        /\ copy' = copy /\ status' = status
    BY <1>7, <1>h, Goes DEF WritePlayers, tournament
  <2>2. IsConcluding(h) /\ (ListsInOrder(h) => ListsInOrder(h)')
    BY <2>1 DEF IsConcluding, Concluding, ListsInOrder, Early, IsLastRound
  <2> QED BY <1>1, <1>2, <2>1, <2>2, EnderMoves DEF Orderly
<1>8. CASE EndTournament(h)
  <2>1. /\ pc[h] = "save" /\ IsLastRound(h) /\ status' = "ended"
        /\ \E stage \in {"remove", "idle"} : Goto(h, stage)
    BY <1>8 DEF EndTournament
  <2>2. PICK stage \in {"remove", "idle"} : Goto(h, stage)
    BY <2>1
  <2>3. pc'[h] = stage /\ \A g \in Handlers \ {h} : pc'[g] = pc[g]
    BY <1>h, <2>2, Goes
  <2>4. copy'[h].losers \subseteq copy[h].losers
    BY <1>8, <1>h DEF EndTournament, Forget, TypeOK, Copies, Unread
  <2> SUFFICES ASSUME Undisturbed' PROVE Orderly'
    BY DEF Orderly
  <2>5. Undisturbed /\ IsConcluding(h) /\ copy[h].losers = {}
    BY <1>1, <2>1 DEF IsConcluding, Concluding, Orderly, ListsInOrder
  <2>6. \A g \in Enders \ {h} : ~IsConcluding(g)
    BY <2>5 DEF Orderly
  <2>7. \A g \in Enders : ~IsConcluding(g)'
    <3>1. ~IsConcluding(h)'
      BY <2>2, <2>3, <2>4, <2>5 DEF IsConcluding, Concluding
    <3> QED BY <1>2, <2>3, <2>6, <3>1, KindsApart, ConcludesAsBefore
  <2>8. \A g \in Enders : ListsInOrder(g)'
    <3>1. ListsInOrder(h)'
      BY <2>2, <2>3 DEF ListsInOrder, Early
    <3> QED BY <1>2, <2>3, <2>5, <3>1, KindsApart, ListsAsBefore DEF Orderly
  <2>9. \A s \in Starts : AbandonsSomebody(s)'
    <3>1. status = "started"
      BY <2>5 DEF Orderly
    <3> QED BY <1>1, <2>3, <2>5, <3>1, KindsApart DEF Orderly, AbandonsSomebody
  <2> QED BY <2>7, <2>8, <2>9 DEF Orderly
<1>9. CASE SaveNextRound(h) \/ StartNewRound(h)
  <2>1. /\ pc[h] \in {"save", "draw"} /\ status' = status
        /\ \E stage \in {"draw", "remove", "idle"} : Goto(h, stage)
    BY <1>9, KindsApart DEF SaveNextRound, StartNewRound, AfterDraw, tournament
  <2>2. PICK stage \in {"draw", "remove", "idle"} : Goto(h, stage)
    BY <2>1
  <2>3. IsConcluding(h) /\ ListsInOrder(h)'
    BY <1>h, <2>1, <2>2, Goes DEF IsConcluding, Concluding, ListsInOrder, Early
  <2> QED BY <1>1, <1>2, <2>1, <2>2, <2>3, EnderMoves
<1> QED BY <1>3, <1>4, <1>5, <1>6, <1>7, <1>8, <1>9 DEF ConcludeOn

LEMMA OrderStep ==
  ASSUME TypeOK, Kinds, Orderly, \A s, t \in Starts : s = t, [Next]_vars
  PROVE  Orderly'
<1>1. ASSUME NEW h \in Handlers, JoinOn(h) PROVE Orderly'
  <2>1. /\ UNCHANGED <<status, copy, refundRequests, refunded, revived>> /\ joined \subseteq joined'
        /\ (Undisturbed' => Undisturbed)
    <3>1. CASE SavePlayer(h)
      BY <3>1 DEF SavePlayer, tournament, money, Note, Undisturbed
    <3>2. CASE ~SavePlayer(h)
      BY <1>1, <3>2 DEF JoinOn, AquireLock, RefuseLock, CheckTournament, DebitTournamentJoinFee,
         tournament, players, money, history, Undisturbed
    <3> QED BY <3>1, <3>2
  <2>2. h \in Joins
    BY <1>1 DEF JoinOn, AquireLock, RefuseLock, CheckTournament, DebitTournamentJoinFee,
       SavePlayer, Kinds, Fits, Joining
  <2>3. \E stage : Goto(h, stage)
    BY <1>1 DEF JoinOn, AquireLock, RefuseLock, CheckTournament, DebitTournamentJoinFee, SavePlayer
  <2>4. \A g \in Handlers \ {h} : pc'[g] = pc[g]
    BY <2>3, Goes
  <2> QED BY <2>1, <2>2, <2>4, KindsApart, OthersMove DEF IsRefunding
<1>2. ASSUME NEW h \in Handlers, Fail(h) PROVE Orderly'
  <2>1. UNCHANGED <<status, copy, joined, refundRequests, refunded, crossed, revived>>
        /\ Goto(h, "broken")
    BY <1>2 DEF Fail, tournament, players, money, history
  <2>2. pc'[h] = "broken" /\ \A g \in Handlers \ {h} : pc'[g] = pc[g]
    BY <2>1, Goes
  <2>3. \A g \in Enders : (IsConcluding(g)' => IsConcluding(g)) /\ (ListsInOrder(g) => ListsInOrder(g)')
    BY <2>1, <2>2, KindsApart DEF IsConcluding, ListsInOrder, IsLastRound, Concluding, Early
  <2>4. \A s \in Starts : AbandonsSomebody(s) => AbandonsSomebody(s)'
    BY <2>1, <2>2, KindsApart DEF AbandonsSomebody, Abandoning, IsRefunding
  <2> QED BY <2>1, <2>3, <2>4, OrderStays DEF Orderly, Undisturbed
<1>3. CASE RefundJoinFees
  BY <1>3, RefundIsKept, OthersMove DEF RefundJoinFees, tournament, players, history, Undisturbed
<1>4. CASE TimePasses \/ (\E u \in Users : IgnoreTournament(u)) \/ UNCHANGED vars
  BY <1>4, OthersMove DEF TimePasses, IgnoreTournament, vars, tournament, players, money, history,
     Undisturbed, IsRefunding
<1>5. ASSUME NEW h \in Handlers, ConcludeOn(h), h \notin Enders PROVE Orderly'
  <2>1. CASE ~StartNewRound(h)
    BY <1>5, <2>1 DEF ConcludeOn, ReadRound, ReadPlayers, ListLosers, ListWinners, WritePlayers,
       EndTournament, SaveNextRound, Kinds, Fits, Concluding
  <2>2. CASE StartNewRound(h)
    <3>1. /\ UNCHANGED <<status, copy, joined, refundRequests, refunded, crossed, revived>>
          /\ Goto(h, AfterDraw(h))
      BY <2>2 DEF StartNewRound, tournament, players, money, history
    <3>2. pc'[h] = AfterDraw(h) /\ \A g \in Handlers \ {h} : pc'[g] = pc[g]
      BY <3>1, Goes
    <3>3. \A g \in Enders : (IsConcluding(g)' => IsConcluding(g)) /\ (ListsInOrder(g) => ListsInOrder(g)')
      BY <1>5, <3>1, <3>2, KindsApart, ListsAsBefore, ConcludesAsBefore
    <3>4. \A s \in Starts : AbandonsSomebody(s) => AbandonsSomebody(s)'
      BY <3>1, <3>2, KindsApart DEF AbandonsSomebody, Abandoning, IsRefunding, AfterDraw
    <3> QED BY <3>1, <3>3, <3>4, OrderStays DEF Orderly, Undisturbed
  <2> QED BY <2>1, <2>2
<1> QED BY <1>1, <1>2, <1>3, <1>4, <1>5, StartOrder, CancelOrder, ReportOrder, ConcludeOrder DEF Next

-----------------------------------------------------------------------------
(* What the rounds keep, as long as no calls have crossed, none has broken  *)
(* off and nothing was canceled.                                            *)
Sound ==
  /\ Undisturbed /\ ~SomeCallBrokeOff /\ status # "canceled"
  /\ ~(IsRefunding /\ joined # {})

Current == {g \in games : g.round = round}
Same(f, g) == f.round = g.round /\ f.seats = g.seats /\ f.over = g.over /\ f.won = g.won
Won(h) == WinnersOf(copy[h].results)
AwaitsListing(u) == \E h \in Enders : u \in copy[h].losers
Settled(u) == board[u] = 1 \/ AwaitsListing(u)
Waits(u) == lost[u] = 0 \/ u \in left

(* Until the first round is drawn nobody has played.                        *)
StartFits(s) ==
  /\ pc[s] \notin {"timer", "done", "abandon"}
  /\ pc[s] \in {"begin", "draw"} => copy[s].remaining = joined
  /\ pc[s] = "draw" => round = 1 /\ copy[s].round = 1

NotDrawn ==
  /\ status = "created" /\ games = {} /\ scheduled = {}
  /\ \A u \in Users : board[u] = 0 /\ played[u] = 0 /\ (lost[u] # 0 => u \in left)
  /\ \A h \in Enders : pc[h] = "idle" /\ copy[h].losers = {}
  /\ \A s \in Starts : StartFits(s)

(* Afterwards nobody sits at two tables of a round, and a copy of a result  *)
(* is the result.                                                           *)
TablesFit ==
  /\ round > 0
  /\ promoted \in joined \union {NoUser}
  /\ \A g \in games : g.round \in 1..round /\ g.won \subseteq g.seats /\ g.seats \subseteq joined
  /\ \A g, k \in Current : \A u \in g.seats \cap k.seats : g = k

CopyFits(h) ==
  /\ pc[h] \in Early =>
       \A f \in copy[h].results : /\ f.round = copy[h].round /\ f.over
                                  /\ \E g \in games : Same(f, g)
  /\ pc[h] \in Concluding => copy[h].round = round
  /\ pc[h] = "draw" => Current = {}
  /\ pc[h] = "draw" \/ HasReadPlayers(h) => Won(h) \subseteq joined

(* Who is listed, or about to be, is out of the round for good; who is not, *)
(* is still in the tournament, has left, or was marked as a loser of it.    *)
SeatFits(u, g) ==
  /\ ~Settled(u) /\ u # promoted
  /\ played[u] = round => g.over /\ (u \notin g.won => lost[u] # 0)
  /\ Waits(u) \/ (played[u] = round /\ u \notin g.won)

PlayerFits(u) ==
  /\ played[u] <= round
  /\ Settled(u) => /\ lost[u] # 0 /\ played[u] # round /\ u # promoted
                   /\ \A h \in Enders : pc[h] = "draw" => u \notin Won(h)
  /\ Settled(u) \/ Waits(u) \/ played[u] = round
  /\ played[u] = round => \E g \in Current : u \in g.seats
  /\ \A g \in Current : u \in g.seats => SeatFits(u, g)

Playing == status \in {"created", "started"} /\ \A h \in Enders : ~HasReadPlayers(h)

(* The end of a round divides the players into those who remain and those   *)
(* who are listed or have left.                                             *)
DecidedFor(h, u) ==
  /\ played[u] <= round
  /\ u \in Won(h) => u \in copy[h].remaining
  /\ u \in copy[h].remaining \cap SeatedIn(copy[h].results) => u \in Won(h)
  /\ u \notin copy[h].remaining => Settled(u) \/ u \in left
  /\ u \in copy[h].remaining /\ IsLastRound(h) /\ pc[h] # "winners" => board[u] = 1
  /\ u \in copy[h].remaining /\ IsLastRound(h) /\ pc[h] = "winners" => ~Settled(u)
  /\ u \in copy[h].remaining /\ ~IsLastRound(h) => ~Settled(u) /\ Waits(u)
  /\ Settled(u) /\ ~IsLastRound(h) =>
       /\ u # promoted
       /\ \/ lost[u] # 0
          \/ pc[h] = "write" /\ u \in SeatedIn(copy[h].results) /\ played[u] # round

ListedOnce == \A u \in joined : board[u] \in {0, 1} /\ (AwaitsListing(u) => board[u] = 0)

AllListed == \A u \in joined : board[u] = 1 \/ (board[u] = 0 /\ u \in left)

Drawn ==
  /\ Starts # {} /\ \A s \in Starts : pc[s] \in {"timer", "done"}
  /\ TablesFit
  /\ \A h \in Enders : CopyFits(h)
  /\ ListedOnce
  /\ Playing => \A u \in joined : PlayerFits(u)
  /\ \A h \in Enders : HasReadPlayers(h) => \A u \in joined : DecidedFor(h, u)
  /\ status = "ended" => AllListed

RoundInvariant == Sound => NotDrawn \/ Drawn

(* Whoever is sound was.                                                    *)
LEMMA SoundStays ==
  ASSUME Sound', Undisturbed' => Undisturbed, status = "canceled" => status' = "canceled",
         joined \subseteq joined', IsRefunding /\ joined # {} => IsRefunding',
         \A g \in Handlers : pc[g] = "broken" => pc'[g] = "broken"
  PROVE  Sound
BY DEF Sound, SomeCallBrokeOff

LEMMA SoundGoes ==
  ASSUME TypeOK, Sound', Undisturbed' => Undisturbed, status = "canceled" => status' = "canceled",
         UNCHANGED <<refundRequests, refunded>>, joined \subseteq joined',
         NEW h \in Handlers, NEW stage, Goto(h, stage), pc[h] # "broken"
  PROVE  Sound
<1>1. \A g \in Handlers : pc[g] = "broken" => pc'[g] = "broken"
  BY Goes
<1> QED BY <1>1, SoundStays DEF IsRefunding

LEMMA SoundBefore ==
  ASSUME TypeOK, Kinds, Orderly, [Next]_vars, Sound'
  PROVE  Sound
<1>1. ASSUME NEW h \in Handlers, JoinOn(h) PROVE Sound
  <2>1. CASE SavePlayer(h)
    BY <2>1, SoundGoes DEF SavePlayer, tournament, money, Note, Undisturbed
  <2>2. CASE ~SavePlayer(h)
    <3>1. UNCHANGED <<status, joined, crossed, revived, refundRequests, refunded>>
      BY <1>1, <2>2 DEF JoinOn, AquireLock, RefuseLock, CheckTournament, DebitTournamentJoinFee,
         tournament, players, money, history
    <3>2. pc[h] # "broken" /\ \E stage : Goto(h, stage)
      BY <1>1, <2>2 DEF JoinOn, AquireLock, RefuseLock, CheckTournament, DebitTournamentJoinFee
    <3> QED BY <3>1, <3>2, SoundGoes DEF Undisturbed
  <2> QED BY <2>1, <2>2
<1>2. ASSUME NEW h \in Handlers, StartOn(h) PROVE Sound
  <2>1. pc[h] # "broken" /\ \E stage : Goto(h, stage)
    BY <1>2 DEF StartOn, FindTournament, GetTournamentUserIds, TerminateTournament,
       BeginFirstRound, EndAbandoned, FireStartTimer
  <2>2. CASE TerminateTournament(h)
    BY <2>2 DEF TerminateTournament, Sound
  <2>3. CASE FireStartTimer(h)
    <3>1. /\ status' = "started" /\ revived' = (revived \/ status # "created") /\ crossed' = crossed
          /\ UNCHANGED <<joined, refundRequests, refunded>>
      BY <2>3 DEF FireStartTimer, players, money
    <3>2. status = "created"
      BY <3>1 DEF Sound, Undisturbed
    <3> QED BY <2>1, <3>1, <3>2, SoundGoes DEF Undisturbed
  <2>4. CASE EndAbandoned(h)
    <3>1. pc[h] = "abandon" /\ UNCHANGED <<joined, refundRequests, refunded, crossed, revived>>
      BY <2>4 DEF EndAbandoned, players, money, history
    <3>2. h \in Starts
      BY <3>1 DEF Kinds, Fits, Starting
    <3>3. Undisturbed
      BY <3>1 DEF Sound, Undisturbed
    <3>4. IsRefunding' /\ joined' # {}
      BY <3>1, <3>2, <3>3 DEF Orderly, AbandonsSomebody, Abandoning, IsRefunding
    <3> QED BY <3>4 DEF Sound
  <2>5. CASE FindTournament(h) \/ GetTournamentUserIds(h) \/ BeginFirstRound(h)
    <3>1. UNCHANGED <<status, joined, crossed, revived, refundRequests, refunded>>
      BY <2>5 DEF FindTournament, GetTournamentUserIds, BeginFirstRound, tournament, players,
         money, history
    <3> QED BY <2>1, <3>1, SoundGoes DEF Undisturbed
  <2> QED BY <1>2, <2>2, <2>3, <2>4, <2>5 DEF StartOn
<1>3. ASSUME NEW h \in Handlers, CancelOn(h) PROVE Sound
  BY <1>3 DEF CancelOn, WriteCanceled, CloseTournament, Sound
<1>4. ASSUME NEW h \in Handlers, ReportTable(h) \/ CollectResults(h) PROVE Sound
  <2>1. UNCHANGED <<status, joined, crossed, revived, refundRequests, refunded>>
    BY <1>4 DEF ReportTable, CollectResults, tournament, players, money, history
  <2>2. pc[h] # "broken" /\ \E stage : Goto(h, stage)
    BY <1>4 DEF ReportTable, CollectResults
  <2> QED BY <2>1, <2>2, SoundGoes DEF Undisturbed
<1>5. ASSUME NEW h \in Handlers, ReportOn(h) PROVE Sound
  <2>1. CASE MarkPlayers(h)
    BY <2>1, SoundGoes DEF MarkPlayers, tournament, money, Note, Undisturbed
  <2>2. CASE ~MarkPlayers(h)
    <3>1. UNCHANGED <<status, joined, crossed, revived, refundRequests, refunded>>
      BY <1>5, <2>2 DEF ReportOn, LookAtRound, CountRemaining, RemoveTable, tournament, players,
         money, history
    <3>2. pc[h] # "broken" /\ \E stage : Goto(h, stage)
      BY <1>5, <2>2 DEF ReportOn, LookAtRound, CountRemaining, RemoveTable
    <3> QED BY <3>1, <3>2, SoundGoes DEF Undisturbed
  <2> QED BY <2>1, <2>2
<1>6. ASSUME NEW h \in Handlers, ConcludeOn(h) PROVE Sound
  <2>1. CASE ReadRound(h)
    BY <2>1, SoundGoes DEF ReadRound, tournament, players, money, Note, Undisturbed
  <2>2. CASE ListLosers(h)
    <3>1. UNCHANGED <<status, joined, crossed, revived, refundRequests, refunded, pc>>
      BY <2>2 DEF ListLosers, tournament, players, money, history
    <3> QED BY <3>1, SoundStays DEF Undisturbed, IsRefunding
  <2>3. CASE EndTournament(h)
    <3>1. /\ pc[h] = "save" /\ UNCHANGED <<joined, crossed, revived, refundRequests, refunded>>
          /\ \E stage : Goto(h, stage)
      BY <2>3 DEF EndTournament, players, money, history
    <3>2. h \in Enders /\ IsConcluding(h) /\ Undisturbed
      BY <3>1 DEF Kinds, Fits, Concluding, IsConcluding, Sound, Undisturbed
    <3>3. status = "started"
      BY <3>2 DEF Orderly
    <3> QED BY <3>1, <3>2, <3>3, SoundGoes
  <2>4. CASE ReadPlayers(h) \/ ListWinners(h) \/ WritePlayers(h) \/ SaveNextRound(h) \/ StartNewRound(h)
    <3>1. UNCHANGED <<status, joined, crossed, revived, refundRequests, refunded>>
      BY <2>4 DEF ReadPlayers, ListWinners, WritePlayers, SaveNextRound, StartNewRound,
         tournament, players, money, history
    <3>2. pc[h] # "broken" /\ \E stage : Goto(h, stage)
      BY <2>4 DEF ReadPlayers, ListWinners, WritePlayers, SaveNextRound, StartNewRound
    <3> QED BY <3>1, <3>2, SoundGoes DEF Undisturbed
  <2> QED BY <1>6, <2>1, <2>2, <2>3, <2>4 DEF ConcludeOn
<1>7. ASSUME NEW h \in Handlers, Fail(h) PROVE Sound
  <2>1. pc'[h] = "broken"
    BY <1>7, Goes DEF Fail
  <2> QED BY <2>1 DEF Sound, SomeCallBrokeOff
<1>8. CASE RefundJoinFees
  <2>1. UNCHANGED <<status, joined, crossed, revived, pc>>
    BY <1>8 DEF RefundJoinFees, tournament, players, history
  <2> QED BY <1>8, <2>1, RefundIsKept, SoundStays DEF Undisturbed
<1>9. CASE TimePasses \/ (\E u \in Users : IgnoreTournament(u)) \/ UNCHANGED vars
  <2>1. UNCHANGED <<status, joined, crossed, revived, pc, refundRequests, refunded>>
    BY <1>9 DEF TimePasses, IgnoreTournament, vars, tournament, players, money, history
  <2> QED BY <2>1, SoundStays DEF Undisturbed, IsRefunding
<1> QED BY <1>1, <1>2, <1>3, <1>4, <1>5, <1>6, <1>7, <1>8, <1>9 DEF Next

-----------------------------------------------------------------------------
(* A step that seats nobody.  Each table is followed by one with the same   *)
(* seats, and with the same winners once it was over.                       *)
Follows(g, k) ==
  /\ k.round = g.round /\ k.seats = g.seats
  /\ g.over => k.over /\ k.won = g.won
  /\ g.won \subseteq g.seats => k.won \subseteq k.seats

LEMMA TablesFollow ==
  ASSUME TablesFit, UNCHANGED <<round, joined, promoted>>, NEW next,
         games' = {next[g] : g \in games}, \A g \in games : Follows(g, next[g])
  PROVE  /\ TablesFit'
         /\ \A k \in Current' : \E g \in Current : Follows(g, k)
         /\ \A g \in Current : \E k \in Current' : Follows(g, k)
<1>1. \A k \in games' : \E g \in games : k = next[g] /\ Follows(g, k)
  OBVIOUS
<1>2. \A g \in games : next[g] \in games' /\ Follows(g, next[g])
  OBVIOUS
<1>3. \A k \in games' : k.round \in 1..round /\ k.won \subseteq k.seats /\ k.seats \subseteq joined
  BY <1>1 DEF TablesFit, Follows
<1>4. ASSUME NEW k \in Current', NEW l \in Current', NEW u \in k.seats \cap l.seats PROVE k = l
  <2>1. PICK g \in games : k = next[g] /\ Follows(g, k)
    BY <1>1 DEF Current
  <2>2. PICK f \in games : l = next[f] /\ Follows(f, l)
    BY <1>1 DEF Current
  <2>3. g \in Current /\ f \in Current /\ u \in g.seats \cap f.seats
    BY <2>1, <2>2 DEF Current, Follows
  <2>4. g = f
    BY <2>3 DEF TablesFit
  <2> QED BY <2>1, <2>2, <2>4
<1>5. TablesFit'
  BY <1>3, <1>4 DEF TablesFit
<1> QED BY <1>1, <1>2, <1>5 DEF Current, Follows

LEMMA CopyFollows ==
  ASSUME NEW next, games' = {next[g] : g \in games}, \A g \in games : Follows(g, next[g]),
         UNCHANGED <<round, joined>>, NEW h \in Enders, CopyFits(h), pc'[h] = pc[h],
         copy'[h] = copy[h]
  PROVE  CopyFits(h)'
<1>1. ASSUME NEW f, f.over, NEW g \in games, Same(f, g) PROVE Same(f, next[g]) /\ next[g] \in games'
  BY <1>1 DEF Same, Follows
<1>2. Current = {} => Current' = {}
  BY DEF Current, Follows
<1> QED BY <1>1, <1>2 DEF CopyFits, HasReadPlayers, Won

(* Nothing changes for a player.                                            *)
LEMMA PlayerFollows ==
  ASSUME NEW u \in joined, PlayerFits(u), UNCHANGED <<round, promoted>>,
         lost'[u] = lost[u], played'[u] = played[u], left \subseteq left',
         Settled(u)' <=> Settled(u),
         \A h \in Enders : pc'[h] = "draw" => pc[h] = "draw" /\ Won(h)' = Won(h),
         \A k \in Current' : \E g \in Current : Follows(g, k),
         \A g \in Current : \E k \in Current' : Follows(g, k)
  PROVE  PlayerFits(u)'
<1>1. ASSUME NEW k \in Current', u \in k.seats PROVE SeatFits(u, k)'
  <2>1. PICK g \in Current : Follows(g, k)
    OBVIOUS
  <2>2. SeatFits(u, g)
    BY <1>1, <2>1 DEF PlayerFits, Follows
  <2> QED BY <2>1, <2>2 DEF SeatFits, Follows, Waits
<1> QED BY <1>1 DEF PlayerFits, Waits, Follows

LEMMA DecisionFollows ==
  ASSUME NEW h \in Enders, NEW u \in joined, DecidedFor(h, u), UNCHANGED <<round, promoted>>,
         lost'[u] = lost[u], played'[u] = played[u], left \subseteq left', pc'[h] = pc[h],
         Settled(u)' <=> Settled(u), board[u] = 1 => board'[u] = 1,
         /\ copy'[h].results = copy[h].results /\ copy'[h].remaining = copy[h].remaining
         /\ copy'[h].round = copy[h].round /\ copy'[h].total = copy[h].total
  PROVE  DecidedFor(h, u)'
BY DEF DecidedFor, Won, IsLastRound, Waits

(* A step of one end of a game or of a round that leaves what is known of   *)
(* the players as it is.                                                    *)
LEMMA KnownAsBefore ==
  ASSUME Drawn, NEW h \in Enders, NEW next,
         games' = {next[g] : g \in games}, \A g \in games : Follows(g, next[g]),
         UNCHANGED <<status, round, joined, lost, played, promoted, left>>,
         \A s \in Starts : pc'[s] = pc[s],
         \A g \in Enders \ {h} : pc'[g] = pc[g] /\ copy'[g] = copy[g],
         pc'[h] = "draw" => pc[h] = "draw",
         HasReadPlayers(h)' <=> HasReadPlayers(h),
         HasReadPlayers(h) =>
           /\ pc'[h] = pc[h]
           /\ copy'[h].remaining = copy[h].remaining
           /\ copy'[h].round = copy[h].round /\ copy'[h].total = copy[h].total,
         HasReadPlayers(h) \/ pc'[h] = "draw" => copy'[h].results = copy[h].results,
         CopyFits(h)', ListedOnce',
         \A u \in joined : Settled(u)' <=> Settled(u),
         \A u \in joined : board[u] = 1 => board'[u] = 1,
         status = "ended" => board' = board
  PROVE  Drawn'
<1>1. /\ TablesFit'
      /\ \A k \in Current' : \E g \in Current : Follows(g, k)
      /\ \A g \in Current : \E k \in Current' : Follows(g, k)
  BY TablesFollow DEF Drawn
<1>2. \A g \in Enders : CopyFits(g)'
  BY CopyFollows DEF Drawn
<1>3. \A g \in Enders : HasReadPlayers(g)' <=> HasReadPlayers(g)
  BY DEF HasReadPlayers
<1>4. ASSUME Playing', NEW u \in joined' PROVE PlayerFits(u)'
  <2>1. Playing
    BY <1>3, <1>4 DEF Playing
  <2>2. u \in joined /\ PlayerFits(u)
    BY <1>4, <2>1 DEF Drawn
  <2>3. \A g \in Enders : pc'[g] = "draw" => pc[g] = "draw" /\ Won(g)' = Won(g)
    BY DEF Won
  <2> QED BY <1>1, <2>2, <2>3, PlayerFollows
<1>5. ASSUME NEW g \in Enders, HasReadPlayers(g)', NEW u \in joined' PROVE DecidedFor(g, u)'
  <2>1. u \in joined /\ HasReadPlayers(g) /\ DecidedFor(g, u)
    BY <1>3, <1>5 DEF Drawn
  <2>2. /\ pc'[g] = pc[g] /\ copy'[g].results = copy[g].results
        /\ copy'[g].remaining = copy[g].remaining
        /\ copy'[g].round = copy[g].round /\ copy'[g].total = copy[g].total
    BY <1>5, <2>1
  <2> QED BY <2>1, <2>2, DecisionFollows
<1>6. status' = "ended" => AllListed'
  BY DEF Drawn, AllListed
<1> QED BY <1>1, <1>2, <1>4, <1>5, <1>6 DEF Drawn

(* The tables as they are.                                                  *)
LEMMA SameTables ==
  ASSUME games' = games
  PROVE  LET next == [g \in games |-> g]
         IN  games' = {next[g] : g \in games} /\ \A g \in games : Follows(g, next[g])
BY DEF Follows

(* Somebody else's step.                                                    *)
LEMMA NobodyEnds ==
  ASSUME Drawn, UNCHANGED <<round, joined, lost, played, promoted, left, games, board>>,
         status' = status \/ (status = "created" /\ status' = "started"),
         \A s \in Starts : pc'[s] \in {"timer", "done"},
         \A g \in Enders : pc'[g] = pc[g] /\ copy'[g] = copy[g]
  PROVE  Drawn'
<1> DEFINE next == [g \in games |-> g]
<1>1. games' = {next[g] : g \in games} /\ \A g \in games : Follows(g, next[g])
  BY SameTables
<1> HIDE DEF next
<1>2. /\ TablesFit'
      /\ \A k \in Current' : \E g \in Current : Follows(g, k)
      /\ \A g \in Current : \E k \in Current' : Follows(g, k)
  BY <1>1, TablesFollow DEF Drawn
<1>3. \A g \in Enders : CopyFits(g)'
  BY <1>1, CopyFollows DEF Drawn
<1>4. \A g \in Enders : HasReadPlayers(g)' <=> HasReadPlayers(g)
  BY DEF HasReadPlayers
<1>5. \A u : (AwaitsListing(u)' <=> AwaitsListing(u)) /\ (Settled(u)' <=> Settled(u))
  BY DEF AwaitsListing, Settled
<1>6. ASSUME Playing', NEW u \in joined' PROVE PlayerFits(u)'
  <2>1. u \in joined /\ PlayerFits(u)
    BY <1>4, <1>6 DEF Drawn, Playing
  <2>2. \A g \in Enders : pc'[g] = "draw" => pc[g] = "draw" /\ Won(g)' = Won(g)
    BY DEF Won
  <2> QED BY <1>2, <1>5, <2>1, <2>2, PlayerFollows
<1>7. ASSUME NEW g \in Enders, HasReadPlayers(g)', NEW u \in joined' PROVE DecidedFor(g, u)'
  <2>1. u \in joined /\ HasReadPlayers(g) /\ DecidedFor(g, u)
    BY <1>4, <1>7 DEF Drawn
  <2> QED BY <1>5, <2>1, DecisionFollows
<1>8. ListedOnce' /\ (status' = "ended" => AllListed')
  BY <1>5 DEF Drawn, ListedOnce, AllListed
<1> QED BY <1>2, <1>3, <1>6, <1>7, <1>8 DEF Drawn

(* Who waits to be listed when one end of a round has moved.                *)
LEMMA SettledAsBefore ==
  ASSUME NEW h \in Enders, board' = board, copy'[h].losers = copy[h].losers,
         \A g \in Enders \ {h} : copy'[g] = copy[g]
  PROVE  \A u : (AwaitsListing(u)' <=> AwaitsListing(u)) /\ (Settled(u)' <=> Settled(u))
BY DEF AwaitsListing, Settled

LEMMA ListedAsBefore ==
  ASSUME ListedOnce, joined' = joined, board' = board,
         \A u : AwaitsListing(u)' <=> AwaitsListing(u)
  PROVE  ListedOnce'
BY DEF ListedOnce

LEMMA FinishedFollows ==
  ASSUME NEW g \in Games, NEW w, w \in (IF g.over THEN {g.won} ELSE Winners(g)), NEW l \in BOOLEAN
  PROVE  /\ Follows(g, Finished(g, w)) /\ Finished(g, w).over /\ Finished(g, w).round = g.round
         /\ Follows(g, [Finished(g, w) EXCEPT !.live = l])
         /\ Same(Finished(g, w), [Finished(g, w) EXCEPT !.live = l])
         /\ Same(Finished(g, w), Finished(g, w))
<1>1. CASE g.over
  <2>1. Finished(g, w) = g
    BY <1>1 DEF Finished
  <2> QED BY <1>1, <2>1 DEF Follows, Same, Games
<1>2. CASE ~g.over
  <2>1. Finished(g, w) = [g EXCEPT !.over = TRUE, !.won = w] /\ w \subseteq g.seats
    BY <1>2 DEF Finished, Winners
  <2> QED BY <1>2, <2>1 DEF Follows, Same, Games
<1> QED BY <1>1, <1>2

LEMMA ReportKnown ==
  ASSUME TypeOK, Kinds, Drawn, NEW e \in Handlers, ReportTable(e)
  PROVE  Drawn'
<1>1. e \in Enders /\ pc[e] = "idle" /\ copy[e].losers = {}
  BY DEF ReportTable, Enders
<1>2. PICK g \in games : \E w \in (IF g.over THEN {g.won} ELSE Winners(g)) :
        /\ games' = (games \ {g}) \union {Finished(g, w)}
        /\ copy' = [copy EXCEPT ![e] =
                      [Unread EXCEPT !.round = g.round, !.results = {Finished(g, w)}]]
  BY DEF ReportTable
<1>3. PICK w \in (IF g.over THEN {g.won} ELSE Winners(g)) :
        /\ games' = (games \ {g}) \union {Finished(g, w)}
        /\ copy' = [copy EXCEPT ![e] =
                      [Unread EXCEPT !.round = g.round, !.results = {Finished(g, w)}]]
  BY <1>2
<1> DEFINE f == Finished(g, w)
           next == [x \in games |-> IF x = g THEN f ELSE x]
<1>4. Follows(g, f) /\ f.over /\ f.round = g.round /\ Same(f, f)
  BY FinishedFollows DEF TypeOK
<1>5. games' = {next[x] : x \in games} /\ \A x \in games : Follows(x, next[x])
  BY <1>3, <1>4 DEF Follows
<1>6. /\ copy'[e].round = g.round /\ copy'[e].results = {f} /\ copy'[e].losers = {}
      /\ \A x \in Handlers \ {e} : copy'[x] = copy[x]
  BY <1>3 DEF TypeOK, Unread
<1>7. pc'[e] = "look" /\ \A x \in Handlers \ {e} : pc'[x] = pc[x]
  BY Goes DEF ReportTable
<1>8. f \in games'
  BY <1>3
<1> HIDE DEF f, next
<1>9. CopyFits(e)'
  BY <1>4, <1>6, <1>7, <1>8 DEF CopyFits, HasReadPlayers, Concluding
<1>10. UNCHANGED <<status, round, joined, lost, played, promoted, left, board>>
  BY DEF ReportTable, tournament, players, environment
<1>11. \A u : (AwaitsListing(u)' <=> AwaitsListing(u)) /\ (Settled(u)' <=> Settled(u))
  BY <1>1, <1>6, <1>10, KindsApart, SettledAsBefore
<1>12. ListedOnce'
  BY <1>10, <1>11, ListedAsBefore DEF Drawn
<1>13. ~HasReadPlayers(e) /\ ~HasReadPlayers(e)'
  BY <1>1, <1>7 DEF HasReadPlayers
<1>14. \A s \in Starts : pc'[s] = pc[s]
  BY <1>1, <1>7, KindsApart
<1>15. \A x \in Enders \ {e} : pc'[x] = pc[x] /\ copy'[x] = copy[x]
  BY <1>6, <1>7, KindsApart
<1> QED BY <1>1, <1>5, <1>7, <1>9, <1>10, <1>11, <1>12, <1>13, <1>14, <1>15, KnownAsBefore

LEMMA CollectKnown ==
  ASSUME TypeOK, Kinds, Drawn, NEW r \in Handlers, CollectResults(r)
  PROVE  Drawn'
<1>1. r \in Enders /\ pc[r] = "idle" /\ copy[r].losers = {}
  BY DEF CollectResults, Enders
<1> DEFINE Collected(end, mine, w) ==
        /\ \A g \in mine : w[g] \in (IF g.over THEN {g.won} ELSE Winners(g))
        /\ games' = (games \ mine) \union
                    {[Finished(g, w[g]) EXCEPT !.live = g.live /\ g.over] : g \in mine}
        /\ copy' = [copy EXCEPT ![r] = [Unread EXCEPT
                      !.round = end[1], !.results = {Finished(g, w[g]) : g \in mine}]]
<1>2. PICK end \in scheduled : \E w \in [{g \in games : g.round = end[1]} -> SUBSET Users] :
        Collected(end, {g \in games : g.round = end[1]}, w)
  BY DEF CollectResults
<1> DEFINE mine == {g \in games : g.round = end[1]}
<1>3. PICK w \in [mine -> SUBSET Users] : Collected(end, mine, w)
  BY <1>2
<1> DEFINE next == [x \in games |-> IF x \in mine
                                    THEN [Finished(x, w[x]) EXCEPT !.live = x.live /\ x.over]
                                    ELSE x]
<1>4. \A g \in mine : /\ Finished(g, w[g]).over /\ Finished(g, w[g]).round = end[1]
                      /\ Follows(g, next[g]) /\ Same(Finished(g, w[g]), next[g])
  <2> TAKE g \in mine
  <2>1. g \in Games /\ (g.live /\ g.over) \in BOOLEAN /\ g.round = end[1]
    BY DEF TypeOK, Games
  <2>2. w[g] \in (IF g.over THEN {g.won} ELSE Winners(g))
    BY <1>3
  <2> QED BY <2>1, <2>2, FinishedFollows
<1>5. games' = {next[x] : x \in games} /\ \A x \in games : Follows(x, next[x])
  <2>1. \A x \in games \ mine : next[x] = x /\ Follows(x, next[x])
    BY DEF Follows
  <2>2. \A x \in mine : next[x] = [Finished(x, w[x]) EXCEPT !.live = x.live /\ x.over]
    OBVIOUS
  <2>3. games' = {next[x] : x \in games \ mine} \union {next[x] : x \in mine}
    BY <1>3, <2>1, <2>2
  <2> QED BY <1>4, <2>1, <2>3
<1>6. /\ copy'[r].round = end[1] /\ copy'[r].results = {Finished(g, w[g]) : g \in mine}
      /\ copy'[r].losers = {} /\ \A x \in Handlers \ {r} : copy'[x] = copy[x]
  BY <1>3 DEF TypeOK, Unread
<1>7. pc'[r] = "read" /\ \A x \in Handlers \ {r} : pc'[x] = pc[x]
  BY Goes DEF CollectResults
<1>8. \A f \in copy'[r].results : f.round = end[1] /\ f.over /\ \E k \in games' : Same(f, k)
  <2> TAKE f \in copy'[r].results
  <2>1. PICK g \in mine : f = Finished(g, w[g])
    BY <1>6
  <2>2. next[g] \in games'
    BY <1>5
  <2> QED BY <1>4, <2>1, <2>2
<1> HIDE DEF Collected, mine, next
<1>9. CopyFits(r)'
  BY <1>6, <1>7, <1>8 DEF CopyFits, HasReadPlayers, Concluding
<1>10. UNCHANGED <<status, round, joined, lost, played, promoted, left, board>>
  BY DEF CollectResults, tournament, players, environment
<1>11. \A u : (AwaitsListing(u)' <=> AwaitsListing(u)) /\ (Settled(u)' <=> Settled(u))
  BY <1>1, <1>6, <1>10, KindsApart, SettledAsBefore
<1>12. ListedOnce'
  BY <1>10, <1>11, ListedAsBefore DEF Drawn
<1>13. ~HasReadPlayers(r) /\ ~HasReadPlayers(r)'
  BY <1>1, <1>7 DEF HasReadPlayers
<1>14. \A s \in Starts : pc'[s] = pc[s]
  BY <1>1, <1>7, KindsApart
<1>15. \A x \in Enders \ {r} : pc'[x] = pc[x] /\ copy'[x] = copy[x]
  BY <1>6, <1>7, KindsApart
<1> QED BY <1>1, <1>5, <1>7, <1>9, <1>10, <1>11, <1>12, <1>13, <1>14, <1>15, KnownAsBefore

(* Looking, counting and removing a table, and reading the round.           *)
LEMMA LooksKnown ==
  ASSUME TypeOK, Kinds, Orderly, Undisturbed, Drawn, NEW e \in Handlers,
         LookAtRound(e) \/ CountRemaining(e) \/ RemoveTable(e) \/ ReadRound(e)
  PROVE  Drawn'
<1>1. e \in Enders /\ pc[e] \in {"look", "count", "remove", "read"}
  BY DEF LookAtRound, CountRemaining, RemoveTable, ReadRound, Kinds, Fits, Reporting, Enders
<1>2. UNCHANGED <<status, round, joined, lost, played, promoted, left, board>>
  BY DEF LookAtRound, CountRemaining, RemoveTable, ReadRound, tournament, players, tables,
     environment
<1>3. \A x \in Handlers \ {e} : copy'[x] = copy[x]
  BY DEF LookAtRound, CountRemaining, RemoveTable, ReadRound, Forget, TypeOK
<1>4. PICK stage \in {"mark", "idle", "read", "remove", "players"} : Goto(e, stage)
  BY DEF LookAtRound, CountRemaining, RemoveTable, ReadRound
<1>5. pc'[e] = stage /\ \A x \in Handlers \ {e} : pc'[x] = pc[x]
  BY <1>4, Goes
<1> DEFINE next == IF RemoveTable(e)
                   THEN [g \in games |-> IF g \in copy[e].results THEN [g EXCEPT !.live = FALSE]
                                         ELSE g]
                   ELSE [g \in games |-> g]
<1>6. games' = {next[g] : g \in games} /\ \A g \in games : Follows(g, next[g])
  <2>1. CASE RemoveTable(e)
    BY <2>1 DEF RemoveTable, Follows, TypeOK, Games
  <2>2. CASE ~RemoveTable(e)
    <3>1. games' = games
      BY <2>2 DEF LookAtRound, CountRemaining, ReadRound, tables
    <3> QED BY <2>2, <3>1 DEF Follows
  <2> QED BY <2>1, <2>2
<1> HIDE DEF next
<1>7. copy'[e].losers = copy[e].losers
  <2>1. pc[e] # "remove" => copy[e].losers = {}
    BY <1>1 DEF Orderly, ListsInOrder, Early
  <2>2. CASE LookAtRound(e) \/ ReadRound(e)
    <3>1. copy[e].losers = {}
      BY <2>1, <2>2 DEF LookAtRound, ReadRound
    <3>2. copy' = [copy EXCEPT ![e].total = total] \/ copy' = [copy EXCEPT ![e] = Unread]
      BY <2>2 DEF LookAtRound, ReadRound, Forget
    <3> QED BY <3>1, <3>2 DEF TypeOK, Unread, Copies
  <2>3. CASE CountRemaining(e) \/ RemoveTable(e)
    BY <2>3 DEF CountRemaining, RemoveTable, TypeOK, Unread, Copies
  <2> QED BY <2>2, <2>3
<1>8. stage \in {"mark", "read", "players"} =>
        /\ pc[e] \in Early
        /\ copy'[e].round = copy[e].round /\ copy'[e].results = copy[e].results
        /\ stage = "players" => copy[e].round = round
  BY <1>4, <1>5 DEF LookAtRound, CountRemaining, RemoveTable, ReadRound, Early, TypeOK, Copies,
     IsCurrentRound, Goto
<1>9. CopyFits(e)'
  <2>1. CASE stage \in {"idle", "remove"}
    BY <1>5, <2>1 DEF CopyFits, Early, Concluding, HasReadPlayers
  <2>2. CASE stage \in {"mark", "read", "players"}
    <3>1. games' = games
      BY <1>5, <2>2, Goes DEF LookAtRound, CountRemaining, RemoveTable, ReadRound, tables
    <3>2. CopyFits(e)
      BY <1>1 DEF Drawn
    <3> QED BY <1>2, <1>5, <1>8, <2>2, <3>1, <3>2 DEF CopyFits, Concluding, HasReadPlayers
  <2> QED BY <2>1, <2>2
<1>10. \A u : (AwaitsListing(u)' <=> AwaitsListing(u)) /\ (Settled(u)' <=> Settled(u))
  BY <1>1, <1>2, <1>3, <1>7, KindsApart, SettledAsBefore
<1>11. ListedOnce'
  BY <1>2, <1>10, ListedAsBefore DEF Drawn
<1>12. ~HasReadPlayers(e) /\ ~HasReadPlayers(e)' /\ pc'[e] # "draw"
  BY <1>1, <1>5 DEF HasReadPlayers
<1>13. \A s \in Starts : pc'[s] = pc[s]
  BY <1>1, <1>5, KindsApart
<1>14. \A x \in Enders \ {e} : pc'[x] = pc[x] /\ copy'[x] = copy[x]
  BY <1>3, <1>5, KindsApart
<1> QED BY <1>1, <1>2, <1>6, <1>9, <1>10, <1>11, <1>12, <1>13, <1>14, KnownAsBefore

(* The losers that were decided on are listed.                              *)
LEMMA LosersKnown ==
  ASSUME TypeOK, Kinds, Orderly, Undisturbed, Drawn, NEW h \in Handlers, ListLosers(h)
  PROVE  Drawn'
<1>1. h \in Enders /\ IsConcluding(h)
  BY DEF ListLosers, Kinds, Fits, IsConcluding
<1>2. UNCHANGED <<status, round, joined, lost, played, promoted, left, games, pc>>
  BY DEF ListLosers, tournament, players, tables, environment
<1>3. copy' = [copy EXCEPT ![h].losers = {}] /\ board' = Listed(copy[h].losers)
  BY DEF ListLosers
<1>4. /\ copy'[h].losers = {} /\ copy'[h].results = copy[h].results
      /\ copy'[h].remaining = copy[h].remaining
      /\ copy'[h].round = copy[h].round /\ copy'[h].total = copy[h].total
      /\ \A x \in Handlers \ {h} : copy'[x] = copy[x]
  BY <1>3 DEF TypeOK, Copies
<1>5. \A x \in Enders \ {h} : copy[x].losers = {}
  BY <1>1 DEF Orderly, IsConcluding
<1>6. \A u : ~AwaitsListing(u)' /\ (AwaitsListing(u) <=> u \in copy[h].losers)
  BY <1>1, <1>4, <1>5, KindsApart DEF AwaitsListing
<1>7. ASSUME NEW u \in joined
      PROVE  /\ board'[u] \in {0, 1} /\ (Settled(u)' <=> Settled(u))
             /\ board[u] = 1 => board'[u] = 1
  <2>1. board'[u] = IF u \in copy[h].losers THEN board[u] + 1 ELSE board[u]
    BY <1>3 DEF Listed, TypeOK
  <2>2. board[u] \in {0, 1} /\ (AwaitsListing(u) => board[u] = 0)
    BY DEF Drawn, ListedOnce
  <2> QED BY <1>6, <2>1, <2>2 DEF Settled
<1>8. ListedOnce'
  BY <1>2, <1>6, <1>7 DEF ListedOnce
<1>9. CopyFits(h)'
  BY <1>1, <1>2, <1>4 DEF Drawn, CopyFits, HasReadPlayers, Won, Current
<1>10. status # "ended"
  BY <1>1 DEF Orderly
<1> DEFINE next == [g \in games |-> g]
<1>11. games' = {next[g] : g \in games} /\ \A g \in games : Follows(g, next[g])
  BY <1>2, SameTables
<1> HIDE DEF next
<1>12. HasReadPlayers(h)' <=> HasReadPlayers(h)
  BY <1>2 DEF HasReadPlayers
<1> QED BY <1>1, <1>2, <1>4, <1>7, <1>8, <1>9, <1>10, <1>11, <1>12, KindsApart, KnownAsBefore

(* A result in a copy is that of the table a player sits at.                *)
LEMMA SeatOfCopy ==
  ASSUME TypeOK, TablesFit, NEW h \in Enders, CopyFits(h), pc[h] \in Early, copy[h].round = round,
         NEW u, u \in SeatedIn(copy[h].results)
  PROVE  \E g \in Current : u \in g.seats /\ g.over /\ (u \in g.won <=> u \in Won(h))
<1>1. PICK f \in copy[h].results : u \in f.seats
  BY DEF SeatedIn
<1>2. \A x \in copy[h].results : x.round = round /\ x.over /\ \E g \in games : Same(x, g)
  BY DEF CopyFits
<1>3. PICK g \in games : Same(f, g)
  BY <1>2
<1>4. g \in Current /\ u \in g.seats /\ g.over
  BY <1>1, <1>2, <1>3 DEF Current, Same
<1>5. u \in g.won => u \in Won(h)
  BY <1>3 DEF Won, WinnersOf, Same
<1>6. ASSUME u \in Won(h) PROVE u \in g.won
  <2>1. PICK x \in copy[h].results : u \in x.won
    BY <1>6 DEF Won, WinnersOf
  <2>2. PICK k \in games : Same(x, k)
    BY <1>2
  <2>3. k \in Current /\ u \in k.seats
    BY <1>2, <2>1, <2>2 DEF Current, Same, TablesFit
  <2>4. k = g
    BY <1>4, <2>3 DEF TablesFit
  <2> QED BY <2>1, <2>2, <2>4 DEF Same
<1> QED BY <1>4, <1>5, <1>6

(* Winners of a copy sit there.                                             *)
LEMMA WinnerOfCopy ==
  ASSUME TypeOK, TablesFit, NEW h \in Enders, CopyFits(h), pc[h] \in Early, copy[h].round = round
  PROVE  Won(h) \subseteq SeatedIn(copy[h].results) /\ Won(h) \subseteq joined
<1> SUFFICES ASSUME NEW u \in Won(h) PROVE u \in SeatedIn(copy[h].results) /\ u \in joined
  OBVIOUS
<1>1. PICK x \in copy[h].results : u \in x.won
  BY DEF Won, WinnersOf
<1>2. PICK k \in games : Same(x, k)
  BY <1>1 DEF CopyFits
<1>3. u \in x.seats /\ u \in joined
  BY <1>1, <1>2 DEF TablesFit, Same
<1> QED BY <1>1, <1>3 DEF SeatedIn

LEMMA MarksKnown ==
  ASSUME TypeOK, Kinds, Drawn, Undisturbed', NEW e \in Handlers, MarkPlayers(e)
  PROVE  Drawn'
<1>1. e \in Enders /\ pc[e] = "mark"
  BY DEF MarkPlayers, Kinds, Fits, Reporting, Enders
<1>2. /\ UNCHANGED <<status, round, joined, promoted, left, games, board, copy>>
      /\ crossed' = (crossed \/ round # copy[e].round \/ \E h \in Enders : HasReadPlayers(h))
  BY DEF MarkPlayers, tournament, tables, environment, Note
<1>3. round = copy[e].round /\ \A h \in Enders : ~HasReadPlayers(h)
  BY <1>2 DEF Undisturbed
<1>4. pc'[e] = "count" /\ \A x \in Handlers \ {e} : pc'[x] = pc[x]
  BY Goes DEF MarkPlayers
<1> DEFINE us == joined \cap SeatedIn(copy[e].results)
<1>5. lost' = LostAfter(e, us) /\ played' = PlayedAfter(e, us)
  BY DEF MarkPlayers
<1>6. ASSUME NEW u \in joined \ us PROVE lost'[u] = lost[u] /\ played'[u] = played[u]
  BY <1>5 DEF LostAfter, PlayedAfter, TypeOK
<1>7. ASSUME NEW u \in us
      PROVE  played'[u] = round /\ lost'[u] = IF u \in Won(e) THEN lost[u] ELSE round
  BY <1>3, <1>5 DEF LostAfter, PlayedAfter, TypeOK, Won
<1> HIDE DEF us
<1>8. TablesFit /\ CopyFits(e) /\ TablesFit'
  BY <1>1, <1>2 DEF Drawn, TablesFit, Current
<1>9. \A h \in Enders : CopyFits(h)'
  <2> TAKE h \in Enders
  <2>1. CopyFits(h)
    BY DEF Drawn
  <2>2. CASE h = e
    BY <1>1, <1>2, <1>4, <2>1, <2>2 DEF CopyFits, Early, Concluding, HasReadPlayers
  <2>3. CASE h # e
    <3>1. pc'[h] = pc[h]
      BY <1>4, <2>3, KindsApart
    <3> QED BY <1>2, <2>1, <3>1 DEF CopyFits, HasReadPlayers, Won, Current
  <2> QED BY <2>2, <2>3
<1>10. \A h \in Enders : ~HasReadPlayers(h)' /\ (pc'[h] = "draw" => pc[h] = "draw")
  BY <1>3, <1>4, KindsApart DEF HasReadPlayers
<1>11. \A u : (AwaitsListing(u)' <=> AwaitsListing(u)) /\ (Settled(u)' <=> Settled(u))
  BY <1>2 DEF AwaitsListing, Settled
<1>12. ASSUME Playing', NEW u \in joined' PROVE PlayerFits(u)'
  <2>1. u \in joined /\ PlayerFits(u)
    BY <1>2, <1>3, <1>12 DEF Drawn, Playing
  <2>2. CASE u \notin us
    <3>1. \A h \in Enders : pc'[h] = "draw" => pc[h] = "draw" /\ Won(h)' = Won(h)
      BY <1>2, <1>10 DEF Won
    <3>2. Current' = Current /\ \A g \in Current : Follows(g, g)
      BY <1>2 DEF Current, Follows
    <3> QED BY <1>2, <1>6, <1>11, <2>1, <2>2, <3>1, <3>2, PlayerFollows
  <2>3. CASE u \in us
    <3>1. PICK g \in Current : u \in g.seats /\ g.over /\ (u \in g.won <=> u \in Won(e))
      BY <1>1, <1>3, <1>8, <2>3, SeatOfCopy DEF us, Early
    <3>2. SeatFits(u, g)
      BY <2>1, <3>1 DEF PlayerFits
    <3>3. round > 0 /\ round \in Nat
      BY <1>8 DEF TablesFit, TypeOK
    <3>4. SeatFits(u, g)'
      BY <1>2, <1>7, <1>11, <2>3, <3>1, <3>2, <3>3 DEF SeatFits, Waits
    <3>5. Current' = Current /\ \A k \in Current : u \in k.seats => k = g
      BY <1>2, <1>8, <3>1 DEF TablesFit, Current
    <3> QED BY <1>2, <1>7, <1>11, <2>3, <3>1, <3>2, <3>3, <3>4, <3>5 DEF PlayerFits, SeatFits
  <2> QED BY <2>2, <2>3
<1>13. ListedOnce' /\ (status' = "ended" => AllListed')
  BY <1>2, <1>11 DEF Drawn, ListedOnce, AllListed
<1>14. \A s \in Starts : pc'[s] = pc[s]
  BY <1>1, <1>4, KindsApart
<1> QED BY <1>8, <1>9, <1>10, <1>12, <1>13, <1>14 DEF Drawn

(* A player who leaves.                                                     *)
LEMMA LeavesKnown ==
  ASSUME TypeOK, Drawn, NEW v \in Users, IgnoreTournament(v)
  PROVE  Drawn'
<1>1. /\ UNCHANGED <<status, round, joined, played, promoted, games, board, copy, pc>>
      /\ left' = left \union {v} /\ lost' = [lost EXCEPT ![v] = IF round = 0 THEN 1 ELSE round]
  BY DEF IgnoreTournament, tournament, tables
<1>2. lost'[v] # 0 /\ \A u \in Users \ {v} : lost'[u] = lost[u]
  BY <1>1 DEF TypeOK
<1>3. \A u : (AwaitsListing(u)' <=> AwaitsListing(u)) /\ (Settled(u)' <=> Settled(u))
  BY <1>1 DEF AwaitsListing, Settled
<1>4. TablesFit' /\ (\A h \in Enders : CopyFits(h)') /\ ListedOnce' /\ (status' = "ended" => AllListed')
  BY <1>1, <1>3 DEF Drawn, TablesFit, CopyFits, HasReadPlayers, Won, Current, ListedOnce, AllListed
<1>5. Current' = Current /\ \A g \in Current : Follows(g, g)
  BY <1>1 DEF Current, Follows
<1>6. \A h \in Enders : (HasReadPlayers(h)' <=> HasReadPlayers(h)) /\ Won(h)' = Won(h)
  BY <1>1 DEF HasReadPlayers, Won
<1>7. ASSUME Playing', NEW u \in joined' PROVE PlayerFits(u)'
  <2>1. u \in joined /\ u \in Users /\ PlayerFits(u)
    BY <1>1, <1>6, <1>7 DEF Drawn, Playing, TypeOK
  <2>2. CASE u # v
    BY <1>1, <1>2, <1>3, <1>5, <1>6, <2>1, <2>2, PlayerFollows
  <2>3. CASE u = v
    <3>1. u \in left' /\ lost'[u] # 0
      BY <1>1, <1>2, <2>3
    <3>2. \A g \in Current : u \in g.seats => SeatFits(u, g)'
      BY <1>1, <1>3, <2>1, <3>1 DEF PlayerFits, SeatFits, Waits
    <3> QED BY <1>1, <1>3, <1>5, <1>6, <2>1, <3>1, <3>2 DEF PlayerFits, Waits
  <2> QED BY <2>2, <2>3
<1>8. ASSUME NEW h \in Enders, HasReadPlayers(h)', NEW u \in joined' PROVE DecidedFor(h, u)'
  <2>1. u \in joined /\ u \in Users /\ DecidedFor(h, u)
    BY <1>1, <1>6, <1>8 DEF Drawn, TypeOK
  <2>2. CASE u # v
    BY <1>1, <1>2, <1>3, <2>1, <2>2, DecisionFollows
  <2>3. CASE u = v
    BY <1>1, <1>2, <1>3, <2>1, <2>3 DEF DecidedFor, Won, IsLastRound, Waits
  <2> QED BY <2>2, <2>3
<1> QED BY <1>1, <1>4, <1>7, <1>8 DEF Drawn

-----------------------------------------------------------------------------
(* The other ends of rounds, while one concludes.                           *)
LEMMA Alone ==
  ASSUME Orderly, Undisturbed, NEW h \in Enders, IsConcluding(h)
  PROVE  /\ status = "started"
         /\ \A g \in Enders \ {h} : /\ pc[g] \notin Concluding /\ ~HasReadPlayers(g)
                                    /\ copy[g].losers = {}
         /\ \A u : AwaitsListing(u) <=> u \in copy[h].losers
<1>1. \A g \in Enders \ {h} : ~IsConcluding(g)
  BY DEF Orderly
<1> QED BY <1>1 DEF Orderly, IsConcluding, HasReadPlayers, Concluding, AwaitsListing

(* The others' copies, when the round, the tables and they themselves stay. *)
LEMMA OthersFit ==
  ASSUME Drawn, NEW h \in Enders, UNCHANGED <<round, joined, games>>,
         \A g \in Enders \ {h} : pc'[g] = pc[g] /\ copy'[g] = copy[g]
  PROVE  \A g \in Enders \ {h} : CopyFits(g)' /\ (HasReadPlayers(g)' <=> HasReadPlayers(g))
BY DEF Drawn, CopyFits, HasReadPlayers, Won, Current

(* The players are divided.                                                 *)
LEMMA ReadsKnown ==
  ASSUME TypeOK, Kinds, Orderly, Undisturbed, Drawn, NEW h \in Handlers, ReadPlayers(h)
  PROVE  Drawn'
<1>1. h \in Enders /\ pc[h] = "players" /\ IsConcluding(h)
  BY DEF ReadPlayers, Kinds, Fits, Concluding, IsConcluding
<1>2. /\ status = "started" /\ \A g \in Enders : ~HasReadPlayers(g)
      /\ \A u : ~AwaitsListing(u)
  <2>1. copy[h].losers = {}
    BY <1>1 DEF Orderly, ListsInOrder, Early
  <2> QED BY <1>1, <2>1, Alone DEF HasReadPlayers
<1>3. UNCHANGED <<status, round, joined, lost, played, promoted, left, games, board>>
  BY DEF ReadPlayers, tournament, players, tables, environment
<1> DEFINE seated == SeatedIn(copy[h].results)
           remaining == (Remaining \ seated) \union (joined \cap Won(h))
           losers == {u \in joined \ remaining : u \in seated \/ played[u] = copy[h].round}
<1>4. copy' = [copy EXCEPT ![h].losers = losers, ![h].remaining = remaining]
  BY DEF ReadPlayers, Won
<1>5. /\ copy'[h].losers = losers /\ copy'[h].remaining = remaining
      /\ copy'[h].results = copy[h].results
      /\ copy'[h].round = copy[h].round /\ copy'[h].total = copy[h].total
      /\ \A g \in Handlers \ {h} : copy'[g] = copy[g]
  BY <1>4 DEF TypeOK, Copies
<1>6. PICK stage \in {"winners", "write"} : Goto(h, stage) /\ (stage = "winners" <=>
        (copy[h].round = copy[h].total \/ Cardinality(remaining) <= 1))
  BY DEF ReadPlayers, Won
<1>7. pc'[h] = stage /\ \A g \in Handlers \ {h} : pc'[g] = pc[g]
  BY <1>6, Goes
<1>8. pc'[h] = "winners" <=> IsLastRound(h)'
  BY <1>5, <1>6, <1>7 DEF IsLastRound
<1>9. TablesFit /\ CopyFits(h) /\ copy[h].round = round /\ pc[h] \in Early
  BY <1>1 DEF Drawn, CopyFits, Concluding, Early
<1>10. Won(h) \subseteq seated /\ Won(h) \subseteq joined
  BY <1>1, <1>9, WinnerOfCopy
<1>11. \A u \in joined : PlayerFits(u)
  BY <1>2 DEF Drawn, Playing
<1>12. ASSUME NEW u \in joined, u \in seated
       PROVE  \E g \in Current : /\ u \in g.seats /\ g.over /\ (u \in g.won <=> u \in Won(h))
                                 /\ SeatFits(u, g)
  BY <1>1, <1>9, <1>11, <1>12, SeatOfCopy DEF PlayerFits
<1>a. \A u \in joined : u \in losers <=> u \notin remaining /\ (u \in seated \/ played[u] = round)
  BY <1>9
<1>b. \A u \in joined : u \in remaining <=> u \in Won(h) \/ (lost[u] = 0 /\ u \notin seated)
  BY DEF Remaining
<1> HIDE DEF seated, remaining, losers
<1>13. ASSUME NEW u \in losers PROVE u \in joined /\ ~Settled(u)
  <2>1. u \in joined
    BY DEF losers
  <2>2. CASE u \in seated
    BY <1>12, <2>1, <2>2 DEF SeatFits
  <2>3. CASE u \notin seated
    BY <1>a, <1>11, <2>1, <2>3 DEF PlayerFits
  <2> QED BY <2>1, <2>2, <2>3
<1>14. \A u : /\ AwaitsListing(u)' <=> u \in losers
              /\ Settled(u)' <=> Settled(u) \/ u \in losers
  BY <1>1, <1>2, <1>3, <1>5, KindsApart DEF AwaitsListing, Settled
<1>15. ListedOnce'
  BY <1>3, <1>13, <1>14 DEF Drawn, ListedOnce, Settled
<1>16. TablesFit'
  BY <1>3, <1>9 DEF TablesFit, Current
<1>17. \A g \in Enders : CopyFits(g)'
  <2>1. \A g \in Enders \ {h} : CopyFits(g)'
    BY <1>1, <1>3, <1>5, <1>7, KindsApart, OthersFit
  <2>2. CopyFits(h)'
    BY <1>3, <1>5, <1>6, <1>7, <1>9, <1>10 DEF CopyFits, Early, Won
  <2> QED BY <2>1, <2>2
<1>18. \A g \in Enders \ {h} : ~HasReadPlayers(g)'
  BY <1>2, <1>7, KindsApart DEF HasReadPlayers
<1>19. ASSUME NEW u \in joined PROVE DecidedFor(h, u)'
  <2>1. PlayerFits(u) /\ Won(h)' = Won(h)
    BY <1>5, <1>11 DEF Won
  <2>2. played'[u] <= round'
    BY <1>3, <2>1 DEF PlayerFits
  <2>3. u \in Won(h) => u \in remaining
    BY <1>b
  <2>4. u \in remaining /\ u \in seated => u \in Won(h)
    BY <1>b
  <2>5. ASSUME u \notin remaining PROVE Settled(u)' \/ u \in left'
    <3>1. CASE u \in seated \/ played[u] = round
      BY <1>a, <1>14, <2>5, <3>1
    <3>2. CASE u \notin seated /\ played[u] # round
      BY <1>3, <1>b, <1>14, <2>1, <2>5, <3>2 DEF PlayerFits, Waits
    <3> QED BY <3>1, <3>2
  <2>6. ASSUME u \in remaining PROVE ~Settled(u)' /\ Waits(u)'
    <3>1. u \notin losers
      BY <1>a, <2>6
    <3>2. CASE u \in Won(h)
      <4>1. PICK g \in Current : u \in g.won /\ SeatFits(u, g)
        BY <1>10, <1>12, <3>2
      <4> QED BY <1>3, <1>14, <3>1, <4>1 DEF SeatFits, Waits
    <3>3. CASE u \notin Won(h)
      BY <1>3, <1>b, <1>14, <2>1, <2>6, <3>1, <3>3 DEF PlayerFits, Waits
    <3> QED BY <3>2, <3>3
  <2>7. ASSUME Settled(u)'
        PROVE  u # promoted /\ (lost[u] # 0 \/ (u \in seated /\ played[u] # round))
    <3>1. CASE Settled(u)
      BY <2>1, <3>1 DEF PlayerFits
    <3>2. CASE u \in losers /\ u \in seated
      <4>1. PICK g \in Current : u \in g.seats /\ (u \in g.won <=> u \in Won(h)) /\ SeatFits(u, g)
        BY <1>12, <3>2
      <4>2. u \notin g.won
        BY <1>a, <2>3, <3>2, <4>1
      <4> QED BY <3>2, <4>1, <4>2 DEF SeatFits
    <3>3. CASE u \in losers /\ u \notin seated
      <4>1. played[u] = round /\ u \notin remaining
        BY <1>a, <3>3
      <4>2. PICK g \in Current : u \in g.seats /\ SeatFits(u, g)
        BY <2>1, <4>1 DEF PlayerFits
      <4> QED BY <1>b, <3>3, <4>1, <4>2 DEF SeatFits
    <3> QED BY <1>14, <2>7, <3>1, <3>2, <3>3
  <2>8. SeatedIn(copy[h].results)' = seated
    BY <1>5 DEF seated
  <2>9. pc'[h] # "winners" => pc'[h] = "write"
    BY <1>6, <1>7
  <2> QED BY <1>3, <1>5, <1>8, <2>1, <2>2, <2>3, <2>4, <2>5, <2>6, <2>7, <2>8, <2>9 DEF DecidedFor
<1>20. ~Playing'
  BY <1>1, <1>6, <1>7 DEF Playing, HasReadPlayers
<1>21. \A s \in Starts : pc'[s] = pc[s]
  BY <1>1, <1>7, KindsApart
<1> QED BY <1>2, <1>3, <1>15, <1>16, <1>17, <1>18, <1>19, <1>20, <1>21 DEF Drawn

(* Those who remain after the last round get their places.                  *)
LEMMA WinnersKnown ==
  ASSUME TypeOK, Kinds, Orderly, Undisturbed, Drawn, NEW h \in Handlers, ListWinners(h)
  PROVE  Drawn'
<1>1. h \in Enders /\ pc[h] = "winners" /\ IsConcluding(h) /\ copy[h].losers = {}
  BY DEF ListWinners, Kinds, Fits, Concluding, IsConcluding
<1>2. /\ status = "started" /\ \A g \in Enders \ {h} : ~HasReadPlayers(g)
      /\ \A u : ~AwaitsListing(u)
  BY <1>1, Alone
<1>3. /\ UNCHANGED <<status, round, joined, lost, played, promoted, left, games, copy>>
      /\ board' = Listed(copy[h].remaining)
  BY DEF ListWinners, tournament, players, tables, environment
<1>4. pc'[h] = "write" /\ \A g \in Handlers \ {h} : pc'[g] = pc[g]
  BY Goes DEF ListWinners
<1>5. IsLastRound(h) /\ IsLastRound(h)'
  BY <1>1, <1>3 DEF Orderly, ListsInOrder, IsLastRound
<1>6. HasReadPlayers(h) /\ HasReadPlayers(h)'
  BY <1>1, <1>4 DEF HasReadPlayers
<1>7. \A u : ~AwaitsListing(u)' /\ (Settled(u) <=> board[u] = 1) /\ (Settled(u)' <=> board'[u] = 1)
  BY <1>2, <1>3 DEF AwaitsListing, Settled
<1>8. ASSUME NEW u \in joined
      PROVE  /\ board[u] \in {0, 1} /\ DecidedFor(h, u)
             /\ u \in copy[h].remaining => board[u] = 0 /\ board'[u] = 1
             /\ u \notin copy[h].remaining => board'[u] = board[u]
  <2>1. DecidedFor(h, u) /\ board[u] \in {0, 1}
    BY <1>1, <1>6 DEF Drawn, ListedOnce
  <2>2. u \in copy[h].remaining => ~Settled(u)
    BY <1>1, <1>5, <2>1 DEF DecidedFor
  <2>3. board'[u] = IF u \in copy[h].remaining THEN board[u] + 1 ELSE board[u]
    BY <1>3 DEF Listed, TypeOK
  <2> QED BY <1>7, <2>1, <2>2, <2>3
<1>9. ASSUME NEW u \in joined PROVE DecidedFor(h, u)'
  BY <1>3, <1>4, <1>5, <1>7, <1>8 DEF DecidedFor, Won
<1>10. ListedOnce'
  BY <1>3, <1>7, <1>8 DEF ListedOnce
<1>11. TablesFit'
  BY <1>3 DEF Drawn, TablesFit, Current
<1>12. \A g \in Enders : CopyFits(g)'
  <2>1. \A g \in Enders \ {h} : CopyFits(g)'
    BY <1>1, <1>3, <1>4, KindsApart, OthersFit
  <2>2. CopyFits(h)'
    BY <1>1, <1>3, <1>4, <1>6 DEF Drawn, CopyFits, Early, Concluding, Won
  <2> QED BY <2>1, <2>2
<1>13. \A g \in Enders \ {h} : ~HasReadPlayers(g)'
  BY <1>2, <1>4, KindsApart DEF HasReadPlayers
<1>14. ~Playing'
  BY <1>1, <1>6 DEF Playing
<1>15. \A s \in Starts : pc'[s] = pc[s]
  BY <1>1, <1>4, KindsApart
<1> QED BY <1>2, <1>3, <1>9, <1>10, <1>11, <1>12, <1>13, <1>14, <1>15 DEF Drawn

(* The losers of the tables nobody has reported are marked.                 *)
LEMMA WritesKnown ==
  ASSUME TypeOK, Kinds, Orderly, Undisturbed, Drawn, NEW h \in Handlers, WritePlayers(h)
  PROVE  Drawn'
<1>1. h \in Enders /\ pc[h] = "write" /\ IsConcluding(h) /\ HasReadPlayers(h)
  BY DEF WritePlayers, Kinds, Fits, Concluding, IsConcluding, HasReadPlayers
<1>2. status = "started" /\ \A g \in Enders \ {h} : ~HasReadPlayers(g)
  BY <1>1, Alone
<1>3. UNCHANGED <<status, round, joined, promoted, left, games, copy, board>>
  BY DEF WritePlayers, tournament, tables, money, environment
<1>4. pc'[h] = "save" /\ \A g \in Handlers \ {h} : pc'[g] = pc[g]
  BY Goes DEF WritePlayers
<1>5. TablesFit /\ CopyFits(h) /\ copy[h].round = round /\ round \in Nat \ {0}
  BY <1>1 DEF Drawn, CopyFits, Concluding, TablesFit, TypeOK
<1> DEFINE us == {u \in joined \cap SeatedIn(copy[h].results) : played[u] # copy[h].round}
<1>6. lost' = LostAfter(h, us) /\ played' = PlayedAfter(h, us)
  BY DEF WritePlayers
<1>7. ASSUME NEW u \in joined \ us PROVE lost'[u] = lost[u] /\ played'[u] = played[u]
  BY <1>6 DEF LostAfter, PlayedAfter, TypeOK
<1>8. ASSUME NEW u \in joined, u \in us
      PROVE  played'[u] = round /\ lost'[u] = IF u \in Won(h) THEN lost[u] ELSE round
  BY <1>5, <1>6, <1>8 DEF LostAfter, PlayedAfter, TypeOK, Won
<1>9. \A u \in joined : u \in us <=> u \in SeatedIn(copy[h].results) /\ played[u] # round
  BY <1>5
<1> HIDE DEF us
<1>10. HasReadPlayers(h)'
  BY <1>4 DEF HasReadPlayers
<1>11. \A u : (AwaitsListing(u)' <=> AwaitsListing(u)) /\ (Settled(u)' <=> Settled(u))
  BY <1>3 DEF AwaitsListing, Settled
<1>12. ASSUME NEW u \in joined PROVE DecidedFor(h, u)'
  <2>1. DecidedFor(h, u)
    BY <1>1 DEF Drawn
  <2>2. IsLastRound(h)' <=> IsLastRound(h)
    BY <1>3 DEF IsLastRound
  <2>3. CASE u \notin us
    <3>1. u \notin SeatedIn(copy[h].results) \/ played[u] = round
      BY <1>9, <2>3
    <3> QED BY <1>1, <1>3, <1>4, <1>7, <1>11, <2>1, <2>2, <2>3, <3>1 DEF DecidedFor, Won, Waits
  <2>4. CASE u \in us
    <3>1. u \in Won(h) => lost'[u] = lost[u] /\ u \in copy[h].remaining
      BY <1>8, <2>1, <2>4 DEF DecidedFor
    <3>2. u \notin Won(h) => lost'[u] # 0 /\ u \notin copy[h].remaining
      BY <1>5, <1>8, <1>9, <2>1, <2>4 DEF DecidedFor
    <3>3. played'[u] = round
      BY <1>8, <2>4
    <3> QED BY <1>1, <1>3, <1>4, <1>5, <1>11, <2>1, <2>2, <3>1, <3>2, <3>3
            DEF DecidedFor, Won, Waits
  <2> QED BY <2>3, <2>4
<1>13. ListedOnce'
  BY <1>3, <1>11 DEF Drawn, ListedOnce
<1>14. TablesFit'
  BY <1>3, <1>5 DEF TablesFit, Current
<1>15. \A g \in Enders : CopyFits(g)'
  <2>1. \A g \in Enders \ {h} : CopyFits(g)'
    BY <1>1, <1>3, <1>4, KindsApart, OthersFit
  <2>2. CopyFits(h)'
    BY <1>1, <1>3, <1>4, <1>5 DEF CopyFits, Early, HasReadPlayers, Won
  <2> QED BY <2>1, <2>2
<1>16. \A g \in Enders \ {h} : ~HasReadPlayers(g)'
  BY <1>2, <1>4, KindsApart DEF HasReadPlayers
<1>17. ~Playing'
  BY <1>1, <1>10 DEF Playing
<1>18. \A s \in Starts : pc'[s] = pc[s]
  BY <1>1, <1>4, KindsApart
<1> QED BY <1>2, <1>3, <1>12, <1>13, <1>14, <1>15, <1>16, <1>17, <1>18 DEF Drawn

(* The tournament is over.                                                  *)
LEMMA EndsKnown ==
  ASSUME TypeOK, Kinds, Orderly, Undisturbed, Drawn, NEW h \in Handlers, EndTournament(h)
  PROVE  Drawn'
<1>1. /\ h \in Enders /\ pc[h] = "save" /\ IsConcluding(h) /\ HasReadPlayers(h)
      /\ IsLastRound(h)
  BY DEF EndTournament, Kinds, Fits, Concluding, IsConcluding, HasReadPlayers
<1>2. /\ \A g \in Enders \ {h} : ~HasReadPlayers(g) /\ copy[g].losers = {}
      /\ copy[h].losers = {} /\ \A u : ~AwaitsListing(u)
  <2>1. copy[h].losers = {}
    BY <1>1 DEF Orderly, ListsInOrder
  <2> QED BY <1>1, <2>1, Alone
<1>3. UNCHANGED <<round, joined, lost, played, promoted, left, games, board>> /\ status' = "ended"
  BY DEF EndTournament, players, tables, environment
<1>4. /\ \A g \in Handlers \ {h} : copy'[g] = copy[g]
      /\ copy'[h].losers = {}
  BY <1>2 DEF EndTournament, Forget, TypeOK, Unread
<1>5. PICK stage \in {"remove", "idle"} : Goto(h, stage)
  BY DEF EndTournament
<1>6. pc'[h] = stage /\ \A g \in Handlers \ {h} : pc'[g] = pc[g]
  BY <1>5, Goes
<1>7. \A u : ~AwaitsListing(u)'
  BY <1>2, <1>4, KindsApart DEF AwaitsListing
<1>8. AllListed' /\ ListedOnce'
  <2>1. \A u \in joined : board[u] \in {0, 1} /\ DecidedFor(h, u)
    BY <1>1 DEF Drawn, ListedOnce
  <2>2. \A u \in joined : board[u] = 1 \/ u \in left
    BY <1>1, <1>2, <2>1 DEF DecidedFor, Settled
  <2> QED BY <1>3, <1>7, <2>1, <2>2 DEF AllListed, ListedOnce
<1>9. TablesFit'
  BY <1>3 DEF Drawn, TablesFit, Current
<1>10. \A g \in Enders : CopyFits(g)'
  <2>1. \A g \in Enders \ {h} : CopyFits(g)'
    BY <1>1, <1>3, <1>4, <1>6, KindsApart, OthersFit
  <2>2. CopyFits(h)'
    BY <1>6 DEF CopyFits, Early, Concluding, HasReadPlayers
  <2> QED BY <2>1, <2>2
<1>11. \A g \in Enders : ~HasReadPlayers(g)'
  BY <1>2, <1>6, KindsApart DEF HasReadPlayers
<1>12. \A s \in Starts : pc'[s] = pc[s]
  BY <1>1, <1>6, KindsApart
<1> QED BY <1>3, <1>8, <1>9, <1>10, <1>11, <1>12 DEF Drawn, Playing

(* The next round: nobody has played in it, and whoever is out is settled.  *)
LEMMA SavesKnown ==
  ASSUME TypeOK, Kinds, Orderly, Undisturbed, Drawn, NEW h \in Handlers, SaveNextRound(h)
  PROVE  Drawn'
<1>1. /\ h \in Enders /\ pc[h] = "save" /\ IsConcluding(h) /\ HasReadPlayers(h)
      /\ ~IsLastRound(h)
  BY DEF SaveNextRound, Kinds, Fits, Concluding, IsConcluding, HasReadPlayers
<1>2. /\ status = "started"
      /\ \A g \in Enders \ {h} : ~HasReadPlayers(g) /\ pc[g] \notin Concluding
  BY <1>1, Alone
<1>3. TablesFit /\ CopyFits(h) /\ copy[h].round = round /\ round \in Nat /\ Won(h) \subseteq joined
  BY <1>1 DEF Drawn, CopyFits, Concluding, TypeOK
<1>4. UNCHANGED <<status, joined, lost, played, promoted, left, games, board>> /\ round' = round + 1
  BY <1>3 DEF SaveNextRound, players, tables, environment
<1>5. copy' = [copy EXCEPT ![h].round = copy[h].round + 1]
  BY DEF SaveNextRound
<1>6. /\ copy'[h].round = round + 1 /\ copy'[h].losers = copy[h].losers
      /\ copy'[h].results = copy[h].results
      /\ \A g \in Handlers \ {h} : copy'[g] = copy[g]
  BY <1>3, <1>5 DEF TypeOK, Copies
<1>7. pc'[h] = "draw" /\ \A g \in Handlers \ {h} : pc'[g] = pc[g]
  BY Goes DEF SaveNextRound
<1>8. \A u : (AwaitsListing(u)' <=> AwaitsListing(u)) /\ (Settled(u)' <=> Settled(u))
  BY <1>1, <1>4, <1>6, KindsApart, SettledAsBefore
<1>9. Current' = {} /\ TablesFit'
  BY <1>3, <1>4 DEF TablesFit, Current
<1>10. \A g \in Enders : CopyFits(g)' /\ ~HasReadPlayers(g)'
  <2>1. ASSUME NEW g \in Enders \ {h} PROVE CopyFits(g)' /\ ~HasReadPlayers(g)'
    <3>1. pc'[g] = pc[g] /\ copy'[g] = copy[g] /\ CopyFits(g)
      BY <1>6, <1>7, KindsApart DEF Drawn
    <3> QED BY <1>2, <1>4, <3>1 DEF CopyFits, HasReadPlayers, Concluding, Won
  <2>2. CopyFits(h)' /\ ~HasReadPlayers(h)'
    BY <1>3, <1>4, <1>6, <1>7, <1>9 DEF CopyFits, HasReadPlayers, Early, Won
  <2> QED BY <2>1, <2>2
<1>11. ASSUME NEW u \in joined PROVE PlayerFits(u)'
  <2>1. DecidedFor(h, u) /\ played[u] \in Nat
    BY <1>1 DEF Drawn, TypeOK
  <2>2. played'[u] <= round' /\ played'[u] # round'
    BY <1>3, <1>4, <2>1 DEF DecidedFor
  <2>3. Settled(u) => lost[u] # 0 /\ u # promoted /\ u \notin Won(h)
    BY <1>1, <2>1 DEF DecidedFor
  <2>4. Settled(u) \/ Waits(u)
    BY <1>1, <2>1 DEF DecidedFor, Waits
  <2>5. \A g \in Enders : pc'[g] = "draw" => g = h
    BY <1>2, <1>7, KindsApart DEF Concluding
  <2>6. Won(h)' = Won(h)
    BY <1>6 DEF Won
  <2> QED BY <1>4, <1>8, <1>9, <2>2, <2>3, <2>4, <2>5, <2>6 DEF PlayerFits, Waits
<1>12. ListedOnce'
  BY <1>4, <1>8 DEF Drawn, ListedOnce
<1>13. \A s \in Starts : pc'[s] = pc[s]
  BY <1>1, <1>7, KindsApart
<1> QED BY <1>2, <1>4, <1>9, <1>10, <1>11, <1>12, <1>13 DEF Drawn

(* The tables of a draw: everybody who qualified sits at one of them, or is *)
(* promoted.                                                                *)
TablesOf(h, r, seating) == {GameAt(h, r, s) : s \in {t \in seating : Cardinality(t) > 1}}

LEMMA DrawsApart ==
  ASSUME NEW us \in SUBSET Users, NEW seating \in SeatingsOf(us), NEW h, NEW r,
         StoreInitialTables(h, r, seating)
  PROVE  /\ games' = games \union TablesOf(h, r, seating) /\ promoted' \in us \union {NoUser}
         /\ \A g \in TablesOf(h, r, seating) :
              /\ g.round = r /\ g.won = {} /\ ~g.over /\ g.seats \subseteq us
              /\ promoted' \notin g.seats
         /\ \A g, k \in TablesOf(h, r, seating) : \A u \in g.seats \cap k.seats : g = k
<1> DEFINE new == TablesOf(h, r, seating)
<1>1. \A s \in seating : s \subseteq us
  BY DEF SeatingsOf
<1>2. \A s, t \in seating : s # t => s \cap t = {}
  BY DEF SeatingsOf
<1>3. games' = games \union new
  BY DEF StoreInitialTables, TablesOf
<1>4. promoted' = NoUser \/ {promoted'} \in seating
  <2>1. CASE \E s \in seating : Cardinality(s) = 1
    <3>1. \E u \in Users : {u} \in seating
      BY <2>1, PromotedType
    <3>2. promoted' = CHOOSE u \in Users : {u} \in seating
      BY <2>1 DEF StoreInitialTables
    <3> QED BY <3>1, <3>2
  <2>2. CASE ~ \E s \in seating : Cardinality(s) = 1
    BY <2>2 DEF StoreInitialTables
  <2> QED BY <2>1, <2>2
<1>5. ASSUME NEW g \in new
      PROVE  /\ g.round = r /\ g.won = {} /\ ~g.over /\ g.seats \subseteq us
             /\ promoted' \notin g.seats
  <2>1. PICK s \in seating : Cardinality(s) > 1 /\ g = GameAt(h, r, s)
    BY DEF TablesOf
  <2>2. g.round = r /\ g.won = {} /\ ~g.over /\ g.seats = s
    BY <2>1 DEF GameAt
  <2>3. NoUser \notin s
    BY <1>1, TournamentAssumption
  <2>4. ASSUME NEW u, {u} = s PROVE FALSE
    <3>1. Cardinality({u}) = 1
      BY FS_Singleton
    <3> QED BY <2>1, <2>4, <3>1
  <2>5. promoted' \notin s
    BY <1>2, <1>4, <2>3, <2>4
  <2> QED BY <1>1, <2>2, <2>5
<1>6. ASSUME NEW g \in new, NEW k \in new, NEW u \in g.seats \cap k.seats PROVE g = k
  <2>1. PICK s \in seating : g = GameAt(h, r, s)
    BY DEF TablesOf
  <2>2. PICK t \in seating : k = GameAt(h, r, t)
    BY DEF TablesOf
  <2>3. g.seats = s /\ k.seats = t
    BY <2>1, <2>2 DEF GameAt
  <2> QED BY <1>2, <2>1, <2>2, <2>3
<1> QED BY <1>1, <1>3, <1>4, <1>5, <1>6

(* The next round begins.                                                   *)
LEMMA DrawsKnown ==
  ASSUME TypeOK, Kinds, Orderly, Undisturbed, Drawn, NEW h \in Enders, StartNewRound(h)
  PROVE  Drawn'
<1>1. pc[h] = "draw" /\ IsConcluding(h) /\ h \in Handlers /\ h \notin Starts
  BY KindsApart DEF StartNewRound, Concluding, IsConcluding
<1>2. /\ status = "started"
      /\ \A g \in Enders \ {h} : ~HasReadPlayers(g) /\ pc[g] \notin Concluding
  BY <1>1, Alone
<1>3. Playing
  BY <1>1, <1>2 DEF Playing, HasReadPlayers
<1>4. UNCHANGED <<status, round, joined, lost, played, left, copy, board>>
  BY DEF StartNewRound, tournament, players, environment
<1>5. PICK stage \in {"remove", "idle"} : Goto(h, stage)
  BY <1>1 DEF StartNewRound, AfterDraw
<1>6. pc'[h] = stage /\ \A g \in Handlers \ {h} : pc'[g] = pc[g]
  BY <1>1, <1>5, Goes
<1>7. TablesFit /\ copy[h].round = round /\ round \in Nat \ {0} /\ Current = {} /\ Won(h) \subseteq joined
  BY <1>1 DEF Drawn, TablesFit, CopyFits, Concluding, TypeOK
<1>8. /\ Qualified(h) = Won(h) \union ({promoted} \ {NoUser})
      /\ Qualified(h) \subseteq joined /\ Qualified(h) \in SUBSET Users
  BY <1>1, <1>7 DEF Qualified, Won, TablesFit, TypeOK
<1>9. PICK seating \in SeatingsOf(Qualified(h)) : StoreInitialTables(h, round, seating)
  BY <1>7 DEF StartNewRound
<1> DEFINE new == TablesOf(h, round, seating)
<1>10. /\ games' = games \union new /\ promoted' \in Qualified(h) \union {NoUser}
       /\ \A g \in new : /\ g.round = round /\ g.won = {} /\ ~g.over /\ g.seats \subseteq Qualified(h)
                         /\ promoted' \notin g.seats
       /\ \A g, k \in new : \A u \in g.seats \cap k.seats : g = k
  BY <1>8, <1>9, DrawsApart
<1> HIDE DEF new
<1>11. Current' = new
  BY <1>4, <1>7, <1>10 DEF Current
<1>12. TablesFit'
  BY <1>4, <1>7, <1>8, <1>10, <1>11 DEF TablesFit
<1>13. \A g \in Enders : CopyFits(g)' /\ ~HasReadPlayers(g)' /\ pc'[g] # "draw"
  <2>1. ASSUME NEW g \in Enders \ {h} PROVE CopyFits(g)' /\ ~HasReadPlayers(g)' /\ pc'[g] # "draw"
    <3>1. pc'[g] = pc[g] /\ copy'[g] = copy[g] /\ CopyFits(g)
      BY <1>4, <1>6, KindsApart DEF Drawn
    <3> QED BY <1>2, <1>10, <3>1 DEF CopyFits, HasReadPlayers, Concluding
  <2>2. CopyFits(h)' /\ ~HasReadPlayers(h)' /\ pc'[h] # "draw"
    BY <1>6 DEF CopyFits, HasReadPlayers, Early, Concluding
  <2> QED BY <2>1, <2>2
<1>14. \A u : (AwaitsListing(u)' <=> AwaitsListing(u)) /\ (Settled(u)' <=> Settled(u))
  BY <1>4 DEF AwaitsListing, Settled
<1>15. ASSUME NEW u \in joined PROVE PlayerFits(u)'
  <2>1. PlayerFits(u) /\ u # NoUser
    BY <1>3, TournamentAssumption DEF Drawn, TypeOK
  <2>2. played[u] # round
    BY <1>7, <2>1 DEF PlayerFits
  <2>3. Settled(u) => u \notin Qualified(h)
    BY <1>1, <1>8, <2>1 DEF PlayerFits
  <2>4. ASSUME NEW g \in new, u \in g.seats PROVE SeatFits(u, g)'
    BY <1>4, <1>10, <1>14, <2>1, <2>2, <2>3, <2>4 DEF SeatFits, Waits, PlayerFits
  <2> QED BY <1>4, <1>10, <1>11, <1>13, <1>14, <2>1, <2>2, <2>3, <2>4 DEF PlayerFits, Waits
<1>16. ListedOnce'
  BY <1>4, <1>14 DEF Drawn, ListedOnce
<1>17. \A s \in Starts : pc'[s] = pc[s]
  BY <1>1, <1>6, KindsApart
<1> QED BY <1>2, <1>4, <1>12, <1>13, <1>15, <1>16, <1>17 DEF Drawn

(* The first round is drawn from everybody who is registered.               *)
LEMMA FirstDrawKnown ==
  ASSUME TypeOK, Kinds, \A s, t \in Starts : s = t, NotDrawn, NEW s \in Starts, StartNewRound(s)
  PROVE  Drawn'
<1>1. pc[s] = "draw" /\ s \in Handlers
  BY KindsApart DEF StartNewRound
<1>2. copy[s].remaining = joined /\ round = 1 /\ copy[s].round = 1 /\ Qualified(s) = joined
  BY <1>1 DEF NotDrawn, StartFits, Qualified
<1>3. UNCHANGED <<status, round, joined, lost, played, left, copy, board>>
  BY DEF StartNewRound, tournament, players, environment
<1>4. pc'[s] = "timer" /\ \A g \in Handlers \ {s} : pc'[g] = pc[g]
  BY <1>1, Goes DEF StartNewRound, AfterDraw
<1>5. joined \in SUBSET Users
  BY DEF TypeOK
<1>6. PICK seating \in SeatingsOf(joined) : StoreInitialTables(s, round, seating)
  BY <1>2 DEF StartNewRound
<1> DEFINE new == TablesOf(s, round, seating)
<1>7. /\ games' = games \union new /\ promoted' \in joined \union {NoUser}
      /\ \A g \in new : /\ g.round = round /\ g.won = {} /\ ~g.over /\ g.seats \subseteq joined
                        /\ promoted' \notin g.seats
      /\ \A g, k \in new : \A u \in g.seats \cap k.seats : g = k
  BY <1>5, <1>6, DrawsApart
<1> HIDE DEF new
<1>8. games' = new /\ Current' = new
  BY <1>3, <1>7 DEF Current, NotDrawn
<1>9. TablesFit'
  BY <1>2, <1>3, <1>7, <1>8 DEF TablesFit
<1>10. \A h \in Enders : pc'[h] = "idle" /\ copy'[h].losers = {}
  BY <1>1, <1>3, <1>4, KindsApart DEF NotDrawn
<1>11. \A h \in Enders : CopyFits(h)' /\ ~HasReadPlayers(h)'
  BY <1>10 DEF CopyFits, HasReadPlayers, Early, Concluding
<1>12. \A u \in joined : board'[u] = 0 /\ ~AwaitsListing(u)' /\ ~Settled(u)'
  BY <1>3, <1>5, <1>10 DEF NotDrawn, AwaitsListing, Settled
<1>13. ASSUME NEW u \in joined PROVE PlayerFits(u)'
  <2>1. u \in Users /\ u # NoUser
    BY <1>5, TournamentAssumption
  <2>2. played'[u] = 0 /\ round' = 1 /\ Waits(u)' /\ ~Settled(u)'
    BY <1>2, <1>3, <1>12, <2>1 DEF NotDrawn, Waits
  <2>3. \A g \in new : u \in g.seats => SeatFits(u, g)'
    BY <1>7, <2>2 DEF SeatFits
  <2> QED BY <1>8, <2>2, <2>3 DEF PlayerFits
<1>14. ListedOnce'
  BY <1>3, <1>12 DEF ListedOnce
<1>15. status' = "created"
  BY <1>3 DEF NotDrawn
<1>16. \A t \in Starts : pc'[t] \in {"timer", "done"}
  BY <1>4
<1> QED BY <1>3, <1>9, <1>11, <1>13, <1>14, <1>15, <1>16 DEF Drawn

(* Before the first round only registrations, players who leave and the     *)
(* start itself do anything.                                                *)
LEMMA NotDrawnStays ==
  ASSUME NotDrawn, UNCHANGED <<status, games, scheduled, board, played>>,
         \A u \in Users : lost'[u] # lost[u] => u \in left', left \subseteq left',
         \A h \in Enders : pc'[h] = pc[h] /\ copy'[h] = copy[h],
         \A s \in Starts : StartFits(s)'
  PROVE  NotDrawn'
BY DEF NotDrawn

LEMMA NotDrawnStep ==
  ASSUME TypeOK, Kinds, Orderly, \A s, t \in Starts : s = t, NotDrawn, [Next]_vars, Sound'
  PROVE  NotDrawn' \/ Drawn'
<1>1. ASSUME NEW j \in Handlers, JoinOn(j) PROVE NotDrawn'
  <2>1. j \in Joins /\ \E stage : Goto(j, stage)
    BY <1>1 DEF JoinOn, AquireLock, RefuseLock, CheckTournament, DebitTournamentJoinFee,
       SavePlayer, Kinds, Fits, Joining
  <2>2. \A h \in Enders \union Starts : pc'[h] = pc[h]
    BY <2>1, Goes, KindsApart
  <2>3. /\ UNCHANGED <<tournament, games, scheduled, board, played, lost, left, copy>>
        /\ joined' = joined \/ (joined' = joined \union {UserOf[j]} /\ SavePlayer(j))
    BY <1>1 DEF JoinOn, AquireLock, RefuseLock, CheckTournament, DebitTournamentJoinFee,
       SavePlayer, tables, environment, players
  <2>4. \A s \in Starts : StartFits(s)'
    <3>1. CASE joined' = joined
      BY <2>2, <2>3, <3>1 DEF NotDrawn, StartFits, tournament
    <3>2. CASE SavePlayer(j)
      <4>1. crossed' = (crossed \/ \E s \in Starts : pc[s] \notin {"idle", "gather"})
        BY <3>2 DEF SavePlayer, Note
      <4>2. \A s \in Starts : pc'[s] \in {"idle", "gather"}
        BY <2>2, <4>1 DEF Sound, Undisturbed
      <4> QED BY <4>2 DEF StartFits
    <3> QED BY <2>3, <3>1, <3>2
  <2> QED BY <2>2, <2>3, <2>4, NotDrawnStays DEF tournament
<1>2. ASSUME NEW s \in Handlers, StartOn(s) PROVE NotDrawn'
  <2>1. s \in Starts /\ s \notin Enders
    BY <1>2, KindsApart DEF StartOn, FindTournament, GetTournamentUserIds, TerminateTournament,
       BeginFirstRound, EndAbandoned, FireStartTimer, Kinds, Fits, Starting
  <2>2. FindTournament(s) \/ GetTournamentUserIds(s) \/ BeginFirstRound(s)
    <3>1. ~TerminateTournament(s)
      BY DEF TerminateTournament, Sound
    <3>2. ~EndAbandoned(s) /\ ~FireStartTimer(s)
      BY <2>1 DEF EndAbandoned, FireStartTimer, NotDrawn, StartFits
    <3> QED BY <1>2, <3>1, <3>2 DEF StartOn
  <2>3. /\ UNCHANGED <<status, joined, games, scheduled, board, played, lost, left>>
        /\ \A g \in Handlers \ {s} : copy'[g] = copy[g]
    BY <2>2 DEF FindTournament, GetTournamentUserIds, BeginFirstRound, tournament, players,
       tables, environment, TypeOK
  <2>4. PICK stage : Goto(s, stage)
    BY <2>2 DEF FindTournament, GetTournamentUserIds, BeginFirstRound
  <2>5. pc'[s] = stage /\ \A g \in Handlers \ {s} : pc'[g] = pc[g]
    BY <2>4, Goes
  <2>6. StartFits(s)'
    <3>1. CASE FindTournament(s)
      <4>1. pc'[s] \in {"refused", "gather"}
        BY <3>1, Goes DEF FindTournament
      <4> QED BY <4>1 DEF StartFits
    <3>2. CASE GetTournamentUserIds(s)
      <4>1. pc'[s] \in {"terminate", "begin", "beginAlone"} /\ copy'[s].remaining = joined
        BY <3>2, Goes DEF GetTournamentUserIds, TypeOK, Copies
      <4> QED BY <2>3, <4>1 DEF StartFits
    <3>3. CASE BeginFirstRound(s)
      <4>1. /\ pc'[s] = (IF pc[s] = "begin" THEN "draw" ELSE "cancel") /\ round' = 1
            /\ pc[s] \in {"begin", "beginAlone"}
            /\ copy'[s].round = 1 /\ copy'[s].remaining = copy[s].remaining
        BY <3>3, Goes DEF BeginFirstRound, TypeOK, Copies
      <4>2. pc[s] = "begin" => copy[s].remaining = joined
        BY <2>1 DEF NotDrawn, StartFits
      <4> QED BY <2>3, <4>1, <4>2 DEF StartFits
    <3> QED BY <2>2, <3>1, <3>2, <3>3
  <2>7. \A t \in Starts : StartFits(t)'
    BY <2>1, <2>6
  <2> QED BY <2>1, <2>3, <2>5, <2>7, KindsApart, NotDrawnStays
<1>3. ASSUME NEW h \in Handlers, CancelOn(h) PROVE FALSE
  BY <1>3 DEF CancelOn, WriteCanceled, CloseTournament, Sound
<1>4. ASSUME NEW h \in Handlers, ReportTable(h) \/ CollectResults(h) PROVE FALSE
  BY <1>4 DEF ReportTable, CollectResults, NotDrawn
<1>5. ASSUME NEW h \in Handlers, ReportOn(h) PROVE FALSE
  <2>1. h \in Enders /\ pc[h] \in Reporting
    BY <1>5 DEF ReportOn, LookAtRound, MarkPlayers, CountRemaining, RemoveTable, Kinds, Fits,
       Reporting, Enders
  <2> QED BY <2>1 DEF NotDrawn, Reporting
<1>6. ASSUME NEW h \in Handlers, ConcludeOn(h) PROVE Drawn'
  <2>1. h \notin Enders
    BY <1>6 DEF ConcludeOn, ReadRound, ReadPlayers, ListLosers, ListWinners, WritePlayers,
       EndTournament, SaveNextRound, StartNewRound, NotDrawn
  <2>2. StartNewRound(h)
    BY <1>6, <2>1 DEF ConcludeOn, ReadRound, ReadPlayers, ListLosers, ListWinners, WritePlayers,
       EndTournament, SaveNextRound, Kinds, Fits, Concluding
  <2>3. h \in Starts
    <3>1. pc[h] = "draw"
      BY <2>2 DEF StartNewRound
    <3> QED BY <2>1, <3>1 DEF Kinds, Fits
  <2> QED BY <2>2, <2>3, FirstDrawKnown
<1>7. ASSUME NEW h \in Handlers, Fail(h) PROVE FALSE
  <2>1. pc'[h] = "broken"
    BY <1>7, Goes DEF Fail
  <2> QED BY <2>1 DEF Sound, SomeCallBrokeOff
<1>8. CASE TimePasses \/ RefundJoinFees \/ UNCHANGED vars
  <2>1. UNCHANGED <<status, round, joined, games, scheduled, board, played, lost, left, pc, copy>>
    BY <1>8 DEF TimePasses, RefundJoinFees, vars, tournament, players, tables, environment
  <2>2. \A s \in Starts : StartFits(s)'
    BY <2>1 DEF NotDrawn, StartFits
  <2> QED BY <2>1, <2>2, NotDrawnStays
<1>9. ASSUME NEW v \in Users, IgnoreTournament(v) PROVE NotDrawn'
  <2>1. /\ UNCHANGED <<status, round, joined, games, scheduled, board, played, pc, copy>>
        /\ left' = left \union {v} /\ lost' = [lost EXCEPT ![v] = IF round = 0 THEN 1 ELSE round]
    BY <1>9 DEF IgnoreTournament, tournament, tables
  <2>2. \A u \in Users : lost'[u] # lost[u] => u \in left'
    BY <2>1 DEF TypeOK
  <2>3. \A s \in Starts : StartFits(s)'
    BY <2>1 DEF NotDrawn, StartFits
  <2> QED BY <2>1, <2>2, <2>3, NotDrawnStays
<1> QED BY <1>1, <1>2, <1>3, <1>4, <1>5, <1>6, <1>7, <1>8, <1>9 DEF Next

LEMMA DrawnStep ==
  ASSUME TypeOK, Kinds, Orderly, Undisturbed, Drawn, [Next]_vars, Sound'
  PROVE  Drawn'
<1>1. ASSUME NEW j \in Handlers, JoinOn(j) PROVE Drawn'
  <2>1. j \in Joins /\ \E stage : Goto(j, stage)
    BY <1>1 DEF JoinOn, AquireLock, RefuseLock, CheckTournament, DebitTournamentJoinFee,
       SavePlayer, Kinds, Fits, Joining
  <2>2. \A h \in Enders \union Starts : pc'[h] = pc[h]
    BY <2>1, Goes, KindsApart
  <2>3. ~SavePlayer(j)
    BY DEF SavePlayer, Note, Drawn, Sound, Undisturbed
  <2>4. UNCHANGED <<status, round, joined, lost, played, promoted, left, games, board, copy>>
    BY <1>1, <2>3 DEF JoinOn, AquireLock, RefuseLock, CheckTournament, DebitTournamentJoinFee,
       tournament, players, tables, environment
  <2>5. \A s \in Starts : pc'[s] \in {"timer", "done"}
    BY <2>2 DEF Drawn
  <2> QED BY <2>2, <2>4, <2>5, NobodyEnds
<1>2. ASSUME NEW s \in Handlers, StartOn(s) PROVE Drawn'
  <2>1. s \in Starts /\ s \notin Enders
    BY <1>2, KindsApart DEF StartOn, FindTournament, GetTournamentUserIds, TerminateTournament,
       BeginFirstRound, EndAbandoned, FireStartTimer, Kinds, Fits, Starting
  <2>2. FireStartTimer(s)
    BY <1>2, <2>1 DEF StartOn, FindTournament, GetTournamentUserIds, TerminateTournament,
       BeginFirstRound, EndAbandoned, Drawn
  <2>3. /\ UNCHANGED <<round, joined, lost, played, promoted, left, games, board>>
        /\ status' = "started" /\ revived' = (revived \/ status # "created")
        /\ copy' = [copy EXCEPT ![s] = Unread]
    BY <2>2 DEF FireStartTimer, players, tables, environment, Forget
  <2>4. status = "created"
    BY <2>3 DEF Sound, Undisturbed
  <2>5. pc'[s] = "done" /\ \A g \in Handlers \ {s} : pc'[g] = pc[g]
    BY <2>2, Goes DEF FireStartTimer
  <2>6. \A g \in Enders : pc'[g] = pc[g] /\ copy'[g] = copy[g]
    BY <2>1, <2>3, <2>5, KindsApart DEF TypeOK
  <2>7. \A t \in Starts : pc'[t] \in {"timer", "done"}
    BY <2>5, KindsApart DEF Drawn
  <2> QED BY <2>3, <2>4, <2>6, <2>7, NobodyEnds
<1>3. ASSUME NEW h \in Handlers, CancelOn(h) PROVE FALSE
  BY <1>3 DEF CancelOn, WriteCanceled, CloseTournament, Sound
<1>4. ASSUME NEW h \in Handlers, ReportTable(h) \/ CollectResults(h) PROVE Drawn'
  BY <1>4, ReportKnown, CollectKnown
<1>5. ASSUME NEW h \in Handlers, ReportOn(h) PROVE Drawn'
  <2>1. CASE MarkPlayers(h)
    BY <2>1, MarksKnown DEF Sound
  <2>2. CASE ~MarkPlayers(h)
    BY <1>5, <2>2, LooksKnown DEF ReportOn
  <2> QED BY <2>1, <2>2
<1>6. ASSUME NEW h \in Handlers, ConcludeOn(h) PROVE Drawn'
  <2>1. CASE ReadRound(h)
    BY <2>1, LooksKnown
  <2>2. CASE ReadPlayers(h)
    BY <2>2, ReadsKnown
  <2>3. CASE ListLosers(h)
    BY <2>3, LosersKnown
  <2>4. CASE ListWinners(h)
    BY <2>4, WinnersKnown
  <2>5. CASE WritePlayers(h)
    BY <2>5, WritesKnown
  <2>6. CASE EndTournament(h)
    BY <2>6, EndsKnown
  <2>7. CASE SaveNextRound(h)
    BY <2>7, SavesKnown
  <2>8. CASE StartNewRound(h)
    <3>1. pc[h] = "draw"
      BY <2>8 DEF StartNewRound
    <3>2. h \in Enders
      BY <3>1 DEF Kinds, Fits, Drawn
    <3> QED BY <2>8, <3>2, DrawsKnown
  <2> QED BY <1>6, <2>1, <2>2, <2>3, <2>4, <2>5, <2>6, <2>7, <2>8 DEF ConcludeOn
<1>7. ASSUME NEW h \in Handlers, Fail(h) PROVE FALSE
  <2>1. pc'[h] = "broken"
    BY <1>7, Goes DEF Fail
  <2> QED BY <2>1 DEF Sound, SomeCallBrokeOff
<1>8. CASE TimePasses \/ RefundJoinFees \/ UNCHANGED vars
  <2>1. UNCHANGED <<status, round, joined, lost, played, promoted, left, games, board, pc, copy>>
    BY <1>8 DEF TimePasses, RefundJoinFees, vars, tournament, players, tables, environment
  <2>2. \A s \in Starts : pc'[s] \in {"timer", "done"}
    BY <2>1 DEF Drawn
  <2> QED BY <2>1, <2>2, NobodyEnds
<1>9. CASE \E u \in Users : IgnoreTournament(u)
  BY <1>9, LeavesKnown
<1> QED BY <1>1, <1>2, <1>3, <1>4, <1>5, <1>6, <1>7, <1>8, <1>9 DEF Next

(* When a tournament has ended and was not refunded, every registered       *)
(* player is on its leaderboard once, or left it and is not: for any number *)
(* of players, rounds and ends of games and rounds, as long as the calls of *)
(* one round do not overlap and none breaks off.  A tournament is started   *)
(* by the one job that was scheduled when it was created.                   *)
THEOREM EveryoneIsListed ==
  ASSUME \A s, t \in Starts : s = t
  PROVE  Spec => []EveryoneIsListedOnce
<1> DEFINE Inv == Orderly /\ RoundInvariant
<1>1. Init => Inv
  <2> SUFFICES ASSUME Init PROVE Inv
    OBVIOUS
  <2>1. \A h \in Handlers : pc[h] = "idle" /\ copy[h].losers = {}
    BY DEF Init, Unread
  <2>2. Orderly
    BY <2>1, KindsApart DEF Orderly, IsConcluding, Concluding, ListsInOrder, AbandonsSomebody,
       Abandoning, Early
  <2>3. \A s \in Starts : StartFits(s)
    BY <2>1, KindsApart DEF StartFits
  <2>4. NotDrawn
    BY <2>1, <2>3, KindsApart DEF NotDrawn, Init
  <2> QED BY <2>2, <2>4 DEF RoundInvariant
<1>2. TypeOK /\ Kinds /\ Inv /\ [Next]_vars => Inv'
  <2> SUFFICES ASSUME TypeOK, Kinds, Orderly, RoundInvariant, [Next]_vars
               PROVE  Orderly' /\ RoundInvariant'
    OBVIOUS
  <2>1. Orderly'
    BY OrderStep
  <2>2. ASSUME Sound' PROVE NotDrawn' \/ Drawn'
    <3>1. Sound
      BY <2>2, SoundBefore
    <3>2. CASE NotDrawn
      BY <2>2, <3>2, NotDrawnStep
    <3>3. CASE Drawn
      BY <2>2, <3>1, <3>3, DrawnStep DEF Sound
    <3> QED BY <3>1, <3>2, <3>3 DEF RoundInvariant
  <2> QED BY <2>1, <2>2 DEF RoundInvariant
<1>3. Inv => EveryoneIsListedOnce
  <2> SUFFICES ASSUME RoundInvariant, status = "ended", ~IsRefunding, Undisturbed,
                      ~SomeCallBrokeOff
               PROVE  \A u \in joined : board[u] = 1 \/ (board[u] = 0 /\ u \in left)
    BY DEF EveryoneIsListedOnce
  <2>1. Sound
    BY DEF Sound
  <2>2. Drawn
    BY <2>1 DEF RoundInvariant, NotDrawn
  <2> QED BY <2>2 DEF Drawn, AllListed
<1> QED BY <1>1, <1>2, <1>3, TypeCorrect, PTL DEF Spec
=============================================================================
