------------------------------ MODULE GamesProofs ------------------------------
(***************************************************************************)
(* What keeps the tables of Ludo, Snakes and Ladders, cricket and a mega   *)
(* tournament going, settles their games once and tells their clients the  *)
(* truth, for games of any length and timers of any delay.  A section for  *)
(* each game has its inductive invariant; the last one puts them together. *)
(***************************************************************************)
EXTENDS Games, FiniteSetTheorems, SequenceTheorems, TLAPS

-----------------------------------------------------------------------------
(* Ludo.  The instances of a table's module count as this module does.      *)
LEMMA LudoCount == \A S : LT!Cardinality(S) = Cardinality(S)
BY DEF LT!Cardinality, Cardinality

(* What a table, and what is pending for it, can be.                        *)
LudoTables ==
  [exists : BOOLEAN, started : BOOLEAN, turn : players, action : {"rollDice", "movePawn"},
   dice : Seq(BOOLEAN), extra : 0..MaxDice, ready : SUBSET players, left : SUBSET players,
   lives : [players -> -1..Lives] \union {<<>>}, got6 : SUBSET players, barred : SUBSET players]

LudoInTheTurn == {"discardGame", "rollDice", "skipTurn"}
LudoEnding == {"settle", "removeTable"}
LudoDiscarding == {"discardPointers", "discardDocument"}
LudoJobs ==
  {j \in [do : LudoInTheTurn \union LudoEnding \union LudoDiscarding \union {"endGame", "startGame", "scheduledEnd", "roundEnded", "pointer"},
          ahead : 0..2, left : Nat, seats : SUBSET players, gone : SUBSET players] :
     /\ j.do \in LudoInTheTurn => j.ahead = 1
     /\ j.do = "endGame" => j.ahead > 0
     /\ j.do \notin LudoInTheTurn \union {"endGame"} => j.ahead = 0}

IsLudoTable(t) ==
  /\ t \in LudoTables /\ Len(t.dice) <= MaxDice
  /\ t.exists => t.lives \in [players -> -1..Lives]

LudoTyped ==
  /\ kind \in LT!Kinds /\ \E n \in 2..4 : players = 1..n
  /\ IsLudoTable(table)
  /\ document \in {"none", "started", "gameDiscarded", "completed"}
  /\ active \in SUBSET players
  /\ jobs \in SUBSET LudoJobs
  /\ fees \in {{}, players} /\ prizes \in Seq(SUBSET players)
  /\ moves \in Nat
  /\ slips \subseteq {"not debited", "begun unready", "win lost", "ended twice", "half started"}

(* A table that can be played on: two are there at least, who have lives    *)
(* left; and in play, with the turn at one of them.                         *)
Seated(t) ==
  /\ IsLudoTable(t) /\ t.exists
  /\ \E a, b \in LT!Remaining(t) : a # b
  /\ \A s \in LT!Remaining(t) : t.lives[s] >= 0
  /\ t.barred \subseteq t.got6

InPlay(t) == Seated(t) /\ t.turn \in LT!Remaining(t)

(* Nothing is there before the game begins.                                 *)
StartsAlone ==
  \A j \in jobs : j.do = "startGame" =>
    jobs = {j} /\ ~table.exists /\ document = "none" /\ prizes = <<>> /\ fees = {}

(* Outside a tournament fees are taken when the game begins; before that    *)
(* there is nothing to end, and afterwards nothing to discard.              *)
FeesAreTaken ==
  IF kind = "tournament" THEN fees = {} /\ \A j \in jobs : j.do # "discardGame"
  ELSE /\ \A j \in jobs : j.do \in LudoEnding \union {"endGame"} => fees = players
       /\ \A j \in jobs : j.do # "roundEnded"
       /\ table.exists /\ table.started => fees = players
       /\ table.exists /\ ~table.started =>
            /\ prizes = <<>> /\ fees = {} /\ table.action = "rollDice"
            /\ \A j \in jobs : j.do \notin LudoEnding \union {"endGame"}
       /\ \A j \in jobs : j.do = "discardGame" => table.exists /\ ~table.started

(* A table that is being discarded is gone, and took nothing.               *)
Discarding ==
  \A j \in jobs : j.do \in LudoDiscarding =>
    kind # "tournament" /\ ~table.exists /\ fees = {} /\ prizes = <<>>

(* Timers of the turn go with the table.                                    *)
LudoOrder ==
  /\ StartsAlone /\ FeesAreTaken /\ Discarding
  /\ \A j \in jobs : j.ahead > 0 => table.exists
  /\ \A j \in jobs : j.do = "removeTable" => prizes # <<>>
  /\ LT!PrizeIsBacked /\ LT!GameGoesOn
  /\ table.exists => InPlay(table)

LudoInv == LudoTyped /\ (slips = {} => LudoOrder)
-----------------------------------------------------------------------------
LEMMA FreshLudoJobs ==
  ASSUME LudoAssumption
  PROVE  /\ \A what \in LudoInTheTurn, delay \in Nat : LT!Timer(what, 1, delay) \in LudoJobs
         /\ \A delay \in Nat : LT!Timer("scheduledEnd", 0, delay) \in LudoJobs
         /\ \A what, ahead, delay : /\ LT!Timer(what, ahead, delay).do = what
                                    /\ LT!Timer(what, ahead, delay).ahead = ahead
         /\ LT!SkipTimer \in LudoJobs /\ LT!SkipTimer.do = "skipTurn" /\ LT!SkipTimer.ahead = 1
BY DEF LudoAssumption, LudoJobs, LT!Timer, LT!SkipTimer, LudoInTheTurn, LudoEnding

LEMMA FreshCalls ==
  ASSUME NEW what \in LudoEnding \union LudoDiscarding \union {"startGame", "roundEnded", "pointer"},
         NEW seats \in SUBSET players
  PROVE  /\ LT!Call(what, seats) \in LudoJobs
         /\ LT!Call(what, seats).do = what /\ LT!Call(what, seats).ahead = 0
         /\ \A gone \in SUBSET players :
              LET c == [LT!Call(what, seats) EXCEPT !.gone = gone]
              IN  c \in LudoJobs /\ c.do = what /\ c.ahead = 0
<1>1. LT!Call(what, seats) = [do |-> what, ahead |-> 0, left |-> 0, seats |-> seats, gone |-> {}]
  BY DEF LT!Call, LT!Timer
<1> QED BY <1>1 DEF LudoJobs, LudoInTheTurn, LudoEnding, LudoDiscarding

(* Counting the turns leaves calls alone, and of the timers only a win that *)
(* is still further ahead.                                                  *)
LEMMA CountedJobs ==
  ASSUME NEW js \in SUBSET LudoJobs, NEW n \in 0..2
  PROVE  /\ LT!Counted(js, n) \in SUBSET LudoJobs
         /\ \A k \in LT!Counted(js, n) : \E j \in js : k.do = j.do /\ (k.ahead = 0 => j = k)
         /\ n = 0 => LT!Counted(js, n) = js
         /\ n > 0 => \A k \in LT!Counted(js, n) : k.do \notin LudoInTheTurn
<1>1. ASSUME NEW j \in js, j.ahead > n
      PROVE  /\ [j EXCEPT !.ahead = @ - n] \in LudoJobs
             /\ [j EXCEPT !.ahead = @ - n].do = j.do /\ [j EXCEPT !.ahead = @ - n].ahead = j.ahead - n
             /\ j.ahead - n > 0
             /\ n = 0 => [j EXCEPT !.ahead = @ - n] = j
             /\ n > 0 => j.do \notin LudoInTheTurn
  BY <1>1 DEF LudoJobs, LudoInTheTurn
<1>2. ASSUME NEW k \in LT!Counted(js, n), k \notin {j \in js : j.ahead = 0}
      PROVE  \E j \in js : j.ahead > n /\ k = [j EXCEPT !.ahead = @ - n]
  BY <1>2 DEF LT!Counted
<1>3. ASSUME NEW j \in js, j.ahead = 0 PROVE j.do \notin LudoInTheTurn /\ j \in LudoJobs
  BY <1>3 DEF LudoJobs
<1>4. LT!Counted(js, n) \in SUBSET LudoJobs
  BY <1>1, <1>2, <1>3
<1>5. \A k \in LT!Counted(js, n) : \E j \in js : k.do = j.do /\ (k.ahead = 0 => j = k)
  <2> SUFFICES ASSUME NEW k \in LT!Counted(js, n)
               PROVE  \E j \in js : k.do = j.do /\ (k.ahead = 0 => j = k)
    OBVIOUS
  <2>1. CASE k \in {j \in js : j.ahead = 0}
    BY <2>1
  <2>2. CASE k \notin {j \in js : j.ahead = 0}
    <3>1. PICK j \in js : j.ahead > n /\ k = [j EXCEPT !.ahead = @ - n]
      BY <1>2, <2>2
    <3>2. k.do = j.do /\ k.ahead > 0
      BY <1>1, <3>1
    <3> QED BY <3>2
  <2> QED BY <2>1, <2>2
<1>6. n > 0 => \A k \in LT!Counted(js, n) : k.do \notin LudoInTheTurn
  BY <1>1, <1>2, <1>3
<1>7. ASSUME n = 0 PROVE LT!Counted(js, n) = js
  <2>1. \A j \in js : j.ahead \in 0..2
    BY DEF LudoJobs
  <2>2. \A k \in LT!Counted(js, n) : k \in js
    BY <1>1, <1>2, <1>7
  <2>3. ASSUME NEW j \in js PROVE j \in LT!Counted(js, n)
    <3>1. CASE j.ahead = 0
      BY <3>1 DEF LT!Counted
    <3>2. CASE j.ahead > 0
      BY <1>1, <1>7, <3>2 DEF LT!Counted
    <3> QED BY <2>1, <3>1, <3>2
  <2> QED BY <2>2, <2>3
<1> QED BY <1>4, <1>5, <1>6, <1>7

(* Clockwise round the board the turn comes to somebody who is there.       *)
LEMMA NextTurnRemains ==
  ASSUME players \subseteq 1..4, NEW t, t.turn \in players, NEW s \in LT!Remaining(t)
  PROVE  LT!NextTurn(t) \in LT!Remaining(t)
<1> DEFINE around == <<LT!Order[t.turn], LT!Order[LT!Order[t.turn]], LT!Order[LT!Order[LT!Order[t.turn]]], t.turn>>
           S == {i \in 1..4 : around[i] \in LT!Remaining(t)}
<1>1. \E i \in 1..4 : around[i] = s
  <2>1. t.turn \in 1..4 /\ s \in 1..4
    BY DEF LT!Remaining
  <2>2. CASE t.turn = 1
    BY <2>1, <2>2 DEF LT!Order
  <2>3. CASE t.turn = 2
    BY <2>1, <2>3 DEF LT!Order
  <2>4. CASE t.turn = 3
    BY <2>1, <2>4 DEF LT!Order
  <2>5. CASE t.turn = 4
    BY <2>1, <2>5 DEF LT!Order
  <2> QED BY <2>1, <2>2, <2>3, <2>4, <2>5
<1>2. PICK k \in S : TRUE
  BY <1>1
<1>3. \E x \in S \union {4} : \A y \in S \union {4} : x <= y
  <2>1. S \union {4} \subseteq 1..4 /\ 4 \in S \union {4}
    OBVIOUS
  <2> HIDE DEF S
  <2>2. CASE 1 \in S \union {4}
    BY <2>1, <2>2
  <2>3. CASE 1 \notin S \union {4} /\ 2 \in S \union {4}
    BY <2>1, <2>3
  <2>4. CASE 1 \notin S \union {4} /\ 2 \notin S \union {4} /\ 3 \in S \union {4}
    BY <2>1, <2>4
  <2>5. CASE 1 \notin S \union {4} /\ 2 \notin S \union {4} /\ 3 \notin S \union {4}
    BY <2>1, <2>5
  <2> QED BY <2>2, <2>3, <2>4, <2>5
<1>4. LT!Min(S \union {4}) \in S \union {4} /\ \A y \in S \union {4} : LT!Min(S \union {4}) <= y
  BY <1>3 DEF LT!Min
<1>5. LT!Min(S \union {4}) \in S
  <2>1. k \in 1..4 /\ k \in S \union {4}
    BY <1>2
  <2> HIDE DEF around
  <2>2. CASE LT!Min(S \union {4}) \notin S
    <3>1. LT!Min(S \union {4}) = 4
      BY <1>4, <2>2
    <3>2. k = 4
      BY <1>4, <2>1, <3>1
    <3> QED BY <1>2, <3>1, <3>2
  <2> QED BY <2>2
<1> QED BY <1>5 DEF LT!NextTurn

LEMMA LudoSeats ==
  ASSUME LudoTyped
  PROVE  players \subseteq 1..4 /\ 1 \in players /\ 2 \in players /\ players # {}
<1>1. PICK n \in 2..4 : players = 1..n
  BY DEF LudoTyped
<1> QED BY <1>1

LEMMA DiceRemoved ==
  ASSUME NEW dice \in Seq(BOOLEAN), NEW i \in DOMAIN dice
  PROVE  LT!RemoveAt(dice, i) \in Seq(BOOLEAN) /\ Len(LT!RemoveAt(dice, i)) = Len(dice) - 1
<1>1. i \in 1..Len(dice) /\ Len(dice) \in Nat /\ DOMAIN dice = 1..Len(dice)
  BY LenProperties
<1>2. /\ SubSeq(dice, 1, i - 1) \in Seq(BOOLEAN)
      /\ Len(SubSeq(dice, 1, i - 1)) = i - 1
  <2>1. \A k \in 1..(i - 1) : dice[k] \in BOOLEAN
    BY <1>1, ElementOfSeq
  <2> QED BY <1>1, <2>1, SubSeqProperties
<1>3. /\ SubSeq(dice, i + 1, Len(dice)) \in Seq(BOOLEAN)
      /\ Len(SubSeq(dice, i + 1, Len(dice))) = Len(dice) - i
  <2>1. \A k \in (i + 1)..Len(dice) : dice[k] \in BOOLEAN
    BY <1>1, ElementOfSeq
  <2> QED BY <1>1, <2>1, SubSeqProperties
<1> QED BY <1>1, <1>2, <1>3, ConcatProperties DEF LT!RemoveAt

(* The operators that pass a turn, roll the dice and move a pawn keep a     *)
(* table that is played on in play.                                         *)
LEMMA PassedInPlay ==
  ASSUME LudoTyped, LudoAssumption, NEW t, Seated(t)
  PROVE  InPlay(LT!Passed(t)) /\ LT!Passed(t).started = t.started
<1>1. t \in LudoTables /\ t.lives \in [players -> -1..Lives] /\ t.exists /\ t.turn \in players
  BY DEF Seated, IsLudoTable, LudoTables
<1>2. LT!NextTurn(t) \in LT!Remaining(t) /\ LT!NextTurn(t) \in players
  BY <1>1, LudoSeats, NextTurnRemains DEF Seated, LT!Remaining
<1>3. <<>> \in Seq(BOOLEAN) /\ Len(<<>>) = 0 /\ 0 <= MaxDice /\ 0 \in 0..MaxDice
  BY DEF LudoAssumption
<1> DEFINE p == LT!Passed(t)
<1>4. /\ p = [t EXCEPT !.turn = LT!NextTurn(t), !.action = "rollDice", !.dice = <<>>, !.extra = 0]
      /\ p.left = t.left /\ p.lives = t.lives /\ p.barred = t.barred /\ p.got6 = t.got6
      /\ p.exists = t.exists /\ p.started = t.started /\ p.turn = LT!NextTurn(t) /\ p.dice = <<>>
  BY <1>1 DEF LT!Passed, LudoTables
<1>5. p \in LudoTables
  BY <1>1, <1>2, <1>3, <1>4 DEF LudoTables
<1> HIDE DEF p
<1>6. IsLudoTable(p)
  BY <1>1, <1>3, <1>4, <1>5 DEF IsLudoTable
<1>7. LT!Remaining(p) = LT!Remaining(t)
  BY <1>4 DEF LT!Remaining
<1>8. InPlay(p)
  BY <1>1, <1>2, <1>4, <1>6, <1>7 DEF InPlay, Seated
<1> QED BY <1>4, <1>8 DEF p

LEMMA BarredSeated ==
  ASSUME NEW t, Seated(t), NEW s \in t.got6
  PROVE  Seated(LT!Barred(t, s)) /\ LT!Barred(t, s).started = t.started
<1>1. t \in LudoTables /\ t.lives \in [players -> -1..Lives] /\ t.exists /\ s \in players
  BY DEF Seated, IsLudoTable, LudoTables
<1> DEFINE b == LT!Barred(t, s)
<1>2. /\ b.left = t.left /\ b.lives = t.lives /\ b.barred \subseteq b.got6
      /\ b.exists = t.exists /\ b.started = t.started /\ b.dice = t.dice
  BY <1>1 DEF LT!Barred, LudoTables, Seated
<1>3. b \in LudoTables
  <2>1. CASE LT!Remaining(t) \subseteq t.barred \union {s}
    BY <1>1, <2>1 DEF LT!Barred, LudoTables
  <2>2. CASE ~(LT!Remaining(t) \subseteq t.barred \union {s})
    BY <1>1, <2>2 DEF LT!Barred, LudoTables
  <2> QED BY <2>1, <2>2
<1> HIDE DEF b
<1>4. LT!Remaining(b) = LT!Remaining(t)
  BY <1>2 DEF LT!Remaining
<1>5. Seated(b)
  BY <1>1, <1>2, <1>3, <1>4 DEF Seated, IsLudoTable
<1> QED BY <1>2, <1>5 DEF b

LEMMA TurnOverInPlay ==
  ASSUME LudoTyped, LudoAssumption, NEW t, Seated(t)
  PROVE  InPlay(LT!TurnOver(t)) /\ LT!TurnOver(t).started = t.started
BY PassedInPlay, BarredSeated DEF LT!TurnOver

LEMMA RolledInPlay ==
  ASSUME LudoTyped, LudoAssumption, NEW t, InPlay(t), Len(t.dice) < MaxDice,
         NEW six \in BOOLEAN, NEW movable \in BOOLEAN
  PROVE  InPlay(LT!Rolled(t, six, movable)) /\ LT!Rolled(t, six, movable).started
<1> DEFINE u == [t EXCEPT !.dice = Append(@, six), !.started = TRUE]
           got == [u EXCEPT !.got6 = @ \union {t.turn}]
<1>1. /\ t \in LudoTables /\ t.lives \in [players -> -1..Lives] /\ t.exists /\ t.turn \in players
      /\ t.dice \in Seq(BOOLEAN) /\ MaxDice \in Nat
  BY DEF InPlay, Seated, IsLudoTable, LudoTables, LudoAssumption
<1>2. Append(t.dice, six) \in Seq(BOOLEAN) /\ Len(Append(t.dice, six)) = Len(t.dice) + 1
  BY <1>1
<1>3. Len(Append(t.dice, six)) <= MaxDice
  BY <1>1, <1>2
<1>4. /\ u.left = t.left /\ u.lives = t.lives /\ u.barred = t.barred /\ u.got6 = t.got6
      /\ u.exists = t.exists /\ u.started = TRUE /\ u.turn = t.turn /\ u.dice = Append(t.dice, six)
      /\ u \in LudoTables
  BY <1>1, <1>2 DEF LudoTables
<1> HIDE DEF u
<1>5. LT!Remaining(u) = LT!Remaining(t)
  BY <1>4 DEF LT!Remaining
<1>6. InPlay(u)
  BY <1>1, <1>3, <1>4, <1>5 DEF InPlay, Seated, IsLudoTable
<1>7. /\ got.left = u.left /\ got.lives = u.lives /\ got.barred = u.barred
      /\ got.got6 = u.got6 \union {t.turn}
      /\ got.exists = u.exists /\ got.started = TRUE /\ got.turn = u.turn /\ got.dice = u.dice
      /\ got \in LudoTables
  BY <1>1, <1>4 DEF LudoTables
<1> HIDE DEF got
<1>8. InPlay(got) /\ t.turn \in got.got6
  <2>1. LT!Remaining(got) = LT!Remaining(u)
    BY <1>7 DEF LT!Remaining
  <2> QED BY <1>6, <1>7, <2>1 DEF InPlay, Seated, IsLudoTable
<1>9. LT!Rolled(t, six, movable) =
        IF six /\ ExtraRoll THEN IF LT!Sixes(u.dice) THEN LT!Passed(LT!Barred(got, t.turn)) ELSE got
        ELSE IF movable THEN [u EXCEPT !.action = "movePawn"]
        ELSE LT!Passed(IF t.turn \notin t.got6 THEN u
                    ELSE IF LT!Remaining(t) \subseteq t.barred \union {t.turn}
                    THEN [u EXCEPT !.barred = {}, !.got6 = @ \ {t.turn}]
                    ELSE [u EXCEPT !.barred = @ \union {t.turn}])
  BY DEF LT!Rolled, u, got
<1>10. CASE six /\ ExtraRoll
  <2>1. Seated(LT!Barred(got, t.turn)) /\ LT!Barred(got, t.turn).started = got.started
    BY <1>8, BarredSeated DEF InPlay
  <2>2. InPlay(LT!Passed(LT!Barred(got, t.turn))) /\ LT!Passed(LT!Barred(got, t.turn)).started = got.started
    BY <2>1, PassedInPlay
  <2> QED BY <1>7, <1>8, <1>9, <1>10, <2>2
<1>11. CASE ~(six /\ ExtraRoll) /\ movable
  <2> DEFINE m == [u EXCEPT !.action = "movePawn"]
  <2>1. /\ m.left = u.left /\ m.lives = u.lives /\ m.barred = u.barred /\ m.got6 = u.got6
        /\ m.exists = u.exists /\ m.started = TRUE /\ m.turn = u.turn /\ m.dice = u.dice
        /\ m \in LudoTables
    BY <1>4 DEF LudoTables
  <2> HIDE DEF m
  <2>2. LT!Remaining(m) = LT!Remaining(u)
    BY <2>1 DEF LT!Remaining
  <2>3. InPlay(m)
    BY <1>6, <2>1, <2>2 DEF InPlay, Seated, IsLudoTable
  <2> QED BY <1>9, <1>11, <2>1, <2>3 DEF m
<1>12. CASE ~(six /\ ExtraRoll) /\ ~movable
  <2> DEFINE x == [u EXCEPT !.barred = {}, !.got6 = @ \ {t.turn}]
             y == [u EXCEPT !.barred = @ \union {t.turn}]
  <2>1. /\ x.left = u.left /\ x.lives = u.lives /\ x.barred = {}
        /\ x.exists = u.exists /\ x.started = TRUE /\ x.dice = u.dice
        /\ x \in LudoTables
    BY <1>1, <1>4 DEF LudoTables
  <2>2. /\ y.left = u.left /\ y.lives = u.lives /\ y.barred = u.barred \union {t.turn} /\ y.got6 = u.got6
        /\ y.exists = u.exists /\ y.started = TRUE /\ y.dice = u.dice
        /\ y \in LudoTables
    BY <1>1, <1>4 DEF LudoTables
  <2> HIDE DEF x, y
  <2>3. LT!Remaining(x) = LT!Remaining(u) /\ LT!Remaining(y) = LT!Remaining(u)
    BY <2>1, <2>2 DEF LT!Remaining
  <2>4. Seated(x)
    BY <1>6, <2>1, <2>3 DEF InPlay, Seated, IsLudoTable
  <2>5. ASSUME t.turn \in t.got6 PROVE Seated(y)
    BY <1>4, <1>6, <2>2, <2>3, <2>5 DEF InPlay, Seated, IsLudoTable
  <2>6. Seated(u) /\ u.started = TRUE
    BY <1>4, <1>6 DEF InPlay
  <2>7. \E v : Seated(v) /\ v.started = TRUE /\ LT!Rolled(t, six, movable) = LT!Passed(v)
    <3>1. CASE t.turn \notin t.got6
      BY <1>9, <1>12, <2>6, <3>1
    <3>2. CASE t.turn \in t.got6 /\ LT!Remaining(t) \subseteq t.barred \union {t.turn}
      BY <1>9, <1>12, <2>1, <2>4, <3>2 DEF x
    <3>3. CASE t.turn \in t.got6 /\ ~(LT!Remaining(t) \subseteq t.barred \union {t.turn})
      BY <1>9, <1>12, <2>2, <2>5, <3>3 DEF y
    <3> QED BY <3>1, <3>2, <3>3
  <2> QED BY <2>7, PassedInPlay
<1> QED BY <1>10, <1>11, <1>12

LEMMA MovedInPlay ==
  ASSUME LudoTyped, LudoAssumption, NEW t, InPlay(t), NEW i \in DOMAIN t.dice,
         NEW extra \in {0, 1}, t.extra + extra <= MaxDice, NEW movable \in BOOLEAN
  PROVE  InPlay(LT!Moved(t, i, extra, movable)) /\ LT!Moved(t, i, extra, movable).started = t.started
<1> DEFINE u == [t EXCEPT !.dice = LT!RemoveAt(@, i), !.extra = @ + extra]
           v == [u EXCEPT !.action = "rollDice", !.extra = @ - 1]
<1>1. /\ t \in LudoTables /\ t.lives \in [players -> -1..Lives] /\ t.exists /\ t.turn \in players
      /\ t.dice \in Seq(BOOLEAN) /\ MaxDice \in Nat /\ t.extra \in 0..MaxDice /\ Len(t.dice) <= MaxDice
  BY DEF InPlay, Seated, IsLudoTable, LudoTables, LudoAssumption
<1>2. LT!RemoveAt(t.dice, i) \in Seq(BOOLEAN) /\ Len(LT!RemoveAt(t.dice, i)) = Len(t.dice) - 1
  BY <1>1, DiceRemoved
<1>3. t.extra + extra \in 0..MaxDice /\ Len(LT!RemoveAt(t.dice, i)) <= MaxDice
  BY <1>1, <1>2
<1>4. /\ u.left = t.left /\ u.lives = t.lives /\ u.barred = t.barred /\ u.got6 = t.got6
      /\ u.exists = t.exists /\ u.started = t.started /\ u.turn = t.turn /\ u.dice = LT!RemoveAt(t.dice, i)
      /\ u.extra \in 0..MaxDice /\ u \in LudoTables
  BY <1>1, <1>2, <1>3 DEF LudoTables
<1> HIDE DEF u
<1>5. InPlay(u)
  <2>1. LT!Remaining(u) = LT!Remaining(t)
    BY <1>4 DEF LT!Remaining
  <2> QED BY <1>1, <1>3, <1>4, <2>1 DEF InPlay, Seated, IsLudoTable
<1>6. ASSUME u.extra > 0 PROVE InPlay(v) /\ v.started = u.started
  <2>1. u.extra - 1 \in 0..MaxDice
    BY <1>1, <1>4, <1>6
  <2>2. /\ v.left = u.left /\ v.lives = u.lives /\ v.barred = u.barred /\ v.got6 = u.got6
        /\ v.exists = u.exists /\ v.started = u.started /\ v.turn = u.turn /\ v.dice = u.dice
        /\ v \in LudoTables
    BY <1>4, <2>1 DEF LudoTables
  <2> HIDE DEF v
  <2>3. LT!Remaining(v) = LT!Remaining(u)
    BY <2>2 DEF LT!Remaining
  <2> QED BY <1>5, <2>2, <2>3 DEF InPlay, Seated, IsLudoTable
<1>7. LT!Moved(t, i, extra, movable) = IF movable THEN u ELSE IF u.extra > 0 THEN v ELSE LT!TurnOver(u)
  BY DEF LT!Moved, u
<1> QED BY <1>4, <1>5, <1>6, <1>7, TurnOverInPlay DEF InPlay

(* Who leaves, with lives or without, leaves a table that can be played on, *)
(* unless one player alone remains.                                         *)
LEMMA LeftSeated ==
  ASSUME LudoTyped, LudoAssumption, NEW t, IsLudoTable(t), t.exists, t.barred \subseteq t.got6,
         NEW s \in LT!Remaining(t), \E r \in LT!Remaining(t) : r # s,
         \A r \in LT!Remaining(t) \ {s} : t.lives[r] >= 0,
         LT!Cardinality(LT!Remaining(t) \ {s}) # 1
  PROVE  Seated([t EXCEPT !.left = @ \union {s}])
<1> DEFINE u == [t EXCEPT !.left = @ \union {s}]
<1>1. /\ u.left = t.left \union {s} /\ u.lives = t.lives /\ u.barred = t.barred /\ u.got6 = t.got6
      /\ u.exists = t.exists /\ u.dice = t.dice /\ u \in LudoTables
  BY DEF IsLudoTable, LudoTables, LT!Remaining
<1> HIDE DEF u
<1>2. LT!Remaining(u) = LT!Remaining(t) \ {s}
  BY <1>1 DEF LT!Remaining
<1>3. PICK r \in LT!Remaining(t) : r # s
  OBVIOUS
<1>4. \E a, b \in LT!Remaining(u) : a # b
  <2>1. SUFFICES ASSUME \A a \in LT!Remaining(u) : a = r PROVE FALSE
    BY <1>2, <1>3
  <2>2. LT!Remaining(t) \ {s} = {r}
    BY <1>2, <1>3, <2>1
  <2> QED BY <2>2, LudoCount, FS_Singleton
<1>5. Seated(u)
  BY <1>1, <1>2, <1>4 DEF Seated, IsLudoTable
<1> QED BY <1>5 DEF u

-----------------------------------------------------------------------------
LEMMA SamePlayers ==
  ASSUME players' = players
  PROVE  /\ LudoTables' = LudoTables /\ LudoJobs' = LudoJobs
         /\ \A t : table' = t => /\ (InPlay(t) => InPlay(table)')
                                 /\ (IsLudoTable(t) => IsLudoTable(table)')
BY DEF LudoTables, LudoJobs, LudoInTheTurn, LudoEnding, InPlay, Seated, IsLudoTable, LT!Remaining

LEMMA NoLudoTable ==
  ASSUME LudoTyped, LudoAssumption
  PROVE  IsLudoTable(LT!NoTable) /\ LT!NoTable \in LudoTables /\ ~LT!NoTable.exists
<1>1. <<>> \in Seq(BOOLEAN) /\ Len(<<>>) = 0 /\ 0 <= MaxDice /\ 0 \in 0..MaxDice /\ 1 \in players
  BY LudoSeats DEF LudoAssumption
<1>2. /\ LT!NoTable \in LudoTables /\ ~LT!NoTable.exists /\ LT!NoTable.dice = <<>>
  BY <1>1 DEF LT!NoTable, LudoTables
<1> QED BY <1>1, <1>2 DEF IsLudoTable

(* What is typed stays typed.                                               *)
LEMMA LudoTypedNext ==
  ASSUME LudoTyped, UNCHANGED <<kind, players>>,
         IsLudoTable(table'), jobs' \in SUBSET LudoJobs,
         document' \in {"none", "started", "gameDiscarded", "completed"},
         active' \in SUBSET players,
         fees' \in {{}, players}, prizes' \in Seq(SUBSET players), moves' \in Nat,
         slips' \subseteq {"not debited", "begun unready", "win lost", "ended twice", "half started"}
  PROVE  LudoTyped'
<1>1. IsLudoTable(table)' /\ LudoJobs' = LudoJobs
  BY SamePlayers DEF LudoTyped
<1> QED BY <1>1 DEF LudoTyped

(* No game begins anew.                                                     *)
LEMMA StartedStays ==
  ASSUME \A j \in jobs' : j.do # "startGame"
  PROVE  StartsAlone'
BY DEF StartsAlone

(* Nothing is discarded any more.                                           *)
LEMMA DiscardedStays ==
  ASSUME \A j \in jobs' : j.do \notin LudoDiscarding
  PROVE  Discarding'
BY DEF Discarding

(* Nor while there is a table, or fees.                                     *)
LEMMA NotDiscarded ==
  ASSUME LudoOrder, table.exists \/ fees # {} \/ kind = "tournament"
  PROVE  \A j \in jobs : j.do \notin LudoDiscarding
BY DEF LudoOrder, Discarding

(* While there is a table the game has begun.                               *)
LEMMA BegunAtATable ==
  ASSUME LudoTyped, LudoOrder, table.exists
  PROVE  \A j \in jobs : j.do # "startGame"
BY DEF LudoOrder, StartsAlone

(* A turn is counted.                                                       *)
LEMMA TurnKeeps ==
  ASSUME LudoAssumption, LudoTyped, slips = {} => LudoOrder, slips = {}, table.exists,
         NEW t, InPlay(t), NEW n \in 0..2, n > 0, NEW done, LT!Write(t, n, done, {LT!SkipTimer}),
         slips' = {} => kind = "tournament" \/ (table.started /\ t.started),
         UNCHANGED <<kind, players, document, fees, prizes>>,
         active' \in SUBSET players, moves' \in Nat,
         slips' \subseteq {"not debited", "begun unready", "win lost", "ended twice", "half started"}
  PROVE  LudoInv'
<1> DEFINE js == LT!Counted(jobs \ done, n)
<1>1. LudoOrder
  OBVIOUS
<1>2. table' = t /\ jobs' = js \union {LT!SkipTimer}
  BY DEF LT!Write
<1>3. /\ js \in SUBSET LudoJobs
      /\ \A k \in js : \E j \in jobs : k.do = j.do /\ (k.ahead = 0 => j = k)
      /\ \A k \in js : k.do \notin LudoInTheTurn
  <2>1. jobs \in SUBSET LudoJobs
    BY DEF LudoTyped
  <2>2. jobs \ done \in SUBSET LudoJobs
    BY <2>1
  <2>4. /\ LT!Counted(jobs \ done, n) \in SUBSET LudoJobs
        /\ \A k \in LT!Counted(jobs \ done, n) : \E j \in jobs \ done : k.do = j.do /\ (k.ahead = 0 => j = k)
        /\ \A k \in LT!Counted(jobs \ done, n) : k.do \notin LudoInTheTurn
    BY <2>2, CountedJobs
  <2> QED BY <2>4
<1>4. LT!SkipTimer \in LudoJobs /\ LT!SkipTimer.do = "skipTurn" /\ LT!SkipTimer.ahead = 1
  BY FreshLudoJobs
<1> HIDE DEF js
<1>5. LudoTyped'
  <2>1. jobs' \in SUBSET LudoJobs /\ IsLudoTable(table')
    BY <1>2, <1>3, <1>4 DEF InPlay, Seated
  <2> QED BY <2>1, LudoTypedNext DEF LudoTyped
<1>6. ASSUME slips' = {} PROVE LudoOrder'
  <2>1. InPlay(table)' /\ table'.exists
    BY <1>2, SamePlayers DEF InPlay, Seated
  <2>2. StartsAlone'
    BY <1>1, <1>2, <1>3, <1>4, BegunAtATable, StartedStays
  <2>3. FeesAreTaken'
    <3>1. CASE kind = "tournament"
      BY <1>1, <1>2, <1>3, <1>4, <3>1 DEF LudoOrder, FeesAreTaken
    <3>2. CASE kind # "tournament"
      <4>1. table.started /\ table'.started /\ fees' = players'
        BY <1>1, <1>2, <1>6, <3>2 DEF LudoOrder, FeesAreTaken
      <4>2. \A j \in jobs' : j.do # "roundEnded" /\ j.do # "discardGame"
        BY <1>1, <1>2, <1>3, <1>4, <3>2 DEF LudoOrder, FeesAreTaken, LudoInTheTurn
      <4> QED BY <2>1, <3>2, <4>1, <4>2 DEF FeesAreTaken
    <3> QED BY <3>1, <3>2
  <2>4. \A j \in jobs' : j.do = "removeTable" => prizes' # <<>>
    BY <1>1, <1>2, <1>3, <1>4 DEF LudoOrder
  <2>5. LT!PrizeIsBacked'
    BY <1>1, <2>1 DEF LudoOrder, LT!PrizeIsBacked
  <2>6. LT!GameGoesOn'
    BY <1>2, <1>4 DEF LT!GameGoesOn
  <2>7. Discarding'
    <3>1. \A j \in jobs : j.do \notin LudoDiscarding
      BY <1>1, NotDiscarded
    <3>2. \A j \in jobs' : j.do \notin LudoDiscarding
      BY <1>2, <1>3, <1>4, <3>1 DEF LudoDiscarding
    <3> QED BY <3>2, DiscardedStays
  <2> QED BY <2>1, <2>2, <2>3, <2>4, <2>5, <2>6, <2>7 DEF LudoOrder
<1> QED BY <1>5, <1>6 DEF LudoInv

(* A table is written, or looked at, and no turn counted.                   *)
Carries(j) == j.ahead > 0 \/ j.do \in {"settle", "removeTable"}

LEMMA LookKeeps ==
  ASSUME LudoAssumption, LudoTyped, slips = {} => LudoOrder, slips = {},
         UNCHANGED <<kind, players, fees, prizes, slips>>,
         document' = document \/ (document' = "gameDiscarded" /\ prizes = <<>>),
         active' \in SUBSET players, moves' \in Nat,
         \A j \in jobs : j.do # "startGame",
         IsLudoTable(table'), table'.exists = table.exists,
         table'.started = table.started, table'.action = table.action,
         table.exists => InPlay(table)',
         NEW done, NEW new \in SUBSET LudoJobs, jobs' = (jobs \ done) \union new,
         \A k \in new : /\ k.do \notin {"startGame", "removeTable", "discardGame", "roundEnded"}
                        /\ k.do \in LudoDiscarding => \E i \in jobs : i.do \in LudoDiscarding
                        /\ k.ahead > 0 => table.exists
                        /\ k.do \in {"settle", "endGame"} =>
                             kind = "tournament" \/ (fees = players /\ (table.exists => table.started)),
         table.exists => (\E k \in new : Carries(k)) \/ \A j \in jobs \cap done : ~Carries(j)
  PROVE  LudoInv'
<1>1. LudoOrder
  OBVIOUS
<1>2. LudoTyped'
  <2>1. jobs' \in SUBSET LudoJobs
    BY DEF LudoTyped
  <2> QED BY <2>1, LudoTypedNext DEF LudoTyped
<1>3. StartsAlone'
  BY StartedStays
<1>4. FeesAreTaken'
  <2>1. CASE kind = "tournament"
    BY <1>1, <2>1 DEF LudoOrder, FeesAreTaken
  <2>2. CASE kind # "tournament"
    <3>1. \A j \in jobs' : j.do \in LudoEnding \union {"endGame"} => fees = players
      BY <1>1, <2>2 DEF LudoOrder, FeesAreTaken, LudoEnding
    <3>2. \A j \in jobs' : j.do # "roundEnded"
      BY <1>1, <2>2 DEF LudoOrder, FeesAreTaken
    <3>3. table'.exists /\ table'.started => fees = players
      BY <1>1, <2>2 DEF LudoOrder, FeesAreTaken
    <3>4. table'.exists /\ ~table'.started =>
            /\ prizes = <<>> /\ fees = {} /\ table'.action = "rollDice"
            /\ \A j \in jobs' : j.do \notin LudoEnding \union {"endGame"}
      BY <1>1, <2>2 DEF LudoOrder, FeesAreTaken, LudoEnding
    <3>5. \A j \in jobs' : j.do = "discardGame" => table'.exists /\ ~table'.started
      BY <1>1, <2>2 DEF LudoOrder, FeesAreTaken
    <3> QED BY <2>2, <3>1, <3>2, <3>3, <3>4, <3>5 DEF FeesAreTaken
  <2> QED BY <2>1, <2>2
<1>5. \A j \in jobs' : j.ahead > 0 => table'.exists
  BY <1>1 DEF LudoOrder
<1>6. \A j \in jobs' : j.do = "removeTable" => prizes' # <<>>
  BY <1>1 DEF LudoOrder
<1>7. LT!PrizeIsBacked'
  BY <1>1 DEF LudoOrder, LT!PrizeIsBacked
<1>8. LT!GameGoesOn'
  <2>1. ASSUME table.exists PROVE \E j \in jobs' : Carries(j)
    <3>1. CASE \E k \in new : Carries(k)
      BY <3>1
    <3>2. CASE \A j \in jobs \cap done : ~Carries(j)
      BY <1>1, <2>1, <3>2 DEF LudoOrder, LT!GameGoesOn, Carries
    <3> QED BY <2>1, <3>1, <3>2
  <2> QED BY <2>1 DEF LT!GameGoesOn, Carries
<1>9. Discarding'
  BY <1>1 DEF LudoOrder, Discarding
<1> QED BY <1>2, <1>3, <1>4, <1>5, <1>6, <1>7, <1>8, <1>9 DEF LudoInv, LudoOrder

(* A game is settled.                                                       *)
LEMMA SettleKeeps ==
  ASSUME LudoAssumption, LudoTyped, slips = {} => LudoOrder, slips = {},
         NEW winners \in SUBSET players, LT!Settle(winners),
         UNCHANGED <<kind, players, fees>>, active' \in SUBSET players, moves' \in Nat,
         table' = table \/ table' = LT!NoTable,
         \A j \in jobs : j.do # "startGame",
         NEW new \in SUBSET LudoJobs, \A k \in new : k.do = "removeTable" /\ k.ahead = 0,
         \A k \in jobs' : k \in jobs \union new,
         \A k \in jobs' : k.ahead > 0 => table'.exists,
         table'.exists => \E k \in jobs' : Carries(k),
         kind = "tournament" \/ (fees = players /\ (table'.exists => table.started)),
         kind = "tournament" \/ \A k \in jobs' : k.do = "discardGame" => table'.exists
  PROVE  LudoInv'
<1>1. LudoOrder
  OBVIOUS
<1>2. IsLudoTable(table')
  BY NoLudoTable DEF LudoTyped
<1>3. LudoTyped'
  <2>1. jobs' \in SUBSET LudoJobs
    BY DEF LudoTyped
  <2>2. prizes' \in Seq(SUBSET players) /\ document' = "completed"
    <3>1. prizes \in Seq(SUBSET players) /\ prizes' = Append(prizes, winners) /\ document' = "completed"
      BY DEF LudoTyped, LT!Settle
    <3> QED BY <3>1, AppendProperties
  <2>3. slips' \subseteq {"not debited", "begun unready", "win lost", "ended twice", "half started"}
    BY DEF LT!Settle
  <2>4. fees' \in {{}, players}
    BY DEF LudoTyped
  <2> QED BY <1>2, <2>1, <2>2, <2>3, <2>4, LudoTypedNext
<1>4. ASSUME slips' = {} PROVE LudoOrder'
  <2>1. prizes = <<>>
    BY <1>4 DEF LT!Settle
  <2>2. document' = "completed" /\ Len(prizes') = 1 /\ prizes' # <<>>
    <3>1. prizes \in Seq(SUBSET players) /\ prizes' = Append(prizes, winners) /\ document' = "completed"
      BY DEF LudoTyped, LT!Settle
    <3>2. Len(prizes) = 0 /\ Len(prizes') = Len(prizes) + 1
      BY <2>1, <3>1, AppendProperties, EmptySeq
    <3>3. Len(<<>>) = 0
      BY EmptySeq
    <3> QED BY <3>1, <3>2, <3>3
  <2>3. StartsAlone'
    BY StartedStays
  <2>4. FeesAreTaken'
    <3>1. CASE kind = "tournament"
      BY <1>1, <3>1 DEF LudoOrder, FeesAreTaken
    <3>2. CASE kind # "tournament"
      <4>1. table'.exists => table' = table /\ table.started
        BY <3>2, NoLudoTable
      <4>2. fees' = players' /\ \A j \in jobs' : j.do # "roundEnded"
        BY <1>1, <3>2 DEF LudoOrder, FeesAreTaken
      <4>3. \A j \in jobs' : j.do # "discardGame"
        BY <1>1, <3>2, <4>1 DEF LudoOrder, FeesAreTaken
      <4> QED BY <3>2, <4>1, <4>2, <4>3 DEF FeesAreTaken
    <3> QED BY <3>1, <3>2
  <2>5. LT!PrizeIsBacked'
    BY <2>2, <1>1 DEF LT!PrizeIsBacked
  <2>6. LT!GameGoesOn'
    BY DEF LT!GameGoesOn, Carries
  <2>7. table'.exists => InPlay(table)'
    BY <1>1, SamePlayers, NoLudoTable DEF LudoOrder
  <2>8. Discarding'
    <3>1. fees # {} \/ kind = "tournament"
      BY LudoSeats
    <3>2. \A j \in jobs : j.do \notin LudoDiscarding
      BY <1>1, <3>1, NotDiscarded
    <3>3. \A j \in jobs' : j.do \notin LudoDiscarding
      BY <3>2 DEF LudoDiscarding
    <3> QED BY <3>3, DiscardedStays
  <2> QED BY <2>2, <2>3, <2>4, <2>5, <2>6, <2>7, <2>8 DEF LudoOrder
<1> QED BY <1>3, <1>4 DEF LudoInv

(* A game that nobody has paid for is discarded.                            *)
LEMMA DiscardedKeeps ==
  ASSUME LudoAssumption, LudoTyped, slips = {} => LudoOrder, slips = {},
         kind # "tournament", table.exists, ~table.started,
         table' = LT!NoTable, UNCHANGED <<kind, players, fees, prizes, slips>>,
         document' \in {document, "gameDiscarded"}, active' \in SUBSET players, moves' \in Nat,
         NEW new \in SUBSET LudoJobs, \A k \in new : k.do \in LudoDiscarding,
         \A k \in jobs' : (k \in jobs /\ k.ahead = 0) \/ k \in new
  PROVE  LudoInv'
<1>1. LudoOrder /\ FeesAreTaken
  BY DEF LudoOrder
<1>2. ~table'.exists /\ \A k \in new : k.ahead = 0
  BY NoLudoTable DEF LudoJobs, LudoInTheTurn, LudoDiscarding
<1>3. LudoTyped'
  <2>1. jobs' \in SUBSET LudoJobs
    BY DEF LudoTyped
  <2> QED BY <2>1, NoLudoTable, LudoTypedNext DEF LudoTyped
<1>4. prizes = <<>> /\ fees = {} /\ \A j \in jobs : j.do \notin LudoEnding \union {"endGame"}
  BY <1>1 DEF FeesAreTaken
<1>5. \A j \in jobs' : j.do # "startGame" /\ j.do # "discardGame" /\ j.do # "roundEnded"
  <2>1. \A j \in jobs : j.do = "discardGame" => j.ahead = 1
    BY DEF LudoTyped, LudoJobs, LudoInTheTurn
  <2>2. \A j \in jobs : j.do # "startGame" /\ j.do # "roundEnded"
    BY <1>1, BegunAtATable DEF FeesAreTaken
  <2> QED BY <2>1, <2>2 DEF LudoDiscarding
<1>6. StartsAlone'
  BY <1>5, StartedStays
<1>7. \A j \in jobs' : j.do \notin LudoEnding \union {"endGame"}
  BY <1>4 DEF LudoEnding, LudoDiscarding
<1>8. FeesAreTaken'
  BY <1>2, <1>4, <1>5, <1>7 DEF FeesAreTaken
<1>9. LT!PrizeIsBacked'
  BY <1>1, <1>2, <1>4 DEF LudoOrder, LT!PrizeIsBacked
<1>10. LT!GameGoesOn' /\ Discarding'
  BY <1>2, <1>4 DEF LT!GameGoesOn, Discarding
<1>11. \A j \in jobs' : /\ j.ahead > 0 => table'.exists
                        /\ j.do # "removeTable"
  BY <1>2, <1>7 DEF LudoEnding
<1> QED BY <1>2, <1>3, <1>6, <1>8, <1>9, <1>10, <1>11 DEF LudoInv, LudoOrder

LEMMA DiscardKeeps ==
  ASSUME LudoAssumption, LudoTyped, slips = {} => LudoOrder, slips = {},
         kind # "tournament", table.exists, ~table.started,
         NEW done, LT!DiscardGame(done), moves' \in Nat, UNCHANGED slips
  PROVE  LudoInv'
<1>1. /\ table' = LT!NoTable /\ jobs' = {j \in jobs \ done : j.ahead = 0}
      /\ active' = {} /\ document' = "gameDiscarded" /\ UNCHANGED <<kind, players, fees, prizes>>
  BY DEF LT!DiscardGame, LT!Removed, LT!Game, LT!Money
<1>2. /\ {} \in SUBSET LudoJobs /\ \A k \in {} : k.do \in LudoDiscarding
      /\ \A k \in jobs' : (k \in jobs /\ k.ahead = 0) \/ k \in {}
      /\ active' \in SUBSET players
  BY <1>1
<1> QED BY <1>1, <1>2, DiscardedKeeps

LEMMA EndGameKeeps ==
  ASSUME LudoAssumption, LudoTyped, slips = {} => LudoOrder, slips = {}, table.exists,
         NEW t, t.started = table.started, NEW winners \in SUBSET players, NEW leavers, NEW done,
         LT!EndGame(t, winners, leavers, done), moves' \in Nat
  PROVE  LudoInv'
<1>1. CASE kind # "tournament" /\ ~t.started
  BY <1>1, DiscardKeeps DEF LT!EndGame
<1>2. CASE ~(kind # "tournament" /\ ~t.started)
  <2>1. /\ LT!Settle(winners) /\ table' = LT!NoTable /\ jobs' = {j \in jobs \ done : j.ahead = 0}
        /\ active' = active \ (LT!Remaining(t) \union leavers) /\ UNCHANGED <<kind, players, fees>>
    BY <1>2 DEF LT!EndGame, LT!Removed, LT!Game
  <2>2. LudoOrder /\ FeesAreTaken /\ \A j \in jobs : j.do # "startGame"
    BY BegunAtATable DEF LudoOrder
  <2>3. ~table'.exists
    BY <2>1, NoLudoTable
  <2>4. kind = "tournament" \/ fees = players
    BY <1>2, <2>2 DEF FeesAreTaken
  <2>5. \A k \in jobs' : k \in jobs /\ ~(k.ahead > 0)
    BY <2>1
  <2>6. \A k \in jobs' : k.do # "discardGame"
    BY <2>1 DEF LudoTyped, LudoJobs, LudoInTheTurn
  <2>7. active' \in SUBSET players
    BY <2>1 DEF LudoTyped
  <2>8. /\ {} \in SUBSET LudoJobs /\ \A k \in {} : k.do = "removeTable" /\ k.ahead = 0
        /\ \A k \in jobs' : k \in jobs \union {}
    BY <2>5
  <2>9. /\ \A k \in jobs' : k.ahead > 0 => table'.exists
        /\ table'.exists => \E k \in jobs' : Carries(k)
        /\ kind = "tournament" \/ (fees = players /\ (table'.exists => table.started))
        /\ kind = "tournament" \/ \A k \in jobs' : k.do = "discardGame" => table'.exists
    BY <2>3, <2>4, <2>5, <2>6
  <2> QED BY <2>1, <2>2, <2>7, <2>8, <2>9, SettleKeeps
<1> QED BY <1>1, <1>2

LEMMA LudoSkipKeeps ==
  ASSUME LudoAssumption, LudoTyped, slips = {} => LudoOrder, slips = {}, table.exists,
         NEW done, LT!SkipTurn(done), moves' \in Nat
  PROVE  LudoInv'
<1> DEFINE s == table.turn
           t == [table EXCEPT !.lives[s] = @ - 1, !.started = TRUE]
           gone == [t EXCEPT !.left = @ \union {s}]
           ended == [gone EXCEPT !.started = table.started]
<1>0. 1 \in 0..2 /\ 1 > 0 /\ 2 \in 0..2 /\ 2 > 0
  OBVIOUS
<1>1. LudoOrder /\ InPlay(table)
  BY DEF LudoOrder
<1>2. /\ table \in LudoTables /\ table.lives \in [players -> -1..Lives] /\ table.turn \in LT!Remaining(table)
      /\ s \in players /\ table.lives[s] >= 0 /\ table.lives[s] - 1 \in -1..Lives /\ Lives \in Nat
  <2>1. /\ table \in LudoTables /\ table.lives \in [players -> -1..Lives]
        /\ table.turn \in LT!Remaining(table) /\ s \in players /\ table.lives[s] >= 0
    BY <1>1 DEF InPlay, Seated, IsLudoTable, LT!Remaining
  <2>2. table.lives[s] \in -1..Lives /\ Lives \in Nat
    BY <2>1 DEF LudoAssumption
  <2> QED BY <2>1, <2>2
<1>3. /\ t.left = table.left /\ t.barred = table.barred /\ t.got6 = table.got6 /\ t.turn = s
      /\ t.exists = table.exists /\ t.started = TRUE /\ t.dice = table.dice
      /\ t.lives = [table.lives EXCEPT ![s] = @ - 1] /\ t.lives \in [players -> -1..Lives]
      /\ t \in LudoTables
  BY <1>2 DEF LudoTables
<1>4. /\ LT!SkipTurn(done) <=>
           IF t.lives[s] >= 0
           THEN LT!Turn(LT!TurnOver(t), done) /\ UNCHANGED <<LT!Game, document, active, LT!Money>>
           ELSE IF LT!Cardinality(LT!Remaining(gone)) = 1 THEN LT!EndGame(ended, LT!Remaining(gone), {s}, done)
           ELSE /\ LT!Write(LT!TurnOver(gone), 2, done, {LT!SkipTimer})
                /\ LT!Overtaken(2)
                /\ active' = active \ {s}
                /\ UNCHANGED <<LT!Game, document, LT!Money>>
  BY DEF LT!SkipTurn
<1> HIDE DEF t
<1>5. LT!Remaining(t) = LT!Remaining(table)
  BY <1>3 DEF LT!Remaining
<1>6. IsLudoTable(t) /\ t.exists /\ t.barred \subseteq t.got6
  BY <1>1, <1>3 DEF InPlay, Seated, IsLudoTable
<1>7. \A r \in LT!Remaining(t) \ {s} : r \in players /\ t.lives[r] = table.lives[r] /\ t.lives[r] >= 0
  BY <1>1, <1>2, <1>3, <1>5 DEF InPlay, Seated, LT!Remaining
<1>8. /\ gone.left = t.left \union {s} /\ gone.started = TRUE /\ ended.started = table.started
  BY <1>3 DEF LudoTables
<1>9. LT!Remaining(gone) = LT!Remaining(t) \ {s} /\ LT!Remaining(gone) \in SUBSET players
  BY <1>8 DEF LT!Remaining
<1>10. ASSUME NEW n, LT!Overtaken(n)
       PROVE  /\ slips' \subseteq {"not debited", "begun unready", "win lost", "ended twice", "half started"}
              /\ slips' = {} => kind = "tournament" \/ table.started
  BY <1>10 DEF LT!Overtaken
<1>11. CASE t.lives[s] >= 0
  <2>1. LT!Turn(LT!TurnOver(t), done) /\ UNCHANGED <<kind, players, document, active, fees, prizes>>
    BY <1>4, <1>11 DEF LT!Game, LT!Money
  <2>2. LT!Write(LT!TurnOver(t), 1, done, {LT!SkipTimer}) /\ LT!Overtaken(1)
    BY <2>1 DEF LT!Turn
  <2>3. \A r \in LT!Remaining(t) : t.lives[r] >= 0
    BY <1>7, <1>11
  <2>4. Seated(t)
    BY <1>1, <1>5, <1>6, <2>3 DEF InPlay, Seated
  <2>5. InPlay(LT!TurnOver(t)) /\ LT!TurnOver(t).started
    BY <1>3, <2>4, TurnOverInPlay
  <2>6. active' \in SUBSET players
    BY <2>1 DEF LudoTyped
  <2> HIDE DEF s
  <2> QED BY <1>0, <1>10, <2>1, <2>2, <2>5, <2>6, TurnKeeps
<1>12. CASE ~(t.lives[s] >= 0) /\ LT!Cardinality(LT!Remaining(gone)) = 1
  <2>1. LT!EndGame(ended, LT!Remaining(gone), {s}, done)
    BY <1>4, <1>12
  <2> HIDE DEF gone, ended
  <2> QED BY <1>8, <1>9, <2>1, EndGameKeeps
<1>13. CASE ~(t.lives[s] >= 0) /\ LT!Cardinality(LT!Remaining(gone)) # 1
  <2>1. /\ LT!Write(LT!TurnOver(gone), 2, done, {LT!SkipTimer}) /\ LT!Overtaken(2)
        /\ active' = active \ {s} /\ UNCHANGED <<kind, players, document, fees, prizes>>
    BY <1>4, <1>13 DEF LT!Game, LT!Money
  <2>2. s \in LT!Remaining(t) /\ \E r \in LT!Remaining(t) : r # s
    BY <1>1, <1>2, <1>5 DEF InPlay, Seated
  <2>3. LT!Cardinality(LT!Remaining(t) \ {s}) # 1
    BY <1>9, <1>13
  <2> HIDE DEF s
  <2>4. Seated(gone)
    BY <1>6, <1>7, <2>2, <2>3, LeftSeated
  <2> HIDE DEF gone, ended
  <2>5. InPlay(LT!TurnOver(gone)) /\ LT!TurnOver(gone).started
    BY <1>8, <2>4, TurnOverInPlay
  <2>6. active' \in SUBSET players
    BY <2>1 DEF LudoTyped
  <2> QED BY <1>0, <1>10, <2>1, <2>5, <2>6, TurnKeeps
<1> QED BY <1>4, <1>11, <1>12, <1>13

LEMMA LeaveKeeps ==
  ASSUME LudoAssumption, LudoTyped, slips = {} => LudoOrder, slips = {}, NEW s, LT!LeaveTable(s)
  PROVE  LudoInv'
<1> DEFINE t == [table EXCEPT !.left = @ \union {s}]
           p == [LT!Passed(t) EXCEPT !.started = TRUE]
<1>1. LudoOrder /\ InPlay(table) /\ table.exists /\ s \in LT!Remaining(table) /\ moves' \in Nat
  BY DEF LudoOrder, LT!LeaveTable, LT!Received, LudoTyped
<1>2. table \in LudoTables /\ s \in players
  BY <1>1 DEF InPlay, Seated, IsLudoTable, LT!Remaining
<1>3. /\ t.left = table.left \union {s} /\ t.turn = table.turn /\ t.action = table.action
      /\ t.started = table.started /\ t.exists = table.exists
  BY <1>2 DEF LudoTables
<1>4. LT!Remaining(t) = LT!Remaining(table) \ {s} /\ LT!Remaining(t) \in SUBSET players
  BY <1>3 DEF LT!Remaining
<1>5. CASE LT!Cardinality(LT!Remaining(t)) = 1
  <2>1. LT!EndGame(t, LT!Remaining(t), {s}, {})
    BY <1>5 DEF LT!LeaveTable
  <2> HIDE DEF t
  <2> QED BY <1>1, <1>3, <1>4, <2>1, EndGameKeeps
<1>6. CASE LT!Cardinality(LT!Remaining(t)) # 1
  <2>1. /\ IF s = table.turn THEN LT!Write(p, 1, {}, {LT!SkipTimer}) /\ LT!Overtaken(1)
           ELSE LT!Write(t, 0, {}, {}) /\ UNCHANGED slips
        /\ active' = active \ {s}
        /\ UNCHANGED <<kind, players, document, fees, prizes>>
    BY <1>6 DEF LT!LeaveTable, LT!Game, LT!Money
  <2>2. Seated(t)
    <3>1. \E r \in LT!Remaining(table) : r # s
      BY <1>1 DEF InPlay, Seated
    <3>2. LT!Cardinality(LT!Remaining(table) \ {s}) # 1
      BY <1>4, <1>6
    <3> QED BY <1>1, <3>1, <3>2, LeftSeated DEF InPlay, Seated
  <2>3. active' \in SUBSET players
    BY <2>1 DEF LudoTyped
  <2> HIDE DEF t
  <2>4. CASE s = table.turn
    <3>1. InPlay(LT!Passed(t))
      BY <2>2, PassedInPlay
    <3>2. InPlay(p) /\ p.started
      <4> DEFINE q == LT!Passed(t)
      <4>1. q \in LudoTables /\ q.exists /\ InPlay(q)
        BY <3>1 DEF InPlay, Seated, IsLudoTable
      <4> HIDE DEF q
      <4>2. /\ [q EXCEPT !.started = TRUE] \in LudoTables /\ [q EXCEPT !.started = TRUE].started
            /\ [q EXCEPT !.started = TRUE].left = q.left /\ [q EXCEPT !.started = TRUE].lives = q.lives
            /\ [q EXCEPT !.started = TRUE].barred = q.barred /\ [q EXCEPT !.started = TRUE].got6 = q.got6
            /\ [q EXCEPT !.started = TRUE].exists /\ [q EXCEPT !.started = TRUE].turn = q.turn
            /\ [q EXCEPT !.started = TRUE].dice = q.dice
        BY <4>1 DEF LudoTables
      <4>3. LT!Remaining([q EXCEPT !.started = TRUE]) = LT!Remaining(q)
        BY <4>2 DEF LT!Remaining
      <4>4. InPlay([q EXCEPT !.started = TRUE])
        BY <4>1, <4>2, <4>3 DEF InPlay, Seated, IsLudoTable
      <4> QED BY <4>2, <4>4 DEF q
    <3>3. LT!Write(p, 1, {}, {LT!SkipTimer}) /\ LT!Overtaken(1)
      BY <2>1, <2>4
    <3>4. /\ slips' \subseteq {"not debited", "begun unready", "win lost", "ended twice", "half started"}
          /\ slips' = {} => kind = "tournament" \/ table.started
      BY <3>3 DEF LT!Overtaken
    <3> HIDE DEF p
    <3>5. 1 \in 0..2 /\ 1 > 0
      OBVIOUS
    <3> QED BY <1>1, <2>1, <2>3, <3>2, <3>3, <3>4, <3>5, TurnKeeps
  <2>5. CASE s # table.turn
    <3>1. LT!Write(t, 0, {}, {}) /\ slips' = slips
      BY <2>1, <2>5
    <3>2. InPlay(t)
      BY <1>1, <1>3, <1>4, <2>2, <2>5 DEF InPlay
    <3>3. jobs \in SUBSET LudoJobs /\ jobs \ {} = jobs
      BY DEF LudoTyped
    <3>4. LT!Counted(jobs, 0) = jobs
      BY <3>3, CountedJobs
    <3>5. jobs' = (jobs \ {}) \union {} /\ table' = t
      BY <3>1, <3>3, <3>4 DEF LT!Write
    <3>6. InPlay(table)' /\ IsLudoTable(table') /\ table'.exists
      BY <2>1, <3>2, <3>5, SamePlayers DEF InPlay, Seated
    <3>7. table'.exists = table.exists /\ table'.started = table.started /\ table'.action = table.action
      BY <1>3, <3>5
    <3>8. \A j \in jobs : j.do # "startGame"
      BY <1>1, BegunAtATable
    <3>9. \A j \in jobs \cap {} : ~Carries(j)
      OBVIOUS
    <3> QED BY <1>1, <2>1, <2>3, <3>1, <3>5, <3>6, <3>7, <3>8, <3>9, LookKeeps
  <2> QED BY <2>4, <2>5
<1> QED BY <1>5, <1>6

LEMMA LudoStartKeeps ==
  ASSUME LudoAssumption, LudoTyped, slips = {} => LudoOrder, slips = {}, NEW j \in jobs,
         LT!StartGame(j)
  PROVE  LudoInv'
<1>1. /\ LudoOrder /\ jobs = {j} /\ j.do = "startGame" /\ ~table.exists /\ document = "none"
      /\ prizes = <<>> /\ fees = {} /\ moves \in Nat
  BY DEF LudoOrder, StartsAlone, LT!StartGame, LT!Due, LudoTyped
<1>2. UNCHANGED <<kind, players, fees, prizes, moves>> /\ active' \in SUBSET players
  BY DEF LT!StartGame, LT!Game, LT!Money, LudoTyped
<1> DEFINE timer == IF kind = "tournament" THEN LT!Timer("rollDice", 1, StartTimeout)
                    ELSE LT!Timer("discardGame", 1, StartTimeout)
           limit == LT!Timer("scheduledEnd", 0, Duration)
<1>3. /\ timer \in LudoJobs /\ timer.ahead = 1
      /\ timer.do = IF kind = "tournament" THEN "rollDice" ELSE "discardGame"
      /\ limit \in LudoJobs /\ limit.ahead = 0 /\ limit.do = "scheduledEnd"
  BY FreshLudoJobs DEF LudoAssumption, LudoInTheTurn
<1>4. CASE table' # table \/ jobs' # {}
  <2>1. /\ table' = LT!InitialTable(players) /\ document' = "started" /\ slips' = slips
        /\ jobs' = {timer} \union {limit : k \in {kind} \ {"quick"}}
    BY <1>1, <1>4 DEF LT!StartGame, LT!Look
  <2> HIDE DEF timer, limit
  <2>2. jobs' \in SUBSET {timer, limit} /\ timer \in jobs'
    BY <2>1
  <2>4. /\ <<>> \in Seq(BOOLEAN) /\ Len(<<>>) = 0 /\ 0 <= MaxDice /\ 0 \in 0..MaxDice /\ 1 \in players
        /\ [s \in players |-> Lives] \in [players -> -1..Lives] /\ Lives >= 0 /\ 1 # 2 /\ 2 \in players
    BY LudoSeats DEF LudoAssumption
  <2> DEFINE l == [s \in players |-> Lives]
             t == [LT!NoTable EXCEPT !.exists = TRUE, !.lives = l]
  <2>3. LT!InitialTable(players) = t
    BY DEF LT!InitialTable
  <2>5. \A s \in players : l[s] = Lives
    OBVIOUS
  <2> HIDE DEF l
  <2>6. /\ t.exists /\ ~t.started /\ t.turn = 1 /\ t.dice = <<>> /\ t.lives = l
        /\ t.barred = {} /\ t.got6 = {} /\ t.action = "rollDice" /\ t.left = {}
    BY DEF LT!NoTable
  <2>18. t \in LudoTables /\ l \in [players -> -1..Lives]
    BY <2>4, NoLudoTable DEF LudoTables, l
  <2> HIDE DEF t
  <2>19. LT!Remaining(t) = players
    BY <2>6 DEF LT!Remaining
  <2>7. \A s \in LT!Remaining(t) : t.lives[s] >= 0
    BY <2>4, <2>5, <2>6, <2>19
  <2>8. \E a, b \in LT!Remaining(t) : a # b
    BY <2>4, <2>19
  <2>9. InPlay(t) /\ IsLudoTable(t)
    BY <2>4, <2>6, <2>18, <2>7, <2>8, <2>19 DEF InPlay, Seated, IsLudoTable
  <2>10. table' = t
    BY <2>1, <2>3
  <2>11. LudoTyped'
    <3>1. jobs' \in SUBSET LudoJobs
      BY <1>3, <2>2
    <3> QED BY <1>2, <2>1, <2>9, <2>10, <3>1, LudoTypedNext DEF LudoTyped
  <2>12. \A k \in jobs' : /\ k.do \in {"rollDice", "discardGame", "scheduledEnd"}
                          /\ k.do = "discardGame" => kind # "tournament"
    BY <1>3, <2>2
  <2>13. StartsAlone'
    BY <2>12, StartedStays
  <2>14. FeesAreTaken'
    BY <1>1, <1>2, <2>6, <2>10, <2>12 DEF FeesAreTaken, LudoEnding
  <2>15. LT!PrizeIsBacked'
    BY <1>1, <1>2, <2>1 DEF LT!PrizeIsBacked
  <2>16. LT!GameGoesOn'
    BY <1>3, <2>2 DEF LT!GameGoesOn
  <2>17. InPlay(table)' /\ table'.exists
    BY <1>2, <2>6, <2>9, <2>10, SamePlayers
  <2>20. Discarding'
    BY <2>12, DiscardedStays DEF LudoDiscarding
  <2> QED BY <2>11, <2>12, <2>13, <2>14, <2>15, <2>16, <2>17, <2>20 DEF LudoInv, LudoOrder
<1>5. CASE table' = table /\ jobs' = {}
  <2>1. /\ document' \in {"none", "started", "gameDiscarded"}
        /\ slips' \subseteq {"not debited", "begun unready", "win lost", "ended twice", "half started"}
    BY <1>5, <1>3 DEF LT!StartGame, LudoTyped
  <2>2. LudoTyped'
    BY <1>2, <1>5, <2>1, LudoTypedNext DEF LudoTyped
  <2>3. StartsAlone'
    BY <1>5, StartedStays
  <2>4. FeesAreTaken'
    BY <1>1, <1>2, <1>5 DEF FeesAreTaken
  <2>5. LT!PrizeIsBacked'
    BY <1>1, <1>2, <2>1 DEF LT!PrizeIsBacked
  <2>6. LT!GameGoesOn'
    BY <1>1, <1>5 DEF LT!GameGoesOn
  <2>7. Discarding'
    BY <1>5, DiscardedStays
  <2> QED BY <1>1, <1>5, <2>2, <2>3, <2>4, <2>5, <2>6, <2>7 DEF LudoInv, LudoOrder
<1> QED BY <1>4, <1>5

LEMMA DiscardTimerKeeps ==
  ASSUME LudoAssumption, LudoTyped, slips = {} => LudoOrder, slips = {}, NEW j \in jobs,
         LT!DiscardTimer(j)
  PROVE  LudoInv'
<1> DEFINE call == LT!Call("discardPointers", {})
<1>1. /\ j.do = "discardGame" /\ table' = LT!NoTable
      /\ jobs' = {k \in jobs \ {j} : k.ahead = 0} \union {call}
      /\ UNCHANGED <<kind, players, document, active, fees, prizes, moves, slips>>
  BY DEF LT!DiscardTimer, LT!Due, LT!Quiet, LT!Game, LT!Money
<1>2. kind # "tournament" /\ table.exists /\ ~table.started
  BY <1>1 DEF LudoOrder, FeesAreTaken
<1>3. call \in LudoJobs /\ call.do \in LudoDiscarding
  BY FreshCalls DEF LudoDiscarding
<1> HIDE DEF call
<1>4. /\ {call} \in SUBSET LudoJobs /\ \A k \in {call} : k.do \in LudoDiscarding
      /\ \A k \in jobs' : (k \in jobs /\ k.ahead = 0) \/ k \in {call}
      /\ active' \in SUBSET players /\ moves' \in Nat
  BY <1>1, <1>3 DEF LudoTyped
<1> QED BY <1>1, <1>2, <1>4, DiscardedKeeps

(* Reading the table and setting a timer or beginning a call.               *)
LEMMA LudoQuietKeeps ==
  ASSUME LudoAssumption, LudoTyped, slips = {} => LudoOrder, slips = {},
         UNCHANGED <<kind, players, table, fees, prizes, slips>>,
         document' = document \/ (document' = "gameDiscarded" /\ prizes = <<>>),
         active' \in SUBSET players, moves' \in Nat,
         \A j \in jobs : j.do # "startGame",
         NEW done, NEW new \in SUBSET LudoJobs, jobs' = (jobs \ done) \union new,
         \A k \in new : /\ k.do \notin {"startGame", "removeTable", "discardGame", "roundEnded"}
                        /\ k.do \in LudoDiscarding => \E i \in jobs : i.do \in LudoDiscarding
                        /\ k.ahead > 0 => table.exists
                        /\ k.do \in {"settle", "endGame"} =>
                             kind = "tournament" \/ (fees = players /\ (table.exists => table.started)),
         table.exists => (\E k \in new : Carries(k)) \/ \A j \in jobs \cap done : ~Carries(j)
  PROVE  LudoInv'
<1>1. IsLudoTable(table') /\ (table.exists => InPlay(table)')
  BY SamePlayers DEF LudoTyped, LudoOrder
<1> QED BY <1>1, LookKeeps

LEMMA RollTimerKeeps ==
  ASSUME LudoAssumption, LudoTyped, slips = {} => LudoOrder, slips = {}, NEW j \in jobs,
         LT!RollTimer(j)
  PROVE  LudoInv'
<1>1. /\ j.do = "rollDice" /\ jobs' = (jobs \ {j}) \union {LT!SkipTimer}
      /\ UNCHANGED <<kind, players, table, document, active, fees, prizes, moves, slips>>
  BY DEF LT!RollTimer, LT!Due, LT!Look, LT!Quiet, LT!Game, LT!Money
<1>2. j.ahead > 0
  BY <1>1 DEF LudoTyped, LudoJobs, LudoInTheTurn
<1>3. table.exists /\ \A k \in jobs : k.do # "startGame"
  BY <1>2, BegunAtATable DEF LudoOrder
<1>4. /\ LT!SkipTimer \in LudoJobs /\ LT!SkipTimer.do = "skipTurn" /\ LT!SkipTimer.ahead = 1 /\ Carries(LT!SkipTimer)
      /\ {LT!SkipTimer} \in SUBSET LudoJobs
  BY FreshLudoJobs DEF Carries
<1>5. active' \in SUBSET players /\ moves' \in Nat
  BY <1>1 DEF LudoTyped
<1>6. \A k \in {LT!SkipTimer} :
        /\ k.do \notin {"startGame", "removeTable", "discardGame", "roundEnded"}
        /\ k.do \in LudoDiscarding => \E i \in jobs : i.do \in LudoDiscarding
        /\ k.ahead > 0 => table.exists
        /\ k.do \in {"settle", "endGame"} =>
             kind = "tournament" \/ (fees = players /\ (table.exists => table.started))
  BY <1>3, <1>4 DEF LudoDiscarding
<1> QED BY <1>1, <1>3, <1>4, <1>5, <1>6, LudoQuietKeeps

(* A game that ends outside a tournament has begun.                         *)
LEMMA EndHasBegun ==
  ASSUME LudoTyped, LudoOrder, NEW j \in jobs, j.do \in LudoEnding \union {"endGame"}
  PROVE  /\ kind = "tournament" \/ (fees = players /\ (table.exists => table.started))
         /\ \A k \in jobs : k.do # "startGame"
BY DEF LudoOrder, FeesAreTaken, StartsAlone, LudoEnding

LEMMA EndTimerKeeps ==
  ASSUME LudoAssumption, LudoTyped, slips = {} => LudoOrder, slips = {}, NEW j \in jobs,
         LT!EndTimer(j)
  PROVE  LudoInv'
<1> DEFINE call == [LT!Call("settle", j.seats) EXCEPT !.gone = table.left]
<1>1. /\ j.do = "endGame" /\ jobs' = (jobs \ {j}) \union {call}
      /\ UNCHANGED <<kind, players, table, document, active, fees, prizes, moves, slips>>
  BY DEF LT!EndTimer, LT!Due, LT!Look, LT!Quiet, LT!Game, LT!Money
<1>2. j.seats \in SUBSET players /\ table.left \in SUBSET players
  BY DEF LudoTyped, LudoJobs, IsLudoTable, LudoTables
<1>3. call \in LudoJobs /\ call.do = "settle" /\ call.ahead = 0
  BY <1>2, FreshCalls DEF LudoEnding
<1> HIDE DEF call
<1>4. /\ kind = "tournament" \/ (fees = players /\ (table.exists => table.started))
      /\ \A k \in jobs : k.do # "startGame"
  BY <1>1, EndHasBegun
<1>5. active' \in SUBSET players /\ moves' \in Nat
  BY <1>1 DEF LudoTyped
<1>6. \A k \in {call} :
        /\ k.do \notin {"startGame", "removeTable", "discardGame", "roundEnded"}
        /\ k.do \in LudoDiscarding => \E i \in jobs : i.do \in LudoDiscarding
        /\ k.ahead > 0 => table.exists
        /\ k.do \in {"settle", "endGame"} =>
             kind = "tournament" \/ (fees = players /\ (table.exists => table.started))
  BY <1>3, <1>4 DEF LudoDiscarding
<1>7. {call} \in SUBSET LudoJobs /\ \E k \in {call} : Carries(k)
  BY <1>3 DEF Carries
<1> QED BY <1>1, <1>4, <1>5, <1>6, <1>7, LudoQuietKeeps

LEMMA RoundEarlierKeeps ==
  ASSUME LudoAssumption, LudoTyped, slips = {} => LudoOrder, slips = {}, NEW j \in jobs,
         LT!EndSomeRoundGamesEarlier(j), table.exists
  PROVE  LudoInv'
<1>1. PICK winners \in LT!Winners(table) :
        /\ LT!Look({j}, {[LT!Call("settle", winners) EXCEPT !.gone = table.left]}) /\ LT!Quiet
  BY DEF LT!EndSomeRoundGamesEarlier
<1> DEFINE call == [LT!Call("settle", winners) EXCEPT !.gone = table.left]
<1>2. /\ kind = "tournament" /\ jobs' = (jobs \ {j}) \union {call}
      /\ UNCHANGED <<kind, players, table, document, active, fees, prizes, moves, slips>>
  BY <1>1 DEF LT!EndSomeRoundGamesEarlier, LT!Look, LT!Quiet, LT!Game, LT!Money
<1>3. winners \in SUBSET players /\ table.left \in SUBSET players
  BY DEF LT!Winners, LT!Remaining, LudoTyped, IsLudoTable, LudoTables
<1>4. call \in LudoJobs /\ call.do = "settle" /\ call.ahead = 0
  BY <1>3, FreshCalls DEF LudoEnding
<1> HIDE DEF call
<1>5. active' \in SUBSET players /\ moves' \in Nat
  BY <1>2 DEF LudoTyped
<1>6. \A k \in {call} :
        /\ k.do \notin {"startGame", "removeTable", "discardGame", "roundEnded"}
        /\ k.do \in LudoDiscarding => \E i \in jobs : i.do \in LudoDiscarding
        /\ k.ahead > 0 => table.exists
        /\ k.do \in {"settle", "endGame"} =>
             kind = "tournament" \/ (fees = players /\ (table.exists => table.started))
  BY <1>2, <1>4 DEF LudoDiscarding
<1>7. {call} \in SUBSET LudoJobs /\ (\E k \in {call} : Carries(k)) /\ \A k \in jobs : k.do # "startGame"
  BY <1>4, BegunAtATable DEF Carries
<1> QED BY <1>2, <1>5, <1>6, <1>7, LudoQuietKeeps

(* A job that finds nothing to do.                                          *)
LEMMA DropKeeps ==
  ASSUME LudoAssumption, LudoTyped, slips = {} => LudoOrder, slips = {}, NEW j \in jobs,
         jobs' = (jobs \ {j}) \union {},
         UNCHANGED <<kind, players, table, document, fees, prizes, moves, slips>>,
         active' \in SUBSET players,
         j.do # "startGame", ~table.exists \/ ~Carries(j)
  PROVE  LudoInv'
<1>1. \A k \in jobs : k.do # "startGame"
  BY DEF LudoOrder, StartsAlone
<1>2. moves' \in Nat
  BY DEF LudoTyped
<1>3. /\ \A k \in {} : /\ k.do \notin {"startGame", "removeTable", "discardGame", "roundEnded"}
                       /\ k.do \in LudoDiscarding => \E i \in jobs : i.do \in LudoDiscarding
                       /\ k.ahead > 0 => table.exists
                       /\ k.do \in {"settle", "endGame"} =>
                            kind = "tournament" \/ (fees = players /\ (table.exists => table.started))
      /\ {} \in SUBSET LudoJobs
  OBVIOUS
<1>4. table.exists => (\E k \in {} : Carries(k)) \/ \A k \in jobs \cap {j} : ~Carries(k)
  OBVIOUS
<1> QED BY <1>1, <1>2, <1>3, <1>4, LudoQuietKeeps

LEMMA DiscardPointersKeeps ==
  ASSUME LudoAssumption, LudoTyped, slips = {} => LudoOrder, slips = {}, NEW j \in jobs,
         LT!DiscardPointers(j)
  PROVE  LudoInv'
<1> DEFINE call == LT!Call("discardDocument", {})
<1>1. /\ j.do = "discardPointers" /\ jobs' = (jobs \ {j}) \union {call} /\ active' = {}
      /\ UNCHANGED <<kind, players, table, document, fees, prizes, moves, slips>>
  BY DEF LT!DiscardPointers, LT!Due, LT!Look, LT!Game, LT!Money
<1>2. call \in LudoJobs /\ call.do = "discardDocument" /\ call.ahead = 0
  BY FreshCalls DEF LudoDiscarding
<1> HIDE DEF call
<1>3. ~table.exists /\ (\A k \in jobs : k.do # "startGame") /\ active' \in SUBSET players /\ moves' \in Nat
  BY <1>1 DEF LudoOrder, StartsAlone, Discarding, LudoDiscarding, LudoTyped
<1>4. \A k \in {call} :
        /\ k.do \notin {"startGame", "removeTable", "discardGame", "roundEnded"}
        /\ k.do \in LudoDiscarding => \E i \in jobs : i.do \in LudoDiscarding
        /\ k.ahead > 0 => table.exists
        /\ k.do \in {"settle", "endGame"} =>
             kind = "tournament" \/ (fees = players /\ (table.exists => table.started))
  BY <1>1, <1>2 DEF LudoDiscarding
<1>5. {call} \in SUBSET LudoJobs
  BY <1>2
<1> QED BY <1>1, <1>3, <1>4, <1>5, LudoQuietKeeps

LEMMA DiscardDocumentKeeps ==
  ASSUME LudoAssumption, LudoTyped, slips = {} => LudoOrder, slips = {}, NEW j \in jobs,
         LT!DiscardDocument(j)
  PROVE  LudoInv'
<1>1. /\ j.do = "discardDocument" /\ jobs' = (jobs \ {j}) \union {} /\ document' = "gameDiscarded"
      /\ UNCHANGED <<kind, players, table, active, fees, prizes, moves, slips>>
  BY DEF LT!DiscardDocument, LT!Due, LT!Look, LT!Game, LT!Money
<1>2. /\ ~table.exists /\ prizes = <<>> /\ \A k \in jobs : k.do # "startGame"
      /\ active' \in SUBSET players /\ moves' \in Nat
  BY <1>1 DEF LudoOrder, StartsAlone, Discarding, LudoDiscarding, LudoTyped
<1>3. /\ \A k \in {} : /\ k.do \notin {"startGame", "removeTable", "discardGame", "roundEnded"}
                       /\ k.do \in LudoDiscarding => \E i \in jobs : i.do \in LudoDiscarding
                       /\ k.ahead > 0 => table.exists
                       /\ k.do \in {"settle", "endGame"} =>
                            kind = "tournament" \/ (fees = players /\ (table.exists => table.started))
      /\ {} \in SUBSET LudoJobs
  OBVIOUS
<1> QED BY <1>1, <1>2, <1>3, LudoQuietKeeps

LEMMA SettleCallKeeps ==
  ASSUME LudoAssumption, LudoTyped, slips = {} => LudoOrder, slips = {}, NEW j \in jobs,
         LT!SettleCall(j)
  PROVE  LudoInv'
<1>1. j.do = "settle" /\ j \in LudoJobs /\ LudoOrder /\ moves \in Nat /\ active \in SUBSET players
  BY DEF LT!SettleCall, LT!Due, LudoTyped
<1>2. CASE kind = "tournament" /\ ~table.exists
  <2>1. /\ jobs' = (jobs \ {j}) \union {} /\ active' \in SUBSET players
        /\ UNCHANGED <<kind, players, table, document, fees, prizes, moves, slips>>
    BY <1>1, <1>2 DEF LT!SettleCall, LT!Drop, LT!Look, LT!Quiet, LT!Game, LT!Money
  <2> QED BY <1>1, <1>2, <2>1, DropKeeps
<1>3. CASE ~(kind = "tournament" /\ ~table.exists)
  <2> DEFINE call == [LT!Call("removeTable", {}) EXCEPT !.gone = j.gone]
  <2>1. /\ LT!Settle(j.seats) /\ jobs' = (jobs \ {j}) \union {call}
        /\ UNCHANGED <<kind, players, table, active, fees, moves>>
    BY <1>3 DEF LT!SettleCall, LT!Look, LT!Game
  <2>2. j.seats \in SUBSET players /\ j.gone \in SUBSET players
    BY <1>1 DEF LudoJobs
  <2>3. call \in LudoJobs /\ call.do = "removeTable" /\ call.ahead = 0
    BY <2>2, FreshCalls DEF LudoEnding
  <2> HIDE DEF call
  <2>4. /\ kind = "tournament" \/ (fees = players /\ (table.exists => table.started))
        /\ \A k \in jobs : k.do # "startGame"
    BY <1>1, EndHasBegun DEF LudoEnding
  <2>5. /\ {call} \in SUBSET LudoJobs /\ \A k \in {call} : k.do = "removeTable" /\ k.ahead = 0
        /\ \A k \in jobs' : k \in jobs \union {call}
        /\ \A k \in jobs' : k.ahead > 0 => table.exists
        /\ \E k \in jobs' : Carries(k)
    BY <1>1, <2>1, <2>3 DEF LudoOrder, Carries
  <2>6. \A k \in jobs' : k.do = "discardGame" => kind = "tournament" \/ table'.exists
    BY <1>1, <2>1, <2>3 DEF LudoOrder, FeesAreTaken
  <2>7. /\ table' = table /\ active' \in SUBSET players /\ moves' \in Nat
        /\ UNCHANGED <<kind, players, fees>>
    BY <1>1, <2>1
  <2>8. /\ \A k \in jobs' : k.ahead > 0 => table'.exists
        /\ table'.exists => \E k \in jobs' : Carries(k)
        /\ kind = "tournament" \/ (fees = players /\ (table'.exists => table.started))
        /\ kind = "tournament" \/ \A k \in jobs' : k.do = "discardGame" => table'.exists
    BY <2>4, <2>5, <2>6, <2>7
  <2> QED BY <2>1, <2>2, <2>4, <2>5, <2>7, <2>8, SettleKeeps
<1> QED BY <1>2, <1>3

(* A table is removed whose prize has been paid, or whose round is over.    *)
LEMMA RemovedKeeps ==
  ASSUME LudoAssumption, LudoTyped, slips = {} => LudoOrder, slips = {},
         table' = LT!NoTable, UNCHANGED <<kind, players, document, fees, prizes, moves, slips>>,
         active' \in SUBSET players, \A k \in jobs : k.do # "startGame",
         NEW new \in SUBSET LudoJobs,
         \A k \in new : k.do = "roundEnded" /\ k.ahead = 0 /\ kind = "tournament",
         \A k \in jobs' : (k \in jobs /\ k.ahead = 0) \/ k \in new,
         kind = "tournament" \/ prizes # <<>>
  PROVE  LudoInv'
<1>1. LudoOrder /\ ~table'.exists
  BY NoLudoTable
<1>2. LudoTyped'
  <2>1. jobs' \in SUBSET LudoJobs
    BY DEF LudoTyped
  <2> QED BY <2>1, NoLudoTable, LudoTypedNext DEF LudoTyped
<1>3. StartsAlone'
  <2>1. \A k \in jobs' : k.do # "startGame"
    OBVIOUS
  <2> QED BY <2>1, StartedStays
<1>4. \A k \in jobs' : k.ahead > 0 => table'.exists
  OBVIOUS
<1>5. \A k \in jobs' : k.do # "discardGame"
  BY DEF LudoTyped, LudoJobs, LudoInTheTurn
<1>6. FeesAreTaken'
  <2>1. CASE kind = "tournament"
    BY <1>1, <1>5, <2>1 DEF LudoOrder, FeesAreTaken
  <2>2. CASE kind # "tournament"
    <3>1. \A k \in jobs' : k \in jobs
      BY <2>2
    <3>2. /\ \A k \in jobs' : k.do \in LudoEnding \union {"endGame"} => fees' = players'
          /\ \A k \in jobs' : k.do # "roundEnded"
      BY <1>1, <2>2, <3>1 DEF LudoOrder, FeesAreTaken
    <3> QED BY <1>1, <1>5, <2>2, <3>2 DEF FeesAreTaken
  <2> QED BY <2>1, <2>2
<1>7. LT!PrizeIsBacked'
  BY <1>1 DEF LudoOrder, FeesAreTaken, LT!PrizeIsBacked
<1>8. \A k \in jobs' : k.do = "removeTable" => prizes' # <<>>
  BY <1>1 DEF LudoOrder
<1>9. LT!GameGoesOn'
  BY <1>1 DEF LT!GameGoesOn
<1>10. Discarding'
  <2>1. \A k \in jobs' : k.do \in LudoDiscarding => k \in jobs
    BY DEF LudoDiscarding
  <2> QED BY <1>1, <2>1 DEF LudoOrder, Discarding
<1> QED BY <1>1, <1>2, <1>3, <1>4, <1>6, <1>7, <1>8, <1>9, <1>10 DEF LudoInv, LudoOrder

LEMMA RemoveTableKeeps ==
  ASSUME LudoAssumption, LudoTyped, slips = {} => LudoOrder, slips = {}, NEW j \in jobs,
         LT!RemoveTable(j)
  PROVE  LudoInv'
<1>1. /\ j.do = "removeTable" /\ table' = LT!NoTable /\ jobs' = {k \in jobs \ {j} : k.ahead = 0}
      /\ active' \in SUBSET players /\ UNCHANGED <<kind, players, document, fees, prizes, moves, slips>>
  BY DEF LT!RemoveTable, LT!Due, LT!Removed, LT!Game, LT!Money, LudoTyped
<1>2. prizes # <<>> /\ \A k \in jobs : k.do # "startGame"
  BY <1>1 DEF LudoOrder, StartsAlone
<1>3. /\ {} \in SUBSET LudoJobs /\ \A k \in {} : k.do = "roundEnded" /\ k.ahead = 0 /\ kind = "tournament"
      /\ \A k \in jobs' : (k \in jobs /\ k.ahead = 0) \/ k \in {}
  BY <1>1
<1> QED BY <1>1, <1>2, <1>3, RemovedKeeps

LEMMA EndRoundKeeps ==
  ASSUME LudoAssumption, LudoTyped, slips = {} => LudoOrder, slips = {}, NEW j \in jobs,
         LT!EndRound(j)
  PROVE  LudoInv'
<1>1. /\ kind = "tournament" /\ table.exists
      /\ active' \in SUBSET players /\ UNCHANGED <<kind, players, document, fees, prizes, moves, slips>>
  BY DEF LT!EndRound, LT!Game, LT!Money, LudoTyped
<1>2. PICK winners \in LT!Winners(table) :
        table' = LT!NoTable /\ jobs' = {k \in jobs \ {j} : k.ahead = 0} \union {LT!Call("roundEnded", winners)}
  BY DEF LT!EndRound
<1> DEFINE call == LT!Call("roundEnded", winners)
<1>3. winners \in SUBSET players
  BY DEF LT!Winners, LT!Remaining
<1>4. call \in LudoJobs /\ call.do = "roundEnded" /\ call.ahead = 0
  BY <1>3, FreshCalls
<1>5. table' = LT!NoTable /\ jobs' = {k \in jobs \ {j} : k.ahead = 0} \union {call}
  BY <1>2
<1> HIDE DEF call
<1>6. /\ {call} \in SUBSET LudoJobs /\ \A k \in {call} : k.do = "roundEnded" /\ k.ahead = 0 /\ kind = "tournament"
      /\ \A k \in jobs' : (k \in jobs /\ k.ahead = 0) \/ k \in {call}
  BY <1>1, <1>4, <1>5
<1>7. \A k \in jobs : k.do # "startGame"
  BY <1>1, BegunAtATable
<1> QED BY <1>1, <1>5, <1>6, <1>7, RemovedKeeps

LEMMA RoundEndedKeeps ==
  ASSUME LudoAssumption, LudoTyped, slips = {} => LudoOrder, slips = {}, NEW j \in jobs,
         LT!RoundEnded(j)
  PROVE  LudoInv'
<1>1. /\ j.do = "roundEnded" /\ LT!Settle(j.seats) /\ jobs' = jobs \ {j}
      /\ UNCHANGED <<kind, players, table, active, fees, moves>>
  BY DEF LT!RoundEnded, LT!Due, LT!Look, LT!Game
<1>2. LudoOrder /\ kind = "tournament" /\ \A k \in jobs : k.do # "startGame"
  BY <1>1 DEF LudoOrder, FeesAreTaken, StartsAlone
<1>3. j.ahead = 0 /\ j.seats \in SUBSET players
  BY <1>1 DEF LudoTyped, LudoJobs, LudoInTheTurn
<1>4. table.exists => \E k \in jobs' : Carries(k)
  BY <1>1, <1>2, <1>3 DEF LudoOrder, LT!GameGoesOn, Carries
<1>5. /\ {} \in SUBSET LudoJobs /\ \A k \in {} : k.do = "removeTable" /\ k.ahead = 0
      /\ \A k \in jobs' : k \in jobs \union {}
  BY <1>1
<1>6. \A k \in jobs' : k.ahead > 0 => table'.exists
  BY <1>1, <1>2 DEF LudoOrder
<1>7. active' \in SUBSET players /\ moves' \in Nat
  BY <1>1 DEF LudoTyped
<1> QED BY <1>1, <1>2, <1>3, <1>4, <1>5, <1>6, <1>7, SettleKeeps

LEMMA PointerKeeps ==
  ASSUME LudoAssumption, LudoTyped, slips = {} => LudoOrder, slips = {}, NEW j \in jobs,
         LT!Pointer(j)
  PROVE  LudoInv'
<1>1. /\ j.do = "pointer" /\ jobs' = (jobs \ {j}) \union {} /\ active' = active \union j.seats
      /\ UNCHANGED <<kind, players, table, document, fees, prizes, moves, slips>>
  BY DEF LT!Pointer, LT!Due, LT!Look, LT!Game, LT!Money
<1>2. j.ahead = 0 /\ j.seats \in SUBSET players /\ active \in SUBSET players
  BY <1>1 DEF LudoTyped, LudoJobs, LudoInTheTurn
<1>3. active' \in SUBSET players /\ j.do # "startGame" /\ ~Carries(j)
  BY <1>1, <1>2 DEF Carries
<1> QED BY <1>1, <1>3, DropKeeps

LEMMA ScheduledEndKeeps ==
  ASSUME LudoAssumption, LudoTyped, slips = {} => LudoOrder, slips = {}, NEW j \in jobs,
         LT!ScheduledEnd(j) \/ LT!EndSomeRoundGamesEarlier(j)
  PROVE  LudoInv'
<1>1. j.do = "scheduledEnd"
  BY DEF LT!ScheduledEnd, LT!EndSomeRoundGamesEarlier, LT!Due
<1>2. CASE ~table.exists
  <2>1. /\ jobs' = (jobs \ {j}) \union {} /\ active' = active
        /\ UNCHANGED <<kind, players, table, document, fees, prizes, moves, slips>>
    BY <1>2 DEF LT!ScheduledEnd, LT!EndSomeRoundGamesEarlier, LT!Drop, LT!Look, LT!Quiet,
       LT!Game, LT!Money
  <2>2. active' \in SUBSET players /\ j.do # "startGame"
    BY <1>1, <2>1 DEF LudoTyped
  <2> QED BY <1>2, <2>1, <2>2, DropKeeps
<1>3. CASE table.exists /\ LT!ScheduledEnd(j)
  <2>1. PICK winners \in LT!Winners(table) : LT!EndGame(table, winners, {}, {j}) /\ UNCHANGED moves
    BY <1>3 DEF LT!ScheduledEnd
  <2>2. winners \in SUBSET players /\ moves' \in Nat
    BY <2>1 DEF LT!Winners, LT!Remaining, LudoTyped
  <2> QED BY <1>3, <2>1, <2>2, EndGameKeeps
<1>4. CASE table.exists /\ LT!EndSomeRoundGamesEarlier(j)
  BY <1>4, RoundEarlierKeeps
<1> QED BY <1>2, <1>3, <1>4

-----------------------------------------------------------------------------
LEMMA LudoMovesLeft == ASSUME LudoTyped, LT!Received PROVE moves' \in Nat
<1>1. moves \in Nat
  BY DEF LudoTyped
<1> QED BY <1>1 DEF LT!Received

LEMMA ReadyKeeps ==
  ASSUME LudoAssumption, LudoTyped, slips = {} => LudoOrder, slips = {}, NEW s, LT!ReadyToStart(s)
  PROVE  LudoInv'
<1> DEFINE t == [table EXCEPT !.ready = @ \union {s}]
           begun == [t EXCEPT !.started = TRUE]
           pointer == LT!Call("pointer", {s})
<1>1. /\ s \in players /\ document # "none" /\ moves' \in Nat /\ LudoOrder
      /\ UNCHANGED <<kind, players, document, active, prizes>>
  <2>1. LT!Received /\ s \in players /\ document # "none" /\ UNCHANGED <<LT!Game, document, active, prizes>>
    BY DEF LT!ReadyToStart
  <2> QED BY <2>1, LudoMovesLeft DEF LT!Game
<1>2. \A j \in jobs : j.do # "startGame"
  BY <1>1 DEF LudoOrder, StartsAlone
<1>3. active' \in SUBSET players
  BY <1>1 DEF LudoTyped
<1>4. pointer \in LudoJobs /\ pointer.do = "pointer" /\ pointer.ahead = 0
  BY <1>1, FreshCalls
<1>5. /\ \A k \in {pointer} :
           /\ k.do \notin {"startGame", "removeTable", "discardGame", "roundEnded"}
           /\ k.do \in LudoDiscarding => \E i \in jobs : i.do \in LudoDiscarding
           /\ k.ahead > 0 => table.exists
           /\ k.do \in {"settle", "endGame"} =>
                kind = "tournament" \/ (fees = players /\ (table.exists => table.started))
      /\ {pointer} \in SUBSET LudoJobs
      /\ \A j \in jobs \cap {} : ~Carries(j)
  BY <1>4 DEF LudoDiscarding
<1>6. CASE ~table.exists \/ kind = "tournament" \/ table.started
  <2>1. jobs' = (jobs \ {}) \union {pointer} /\ UNCHANGED <<table, fees, slips>>
    BY <1>6 DEF LT!ReadyToStart, LT!Look
  <2> HIDE DEF pointer
  <2> QED BY <1>1, <1>2, <1>3, <1>5, <2>1, LudoQuietKeeps
<1>7. CASE ~(~table.exists \/ kind = "tournament" \/ table.started)
  <2>1. InPlay(table) /\ table \in LudoTables /\ table.exists /\ ~table.started /\ kind # "tournament"
    BY <1>1, <1>7 DEF LudoOrder, LudoTyped, IsLudoTable
  <2>2. /\ t \in LudoTables /\ t.exists /\ ~t.started /\ t.left = table.left /\ t.lives = table.lives
        /\ t.turn = table.turn /\ t.action = table.action /\ t.dice = table.dice
        /\ t.barred = table.barred /\ t.got6 = table.got6
    BY <1>1, <2>1 DEF LudoTables
  <2>10. t.exists = table.exists /\ t.started = table.started
    BY <1>1, <2>1 DEF LudoTables
  <2>3. /\ begun \in LudoTables /\ begun.exists /\ begun.started /\ begun.left = table.left
        /\ begun.lives = table.lives /\ begun.turn = table.turn /\ begun.dice = table.dice
        /\ begun.barred = table.barred /\ begun.got6 = table.got6
    BY <1>1, <2>1 DEF LudoTables
  <2>4. /\ IF t.ready # players
           THEN LT!Write(t, 0, {}, {pointer}) /\ UNCHANGED <<fees, slips>>
           ELSE \/ /\ LT!Write(begun, 1, {}, {pointer, LT!SkipTimer})
                   /\ fees' = players
                   /\ UNCHANGED slips
                \/ /\ LT!Write(begun, 1, {}, {LT!SkipTimer})
                   /\ slips' = slips \union {"not debited"}
                   /\ UNCHANGED fees
    BY <1>7 DEF LT!ReadyToStart
  <2> HIDE DEF t, begun, pointer
  <2>5. LT!Remaining(t) = LT!Remaining(table) /\ LT!Remaining(begun) = LT!Remaining(table)
    BY <2>2, <2>3 DEF LT!Remaining
  <2>6. InPlay(t) /\ InPlay(begun) /\ IsLudoTable(begun)
    BY <2>1, <2>2, <2>3, <2>5 DEF InPlay, Seated, IsLudoTable
  <2>7. jobs \in SUBSET LudoJobs /\ jobs \ {} = jobs
    BY DEF LudoTyped
  <2>8. CASE t.ready # players
    <3>1. LT!Counted(jobs, 0) = jobs
      BY <2>7, CountedJobs
    <3>2. jobs' = (jobs \ {}) \union {pointer} /\ table' = t /\ UNCHANGED <<fees, slips>>
      BY <2>4, <2>7, <2>8, <3>1 DEF LT!Write
    <3>3. InPlay(table)' /\ IsLudoTable(table')
      BY <1>1, <2>6, <3>2, SamePlayers DEF InPlay, Seated
    <3>4. table'.exists = table.exists /\ table'.started = table.started /\ table'.action = table.action
      BY <2>2, <2>10, <3>2
    <3> QED BY <1>1, <1>2, <1>3, <1>5, <3>2, <3>3, <3>4, LookKeeps
  <2>9. CASE t.ready = players
    <3>1. /\ table' = begun
          /\ \/ fees' = players /\ slips' = slips /\ jobs' = LT!Counted(jobs, 1) \union {pointer, LT!SkipTimer}
             \/ fees' = fees /\ slips' = slips \union {"not debited"}
                /\ jobs' = LT!Counted(jobs, 1) \union {LT!SkipTimer}
      BY <2>4, <2>7, <2>9 DEF LT!Write
    <3>2. /\ LT!Counted(jobs, 1) \in SUBSET LudoJobs
          /\ \A k \in LT!Counted(jobs, 1) : \E j \in jobs : k.do = j.do /\ (k.ahead = 0 => j = k)
          /\ \A k \in LT!Counted(jobs, 1) : k.do \notin LudoInTheTurn
      <4>1. 1 \in 0..2 /\ 1 > 0
        OBVIOUS
      <4> QED BY <2>7, <4>1, CountedJobs
    <3>3. LT!SkipTimer \in LudoJobs /\ LT!SkipTimer.do = "skipTurn" /\ LT!SkipTimer.ahead = 1
      BY FreshLudoJobs
    <3>4. /\ LT!SkipTimer \in jobs' /\ jobs' \in SUBSET LudoJobs
          /\ \A k \in jobs' : (\E j \in jobs : k.do = j.do) \/ k.do \in {"pointer", "skipTurn"}
          /\ \A k \in jobs' : k.do # "discardGame"
      BY <1>4, <3>1, <3>2, <3>3 DEF LudoInTheTurn
    <3>5. LudoTyped'
      <4>1. /\ fees' \in {{}, players}
            /\ slips' \subseteq {"not debited", "begun unready", "win lost", "ended twice", "half started"}
        BY <3>1 DEF LudoTyped
      <4>2. IsLudoTable(table') /\ jobs' \in SUBSET LudoJobs
        BY <2>6, <3>1, <3>4
      <4>3. prizes' \in Seq(SUBSET players) /\ document' \in {"none", "started", "gameDiscarded", "completed"}
        BY <1>1 DEF LudoTyped
      <4> QED BY <1>1, <1>3, <4>1, <4>2, <4>3, LudoTypedNext
    <3>6. ASSUME slips' = {} PROVE LudoOrder'
      <4>1. fees' = players /\ players' = players
        BY <1>1, <3>1, <3>6
      <4>2. /\ prizes = <<>> /\ \A j \in jobs : j.do \notin LudoEnding \union {"endGame"} /\ j.do # "roundEnded"
        BY <1>1, <2>1 DEF LudoOrder, FeesAreTaken
      <4>3. StartsAlone'
        BY <1>2, <3>4, StartedStays
      <4>4. FeesAreTaken'
        BY <1>1, <2>1, <2>3, <3>1, <3>4, <4>1, <4>2 DEF FeesAreTaken
      <4>5. LT!PrizeIsBacked'
        BY <1>1, <2>3, <3>1, <4>1, <4>2 DEF LudoOrder, LT!PrizeIsBacked
      <4>6. LT!GameGoesOn'
        BY <3>3, <3>4 DEF LT!GameGoesOn
      <4>7. \A k \in jobs' : k.do # "removeTable"
        BY <3>4, <4>2 DEF LudoEnding
      <4>8. InPlay(table)' /\ table'.exists
        BY <1>1, <2>3, <2>6, <3>1, SamePlayers
      <4>9. Discarding'
        <5>1. \A k \in jobs : k.do \notin LudoDiscarding
          BY <1>1, <2>1, NotDiscarded
        <5>2. \A k \in jobs' : k.do \notin LudoDiscarding
          BY <3>4, <5>1 DEF LudoDiscarding
        <5> QED BY <5>2, DiscardedStays
      <4> QED BY <4>3, <4>4, <4>5, <4>6, <4>7, <4>8, <4>9 DEF LudoOrder
    <3> QED BY <3>5, <3>6 DEF LudoInv
  <2> QED BY <2>8, <2>9
<1> QED BY <1>6, <1>7

(* What a turn that was taken may have let through.                         *)
LEMMA TurnTakenKeeps ==
  ASSUME LudoAssumption, LudoTyped, slips = {} => LudoOrder, slips = {}, table.exists,
         NEW t, InPlay(t), table.started => t.started, LT!Turn(t, {}), moves' \in Nat,
         UNCHANGED <<LT!Game, document, active, LT!Money>>
  PROVE  LudoInv'
<1>1. LT!Write(t, 1, {}, {LT!SkipTimer}) /\ 1 \in 0..2 /\ 1 > 0
  BY DEF LT!Turn
<1>2. /\ slips' \subseteq {"not debited", "begun unready", "win lost", "ended twice", "half started"}
      /\ slips' = {} => kind = "tournament" \/ (table.started /\ t.started)
  BY DEF LT!Turn, LT!Overtaken
<1>3. UNCHANGED <<kind, players, document, fees, prizes>> /\ active' \in SUBSET players
  BY DEF LT!Game, LT!Money, LudoTyped
<1> QED BY <1>1, <1>2, <1>3, TurnKeeps

LEMMA LudoRollKeeps ==
  ASSUME LudoAssumption, LudoTyped, slips = {} => LudoOrder, slips = {}, NEW s, LT!RollDice(s)
  PROVE  LudoInv'
<1>1. /\ table.exists /\ Len(table.dice) < MaxDice /\ moves' \in Nat /\ InPlay(table)
      /\ UNCHANGED <<LT!Game, document, active, LT!Money>>
  BY DEF LT!RollDice, LT!OnTurn, LT!Received, LudoTyped, LudoOrder
<1>2. PICK six \in BOOLEAN, movable \in BOOLEAN : LT!Turn(LT!Rolled(table, six, movable), {})
  BY DEF LT!RollDice
<1>3. InPlay(LT!Rolled(table, six, movable)) /\ LT!Rolled(table, six, movable).started
  BY <1>1, RolledInPlay
<1> QED BY <1>1, <1>2, <1>3, TurnTakenKeeps

LEMMA LudoMoveKeeps ==
  ASSUME LudoAssumption, LudoTyped, slips = {} => LudoOrder, slips = {}, NEW s \in players,
         LT!MovePawn(s)
  PROVE  LudoInv'
<1>1. /\ table.exists /\ table.action = "movePawn" /\ moves' \in Nat /\ InPlay(table) /\ LudoOrder
      /\ UNCHANGED <<LT!Game, document, active, LT!Money>>
  BY DEF LT!MovePawn, LT!OnTurn, LT!Received, LudoTyped, LudoOrder
<1>2. PICK i \in DOMAIN table.dice :
        \/ \E extra \in {0, 1}, movable \in BOOLEAN :
             table.extra + extra <= MaxDice /\ LT!Turn(LT!Moved(table, i, extra, movable), {})
        \/ LT!Look({}, {[LT!Timer("endGame", 2, MoveDelay) EXCEPT !.seats = {s}]}) /\ UNCHANGED slips
  BY DEF LT!MovePawn
<1>3. CASE \E extra \in {0, 1}, movable \in BOOLEAN :
             table.extra + extra <= MaxDice /\ LT!Turn(LT!Moved(table, i, extra, movable), {})
  <2>1. PICK extra \in {0, 1}, movable \in BOOLEAN :
          table.extra + extra <= MaxDice /\ LT!Turn(LT!Moved(table, i, extra, movable), {})
    BY <1>3
  <2>2. /\ InPlay(LT!Moved(table, i, extra, movable))
        /\ LT!Moved(table, i, extra, movable).started = table.started
    BY <1>1, <2>1, MovedInPlay
  <2> QED BY <1>1, <2>1, <2>2, TurnTakenKeeps
<1>4. CASE LT!Look({}, {[LT!Timer("endGame", 2, MoveDelay) EXCEPT !.seats = {s}]}) /\ UNCHANGED slips
  <2> DEFINE win == [LT!Timer("endGame", 2, MoveDelay) EXCEPT !.seats = {s}]
  <2>1. /\ jobs' = (jobs \ {}) \union {win}
        /\ UNCHANGED <<kind, players, table, document, fees, prizes, slips>>
    BY <1>1, <1>4 DEF LT!Look, LT!Game, LT!Money
  <2>2. win \in LudoJobs /\ win.do = "endGame" /\ win.ahead = 2
    <3>1. win = [do |-> "endGame", ahead |-> 2, left |-> MoveDelay, seats |-> {s}, gone |-> {}]
      BY DEF LT!Timer
    <3>2. MoveDelay \in Nat
      BY DEF LudoAssumption
    <3> QED BY <3>1, <3>2 DEF LudoJobs, LudoInTheTurn
  <2> HIDE DEF win
  <2>3. kind = "tournament" \/ (fees = players /\ table.started)
    BY <1>1 DEF LudoOrder, FeesAreTaken
  <2>4. \A j \in jobs : j.do # "startGame"
    BY <1>1, BegunAtATable
  <2>5. active' \in SUBSET players
    BY <1>1 DEF LudoTyped
  <2>6. \A k \in {win} :
          /\ k.do \notin {"startGame", "removeTable", "discardGame", "roundEnded"}
          /\ k.do \in LudoDiscarding => \E l \in jobs : l.do \in LudoDiscarding
          /\ k.ahead > 0 => table.exists
          /\ k.do \in {"settle", "endGame"} =>
               kind = "tournament" \/ (fees = players /\ (table.exists => table.started))
    BY <1>1, <2>2, <2>3 DEF LudoDiscarding
  <2>7. {win} \in SUBSET LudoJobs /\ \E k \in {win} : Carries(k)
    BY <2>2 DEF Carries
  <2> QED BY <1>1, <2>1, <2>4, <2>5, <2>6, <2>7, LudoQuietKeeps
<1> QED BY <1>2, <1>3, <1>4

LEMMA LudoTickKeeps ==
  ASSUME LudoAssumption, LudoTyped, slips = {} => LudoOrder, LT!Tick
  PROVE  LudoInv'
<1> DEFINE one == LT!Cardinality(jobs) = 1
           Later(j) == [j EXCEPT !.left = IF one THEN 0 ELSE @ - 1]
<1>1. /\ jobs' = {Later(j) : j \in jobs} /\ \A j \in jobs : j.left > 0
      /\ UNCHANGED <<kind, players, table, document, active, fees, prizes, moves, slips>>
  BY DEF LT!Tick, LT!Quiet, LT!Game, LT!Money
<1>2. ASSUME NEW j \in jobs
      PROVE  Later(j) \in LudoJobs /\ Later(j).do = j.do /\ Later(j).ahead = j.ahead
  <2>1. j \in LudoJobs /\ j.left \in Nat /\ (IF one THEN 0 ELSE j.left - 1) \in Nat
    <3>1. j \in LudoJobs /\ j.left \in Nat /\ j.left > 0
      BY <1>1 DEF LudoTyped, LudoJobs
    <3>2. j.left - 1 \in Nat
      BY <3>1
    <3> QED BY <3>1, <3>2
  <2> HIDE DEF one
  <2> QED BY <2>1 DEF LudoJobs, LudoInTheTurn
<1> HIDE DEF Later
<1>3. /\ \A k \in jobs' : k \in LudoJobs /\ \E j \in jobs : k = Later(j) /\ k.do = j.do /\ k.ahead = j.ahead
      /\ \A j \in jobs : \E k \in jobs' : k = Later(j) /\ k.do = j.do /\ k.ahead = j.ahead
  BY <1>1, <1>2
<1>4. LudoTyped'
  <2>1. jobs' \in SUBSET LudoJobs
    BY <1>3
  <2> QED BY <1>1, <2>1, LudoTypedNext DEF LudoTyped
<1>5. ASSUME slips = {} PROVE LudoOrder'
  <2>1. LudoOrder
    BY <1>5
  <2>2. StartsAlone'
    <3>1. ASSUME NEW k \in jobs', k.do = "startGame"
          PROVE  jobs' = {k} /\ ~table'.exists /\ document' = "none" /\ prizes' = <<>> /\ fees' = {}
      <4>1. PICK j \in jobs : k = Later(j) /\ k.do = j.do
        BY <1>3
      <4>2. jobs = {j} /\ ~table.exists /\ document = "none" /\ prizes = <<>> /\ fees = {}
        BY <2>1, <3>1, <4>1 DEF LudoOrder, StartsAlone
      <4> QED BY <1>1, <4>1, <4>2
    <3> QED BY <3>1 DEF StartsAlone
  <2>3. FeesAreTaken'
    <3>1. FeesAreTaken
      BY <2>1 DEF LudoOrder
    <3>2. CASE kind = "tournament"
      BY <1>1, <1>3, <3>1, <3>2 DEF FeesAreTaken
    <3>3. CASE kind # "tournament"
      BY <1>1, <1>3, <3>1, <3>3 DEF FeesAreTaken
    <3> QED BY <3>2, <3>3
  <2>4. /\ \A j \in jobs' : j.ahead > 0 => table'.exists
        /\ \A j \in jobs' : j.do = "removeTable" => prizes' # <<>>
    BY <1>1, <1>3, <2>1 DEF LudoOrder
  <2>5. LT!PrizeIsBacked'
    BY <1>1, <2>1 DEF LudoOrder, LT!PrizeIsBacked
  <2>6. LT!GameGoesOn'
    BY <1>1, <1>3, <2>1 DEF LudoOrder, LT!GameGoesOn
  <2>7. table'.exists => InPlay(table)'
    BY <1>1, <2>1, SamePlayers DEF LudoOrder
  <2>8. Discarding'
    BY <1>1, <1>3, <2>1 DEF LudoOrder, Discarding
  <2> QED BY <2>2, <2>3, <2>4, <2>5, <2>6, <2>7, <2>8 DEF LudoOrder
<1> QED BY <1>1, <1>4, <1>5 DEF LudoInv

LEMMA LudoBegins == ASSUME LudoAssumption, LT!Init PROVE LudoInv
<1>1. PICK t \in LudoGames : kind = t.kind /\ players = 1..t.players /\ moves = t.moves
  BY DEF LT!Init
<1>2. kind \in LT!Kinds /\ moves \in Nat /\ t.players \in 2..4 /\ players = 1..t.players
  BY <1>1 DEF LudoAssumption
<1>3. /\ 0 <= MaxDice /\ 0 \in 0..MaxDice /\ 1 \in players /\ <<>> \in Seq(BOOLEAN) /\ Len(<<>>) = 0
  BY <1>2 DEF LudoAssumption
<1>4. IsLudoTable(LT!NoTable) /\ ~LT!NoTable.exists
  <2>1. LT!NoTable \in LudoTables /\ LT!NoTable.dice = <<>> /\ ~LT!NoTable.exists
    BY <1>3 DEF LT!NoTable, LudoTables
  <2> QED BY <1>3, <2>1 DEF IsLudoTable
<1>5. LT!Call("startGame", {}) \in LudoJobs /\ LT!Call("startGame", {}).do = "startGame" /\ LT!Call("startGame", {}).ahead = 0
  BY FreshCalls
<1>6. /\ table = LT!NoTable /\ document = "none" /\ active = {} /\ jobs = {LT!Call("startGame", {})}
      /\ fees = {} /\ prizes = <<>> /\ slips = {}
  BY DEF LT!Init
<1>7. LudoTyped
  <2>1. \E n \in 2..4 : players = 1..n
    BY <1>2
  <2>2. prizes \in Seq(SUBSET players) /\ jobs \in SUBSET LudoJobs /\ IsLudoTable(table)
    BY <1>4, <1>5, <1>6
  <2> QED BY <1>2, <1>6, <2>1, <2>2 DEF LudoTyped
<1>8. LudoOrder
  <2>1. StartsAlone /\ LT!GameGoesOn
    BY <1>4, <1>6 DEF StartsAlone, LT!GameGoesOn
  <2>2. FeesAreTaken
    BY <1>4, <1>5, <1>6 DEF FeesAreTaken, LudoEnding
  <2>3. LT!PrizeIsBacked
    <3>1. Len(prizes) = 0
      BY <1>6, EmptySeq
    <3> QED BY <1>6, <3>1 DEF LT!PrizeIsBacked
  <2>4. Discarding
    BY <1>5, <1>6 DEF Discarding, LudoDiscarding
  <2> QED BY <1>4, <1>5, <1>6, <2>1, <2>2, <2>3, <2>4 DEF LudoOrder
<1> QED BY <1>7, <1>8 DEF LudoInv

LEMMA LudoInductive == ASSUME LudoAssumption, LudoInv, [LT!Next]_(LT!vars) PROVE LudoInv'
<1>1. LudoTyped /\ (slips = {} => LudoOrder)
  BY DEF LudoInv
<1>2. CASE UNCHANGED LT!vars
  <2>1. UNCHANGED <<kind, players, table, document, active, jobs, fees, prizes, moves, slips>>
    BY <1>2 DEF LT!vars
  <2>2. LudoTyped'
    BY <1>1, <2>1, LudoTypedNext DEF LudoTyped
  <2>3. LudoOrder => LudoOrder'
    BY <2>1 DEF LudoOrder, StartsAlone, FeesAreTaken, Discarding, LT!PrizeIsBacked, LT!GameGoesOn, InPlay,
       Seated,
                IsLudoTable, LudoTables, LT!Remaining
  <2> QED BY <1>1, <2>1, <2>2, <2>3 DEF LudoInv
<1>3. ASSUME NEW j \in jobs, slips = {}, LT!RunJob(j) PROVE LudoInv'
  <2>1. ASSUME LT!SkipTimerFires(j) PROVE LudoInv'
    <3>1. j.do = "skipTurn" /\ LT!SkipTurn({j}) /\ moves' \in Nat
      BY <1>1, <2>1 DEF LT!SkipTimerFires, LT!Due, LudoTyped
    <3>2. table.exists
      BY <1>1, <1>3, <3>1 DEF LudoTyped, LudoJobs, LudoInTheTurn, LudoOrder
    <3> QED BY <1>1, <1>3, <3>1, <3>2, LudoSkipKeeps
  <2> QED BY <1>1, <1>3, <2>1, LudoStartKeeps, DiscardTimerKeeps, DiscardPointersKeeps,
             DiscardDocumentKeeps, RollTimerKeeps, EndTimerKeeps,
             SettleCallKeeps, RemoveTableKeeps, ScheduledEndKeeps, EndRoundKeeps, RoundEndedKeeps,
             PointerKeeps DEF LT!RunJob
<1>4. ASSUME NEW s \in players, slips = {}, LT!Act(s) PROVE LudoInv'
  <2>1. ASSUME LT!SkipTurnMessage(s) PROVE LudoInv'
    <3>1. table.exists /\ LT!SkipTurn({}) /\ moves' \in Nat
      BY <1>1, <2>1, LudoMovesLeft DEF LT!SkipTurnMessage
    <3> QED BY <1>1, <1>4, <3>1, LudoSkipKeeps
  <2> QED BY <1>1, <1>4, <2>1, ReadyKeeps, LudoRollKeeps, LudoMoveKeeps, LeaveKeeps DEF LT!Act
<1>5. CASE LT!Next
  <2>1. \/ \E j \in jobs : slips = {} /\ LT!RunJob(j)
        \/ \E s \in players : slips = {} /\ LT!Act(s)
        \/ LT!Tick
    BY <1>5 DEF LT!Next, LT!Followed
  <2> QED BY <1>1, <1>3, <1>4, <2>1, LudoTickKeeps
<1> QED BY <1>2, <1>5

LEMMA LudoInvariant == ASSUME LudoAssumption PROVE LT!Spec => []LudoInv
BY LudoBegins, LudoInductive, PTL DEF LT!Spec

LEMMA LudoTypes == LudoInv => LT!TypeOK
<1> SUFFICES ASSUME LudoTyped PROVE LT!TypeOK
  BY DEF LudoInv
<1>1. table \in LudoTables /\ Len(table.dice) <= MaxDice
  BY DEF LudoTyped, IsLudoTable
<1>2. /\ table.turn \in players /\ table.action \in {"rollDice", "movePawn"}
      /\ table.dice \in Seq(BOOLEAN) /\ table.extra \in 0..MaxDice
      /\ {table.ready, table.left, table.got6, table.barred, active} \subseteq SUBSET players
  BY <1>1 DEF LudoTables, LudoTyped
<1>3. \A s \in DOMAIN table.lives : table.lives[s] \in -1..Lives
  <2>1. CASE table.lives = <<>>
    BY <2>1
  <2>2. CASE table.lives \in [players -> -1..Lives]
    BY <2>2
  <2> QED BY <1>1, <2>1, <2>2 DEF LudoTables
<1>4. \A j \in jobs : j.ahead \in 0..2 /\ j.left \in Nat /\ {j.seats, j.gone} \subseteq SUBSET players
  BY DEF LudoTyped, LudoJobs
<1>5. \A i \in DOMAIN prizes : prizes[i] \subseteq players
  <2>1. prizes \in Seq(SUBSET players)
    BY DEF LudoTyped
  <2>2. \A i \in DOMAIN prizes : prizes[i] \in SUBSET players
    BY <2>1, LenProperties, ElementOfSeq
  <2> QED BY <2>2
<1>6. players \subseteq LT!Seats
  BY LudoSeats DEF LT!Seats
<1> QED BY <1>1, <1>2, <1>3, <1>4, <1>5, <1>6 DEF LT!TypeOK, LudoTyped

(* What a table of ludo, its timers and calls, its document and the money   *)
(* moved for it can be, in every game of two to four players.               *)
THEOREM LudoTypeCorrect == ASSUME LudoAssumption PROVE LT!Spec => []LT!TypeOK
BY LudoTypes, LudoInvariant, PTL

LEMMA LudoPrize == LudoInv => LT!PrizeIsBacked
BY DEF LudoInv, LudoOrder, LT!PrizeIsBacked

(* As long as nothing has slipped, a prize is paid once, for a game whose   *)
(* fees were taken, and the table does not go before it.                    *)
THEOREM LudoPrizeIsBacked == ASSUME LudoAssumption PROVE LT!Spec => []LT!PrizeIsBacked
BY LudoPrize, LudoInvariant, PTL

LEMMA LudoTurn == LudoInv => LT!TurnIsTaken
BY DEF LudoInv, LudoOrder, InPlay, Seated, LT!TurnIsTaken

(* As long as nothing has slipped, the turn is with a player who is there   *)
(* and has lives left, and who may not roll a six has rolled one.           *)
THEOREM LudoTurnIsTaken == ASSUME LudoAssumption PROVE LT!Spec => []LT!TurnIsTaken
BY LudoTurn, LudoInvariant, PTL

LEMMA LudoGoOn == LudoInv => LT!GameGoesOn
BY DEF LudoInv, LudoOrder, LT!GameGoesOn

(* As long as nothing has slipped, a timer or a call is pending for every   *)
(* table that carries its game on.                                          *)
THEOREM LudoGoesOn == ASSUME LudoAssumption PROVE LT!Spec => []LT!GameGoesOn
BY LudoGoOn, LudoInvariant, PTL

LEMMA LudoTruth == LudoInv => LT!ClientsAreToldTheTruth
<1> SUFFICES ASSUME LudoOrder, LudoTyped, slips = {} PROVE LT!ClientsAreToldTheTruth
  BY DEF LudoInv, LT!ClientsAreToldTheTruth
<1>1. ASSUME NEW s \in LT!Remaining(table), table.exists, document = "started"
      PROVE  /\ LT!Connected(s) = "started" /\ LT!ForceReconnect(s) = "started"
             /\ kind # "tournament" => LT!CheckIfJoined(s)
  BY <1>1 DEF LT!Remaining, LT!Connected, LT!ForceReconnect, LT!CheckIfJoined
<1>2. LT!PrizeIsBacked
  BY DEF LudoOrder
<1>3. LT!LastEvent \in {"gameFinished", "roundFinished"} => prizes # <<>>
  BY <1>2 DEF LT!LastEvent, LT!PrizeIsBacked
<1>4. LT!LastEvent = "discardGame" /\ kind # "tournament" => prizes = <<>>
  BY <1>2 DEF LT!LastEvent, LT!PrizeIsBacked
<1> QED BY <1>1, <1>3, <1>4 DEF LT!ClientsAreToldTheTruth

(* As long as nothing has slipped, whoever comes back to a table in play is *)
(* sent back to it, and hears of the end only when the game has ended.      *)
THEOREM LudoTellsTheTruth == ASSUME LudoAssumption PROVE LT!Spec => []LT!ClientsAreToldTheTruth
BY LudoTruth, LudoInvariant, PTL
-----------------------------------------------------------------------------
(* Snakes and Ladders.                                                      *)
LEMMA SnakesCount == \A S : ST!Cardinality(S) = Cardinality(S)
BY DEF ST!Cardinality, Cardinality

(* What a table can be, as it is stored or as somebody has read it.         *)
SnakesTables ==
  [exists : BOOLEAN, left : SUBSET players, turn : players, action : {"rollDice", "movePawn"},
   dice : BOOLEAN, lives : [players -> 0..Lives] \union {<<>>}, home : BOOLEAN]

IsSnakesTable(t) ==
  /\ t \in SnakesTables
  /\ t.exists => t.lives \in [players -> 0..Lives] /\ ST!Remaining(t) # {}
  /\ ~t.exists => t.left = {}

(* Handlers that keep a copy, those that hold the lock, and those that do   *)
(* neither.                                                                 *)
Skipping == {"skipTurn_store", "skipTurn_leave", "skipTurn_read", "skipTurn_leaving", "skipTurn_pass"}
SnakesEnding == {"endGame", "endGame_left"}
SnakesPending == {"leaveTable_pass", "endGame_left"}
SnakesCalls ==
  {c \in [do : Skipping \union SnakesEnding \union {"startGame", "debitJoinFee", "skipTurn", "store", "leaveTable",
                                              "leaveTable_pass", "clearTable"},
          seat : players, copy : SnakesTables, locked : BOOLEAN, stale : BOOLEAN] :
     /\ IsSnakesTable(c.copy)
     /\ c.stale => c.copy.exists
     /\ c.do \in {"startGame", "debitJoinFee", "skipTurn"} => ~c.copy.exists
     /\ c.do \in Skipping \union {"store", "leaveTable_pass", "clearTable"} => c.copy.exists
     /\ c.do = "leaveTable" => c.locked = c.copy.exists
     /\ c.do \in SnakesPending \union {"store"} => c.locked
     /\ c.do \in Skipping \union {"startGame", "debitJoinFee", "skipTurn", "clearTable"} => ~c.locked
     /\ c.do = "store" => c.copy.turn \in ST!Remaining(c.copy)}

SnakesTyped ==
  /\ \E n \in 2..4 : players = 1..n
  /\ IsSnakesTable(table)
  /\ calls \in SUBSET SnakesCalls
  /\ \A c, d \in calls : c.locked /\ d.locked => c = d
  /\ jobs \subseteq {"skipTurn", "endGame"}
  /\ active \in SUBSET players /\ fees \in {{}, players}
  /\ DOMAIN prizes \subseteq players /\ \A s \in DOMAIN prizes : prizes[s] \in ST!Seats
  /\ refunds \in Nat /\ moves \in Nat /\ clears \in Nat
  /\ results \in [players -> SUBSET {"won", "lost"}]
  /\ slips \subseteq ST!Slips

(* Nothing is there before the game begins.                                 *)
BeginsAlone ==
  \A c \in calls : c.do = "startGame" =>
    calls = {c} /\ ~table.exists /\ jobs = {} /\ prizes = <<>> /\ refunds = 0

(* A copy that nobody has stored over is what is stored, but for what its   *)
(* handler changes: nobody leaves but who leaves by it.                     *)
CopiesAreFresh ==
  \A c \in calls : c.copy.exists /\ ~c.stale =>
    /\ table.exists
    /\ c.copy.left = table.left \union (IF c.do = "leaveTable" THEN {c.seat} ELSE {})
    /\ c.do \in {"skipTurn_store", "skipTurn_leave", "leaveTable", "leaveTable_pass"} => c.copy.turn = table.turn

(* Two players are there, or the game is ending for the last of them; the   *)
(* turn is with one who is there, or is being passed on.                    *)
TurnFits ==
  table.exists =>
    /\ (\E a, b \in ST!Remaining(table) : a # b) \/ \E c \in calls : c.do = "endGame_left"
    /\ table.turn \in ST!Remaining(table) \/ \E c \in calls : c.do \in SnakesPending

(* What will pass the turn on, and what will end the game.                  *)
SnakesPasses(c, turn) ==
  \/ c.do \in Skipping \union SnakesEnding \union {"debitJoinFee", "store", "leaveTable_pass"}
  \/ c.do \in {"skipTurn", "leaveTable"} /\ c.seat = turn

Carried ==
  table.exists =>
    /\ "skipTurn" \in jobs \/ \E c \in calls : SnakesPasses(c, table.turn)
    /\ "endGame" \in jobs \/ \E c \in calls : c.do \in SnakesEnding \union {"debitJoinFee"}

(* The prize, and what each player's result is while it is on its way.      *)
Unrecorded(s) == results[s] = {} /\ \E c \in calls : c.seat = s /\ c.do \in SnakesPending

ResultsFit ==
  /\ prizes # <<>> => fees = players /\ refunds = 0
  /\ \A s \in DOMAIN prizes : prizes[s] = ST!Cardinality(DOMAIN prizes) /\ results[s] = {"won"}
  /\ \A c \in calls : /\ c.do = "clearTable" => refunds > 0
                      /\ c.do \in SnakesEnding /\ c.copy.exists => prizes # <<>>
                      /\ c.do = "leaveTable_pass" /\ ~c.stale => results[c.seat] = {} /\ prizes = <<>>
                      /\ c.do = "endGame_left" => results[c.seat] = {}
                      /\ c.do = "endGame_left" /\ table.exists => c.seat \in table.left
                      /\ c.do = "leaveTable_pass" /\ ~c.stale => c.seat \in table.left
  /\ ~table.exists => prizes # <<>> \/ refunds > 0 \/ \E c \in calls : c.do = "startGame"
  /\ refunds = 0 => \A s \in players :
       IF prizes = <<>>
       THEN IF s \in table.left THEN results[s] = {"lost"} \/ Unrecorded(s) ELSE results[s] = {}
       ELSE results[s] \in {{"won"}, {"lost"}} \/ Unrecorded(s)

SeatsArePointedAt == active = IF table.exists THEN ST!Remaining(table) ELSE {}

SnakesOrder ==
  BeginsAlone /\ CopiesAreFresh /\ TurnFits /\ Carried /\ ResultsFit /\ SeatsArePointedAt

SnakesInv == SnakesTyped /\ (slips = {} => SnakesOrder)
-----------------------------------------------------------------------------
(* The players of a game of two to four, one of whom is still there: the    *)
(* next turn is with one of those.                                          *)
LEMMA NextIsThere ==
  ASSUME NEW n \in 2..4, players = 1..n, NEW t, t.turn \in players, ST!Remaining(t) # {},
         t.left \subseteq players
  PROVE  ST!NextTurn(t) \in ST!Remaining(t)
<1> DEFINE nth(i) == 1 + ((t.turn - 1 + i) % n)
           P(i) == nth(i) \in ST!Remaining(t) /\ \A j \in 1..(i - 1) : nth(j) \in t.left
<1>1. ST!Cardinality(players) = n
  <2>1. 1 \in Int /\ n \in Int /\ n - 1 + 1 = n /\ ~(1 > n)
    OBVIOUS
  <2>2. ST!Cardinality(1..n) = n - 1 + 1
    BY <2>1, SnakesCount, FS_Interval
  <2> QED BY <2>1, <2>2
<1>2. \A i \in 1..n : nth(i) \in players /\ (nth(i) \in ST!Remaining(t) \/ nth(i) \in t.left)
  <2>1. t.turn \in 1..n
    OBVIOUS
  <2>2. \A i \in 1..n : nth(i) \in 1..n
    BY <2>1
  <2> QED BY <2>2 DEF ST!Remaining
<1>3. \E i \in 1..n : nth(i) \in ST!Remaining(t)
  <2>1. PICK r \in ST!Remaining(t) : TRUE
    OBVIOUS
  <2>2. r \in 1..n
    BY <2>1 DEF ST!Remaining
  <2>3. \E i \in 1..n : nth(i) = r
    <3>1. CASE r > t.turn
      <4>1. r - t.turn \in 1..n /\ (t.turn - 1 + (r - t.turn)) = r - 1 /\ r - 1 \in 0..(n - 1)
        <5>1. r \in Int /\ t.turn \in Int /\ n \in Int /\ r > t.turn /\ r <= n /\ 1 <= t.turn
          BY <2>2, <3>1
        <5> QED BY <5>1
      <4>2. (r - 1) % n = r - 1
        <5>1. n = 2 \/ n = 3 \/ n = 4
          OBVIOUS
        <5>2. CASE n = 2
          BY <4>1, <5>2
        <5>3. CASE n = 3
          BY <4>1, <5>3
        <5>4. CASE n = 4
          BY <4>1, <5>4
        <5> QED BY <5>1, <5>2, <5>3, <5>4
      <4>3. nth(r - t.turn) = 1 + (r - 1)
        BY <4>1, <4>2
      <4>4. 1 + (r - 1) = r
        BY <2>2
      <4>5. nth(r - t.turn) = r
        BY <4>3, <4>4
      <4> HIDE DEF nth
      <4> QED BY <4>1, <4>5
    <3>2. CASE r <= t.turn
      <4>1. /\ r - t.turn + n \in 1..n /\ (t.turn - 1 + (r - t.turn + n)) = r - 1 + n
            /\ r - 1 \in 0..(n - 1)
        <5>1. r \in Int /\ t.turn \in Int /\ n \in Int /\ 1 <= r /\ r <= t.turn /\ t.turn <= n
          BY <2>2, <3>2
        <5> QED BY <5>1
      <4>2. (r - 1 + n) % n = r - 1
        <5>1. n = 2 \/ n = 3 \/ n = 4
          OBVIOUS
        <5>2. CASE n = 2
          BY <4>1, <5>2
        <5>3. CASE n = 3
          BY <4>1, <5>3
        <5>4. CASE n = 4
          BY <4>1, <5>4
        <5> QED BY <5>1, <5>2, <5>3, <5>4
      <4>3. nth(r - t.turn + n) = 1 + (r - 1)
        BY <4>1, <4>2
      <4>4. 1 + (r - 1) = r
        BY <2>2
      <4>5. nth(r - t.turn + n) = r
        BY <4>3, <4>4
      <4> HIDE DEF nth
      <4> QED BY <4>1, <4>5
    <3> QED BY <2>2, <3>1, <3>2
  <2> QED BY <2>1, <2>3
<1>4. \E i \in 1..n : P(i)
  <2> HIDE DEF nth
  <2>1. CASE nth(1) \in ST!Remaining(t)
    <3>1. P(1)
      BY <2>1
    <3> QED BY <3>1
  <2>2. CASE nth(1) \notin ST!Remaining(t) /\ nth(2) \in ST!Remaining(t)
    <3>1. P(2)
      BY <1>2, <2>2
    <3> QED BY <3>1
  <2>3. CASE nth(1) \notin ST!Remaining(t) /\ nth(2) \notin ST!Remaining(t) /\ n >= 3 /\ nth(3) \in ST!Remaining(t)
    <3>1. 1..(3 - 1) = {1, 2} /\ 1 \in 1..n /\ 2 \in 1..n /\ 3 \in 1..n
      BY <2>3
    <3>2. P(3)
      BY <1>2, <2>3, <3>1
    <3> QED BY <3>1, <3>2
  <2>4. CASE /\ nth(1) \notin ST!Remaining(t) /\ nth(2) \notin ST!Remaining(t)
             /\ n = 4 /\ nth(3) \notin ST!Remaining(t) /\ nth(4) \in ST!Remaining(t)
    <3>1. 1..(4 - 1) = {1, 2, 3} /\ 1 \in 1..n /\ 2 \in 1..n /\ 3 \in 1..n /\ 4 \in 1..n
      BY <2>4
    <3>2. P(4)
      BY <1>2, <2>4, <3>1
    <3> QED BY <3>1, <3>2
  <2> QED BY <1>3, <2>1, <2>2, <2>3, <2>4
<1>5. ST!NextTurn(t) = nth(CHOOSE i \in 1..n : P(i))
  BY <1>1 DEF ST!NextTurn
<1> QED BY <1>4, <1>5

-----------------------------------------------------------------------------
(* A handler whose copy somebody else may have stored over, and what the    *)
(* handlers are after a step: those of new, and those that are not done,    *)
(* with their copies.                                                       *)
Marked(c) == [c EXCEPT !.stale = @ \/ c.copy.exists]
SameCall(d, c) == d.do = c.do /\ d.seat = c.seat /\ d.copy = c.copy /\ d.locked = c.locked
After(done, new) ==
  /\ new \subseteq calls'
  /\ \A c \in calls \ done : \E d \in calls' : SameCall(d, c)
  /\ \A d \in calls' : d \in new \/ \E c \in calls \ done : SameCall(d, c) /\ (c.stale => d.stale)

(* Nobody holds the lock once those that are done have gone, or those that  *)
(* come do not.                                                             *)
LockFits(done, new) ==
  /\ \A m, n \in new : m = n
  /\ \A n \in new : n.locked => \A c \in calls \ done : ~c.locked

LEMMA MarkedKeeps ==
  ASSUME SnakesTyped, NEW c \in calls
  PROVE  Marked(c) \in SnakesCalls /\ SameCall(Marked(c), c) /\ Marked(c).stale = (c.stale \/ c.copy.exists)
<1>1. c \in SnakesCalls
  BY DEF SnakesTyped
<1> DEFINE m == Marked(c)
<1>2. /\ m.do = c.do /\ m.seat = c.seat /\ m.copy = c.copy /\ m.locked = c.locked
      /\ m.stale = (c.stale \/ c.copy.exists)
  BY <1>1 DEF SnakesCalls, Marked
<1>3. c.copy.exists \in BOOLEAN
  BY <1>1 DEF SnakesCalls, SnakesTables
<1>4. m \in SnakesCalls
  BY <1>1, <1>3 DEF SnakesCalls, Marked
<1> QED BY <1>2, <1>4 DEF SameCall

LEMMA AfterStore ==
  ASSUME SnakesTyped, NEW t, NEW done, NEW new \in SUBSET SnakesCalls, ST!Store(t, done, new)
  PROVE  /\ After(done, new) /\ calls' \in SUBSET SnakesCalls /\ table' = t
         /\ \A d \in calls' : d \in new \/ (d.copy.exists => d.stale)
         /\ LockFits(done, new) => \A c, d \in calls' : c.locked /\ d.locked => c = d
<1>1. calls' = {Marked(c) : c \in calls \ done} \union new /\ table' = t
  BY DEF ST!Store, Marked
<1>2. \A c \in calls : Marked(c) \in SnakesCalls /\ SameCall(Marked(c), c)
                       /\ Marked(c).stale = (c.stale \/ c.copy.exists)
  BY MarkedKeeps
<1>3. \A c \in calls \ done : Marked(c) \in calls' /\ SameCall(Marked(c), c)
  BY <1>1, <1>2
<1>4. \A d \in calls' : d \in new \/ \E c \in calls \ done :
        d = Marked(c) /\ SameCall(d, c) /\ (c.stale => d.stale) /\ (d.copy.exists => d.stale)
  <2>1. \A c \in calls \ done : SameCall(Marked(c), c) /\ (c.stale => Marked(c).stale)
                                /\ (Marked(c).copy.exists => Marked(c).stale)
    <3>1. \A c \in calls \ done : Marked(c).copy = c.copy
      BY <1>2 DEF SameCall
    <3> QED BY <1>2, <3>1
  <2>2. \A d \in calls' : d \in new \/ \E c \in calls \ done : d = Marked(c)
    BY <1>1
  <2> QED BY <2>1, <2>2
<1>5. calls' \in SUBSET SnakesCalls
  BY <1>1, <1>2
<1>6. ASSUME LockFits(done, new), NEW c \in calls', NEW d \in calls', c.locked, d.locked
      PROVE  c = d
  <2>1. CASE c \in new /\ d \in new
    BY <2>1, <1>6 DEF LockFits
  <2>2. CASE c \notin new
    <3>1. PICK x \in calls \ done : c = Marked(x) /\ SameCall(c, x)
      BY <2>2, <1>4
    <3>2. d \notin new
      BY <3>1, <1>6 DEF LockFits, SameCall
    <3>3. PICK y \in calls \ done : d = Marked(y) /\ SameCall(d, y)
      BY <3>2, <1>4
    <3>4. x = y
      BY <3>1, <3>3, <1>6 DEF SnakesTyped, SameCall
    <3> QED BY <3>1, <3>3, <3>4
  <2>3. CASE d \notin new /\ c \in new
    <3>1. PICK y \in calls \ done : SameCall(d, y)
      BY <2>3, <1>4
    <3> QED BY <2>3, <3>1, <1>6 DEF LockFits, SameCall
  <2> QED BY <2>1, <2>2, <2>3
<1> QED BY <1>1, <1>3, <1>4, <1>5, <1>6 DEF After

LEMMA AfterWork ==
  ASSUME SnakesTyped, NEW done, NEW new \in SUBSET SnakesCalls, ST!Work(done, new)
  PROVE  /\ After(done, new) /\ calls' \in SUBSET SnakesCalls /\ table' = table
         /\ \A d \in calls' : d \in new \/ d \in calls \ done
         /\ LockFits(done, new) => \A c, d \in calls' : c.locked /\ d.locked => c = d
<1>1. calls' = (calls \ done) \union new /\ table' = table
  BY DEF ST!Work
<1>2. \A c \in calls \ done : SameCall(c, c)
  BY DEF SameCall
<1>3. calls' \in SUBSET SnakesCalls
  BY <1>1 DEF SnakesTyped
<1>4. LockFits(done, new) => \A c, d \in calls' : c.locked /\ d.locked => c = d
  BY <1>1 DEF LockFits, SnakesTyped
<1> QED BY <1>1, <1>2, <1>3, <1>4 DEF After

(* What the sets of a game are stays as it is while its players do.         *)
LEMMA SnakesSetsStay ==
  ASSUME UNCHANGED players
  PROVE  /\ SnakesCalls' = SnakesCalls /\ SnakesTables' = SnakesTables
         /\ \A t : ST!Remaining(t)' = players \ t.left
BY DEF SnakesCalls, SnakesTables, IsSnakesTable, ST!Remaining

LEMMA SnakesTypedAfter ==
  ASSUME SnakesTyped, UNCHANGED players, IsSnakesTable(table'), calls' \in SUBSET SnakesCalls,
         \A c, d \in calls' : c.locked /\ d.locked => c = d,
         jobs' \subseteq {"skipTurn", "endGame"}, active' \in SUBSET players,
         fees' \in {{}, players},
         DOMAIN prizes' \subseteq players, \A s \in DOMAIN prizes' : prizes'[s] \in ST!Seats,
         refunds' \in Nat, moves' \in Nat, clears' \in Nat,
         results' \in [players -> SUBSET {"won", "lost"}], slips' \subseteq ST!Slips
  PROVE  SnakesTyped'
<1>1. IsSnakesTable(table)'
  BY DEF IsSnakesTable, SnakesTables, ST!Remaining
<1>2. SnakesCalls' = SnakesCalls
  BY SnakesSetsStay
<1>3. \E n \in 2..4 : players' = 1..n
  BY DEF SnakesTyped
<1> QED BY <1>1, <1>2, <1>3 DEF SnakesTyped

(* Calls as they begin, and one with a copy.                                *)
LEMMA NoTableFits == ASSUME SnakesTyped PROVE IsSnakesTable(ST!NoTable) /\ 1 \in players
<1>1. 1 \in players /\ players # {}
  BY DEF SnakesTyped
<1> QED BY <1>1 DEF IsSnakesTable, SnakesTables, ST!NoTable

LEMMA CallFits ==
  ASSUME SnakesTyped, NEW s \in players,
         NEW what \in {"debitJoinFee", "skipTurn", "leaveTable", "endGame"}
  PROVE  /\ ST!Call(what, s) \in SnakesCalls
         /\ ST!Call(what, s).do = what /\ ST!Call(what, s).seat = s /\ ST!Call(what, s).copy = ST!NoTable
         /\ ~ST!Call(what, s).copy.exists /\ ~ST!Call(what, s).locked /\ ~ST!Call(what, s).stale
BY NoTableFits DEF ST!Call, SnakesCalls, IsSnakesTable, ST!NoTable, Skipping, SnakesEnding,
   SnakesPending

LEMMA LockedEndFits ==
  ASSUME SnakesTyped, NEW s \in players, NEW what \in SnakesEnding
  PROVE  LET e == [ST!Call(what, s) EXCEPT !.locked = TRUE]
         IN  /\ e \in SnakesCalls
             /\ e.do = what /\ e.seat = s /\ e.copy = ST!NoTable /\ ~e.copy.exists /\ e.locked /\ ~e.stale
BY NoTableFits DEF ST!Call, SnakesCalls, IsSnakesTable, ST!NoTable, Skipping, SnakesEnding,
   SnakesPending

-----------------------------------------------------------------------------
(* Whatever is pending, there is no beginning of the game among it.         *)
NoStart == \A c \in calls : c.do # "startGame"

LEMMA StartHappensFirst ==
  ASSUME BeginsAlone
  PROVE  /\ table.exists => NoStart
         /\ jobs # {} => NoStart
         /\ \A c \in calls : c.do # "startGame" => NoStart
BY DEF BeginsAlone, NoStart

(* A copy is of the table as it is now.                                     *)
IsFresh(c, t) ==
  c.copy.exists /\ ~c.stale =>
    /\ t.exists
    /\ c.copy.left = t.left \union (IF c.do = "leaveTable" THEN {c.seat} ELSE {})
    /\ c.do \in {"skipTurn_store", "skipTurn_leave", "leaveTable", "leaveTable_pass"} => c.copy.turn = t.turn

LEMMA FreshIsFresh == CopiesAreFresh <=> \A c \in calls : IsFresh(c, table)
BY DEF CopiesAreFresh, IsFresh

LEMMA FreshAfterStore ==
  ASSUME SnakesTyped, NEW t, NEW done, NEW new \in SUBSET SnakesCalls, ST!Store(t, done, new),
         \A c \in new : IsFresh(c, t)
  PROVE  CopiesAreFresh'
<1>1. /\ \A d \in calls' : d \in new \/ (d.copy.exists => d.stale)
      /\ table' = t
  BY AfterStore
<1>2. \A d \in calls' : IsFresh(d, table')
  BY <1>1 DEF IsFresh
<1> QED BY <1>2 DEF CopiesAreFresh, IsFresh

LEMMA FreshAfterWork ==
  ASSUME SnakesTyped, CopiesAreFresh, NEW done, NEW new \in SUBSET SnakesCalls,
         ST!Work(done, new),
         \A c \in new : IsFresh(c, table)
  PROVE  CopiesAreFresh'
<1>1. /\ \A d \in calls' : d \in new \/ d \in calls
      /\ table' = table
  BY AfterWork
<1>2. \A d \in calls' : IsFresh(d, table')
  BY <1>1, FreshIsFresh
<1> QED BY <1>2 DEF CopiesAreFresh, IsFresh

(* What carries the game on is not lost.                                    *)
LEMMA CarriedOn ==
  ASSUME Carried, NEW done, NEW new, After(done, new),
         table'.exists => table.exists /\ table'.turn = table.turn,
         jobs \subseteq jobs' \/ \E n \in new : SnakesPasses(n, table.turn),
         "endGame" \in jobs => "endGame" \in jobs' \/ \E n \in new : n.do \in SnakesEnding,
         \A c \in done : SnakesPasses(c, table.turn) => \E n \in new : SnakesPasses(n, table.turn),
         \A c \in done : c.do \in SnakesEnding \union {"debitJoinFee"} => \E n \in new : n.do \in SnakesEnding
  PROVE  Carried'
<1> SUFFICES ASSUME table'.exists
             PROVE  /\ "skipTurn" \in jobs' \/ \E c \in calls' : SnakesPasses(c, table'.turn)
                    /\ "endGame" \in jobs' \/ \E c \in calls' : c.do \in SnakesEnding \union {"debitJoinFee"}
  BY DEF Carried, SnakesPasses
<1>1. table.exists /\ table'.turn = table.turn
  OBVIOUS
<1>2. \A d, c : SameCall(d, c) => (SnakesPasses(c, table.turn) => SnakesPasses(d, table'.turn))
  BY <1>1 DEF SameCall, SnakesPasses
<1>3. "skipTurn" \in jobs' \/ \E c \in calls' : SnakesPasses(c, table'.turn)
  <2>1. CASE \E n \in new : SnakesPasses(n, table.turn)
    BY <2>1, <1>1 DEF After
  <2>2. CASE ~\E n \in new : SnakesPasses(n, table.turn)
    <3>1. "skipTurn" \in jobs \/ \E c \in calls \ done : SnakesPasses(c, table.turn)
      BY <1>1, <2>2 DEF Carried
    <3> QED BY <1>2, <2>2, <3>1 DEF After
  <2> QED BY <2>1, <2>2
<1>4. "endGame" \in jobs' \/ \E c \in calls' : c.do \in SnakesEnding \union {"debitJoinFee"}
  <2>1. CASE \E n \in new : n.do \in SnakesEnding
    BY <2>1 DEF After
  <2>2. CASE ~\E n \in new : n.do \in SnakesEnding
    <3>1. "endGame" \in jobs \/ \E c \in calls \ done : c.do \in SnakesEnding \union {"debitJoinFee"}
      BY <1>1, <2>2 DEF Carried
    <3> QED BY <2>2, <3>1 DEF After, SameCall
  <2> QED BY <2>1, <2>2
<1> QED BY <1>3, <1>4

(* The fees may be taken and the turn may be passed on, but nobody leaves   *)
(* and nobody wins: what is true of seats and results stays true.           *)
Quiet(done, new) ==
  /\ After(done, new)
  /\ UNCHANGED <<players, prizes, refunds, results, active>> /\ fees' \in {fees, players}
  /\ table'.exists = table.exists /\ table'.left = table.left
  /\ table.exists => table'.turn = table.turn \/ table'.turn \in ST!Remaining(table)
  /\ \A c \in done : c.do \notin SnakesPending
  /\ \A n \in new : /\ n.do \notin SnakesPending \union {"startGame", "clearTable"}
                    /\ n.do \in SnakesEnding => ~n.copy.exists

LEMMA QuietKeepsTurn ==
  ASSUME TurnFits, NEW done, NEW new, Quiet(done, new) PROVE TurnFits'
<1> SUFFICES ASSUME table'.exists
             PROVE  /\ (\E a, b \in players' \ table'.left : a # b) \/ \E c \in calls' : c.do = "endGame_left"
                    /\ table'.turn \in players' \ table'.left \/ \E c \in calls' : c.do \in SnakesPending
  BY DEF TurnFits, ST!Remaining
<1>1. table.exists /\ players' \ table'.left = ST!Remaining(table)
  BY DEF Quiet, ST!Remaining
<1>2. \A c \in calls : c.do \in SnakesPending => \E d \in calls' : d.do = c.do
  BY DEF Quiet, After, SameCall
<1>3. "endGame_left" \in SnakesPending
  BY DEF SnakesPending
<1>4. (\E a, b \in ST!Remaining(table) : a # b) \/ \E c \in calls' : c.do = "endGame_left"
  BY <1>1, <1>2, <1>3 DEF TurnFits
<1>5. table'.turn \in ST!Remaining(table) \/ \E c \in calls' : c.do \in SnakesPending
  BY <1>1, <1>2 DEF TurnFits, Quiet
<1> QED BY <1>1, <1>4, <1>5

LEMMA QuietKeepsResults ==
  ASSUME ResultsFit, NoStart, NEW done, NEW new, Quiet(done, new) PROVE ResultsFit'
<1> USE DEF Quiet
<1>1. \A c \in calls : c.do \in SnakesPending => \E d \in calls' : d.do = c.do /\ d.seat = c.seat
  BY DEF After, SameCall
<1>2. \A s : Unrecorded(s) => Unrecorded(s)'
  BY <1>1 DEF Unrecorded
<1>3. \A d \in calls' : /\ d.do = "clearTable" => refunds > 0
                        /\ d.do \in SnakesEnding /\ d.copy.exists => prizes # <<>>
                        /\ d.do = "leaveTable_pass" /\ ~d.stale => results[d.seat] = {} /\ prizes = <<>>
                        /\ d.do = "endGame_left" => results[d.seat] = {}
                        /\ d.do = "endGame_left" /\ table.exists => d.seat \in table.left
                        /\ d.do = "leaveTable_pass" /\ ~d.stale => d.seat \in table.left
  <2> SUFFICES ASSUME NEW d \in calls'
               PROVE  /\ d.do = "clearTable" => refunds > 0
                      /\ d.do \in SnakesEnding /\ d.copy.exists => prizes # <<>>
                      /\ d.do = "leaveTable_pass" /\ ~d.stale => results[d.seat] = {} /\ prizes = <<>>
                      /\ d.do = "endGame_left" => results[d.seat] = {}
                      /\ d.do = "endGame_left" /\ table.exists => d.seat \in table.left
                      /\ d.do = "leaveTable_pass" /\ ~d.stale => d.seat \in table.left
    OBVIOUS
  <2>1. CASE d \in new
    BY <2>1 DEF SnakesPending, SnakesEnding
  <2>2. CASE d \notin new
    <3>1. PICK c \in calls \ done : SameCall(d, c) /\ (c.stale => d.stale)
      BY <2>2 DEF After
    <3>2. /\ c.do = "clearTable" => refunds > 0
          /\ c.do \in SnakesEnding /\ c.copy.exists => prizes # <<>>
          /\ c.do = "leaveTable_pass" /\ ~c.stale => results[c.seat] = {} /\ prizes = <<>>
          /\ c.do = "endGame_left" => results[c.seat] = {}
          /\ c.do = "endGame_left" /\ table.exists => c.seat \in table.left
          /\ c.do = "leaveTable_pass" /\ ~c.stale => c.seat \in table.left
      BY DEF ResultsFit
    <3> QED BY <3>1, <3>2 DEF SameCall
  <2> QED BY <2>1, <2>2
<1>4. prizes' # <<>> => fees' = players' /\ refunds' = 0
  BY DEF ResultsFit
<1>5. ~table'.exists => prizes' # <<>> \/ refunds' > 0
  BY DEF ResultsFit, NoStart
<1>6. refunds' = 0 => \A s \in players' :
       IF prizes' = <<>>
       THEN IF s \in table'.left THEN results'[s] = {"lost"} \/ Unrecorded(s)' ELSE results'[s] = {}
       ELSE results'[s] \in {{"won"}, {"lost"}} \/ Unrecorded(s)'
  BY <1>2 DEF ResultsFit
<1>7. \A s \in DOMAIN prizes' : prizes'[s] = ST!Cardinality(DOMAIN prizes') /\ results'[s] = {"won"}
  BY DEF ResultsFit
<1> QED BY <1>3, <1>4, <1>5, <1>6, <1>7 DEF ResultsFit

LEMMA QuietKeepsOrder ==
  ASSUME SnakesOrder, NoStart, NEW done, NEW new, Quiet(done, new), CopiesAreFresh', Carried'
  PROVE  SnakesOrder'
<1>1. TurnFits' /\ ResultsFit'
  BY QuietKeepsTurn, QuietKeepsResults DEF SnakesOrder
<1>2. BeginsAlone'
  BY DEF Quiet, After, NoStart, SameCall, BeginsAlone
<1>3. SeatsArePointedAt'
  BY DEF SnakesOrder, SeatsArePointedAt, Quiet, ST!Remaining
<1> QED BY <1>1, <1>2, <1>3 DEF SnakesOrder

-----------------------------------------------------------------------------
(* While nobody else holds the lock two players are there, and the turn is  *)
(* with one who is there.                                                   *)
LEMMA InOrder ==
  ASSUME SnakesTyped, SnakesOrder, table.exists,
         \A c \in calls : c.locked => c.do \notin SnakesPending
  PROVE  /\ \E a, b \in ST!Remaining(table) : a # b
         /\ table.turn \in ST!Remaining(table)
         /\ \A c \in calls : c.do \notin SnakesPending
<1>1. \A c \in calls : c.do \in SnakesPending => c.locked
  BY DEF SnakesTyped, SnakesCalls
<1>2. "endGame_left" \in SnakesPending
  BY DEF SnakesPending
<1> QED BY <1>1, <1>2 DEF SnakesOrder, TurnFits

(* The turn passes to somebody who is there.                                *)
LEMMA PassedFits ==
  ASSUME SnakesTyped, NEW t, IsSnakesTable(t), t.exists
  PROVE  /\ ST!NextTurn(t) \in ST!Remaining(t) /\ ST!NextTurn(t) \in players
         /\ IsSnakesTable(ST!Passed(t)) /\ ST!Passed(t).exists /\ ST!Passed(t).left = t.left
         /\ ST!Passed(t).home = t.home /\ ST!Passed(t).turn = ST!NextTurn(t)
<1>1. ST!NextTurn(t) \in ST!Remaining(t)
  <2>1. PICK n \in 2..4 : players = 1..n
    BY DEF SnakesTyped
  <2>2. t.turn \in players /\ ST!Remaining(t) # {} /\ t.left \subseteq players
    BY DEF IsSnakesTable, SnakesTables
  <2> QED BY <2>1, <2>2, NextIsThere
<1>2. ST!NextTurn(t) \in players
  BY <1>1 DEF ST!Remaining
<1> DEFINE p == ST!Passed(t)
<1>3. /\ p.exists = t.exists /\ p.left = t.left /\ p.home = t.home /\ p.turn = ST!NextTurn(t)
      /\ p.lives = t.lives /\ p \in SnakesTables
  BY <1>2 DEF IsSnakesTable, SnakesTables, ST!Passed
<1>4. ST!Remaining(p) = ST!Remaining(t)
  BY <1>3 DEF ST!Remaining
<1> QED BY <1>1, <1>2, <1>3, <1>4 DEF IsSnakesTable

LEMMA DebitJoinFeeKeeps ==
  ASSUME SnakesTyped, SnakesOrder, slips = {}, NEW c \in calls, ST!DebitJoinFee(c)
  PROVE  SnakesTyped' /\ (slips' = {} => SnakesOrder')
<1>1. c.do = "debitJoinFee" /\ ST!Work({c}, {}) /\ UNCHANGED <<ST!Bounds, active, prizes, refunds, results, table>>
  BY DEF ST!DebitJoinFee, ST!Work
<1>2. /\ After({c}, {}) /\ calls' \in SUBSET SnakesCalls
      /\ \A x, d \in calls' : x.locked /\ d.locked => x = d
  <2>1. LockFits({c}, {})
    BY DEF LockFits
  <2>2. {} \in SUBSET SnakesCalls
    OBVIOUS
  <2> QED BY <1>1, <2>1, <2>2, AfterWork
<1>3. SnakesTyped'
  <2>1. slips' \subseteq ST!Slips /\ fees' \in {{}, players} /\ jobs' \subseteq {"skipTurn", "endGame"}
    BY DEF ST!DebitJoinFee, ST!Slip, ST!Slips, SnakesTyped
  <2> QED BY <1>1, <1>2, <2>1, SnakesTypedAfter DEF SnakesTyped, ST!Bounds
<1>4. ASSUME slips' = {} PROVE SnakesOrder'
  <2>1. fees' = players /\ jobs' = {"endGame", "skipTurn"}
    BY <1>4 DEF ST!DebitJoinFee, ST!Slip
  <2>2. CopiesAreFresh'
    <3>1. \A x \in {} : IsFresh(x, table)
      OBVIOUS
    <3> QED BY <1>1, <3>1, FreshAfterWork DEF SnakesOrder
  <2>3. Carried'
    BY <2>1 DEF Carried
  <2>4. Quiet({c}, {})
    BY <1>1, <1>2, <2>1 DEF Quiet, SnakesPending, ST!Bounds
  <2>5. NoStart
    BY <1>1, StartHappensFirst DEF SnakesOrder
  <2> QED BY <2>2, <2>3, <2>4, <2>5, QuietKeepsOrder
<1> QED BY <1>3, <1>4

(* A step that leaves the table and the money alone, with handlers that     *)
(* come and go.                                                             *)
LEMMA WorkKeeps ==
  ASSUME SnakesTyped, SnakesOrder, NEW done, NEW new \in SUBSET SnakesCalls, ST!Work(done, new),
         UNCHANGED <<players, clears, active, ST!Money, results>>, moves' \in Nat,
         slips' \subseteq ST!Slips, jobs' \subseteq {"skipTurn", "endGame"},
         LockFits(done, new),
         slips' = {} =>
           /\ NoStart
           /\ \A c \in done : c.do \notin SnakesPending
           /\ \A n \in new : /\ n.do \notin SnakesPending \union {"startGame", "clearTable"}
                             /\ n.do \in SnakesEnding => ~n.copy.exists
                             /\ IsFresh(n, table)
           /\ table.exists =>
                /\ jobs \subseteq jobs' \/ \E n \in new : SnakesPasses(n, table.turn)
                /\ "endGame" \in jobs => "endGame" \in jobs' \/ \E n \in new : n.do \in SnakesEnding
                /\ \A c \in done : SnakesPasses(c, table.turn) => \E n \in new : SnakesPasses(n, table.turn)
                /\ \A c \in done : c.do \in SnakesEnding \union {"debitJoinFee"} => \E n \in new : n.do \in SnakesEnding
  PROVE  SnakesTyped' /\ (slips' = {} => SnakesOrder')
<1>1. /\ After(done, new) /\ calls' \in SUBSET SnakesCalls /\ table' = table
      /\ \A x, d \in calls' : x.locked /\ d.locked => x = d
  BY AfterWork
<1>2. SnakesTyped'
  BY <1>1, SnakesTypedAfter DEF SnakesTyped, ST!Money
<1>3. ASSUME slips' = {} PROVE SnakesOrder'
  <2>1. CopiesAreFresh'
    BY <1>3, FreshAfterWork DEF SnakesOrder
  <2>2. Quiet(done, new)
    BY <1>1, <1>3 DEF Quiet, ST!Money
  <2>3. Carried'
    <3>1. CASE table.exists
      BY <1>1, <1>3, <3>1, CarriedOn DEF SnakesOrder
    <3>2. CASE ~table.exists
      BY <1>1, <3>2 DEF Carried
    <3> QED BY <3>1, <3>2
  <2> QED BY <1>3, <2>1, <2>2, <2>3, QuietKeepsOrder
<1> QED BY <1>2, <1>3

LEMMA TimersKeep ==
  ASSUME SnakesTyped, SnakesOrder, slips = {}, NEW t \in jobs, ST!TurnTimer(t) \/ ST!EndTimer(t)
  PROVE  SnakesTyped' /\ (slips' = {} => SnakesOrder')
<1>1. NoStart
  BY StartHappensFirst DEF SnakesOrder
<1>2. CASE ST!TurnTimer(t)
  <2> DEFINE new == ST!When(table.exists, ST!Call("skipTurn", table.turn))
  <2>1. table.turn \in players
    BY DEF SnakesTyped, IsSnakesTable, SnakesTables
  <2>2. /\ new \in SUBSET SnakesCalls
        /\ \A n \in new : n.do = "skipTurn" /\ n.seat = table.turn /\ ~n.locked /\ ~n.copy.exists /\ table.exists
        /\ \A m, n \in new : m = n
        /\ table.exists => \E n \in new : n.do = "skipTurn" /\ n.seat = table.turn
    BY <2>1, CallFits DEF ST!When
  <2>3. /\ t = "skipTurn" /\ jobs' = jobs \ {t} /\ ST!Work({}, new)
        /\ UNCHANGED <<ST!Bounds, active, ST!Money, results, slips>>
    BY <1>2 DEF ST!TurnTimer
  <2> HIDE DEF new
  <2>4. LockFits({}, new)
    BY <2>2 DEF LockFits
  <2>5. \A n \in new : /\ n.do \notin SnakesPending \union {"startGame", "clearTable"}
                       /\ n.do \in SnakesEnding => ~n.copy.exists
                       /\ IsFresh(n, table)
    BY <2>2 DEF SnakesPending, IsFresh
  <2>6. table.exists => \E n \in new : SnakesPasses(n, table.turn)
    BY <2>2 DEF SnakesPasses
  <2> QED BY <1>1, <2>2, <2>3, <2>4, <2>5, <2>6, WorkKeeps DEF SnakesTyped, ST!Bounds
<1>3. CASE ST!EndTimer(t)
  <2> DEFINE e == ST!Call("endGame", 1)
  <2>1. e \in SnakesCalls /\ e.do = "endGame" /\ ~e.locked /\ ~e.copy.exists
    BY CallFits, NoTableFits
  <2>2. /\ t = "endGame" /\ jobs' = jobs \ {t} /\ ST!Work({}, {e})
        /\ UNCHANGED <<ST!Bounds, active, ST!Money, results, slips>>
    BY <1>3 DEF ST!EndTimer
  <2> HIDE DEF e
  <2>3. LockFits({}, {e})
    BY <2>1 DEF LockFits
  <2>4. e.do \notin SnakesPending \union {"startGame", "clearTable"} /\ IsFresh(e, table) /\ SnakesPasses(e, table.turn)
        /\ e.do \in SnakesEnding
    BY <2>1 DEF SnakesPending, IsFresh, SnakesPasses, SnakesEnding
  <2> QED BY <1>1, <2>1, <2>2, <2>3, <2>4, WorkKeeps DEF SnakesTyped, ST!Bounds
<1> QED BY <1>2, <1>3

-----------------------------------------------------------------------------
(* A handler with the copy it has just read, without the lock.              *)
Reader(what, s, t) == [ST!Call(what, s) EXCEPT !.copy = t]

LEMMA ReaderFits ==
  ASSUME SnakesTyped, NEW s \in players, NEW t, IsSnakesTable(t), t.exists,
         NEW what \in {"skipTurn_store", "skipTurn_leave", "clearTable"}
  PROVE  /\ Reader(what, s, t) \in SnakesCalls
         /\ Reader(what, s, t).do = what /\ Reader(what, s, t).seat = s /\ Reader(what, s, t).copy = t
         /\ ~Reader(what, s, t).locked /\ ~Reader(what, s, t).stale
BY DEF Reader, ST!Call, SnakesCalls, IsSnakesTable, Skipping, SnakesEnding, SnakesPending

(* The table as a skip will store it: a life less, or none.                 *)
LEMMA LifeTaken ==
  ASSUME SnakesTyped, Lives \in Nat, table.exists, NEW s \in players, table.lives[s] # 0,
         NEW cost \in {0, 1},
         NEW t, t = [table EXCEPT !.lives[s] = @ - cost, !.action = "rollDice"]
  PROVE  IsSnakesTable(t) /\ t.exists /\ t.left = table.left /\ t.turn = table.turn
<1>1. table \in SnakesTables /\ table.lives \in [players -> 0..Lives] /\ ST!Remaining(table) # {}
  BY DEF SnakesTyped, IsSnakesTable
<1>2. table.lives[s] \in 0..Lives
  BY <1>1
<1>3. table.lives[s] - cost \in 0..Lives
  BY <1>2
<1>4. [table.lives EXCEPT ![s] = @ - cost] \in [players -> 0..Lives]
  BY <1>1, <1>3
<1>5. /\ t.lives = [table.lives EXCEPT ![s] = @ - cost] /\ t.exists = table.exists /\ t.left = table.left
      /\ t.turn = table.turn /\ t \in SnakesTables
  BY <1>1, <1>4 DEF SnakesTables
<1>6. ST!Remaining(t) = ST!Remaining(table)
  BY <1>5 DEF ST!Remaining
<1> QED BY <1>1, <1>4, <1>5, <1>6 DEF IsSnakesTable

LEMMA SnakesSkipKeeps ==
  ASSUME SnakesTyped, SnakesOrder, Lives \in Nat, slips = {}, table.exists,
         NEW done \in SUBSET calls,
         ST!Skip(table.turn, done), moves' \in Nat,
         \A c \in done : c.do = "skipTurn"
  PROVE  SnakesTyped' /\ (slips' = {} => SnakesOrder')
<1>1. PICK s \in players : s = table.turn
  BY DEF SnakesTyped, IsSnakesTable, SnakesTables
<1>2. PICK t \in SnakesTables, what \in {"skipTurn_leave", "skipTurn_store"} :
        /\ IsSnakesTable(t) /\ t.exists /\ t.left = table.left /\ t.turn = table.turn
        /\ ST!Work(done, {Reader(what, s, t)})
  <2>1. CASE table.lives[s] = 0
    <3>1. ST!Work(done, {Reader("skipTurn_leave", s, table)})
      BY <1>1, <2>1 DEF ST!Skip, Reader
    <3>2. IsSnakesTable(table) /\ table \in SnakesTables
      BY DEF SnakesTyped, IsSnakesTable
    <3> QED BY <3>1, <3>2
  <2>2. CASE table.lives[s] # 0
    <3>1. PICK cost \in {0, 1} :
            ST!Work(done, {Reader("skipTurn_store", s, [table EXCEPT !.lives[s] = @ - cost, !.action = "rollDice"])})
      BY <1>1, <2>2 DEF ST!Skip, Reader
    <3> DEFINE t == [table EXCEPT !.lives[s] = @ - cost, !.action = "rollDice"]
    <3>2. IsSnakesTable(t) /\ t.exists /\ t.left = table.left /\ t.turn = table.turn
      BY <1>1, <2>2, LifeTaken
    <3> HIDE DEF t
    <3>4. t \in SnakesTables
      BY <3>2 DEF IsSnakesTable
    <3>3. ST!Work(done, {Reader("skipTurn_store", s, t)})
      BY <3>1 DEF t
    <3> QED BY <3>2, <3>3, <3>4
  <2> QED BY <2>1, <2>2
<1> DEFINE n == Reader(what, s, t)
<1>3. what \in {"skipTurn_store", "skipTurn_leave", "clearTable"} /\ IsSnakesTable(t) /\ t.exists
  BY <1>2
<1>4. n \in SnakesCalls /\ n.do = what /\ n.seat = s /\ n.copy = t /\ ~n.locked
  BY <1>3, ReaderFits
<1> HIDE DEF n
<1>5. LockFits(done, {n})
  BY <1>4 DEF LockFits
<1>6. n.do \notin SnakesPending \union {"startGame", "clearTable"} /\ n.do \notin SnakesEnding /\ IsFresh(n, table)
      /\ SnakesPasses(n, table.turn)
  BY <1>1, <1>2, <1>4 DEF SnakesPending, IsFresh, SnakesPasses, SnakesEnding, Skipping
<1>7. ST!Work(done, {n}) /\ {n} \in SUBSET SnakesCalls
  BY <1>2, <1>4 DEF n
<1>8. UNCHANGED <<players, clears, active, jobs, ST!Money, results, slips>>
  BY DEF ST!Skip
<1>9. NoStart
  BY StartHappensFirst DEF SnakesOrder
<1>10. \A c \in done : c.do \notin SnakesPending /\ c.do \notin SnakesEnding \union {"debitJoinFee"}
  BY DEF SnakesPending, SnakesEnding
<1> QED BY <1>5, <1>6, <1>7, <1>8, <1>9, <1>10, WorkKeeps DEF SnakesTyped

(* A handler that ends and leaves nothing behind.                           *)
LEMMA DoneKeeps ==
  ASSUME SnakesTyped, SnakesOrder, NEW c \in calls, ST!Done(c),
         c.do \in {"skipTurn", "leaveTable"}, table.exists => ~SnakesPasses(c, table.turn)
  PROVE  SnakesTyped' /\ (slips' = {} => SnakesOrder')
<1>1. ST!Work({c}, {}) /\ UNCHANGED <<ST!Bounds, active, jobs, ST!Money, results, slips>>
  BY DEF ST!Done
<1>2. {} \in SUBSET SnakesCalls /\ LockFits({c}, {})
  BY DEF LockFits
<1>3. NoStart
  BY StartHappensFirst DEF SnakesOrder
<1>4. c.do \notin SnakesPending /\ c.do \notin SnakesEnding \union {"debitJoinFee"}
  BY DEF SnakesPending, SnakesEnding
<1> QED BY <1>1, <1>2, <1>3, <1>4, WorkKeeps DEF SnakesTyped, ST!Bounds

LEMMA SkipReadKeeps ==
  ASSUME SnakesTyped, SnakesOrder, Lives \in Nat, slips = {}, NEW c \in calls, ST!SkipRead(c)
  PROVE  SnakesTyped' /\ (slips' = {} => SnakesOrder')
<1>1. c.do = "skipTurn"
  BY DEF ST!SkipRead
<1>2. CASE ~table.exists \/ table.turn # c.seat
  <2>1. ST!Done(c)
    BY <1>2 DEF ST!SkipRead
  <2>2. table.exists => ~SnakesPasses(c, table.turn)
    BY <1>1, <1>2 DEF SnakesPasses, Skipping, SnakesEnding
  <2> QED BY <1>1, <2>1, <2>2, DoneKeeps
<1>3. CASE table.exists /\ table.turn = c.seat
  <2>1. ST!Skip(table.turn, {c}) /\ UNCHANGED moves
    BY <1>3 DEF ST!SkipRead
  <2> QED BY <1>1, <1>3, <2>1, SnakesSkipKeeps DEF SnakesTyped
<1> QED BY <1>2, <1>3

LEMMA SkipReadAgainKeeps ==
  ASSUME SnakesTyped, SnakesOrder, slips = {}, NEW c \in calls, ST!SkipReadAgain(c)
  PROVE  SnakesTyped' /\ (slips' = {} => SnakesOrder')
<1> DEFINE new == IF ~table.exists THEN {}
                  ELSE IF c.do = "skipTurn_leaving" THEN {ST!Call("leaveTable", table.turn)}
                  ELSE {[c EXCEPT !.do = "skipTurn_pass", !.copy = table, !.stale = FALSE]}
<1>1. /\ c.do \in {"skipTurn_read", "skipTurn_leaving"} /\ ST!Work({c}, new)
      /\ slips' = slips \union ST!When(c.stale, "overtaken")
      /\ UNCHANGED <<ST!Bounds, active, jobs, ST!Money, results>>
  BY DEF ST!SkipReadAgain
<1>2. c \in SnakesCalls /\ ~c.locked /\ c.copy.exists
  BY <1>1 DEF SnakesTyped, SnakesCalls, Skipping
<1>3. /\ new \in SUBSET SnakesCalls
      /\ \A m, n \in new : m = n
      /\ \A n \in new : /\ ~n.locked /\ n.do \notin SnakesPending \union {"startGame", "clearTable"}
                        /\ n.do \notin SnakesEnding /\ IsFresh(n, table) /\ SnakesPasses(n, table.turn)
      /\ table.exists => new # {}
  <2>1. CASE ~table.exists
    BY <2>1
  <2>2. CASE table.exists /\ c.do = "skipTurn_leaving"
    <3> DEFINE n == ST!Call("leaveTable", table.turn)
    <3>1. table.turn \in players
      BY DEF SnakesTyped, IsSnakesTable, SnakesTables
    <3>2. n \in SnakesCalls /\ n.do = "leaveTable" /\ n.seat = table.turn /\ ~n.locked /\ ~n.copy.exists
      BY <3>1, CallFits
    <3>3. new = {n}
      BY <2>2
    <3> HIDE DEF n, new
    <3> QED BY <3>2, <3>3 DEF SnakesPending, SnakesEnding, IsFresh, SnakesPasses
  <2>3. CASE table.exists /\ c.do # "skipTurn_leaving"
    <3> DEFINE n == [c EXCEPT !.do = "skipTurn_pass", !.copy = table, !.stale = FALSE]
    <3>1. n.do = "skipTurn_pass" /\ n.seat = c.seat /\ n.copy = table /\ ~n.locked /\ ~n.stale
      BY <1>2 DEF SnakesCalls
    <3>2. n \in SnakesCalls
      BY <1>2, <2>3 DEF SnakesCalls, SnakesTyped, IsSnakesTable, Skipping, SnakesEnding,
         SnakesPending
    <3>3. new = {n}
      BY <2>3
    <3> HIDE DEF n, new
    <3> QED BY <3>1, <3>2, <3>3 DEF SnakesPending, SnakesEnding, IsFresh, SnakesPasses, Skipping
  <2> QED BY <2>1, <2>2, <2>3
<1> HIDE DEF new
<1>4. LockFits({c}, new)
  BY <1>3 DEF LockFits
<1>5. slips' \subseteq ST!Slips
  BY <1>1 DEF SnakesTyped, ST!When, ST!Slips
<1>6. NoStart
  BY <1>1, StartHappensFirst DEF SnakesOrder
<1>7. c.do \notin SnakesPending /\ c.do \notin SnakesEnding \union {"debitJoinFee"}
  BY <1>1 DEF SnakesPending, SnakesEnding
<1> QED BY <1>1, <1>3, <1>4, <1>5, <1>6, <1>7, WorkKeeps DEF SnakesTyped, ST!Bounds

LEMMA LeaveAfterSkipKeeps ==
  ASSUME SnakesTyped, SnakesOrder, slips = {}, NEW c \in calls, ST!LeaveAfterSkip(c)
  PROVE  SnakesTyped' /\ (slips' = {} => SnakesOrder')
<1>1. c.do = "leaveTable" /\ ~c.locked /\ c \in SnakesCalls
  BY DEF ST!LeaveAfterSkip, SnakesTyped
<1>2. CASE ~table.exists
  BY <1>1, <1>2, DoneKeeps DEF ST!LeaveAfterSkip
<1>3. CASE table.exists
  <2> DEFINE t == [table EXCEPT !.left = @ \union {c.seat}]
             n == [c EXCEPT !.copy = t, !.locked = TRUE]
  <2>1. /\ ST!Unlocked /\ ST!Work({c}, {n})
        /\ UNCHANGED <<ST!Bounds, active, jobs, ST!Money, results, slips>>
    BY <1>3 DEF ST!LeaveAfterSkip
  <2>2. c.seat \in players /\ ~c.copy.exists /\ c.stale \in BOOLEAN
    BY <1>1 DEF SnakesCalls
  <2>3. IsSnakesTable(t) /\ t.exists /\ t.turn = table.turn /\ t.left = table.left \union {c.seat}
    <3>1. \E a, b \in ST!Remaining(table) : a # b
      BY <1>3, <2>1, InOrder DEF ST!Unlocked
    <3>2. /\ t \in SnakesTables /\ t.exists = table.exists /\ t.turn = table.turn
          /\ t.left = table.left \union {c.seat} /\ t.lives = table.lives
      BY <2>2 DEF SnakesTyped, IsSnakesTable, SnakesTables
    <3>3. ST!Remaining(t) # {}
      BY <3>1, <3>2 DEF ST!Remaining
    <3> QED BY <1>3, <3>2, <3>3 DEF IsSnakesTable, SnakesTyped
  <2> HIDE DEF t
  <2>4. n.do = "leaveTable" /\ n.seat = c.seat /\ n.copy = t /\ n.locked /\ n \in SnakesCalls
    <3>1. /\ n.do = c.do /\ n.seat = c.seat /\ n.copy = t /\ n.locked = TRUE /\ n.stale = c.stale
          /\ n \in [do : {"leaveTable"}, seat : players, copy : {t}, locked : BOOLEAN, stale : BOOLEAN]
      BY <1>1, <2>2 DEF SnakesCalls
    <3> HIDE DEF n
    <3> QED BY <1>1, <2>2, <2>3, <3>1 DEF SnakesCalls, IsSnakesTable, Skipping, SnakesEnding,
               SnakesPending
  <2> HIDE DEF n
  <2>5. LockFits({c}, {n})
    BY <2>1 DEF LockFits, ST!Unlocked
  <2>6. n.do \notin SnakesPending \union {"startGame", "clearTable"} /\ n.do \notin SnakesEnding /\ IsFresh(n, table)
        /\ (SnakesPasses(c, table.turn) => SnakesPasses(n, table.turn))
    BY <1>1, <1>3, <2>3, <2>4 DEF SnakesPending, IsFresh, SnakesPasses, SnakesEnding, Skipping
  <2>7. NoStart
    BY <1>3, StartHappensFirst DEF SnakesOrder
  <2>8. c.do \notin SnakesPending /\ c.do \notin SnakesEnding \union {"debitJoinFee"}
    BY <1>1 DEF SnakesPending, SnakesEnding
  <2> QED BY <2>1, <2>4, <2>5, <2>6, <2>7, <2>8, WorkKeeps DEF SnakesTyped, ST!Bounds
<1> QED BY <1>2, <1>3

-----------------------------------------------------------------------------
(* The turn has passed on, with a timer of its own or to end the game.      *)
LEMMA CarriedAnew ==
  ASSUME Carried, NEW done, NEW new, After(done, new), table.exists,
         "skipTurn" \in jobs' \/ \E n \in new : n.do \in SnakesEnding,
         "endGame" \in jobs => "endGame" \in jobs',
         \A c \in done : c.do \notin SnakesEnding \union {"debitJoinFee"}
  PROVE  Carried'
<1>1. "skipTurn" \in jobs' \/ \E c \in calls' : SnakesPasses(c, table'.turn)
  <2>1. CASE \E n \in new : n.do \in SnakesEnding
    BY <2>1 DEF After, SnakesPasses
  <2> QED BY <2>1
<1>2. "endGame" \in jobs' \/ \E c \in calls' : c.do \in SnakesEnding \union {"debitJoinFee"}
  <2>1. "endGame" \in jobs \/ \E c \in calls \ done : c.do \in SnakesEnding \union {"debitJoinFee"}
    BY DEF Carried
  <2> QED BY <2>1 DEF After, SameCall
<1> QED BY <1>1, <1>2 DEF Carried, SnakesPasses

(* A step that stores the table as it was, but for the turn, the dice, the  *)
(* lives and the pawns.                                                     *)
LEMMA StoreKeeps ==
  ASSUME SnakesTyped, SnakesOrder, NEW t, NEW done, NEW new \in SUBSET SnakesCalls,
         ST!Store(t, done, new),
         UNCHANGED <<ST!Bounds, active, ST!Money, results>>, IsSnakesTable(t), t.exists,
         slips' \subseteq ST!Slips, jobs' \subseteq {"skipTurn", "endGame"},
         LockFits(done, new),
         slips' = {} =>
           /\ table.exists
           /\ t.left = table.left
           /\ t.turn = table.turn \/ t.turn \in ST!Remaining(table)
           /\ \A c \in done : c.do \notin SnakesPending
           /\ \A n \in new : /\ n.do \notin SnakesPending \union {"startGame", "clearTable"}
                             /\ n.do \in SnakesEnding => ~n.copy.exists
                             /\ IsFresh(n, t)
           /\ Carried'
  PROVE  SnakesTyped' /\ (slips' = {} => SnakesOrder')
<1>1. /\ After(done, new) /\ calls' \in SUBSET SnakesCalls /\ table' = t
      /\ \A x, d \in calls' : x.locked /\ d.locked => x = d
  BY AfterStore
<1>2. SnakesTyped'
  BY <1>1, SnakesTypedAfter DEF SnakesTyped, ST!Money, ST!Bounds
<1>3. ASSUME slips' = {} PROVE SnakesOrder'
  <2>1. CopiesAreFresh'
    BY <1>3, FreshAfterStore
  <2>2. t.exists = table.exists
    BY <1>3 DEF SnakesTyped, IsSnakesTable, SnakesTables
  <2>3. Quiet(done, new)
    BY <1>1, <1>3, <2>2 DEF Quiet, ST!Money, ST!Bounds
  <2>4. NoStart
    BY <1>3, StartHappensFirst DEF SnakesOrder
  <2> QED BY <1>3, <2>1, <2>3, <2>4, QuietKeepsOrder
<1> QED BY <1>2, <1>3

LEMMA SkipStoreKeeps ==
  ASSUME SnakesTyped, SnakesOrder, slips = {}, NEW c \in calls, ST!SkipStore(c)
  PROVE  SnakesTyped' /\ (slips' = {} => SnakesOrder')
<1> DEFINE n == [c EXCEPT !.do = IF @ = "skipTurn_store" THEN "skipTurn_read" ELSE "skipTurn_leaving",
                          !.stale = FALSE]
<1>1. /\ c.do \in {"skipTurn_store", "skipTurn_leave"} /\ ST!Store(c.copy, {c}, {n})
      /\ UNCHANGED <<ST!Bounds, active, ST!Money, results>> /\ ST!StoreSlip(c)
      /\ jobs' \in {jobs, jobs \ {"skipTurn"}}
  BY DEF ST!SkipStore, ST!Counted, ST!When
<1>2. c \in SnakesCalls /\ ~c.locked /\ c.copy.exists /\ IsSnakesTable(c.copy)
  BY <1>1 DEF SnakesTyped, SnakesCalls, Skipping
<1>3. /\ n.do \in {"skipTurn_read", "skipTurn_leaving"} /\ n.copy = c.copy /\ ~n.locked /\ n \in SnakesCalls
  <2>1. n.do \in {"skipTurn_read", "skipTurn_leaving"} /\ n.copy = c.copy /\ ~n.locked /\ ~n.stale /\ n.seat = c.seat
    BY <1>2 DEF SnakesCalls
  <2>2. n \in SnakesCalls
    BY <1>2 DEF SnakesCalls, Skipping, SnakesEnding, SnakesPending
  <2> QED BY <2>1, <2>2
<1> HIDE DEF n
<1>4. LockFits({c}, {n})
  BY <1>3 DEF LockFits
<1>5. slips' \subseteq ST!Slips /\ (slips' = {} => ~c.stale)
  BY <1>1 DEF ST!StoreSlip, ST!Slips
<1>6. After({c}, {n}) /\ table' = c.copy
  BY <1>1, <1>3, AfterStore
<1>7. ASSUME slips' = {}
      PROVE  /\ table.exists /\ c.copy.left = table.left /\ c.copy.turn = table.turn
             /\ c.do \notin SnakesPending /\ n.do \notin SnakesPending \union SnakesEnding \union {"startGame", "clearTable"}
             /\ IsFresh(n, c.copy)
             /\ Carried'
  <2>1. table.exists /\ c.copy.left = table.left /\ c.copy.turn = table.turn
    <3>1. IsFresh(c, table)
      BY FreshIsFresh DEF SnakesOrder
    <3> QED BY <1>1, <1>2, <1>5, <1>7, <3>1 DEF IsFresh
  <2>2. n.do \notin SnakesPending \union SnakesEnding \union {"startGame", "clearTable"} /\ c.do \notin SnakesPending
    BY <1>1, <1>3 DEF SnakesPending, SnakesEnding
  <2>3. IsFresh(n, c.copy)
    BY <1>2, <1>3 DEF IsFresh
  <2>4. Carried'
    <3>1. SnakesPasses(n, table.turn)
      BY <1>3 DEF SnakesPasses, Skipping
    <3>2. "endGame" \in jobs => "endGame" \in jobs'
      BY <1>1
    <3>3. c.do \notin SnakesEnding \union {"debitJoinFee"}
      BY <1>1 DEF SnakesEnding
    <3> QED BY <1>6, <2>1, <3>1, <3>2, <3>3, CarriedOn DEF SnakesOrder
  <2> QED BY <2>1, <2>2, <2>3, <2>4
<1>8. jobs' \subseteq {"skipTurn", "endGame"}
  BY <1>1 DEF SnakesTyped
<1> QED BY <1>1, <1>2, <1>3, <1>4, <1>5, <1>7, <1>8, StoreKeeps

LEMMA SkipPassKeeps ==
  ASSUME SnakesTyped, SnakesOrder, slips = {}, NEW c \in calls, ST!SkipPass(c)
  PROVE  SnakesTyped' /\ (slips' = {} => SnakesOrder')
<1> DEFINE t == [c.copy EXCEPT !.turn = ST!NextTurn(c.copy), !.dice = FALSE]
           new == ST!When(t.home, ST!Call("endGame", 1))
<1>1. /\ c.do = "skipTurn_pass" /\ ST!Store(t, {c}, new) /\ jobs' = jobs \union ST!When(~t.home, "skipTurn")
      /\ UNCHANGED <<ST!Bounds, active, ST!Money, results>> /\ ST!StoreSlip(c)
  BY DEF ST!SkipPass
<1>2. c \in SnakesCalls /\ ~c.locked /\ c.copy.exists /\ IsSnakesTable(c.copy)
  BY <1>1 DEF SnakesTyped, SnakesCalls, Skipping
<1>3. /\ ST!NextTurn(c.copy) \in ST!Remaining(c.copy) /\ ST!NextTurn(c.copy) \in players
  BY <1>2, PassedFits
<1>4. /\ t.exists /\ t.left = c.copy.left /\ t.turn = ST!NextTurn(c.copy) /\ IsSnakesTable(t)
  <2>1. /\ t.exists = c.copy.exists /\ t.left = c.copy.left /\ t.turn = ST!NextTurn(c.copy)
        /\ t.lives = c.copy.lives /\ t \in SnakesTables
    BY <1>2, <1>3 DEF IsSnakesTable, SnakesTables
  <2>2. ST!Remaining(t) = ST!Remaining(c.copy)
    BY <2>1 DEF ST!Remaining
  <2> QED BY <1>2, <2>1, <2>2 DEF IsSnakesTable
<1> HIDE DEF t
<1>5. /\ new \in SUBSET SnakesCalls
      /\ \A n \in new : n.do = "endGame" /\ ~n.locked /\ ~n.copy.exists
      /\ \A m, n \in new : m = n
      /\ t.home => new # {}
  BY CallFits, NoTableFits DEF ST!When
<1> HIDE DEF new
<1>6. LockFits({c}, new)
  BY <1>5 DEF LockFits
<1>7. slips' \subseteq ST!Slips /\ (slips' = {} => ~c.stale)
  BY <1>1 DEF ST!StoreSlip, ST!Slips
<1>8. After({c}, new)
  BY <1>1, <1>5, AfterStore
<1>9. ASSUME slips' = {}
      PROVE  /\ table.exists /\ t.left = table.left /\ t.turn \in ST!Remaining(table)
             /\ Carried'
  <2>1. table.exists /\ c.copy.left = table.left
    <3>1. IsFresh(c, table)
      BY FreshIsFresh DEF SnakesOrder
    <3> QED BY <1>1, <1>2, <1>7, <1>9, <3>1 DEF IsFresh
  <2>2. t.turn \in ST!Remaining(table)
    BY <1>3, <1>4, <2>1 DEF ST!Remaining
  <2>3. "skipTurn" \in jobs' \/ \E n \in new : n.do \in SnakesEnding
    BY <1>1, <1>5 DEF ST!When, SnakesEnding
  <2>4. ("endGame" \in jobs => "endGame" \in jobs') /\ c.do \notin SnakesEnding \union {"debitJoinFee"}
    BY <1>1 DEF SnakesEnding
  <2>5. Carried'
    BY <1>8, <2>1, <2>3, <2>4, CarriedAnew DEF SnakesOrder
  <2> QED BY <1>4, <2>1, <2>2, <2>5
<1>10. \A n \in new : /\ n.do \notin SnakesPending \union {"startGame", "clearTable"}
                      /\ n.do \in SnakesEnding => ~n.copy.exists
                      /\ IsFresh(n, t)
  BY <1>5 DEF SnakesPending, IsFresh
<1>11. jobs' \subseteq {"skipTurn", "endGame"} /\ c.do \notin SnakesPending
  BY <1>1 DEF SnakesTyped, ST!When, SnakesPending
<1> QED BY <1>1, <1>4, <1>5, <1>6, <1>7, <1>9, <1>10, <1>11, StoreKeeps

LEMMA StoreTurnKeeps ==
  ASSUME SnakesTyped, SnakesOrder, slips = {}, NEW c \in calls, ST!StoreTurn(c)
  PROVE  SnakesTyped' /\ (slips' = {} => SnakesOrder')
<1> DEFINE e == [ST!Call("endGame", 1) EXCEPT !.locked = TRUE]
           new == ST!When(c.copy.home, e)
<1>1. /\ c.do = "store" /\ ST!Store(c.copy, {c}, new)
      /\ jobs' = (jobs \ {"skipTurn"}) \union ST!When(~c.copy.home, "skipTurn")
      /\ UNCHANGED <<ST!Bounds, active, ST!Money, results>> /\ ST!StoreSlip(c)
  BY DEF ST!StoreTurn, ST!Counted
<1>2. c \in SnakesCalls /\ c.locked /\ c.copy.exists /\ IsSnakesTable(c.copy) /\ c.copy.turn \in ST!Remaining(c.copy)
  BY <1>1 DEF SnakesTyped, SnakesCalls
<1>3. e \in SnakesCalls /\ e.do = "endGame" /\ ~e.copy.exists
  BY LockedEndFits, NoTableFits DEF SnakesEnding
<1> HIDE DEF e
<1>4. /\ new \in SUBSET SnakesCalls
      /\ \A n \in new : n.do = "endGame" /\ ~n.copy.exists
      /\ \A m, n \in new : m = n
      /\ c.copy.home => new # {}
  BY <1>3 DEF ST!When
<1> HIDE DEF new
<1>5. LockFits({c}, new)
  BY <1>2, <1>4 DEF LockFits, SnakesTyped
<1>6. slips' \subseteq ST!Slips /\ (slips' = {} => ~c.stale)
  BY <1>1 DEF ST!StoreSlip, ST!Slips
<1>7. After({c}, new)
  BY <1>1, <1>4, AfterStore
<1>8. ASSUME slips' = {}
      PROVE  /\ table.exists /\ c.copy.left = table.left /\ c.copy.turn \in ST!Remaining(table)
             /\ Carried'
  <2>1. table.exists /\ c.copy.left = table.left
    <3>1. IsFresh(c, table)
      BY FreshIsFresh DEF SnakesOrder
    <3> QED BY <1>1, <1>2, <1>6, <1>8, <3>1 DEF IsFresh
  <2>2. c.copy.turn \in ST!Remaining(table)
    BY <1>2, <2>1 DEF ST!Remaining
  <2>3. "skipTurn" \in jobs' \/ \E n \in new : n.do \in SnakesEnding
    BY <1>1, <1>4 DEF ST!When, SnakesEnding
  <2>4. ("endGame" \in jobs => "endGame" \in jobs') /\ c.do \notin SnakesEnding \union {"debitJoinFee"}
    BY <1>1 DEF SnakesEnding
  <2>5. Carried'
    BY <1>7, <2>1, <2>3, <2>4, CarriedAnew DEF SnakesOrder
  <2> QED BY <2>1, <2>2, <2>5
<1>9. \A n \in new : /\ n.do \notin SnakesPending \union {"startGame", "clearTable"}
                     /\ n.do \in SnakesEnding => ~n.copy.exists
                     /\ IsFresh(n, c.copy)
  BY <1>4 DEF SnakesPending, IsFresh
<1>10. jobs' \subseteq {"skipTurn", "endGame"} /\ c.do \notin SnakesPending
  BY <1>1 DEF SnakesTyped, ST!When, SnakesPending
<1> QED BY <1>1, <1>2, <1>4, <1>5, <1>6, <1>8, <1>9, <1>10, StoreKeeps

-----------------------------------------------------------------------------
(* A handler that takes the lock reads the table as it is, and nobody else  *)
(* stores it then without a slip.                                           *)
Holder(what, s, t) == [ST!Call(what, s) EXCEPT !.copy = t, !.locked = TRUE]

LEMMA HolderFits ==
  ASSUME SnakesTyped, NEW s \in players, NEW t, IsSnakesTable(t), t.exists,
         NEW what \in {"store", "leaveTable"},
         what = "store" => t.turn \in ST!Remaining(t)
  PROVE  /\ Holder(what, s, t) \in SnakesCalls
         /\ Holder(what, s, t).do = what /\ Holder(what, s, t).seat = s /\ Holder(what, s, t).copy = t
         /\ Holder(what, s, t).locked
<1> DEFINE n == Holder(what, s, t)
<1>1. n.do = what /\ n.seat = s /\ n.copy = t /\ n.locked /\ ~n.stale
  BY DEF ST!Call, Holder
<1>2. n \in [do : {what}, seat : players, copy : {t}, locked : {TRUE}, stale : {FALSE}]
  BY DEF ST!Call, Holder
<1> HIDE DEF n
<1>3. n \in SnakesCalls
  BY <1>1, <1>2 DEF SnakesCalls, IsSnakesTable, Skipping, SnakesEnding, SnakesPending
<1> QED BY <1>1, <1>3 DEF n

LEMMA SnakesBeginKeeps ==
  ASSUME SnakesTyped, SnakesOrder, slips = {}, table.exists, NEW s \in players, NEW t,
         IsSnakesTable(t), t.exists,
         NEW what \in {"store", "leaveTable"}, ST!Begin(ST!Call(what, s), t), moves' \in Nat,
         what = "store" => t.turn \in ST!Remaining(t) /\ t.left = table.left,
         what = "leaveTable" => t.turn = table.turn /\ t.left = table.left \union {s}
  PROVE  SnakesTyped' /\ (slips' = {} => SnakesOrder')
<1> DEFINE n == Holder(what, s, t)
<1>1. /\ ST!Unlocked /\ ST!Work({}, {n}) /\ UNCHANGED <<players, clears, active, jobs, ST!Money, results, slips>>
  BY DEF ST!Begin, Holder
<1>2. n \in SnakesCalls /\ n.do = what /\ n.seat = s /\ n.copy = t /\ n.locked
  BY HolderFits
<1> HIDE DEF n
<1>3. LockFits({}, {n})
  BY <1>1 DEF LockFits, ST!Unlocked
<1>4. n.do \notin SnakesPending \union {"startGame", "clearTable"} /\ n.do \notin SnakesEnding /\ IsFresh(n, table)
  BY <1>2 DEF SnakesPending, SnakesEnding, IsFresh
<1>5. NoStart
  BY StartHappensFirst DEF SnakesOrder
<1> QED BY <1>1, <1>2, <1>3, <1>4, <1>5, WorkKeeps DEF SnakesTyped

LEMMA MessageKeeps ==
  ASSUME SnakesTyped, SnakesOrder, Lives \in Nat, slips = {}, NEW s \in players, ST!Message(s)
  PROVE  SnakesTyped' /\ (slips' = {} => SnakesOrder')
<1>1. moves' \in Nat
  BY DEF ST!Message, SnakesTyped
<1>2. IsSnakesTable(table) /\ 1 \in players
  BY NoTableFits DEF SnakesTyped
<1>3. ASSUME table.exists, ST!Unlocked
      PROVE  (\E a, b \in ST!Remaining(table) : a # b) /\ table.turn \in ST!Remaining(table)
  BY <1>3, InOrder DEF ST!Unlocked
<1>4. CASE ST!RollDice(s)
  <2>1. table.exists /\ ST!Unlocked
    BY <1>4 DEF ST!RollDice, ST!Begin
  <2> DEFINE t == [table EXCEPT !.dice = TRUE]
             m == [t EXCEPT !.action = "movePawn"]
  <2>2. /\ t.exists /\ t.left = table.left /\ t.turn = table.turn /\ IsSnakesTable(t)
    <3>1. /\ t.exists = table.exists /\ t.left = table.left /\ t.turn = table.turn /\ t.lives = table.lives
          /\ t \in SnakesTables
      BY <1>2 DEF IsSnakesTable, SnakesTables
    <3> QED BY <1>2, <2>1, <3>1 DEF IsSnakesTable, ST!Remaining
  <2>3. ST!Begin(ST!Call("store", 1), m) \/ ST!Begin(ST!Call("store", 1), ST!Passed(t))
    BY <1>4 DEF ST!RollDice
  <2> HIDE DEF t
  <2>4. /\ m.exists /\ m.left = table.left /\ m.turn = table.turn /\ IsSnakesTable(m)
    <3>1. /\ m.exists = t.exists /\ m.left = t.left /\ m.turn = t.turn /\ m.lives = t.lives
          /\ m \in SnakesTables
      BY <2>2 DEF IsSnakesTable, SnakesTables
    <3> QED BY <2>2, <3>1 DEF IsSnakesTable, ST!Remaining
  <2> HIDE DEF m
  <2>5. CASE ST!Begin(ST!Call("store", 1), m)
    <3>1. m.turn \in ST!Remaining(m)
      BY <1>3, <2>1, <2>4 DEF ST!Remaining
    <3> QED BY <1>1, <1>2, <2>1, <2>4, <2>5, <3>1, SnakesBeginKeeps
  <2>6. CASE ST!Begin(ST!Call("store", 1), ST!Passed(t))
    <3>1. /\ IsSnakesTable(ST!Passed(t)) /\ ST!Passed(t).exists /\ ST!Passed(t).left = table.left
          /\ ST!Passed(t).turn \in ST!Remaining(t)
      BY <2>2, PassedFits
    <3>2. ST!Passed(t).turn \in ST!Remaining(ST!Passed(t))
      BY <2>2, <3>1 DEF ST!Remaining
    <3> QED BY <1>1, <1>2, <2>1, <2>6, <3>1, <3>2, SnakesBeginKeeps
  <2> QED BY <2>3, <2>5, <2>6
<1>5. CASE ST!MovePawn(s)
  <2>1. PICK home \in BOOLEAN, again \in BOOLEAN :
          ST!Begin(ST!Call("store", 1),
                IF again THEN [table EXCEPT !.action = "rollDice", !.dice = FALSE, !.home = @ \/ home]
                ELSE ST!Passed([table EXCEPT !.action = "rollDice", !.dice = FALSE, !.home = @ \/ home]))
    BY <1>5 DEF ST!MovePawn
  <2> DEFINE t == [table EXCEPT !.action = "rollDice", !.dice = FALSE, !.home = @ \/ home]
  <2>2. table.exists /\ ST!Unlocked
    BY <1>5, <2>1 DEF ST!MovePawn, ST!Begin
  <2>3. /\ t.exists /\ t.left = table.left /\ t.turn = table.turn /\ IsSnakesTable(t)
    <3>1. /\ t.exists = table.exists /\ t.left = table.left /\ t.turn = table.turn /\ t.lives = table.lives
          /\ t \in SnakesTables
      BY <1>2 DEF IsSnakesTable, SnakesTables
    <3> QED BY <1>2, <2>2, <3>1 DEF IsSnakesTable, ST!Remaining
  <2>4. ST!Begin(ST!Call("store", 1), t) \/ ST!Begin(ST!Call("store", 1), ST!Passed(t))
    BY <2>1
  <2> HIDE DEF t
  <2>5. CASE ST!Begin(ST!Call("store", 1), t)
    <3>1. t.turn \in ST!Remaining(t)
      BY <1>3, <2>2, <2>3 DEF ST!Remaining
    <3> QED BY <1>1, <1>2, <2>2, <2>3, <2>5, <3>1, SnakesBeginKeeps
  <2>6. CASE ST!Begin(ST!Call("store", 1), ST!Passed(t))
    <3>1. /\ IsSnakesTable(ST!Passed(t)) /\ ST!Passed(t).exists /\ ST!Passed(t).left = table.left
          /\ ST!Passed(t).turn \in ST!Remaining(t)
      BY <2>3, PassedFits
    <3>2. ST!Passed(t).turn \in ST!Remaining(ST!Passed(t))
      BY <2>3, <3>1 DEF ST!Remaining
    <3> QED BY <1>1, <1>2, <2>2, <2>6, <3>1, <3>2, SnakesBeginKeeps
  <2> QED BY <2>4, <2>5, <2>6
<1>6. CASE ST!LeaveTable(s)
  <2> DEFINE t == [table EXCEPT !.left = @ \union {s}]
  <2>1. table.exists /\ ST!Unlocked /\ ST!Begin(ST!Call("leaveTable", s), t)
    BY <1>6 DEF ST!LeaveTable, ST!Leaving, ST!Begin, ST!Call
  <2>2. IsSnakesTable(t) /\ t.exists /\ t.turn = table.turn /\ t.left = table.left \union {s}
    <3>1. /\ t \in SnakesTables /\ t.exists = table.exists /\ t.turn = table.turn
          /\ t.left = table.left \union {s} /\ t.lives = table.lives
      BY <1>2 DEF IsSnakesTable, SnakesTables
    <3>2. ST!Remaining(t) # {}
      BY <1>3, <2>1, <3>1 DEF ST!Remaining
    <3> QED BY <1>2, <2>1, <3>1, <3>2 DEF IsSnakesTable
  <2> HIDE DEF t
  <2> QED BY <1>1, <2>1, <2>2, SnakesBeginKeeps
<1>7. CASE ST!SkipMessage(s)
  <2>1. {} \in SUBSET calls /\ (\A c \in {} : c.do = "skipTurn")
    OBVIOUS
  <2>2. table.exists /\ ST!Skip(table.turn, {})
    BY <1>7 DEF ST!SkipMessage
  <2> QED BY <1>1, <2>1, <2>2, SnakesSkipKeeps
<1> QED BY <1>4, <1>5, <1>6, <1>7 DEF ST!Message

-----------------------------------------------------------------------------
(* When the game begins everybody is there, and nobody has a result.        *)
LEMMA StartGameKeeps ==
  ASSUME SnakesTyped, SnakesOrder, Lives \in Nat, NEW c \in calls, ST!StartGame(c)
  PROVE  SnakesTyped' /\ (slips' = {} => SnakesOrder')
<1> DEFINE t == [ST!NoTable EXCEPT !.exists = TRUE, !.lives = [s \in players |-> Lives]]
           n == ST!Call("debitJoinFee", 1)
<1>1. /\ c.do = "startGame" /\ ST!Store(t, {c}, {n}) /\ active' = players
      /\ UNCHANGED <<players, moves, clears, jobs, fees, prizes, refunds, results, slips>>
  BY DEF ST!StartGame, ST!Bounds, ST!Money
<1>2. /\ calls = {c} /\ ~table.exists /\ jobs = {} /\ prizes = <<>> /\ refunds = 0
      /\ table.left = {}
  BY <1>1 DEF SnakesOrder, BeginsAlone, SnakesTyped, IsSnakesTable
<1>3. PICK k \in 2..4 : players = 1..k
  BY DEF SnakesTyped
<1>4. 1 \in players /\ 2 \in players
  BY <1>3
<1>5. /\ t.exists /\ t.left = {} /\ t.turn = 1 /\ IsSnakesTable(t)
  <2>1. /\ t.exists /\ t.left = {} /\ t.turn = 1 /\ t.lives = [s \in players |-> Lives]
        /\ t.action = "rollDice" /\ t.dice = FALSE /\ t.home = FALSE
    BY DEF ST!NoTable
  <2>2. [s \in players |-> Lives] \in [players -> 0..Lives]
    <3>1. Lives \in 0..Lives
      OBVIOUS
    <3> QED BY <3>1
  <2>3. t \in [exists : {TRUE}, left : {{}}, turn : {1}, action : {"rollDice"},
               dice : {FALSE}, lives : {[s \in players |-> Lives]}, home : {FALSE}]
    BY DEF ST!NoTable
  <2> HIDE DEF t
  <2>4. t \in SnakesTables
    BY <1>4, <2>1, <2>2, <2>3 DEF SnakesTables
  <2> QED BY <1>4, <2>1, <2>2, <2>4 DEF IsSnakesTable, ST!Remaining
<1>6. n \in SnakesCalls /\ n.do = "debitJoinFee" /\ ~n.locked /\ ~n.copy.exists
  BY <1>4, CallFits
<1> HIDE DEF t, n
<1>7. LockFits({c}, {n})
  BY <1>6 DEF LockFits
<1>8. /\ calls' \in SUBSET SnakesCalls /\ table' = t /\ \A x, d \in calls' : x.locked /\ d.locked => x = d
  BY <1>1, <1>6, <1>7, AfterStore
<1>9. calls' = {n}
  BY <1>1, <1>2 DEF ST!Store
<1>10. SnakesTyped'
  BY <1>1, <1>5, <1>8, SnakesTypedAfter DEF SnakesTyped
<1>11. SnakesOrder'
  <2>1. BeginsAlone' /\ CopiesAreFresh'
    BY <1>6, <1>9 DEF BeginsAlone, CopiesAreFresh
  <2>2. TurnFits'
    BY <1>1, <1>4, <1>5, <1>8 DEF TurnFits, ST!Remaining
  <2>3. Carried'
    BY <1>6, <1>9 DEF Carried, SnakesPasses
  <2>4. SeatsArePointedAt'
    BY <1>1, <1>5, <1>8 DEF SeatsArePointedAt, ST!Remaining
  <2>5. ResultsFit'
    <3>1. \A s \in players : results[s] = {}
      BY <1>2 DEF SnakesOrder, ResultsFit
    <3>2. prizes' = <<>> /\ DOMAIN prizes' = {} /\ refunds' = 0 /\ table'.exists /\ table'.left = {}
      BY <1>1, <1>2, <1>5, <1>8
    <3> QED BY <1>1, <1>6, <1>9, <3>1, <3>2 DEF ResultsFit, SnakesEnding
  <2> QED BY <2>1, <2>2, <2>3, <2>4, <2>5 DEF SnakesOrder
<1> QED BY <1>10, <1>11

(* Staff delete the table after everybody has the fee back.                 *)
LEMMA ClearTableKeeps ==
  ASSUME SnakesTyped, SnakesOrder, slips = {}, ST!ClearTable
  PROVE  SnakesTyped' /\ (slips' = {} => SnakesOrder')
<1> DEFINE n == Reader("clearTable", 1, table)
<1>1. /\ table.exists /\ clears > 0 /\ clears' = clears - 1 /\ refunds' = refunds + 1 /\ ST!Work({}, {n})
      /\ slips' = slips \union ST!When(calls # {} \/ fees = {} \/ prizes # <<>>, "clearedInPlay")
      /\ UNCHANGED <<players, moves, active, jobs, fees, prizes, results>>
  BY DEF ST!ClearTable, Reader
<1>2. n \in SnakesCalls /\ n.do = "clearTable" /\ n.copy = table /\ ~n.locked
  BY <1>1, NoTableFits, ReaderFits DEF SnakesTyped
<1> HIDE DEF n
<1>3. LockFits({}, {n})
  BY <1>2 DEF LockFits
<1>4. /\ calls' \in SUBSET SnakesCalls /\ table' = table /\ \A x, d \in calls' : x.locked /\ d.locked => x = d
  BY <1>1, <1>2, <1>3, AfterWork
<1>5. SnakesTyped'
  <2>1. refunds' \in Nat /\ clears' \in Nat /\ slips' \subseteq ST!Slips
    BY <1>1 DEF SnakesTyped, ST!When, ST!Slips
  <2> QED BY <1>1, <1>4, <2>1, SnakesTypedAfter DEF SnakesTyped
<1>6. ASSUME slips' = {} PROVE SnakesOrder'
  <2>1. calls = {} /\ prizes = <<>> /\ calls' = {n} /\ refunds' \in Nat /\ refunds' > 0
    BY <1>1, <1>6 DEF ST!When, ST!Work, SnakesTyped
  <2>2. BeginsAlone' /\ CopiesAreFresh'
    BY <1>1, <1>2, <1>4, <2>1 DEF BeginsAlone, CopiesAreFresh
  <2>3. TurnFits'
    BY <1>1, <1>4, <2>1 DEF SnakesOrder, TurnFits, ST!Remaining
  <2>4. Carried'
    BY <1>1, <1>4, <2>1 DEF SnakesOrder, Carried
  <2>5. SeatsArePointedAt'
    BY <1>1, <1>4 DEF SnakesOrder, SeatsArePointedAt, ST!Remaining
  <2>6. ResultsFit'
    <3>1. prizes' = <<>> /\ DOMAIN prizes' = {} /\ table'.exists /\ refunds' # 0
      BY <1>1, <1>4, <2>1
    <3> QED BY <1>2, <2>1, <3>1 DEF ResultsFit, SnakesEnding
  <2> QED BY <2>2, <2>3, <2>4, <2>5, <2>6 DEF SnakesOrder
<1> QED BY <1>5, <1>6

LEMMA ClearDeleteKeeps ==
  ASSUME SnakesTyped, SnakesOrder, slips = {}, NEW c \in calls, ST!ClearDelete(c)
  PROVE  SnakesTyped' /\ (slips' = {} => SnakesOrder')
<1>1. /\ c.do = "clearTable" /\ ST!Store(ST!NoTable, {c}, {}) /\ active' = active \ players
      /\ slips' = slips \union ST!When(calls # {c} \/ c.stale, "clearedInPlay")
      /\ UNCHANGED <<players, moves, clears, jobs, fees, prizes, refunds, results>>
  BY DEF ST!ClearDelete, ST!NoLongerActive, ST!Bounds, ST!Money
<1>2. LockFits({c}, {}) /\ {} \in SUBSET SnakesCalls
  BY DEF LockFits
<1>3. /\ calls' \in SUBSET SnakesCalls /\ table' = ST!NoTable /\ \A x, d \in calls' : x.locked /\ d.locked => x = d
  BY <1>1, <1>2, AfterStore
<1>4. SnakesTyped'
  <2>1. active' \in SUBSET players /\ slips' \subseteq ST!Slips
    BY <1>1 DEF SnakesTyped, ST!When, ST!Slips
  <2> QED BY <1>1, <1>3, <2>1, NoTableFits, SnakesTypedAfter DEF SnakesTyped
<1>5. ASSUME slips' = {} PROVE SnakesOrder'
  <2>1. calls' = {} /\ ~table'.exists /\ active' = {}
    BY <1>1, <1>3, <1>5 DEF ST!When, ST!Store, ST!NoTable, SnakesTyped
  <2>2. refunds > 0 /\ refunds \in Nat /\ prizes = <<>>
    BY <1>1 DEF SnakesOrder, ResultsFit, SnakesTyped
  <2>3. BeginsAlone' /\ CopiesAreFresh' /\ TurnFits' /\ Carried' /\ SeatsArePointedAt'
    BY <2>1 DEF BeginsAlone, CopiesAreFresh, TurnFits, Carried, SeatsArePointedAt
  <2>4. ResultsFit'
    <3>1. prizes' = <<>> /\ DOMAIN prizes' = {} /\ refunds' > 0 /\ refunds' # 0
      BY <1>1, <2>2
    <3> QED BY <2>1, <3>1 DEF ResultsFit
  <2> QED BY <2>3, <2>4 DEF SnakesOrder
<1> QED BY <1>4, <1>5

-----------------------------------------------------------------------------
(* While a handler holds the lock, no other is in the middle of leaving.    *)
LEMMA SnakesHolds ==
  ASSUME SnakesTyped, NEW c \in calls, c.locked
  PROVE  \A d \in calls \ {c} : ~d.locked /\ d.do \notin SnakesPending \union {"store"}
BY DEF SnakesTyped, SnakesCalls

(* Who leaves for the first time has no result, and so nobody has won.      *)
LEMMA FirstLeave ==
  ASSUME SnakesTyped, ResultsFit, NEW s \in players, results[s] = {},
         \A c \in calls : c.do \notin SnakesPending
  PROVE  /\ prizes = <<>>
         /\ refunds = 0 => \A r \in players : IF r \in table.left THEN results[r] = {"lost"} ELSE results[r] = {}
<1>1. \A r : ~Unrecorded(r)
  BY DEF Unrecorded
<1>2. prizes = <<>>
  BY <1>1 DEF ResultsFit
<1> QED BY <1>1, <1>2 DEF ResultsFit

(* What the last to leave, or whoever leaves on turn, leaves to do.         *)
LEMMA PasserFits ==
  ASSUME SnakesTyped, NEW c \in calls, c.locked, c.copy.exists
  PROVE  LET n == [c EXCEPT !.do = "leaveTable_pass", !.stale = FALSE]
         IN  /\ n \in SnakesCalls
             /\ n.do = "leaveTable_pass" /\ n.seat = c.seat /\ n.copy = c.copy /\ n.locked /\ ~n.stale
<1> DEFINE n == [c EXCEPT !.do = "leaveTable_pass", !.stale = FALSE]
<1>1. c \in SnakesCalls
  BY DEF SnakesTyped
<1>2. n.do = "leaveTable_pass" /\ n.seat = c.seat /\ n.copy = c.copy /\ n.locked /\ ~n.stale
  BY <1>1 DEF SnakesCalls
<1>3. n \in [do : {"leaveTable_pass"}, seat : players, copy : {c.copy}, locked : BOOLEAN, stale : {FALSE}]
  BY <1>1 DEF SnakesCalls
<1>4. IsSnakesTable(c.copy)
  BY <1>1 DEF SnakesCalls
<1> HIDE DEF n
<1>5. n \in SnakesCalls
  BY <1>2, <1>3, <1>4 DEF SnakesCalls, IsSnakesTable, Skipping, SnakesEnding, SnakesPending
<1> QED BY <1>2, <1>5 DEF n

LEMMA StoreLeftKeeps ==
  ASSUME SnakesTyped, SnakesOrder, slips = {}, NEW c \in calls, ST!StoreLeft(c)
  PROVE  SnakesTyped' /\ (slips' = {} => SnakesOrder')
<1> DEFINE s == c.seat
           t == c.copy
           turn == t.turn = s
           last == ST!Cardinality(ST!Remaining(t)) = 1
           ending == [ST!Call("endGame_left", s) EXCEPT !.locked = TRUE]
           passer == [c EXCEPT !.do = "leaveTable_pass", !.stale = FALSE]
           new == IF last THEN {ending} ELSE ST!When(turn, passer)
<1>1. /\ c.do = "leaveTable" /\ c.locked /\ active' = active \ {s} /\ ST!Store(t, {c}, new)
      /\ IF last \/ turn THEN UNCHANGED results ELSE results' = [results EXCEPT ![s] = @ \union {"lost"}]
      /\ slips' = slips \union ST!When(c.stale, "overwritten") \union ST!When(results[s] # {}, "leftTwice")
      /\ UNCHANGED <<players, moves, clears, jobs, fees, prizes, refunds>>
  BY DEF ST!StoreLeft, ST!Recorded, ST!NoLongerActive, ST!Bounds, ST!Money
<1>2. c \in SnakesCalls /\ s \in players /\ t.exists /\ IsSnakesTable(t)
  BY <1>1 DEF SnakesTyped, SnakesCalls
<1>3. /\ ending \in SnakesCalls /\ ending.do = "endGame_left" /\ ending.seat = s /\ ~ending.copy.exists /\ ending.locked
  BY <1>2, LockedEndFits DEF SnakesEnding
<1>4. /\ passer \in SnakesCalls /\ passer.do = "leaveTable_pass" /\ passer.seat = s /\ passer.copy = t
      /\ passer.locked /\ ~passer.stale
  BY <1>1, <1>2, PasserFits
<1> HIDE DEF ending, passer
<1>5. /\ new \in SUBSET SnakesCalls
      /\ \A m, n \in new : m = n
      /\ \A n \in new : /\ n.do \in SnakesPending /\ n.do \in {"endGame_left", "leaveTable_pass"} /\ n.seat = s
                        /\ last \/ turn
                        /\ n.do = "endGame_left" => ~n.copy.exists
                        /\ n.do = "leaveTable_pass" => n.copy = t /\ turn
      /\ last => \E n \in new : n.do = "endGame_left"
      /\ turn /\ ~last => \E n \in new : n.do = "leaveTable_pass"
  BY <1>3, <1>4 DEF ST!When, SnakesPending
<1>6. ~last => \E a, b \in ST!Remaining(t) : a # b
  <2>1. PICK a \in ST!Remaining(t) : TRUE
    BY <1>2 DEF IsSnakesTable
  <2>2. (\A b \in ST!Remaining(t) : b = a) => ST!Remaining(t) = {a}
    BY <2>1
  <2>3. ST!Cardinality({a}) = 1
    BY SnakesCount, FS_Singleton
  <2> QED BY <2>1, <2>2, <2>3
<1> HIDE DEF new, last
<1>7. \A d \in calls \ {c} : ~d.locked /\ d.do \notin SnakesPending
  BY <1>1, SnakesHolds
<1>8. LockFits({c}, new)
  BY <1>5, <1>7 DEF LockFits
<1>9. /\ After({c}, new) /\ calls' \in SUBSET SnakesCalls /\ table' = t
      /\ \A x, d \in calls' : x.locked /\ d.locked => x = d
      /\ \A d \in calls' : d \in new \/ (d.copy.exists => d.stale)
  BY <1>1, <1>5, <1>8, AfterStore
<1>10. SnakesTyped'
  <2>1. results' \in [players -> SUBSET {"won", "lost"}]
    BY <1>1 DEF SnakesTyped
  <2>2. slips' \subseteq ST!Slips /\ active' \in SUBSET players
    BY <1>1 DEF ST!When, ST!Slips, SnakesTyped
  <2> QED BY <1>1, <1>2, <1>9, <2>1, <2>2, SnakesTypedAfter DEF SnakesTyped
<1>11. ASSUME slips' = {} PROVE SnakesOrder'
  <2>1. ~c.stale /\ results[s] = {}
    BY <1>1, <1>11 DEF ST!When
  <2>2. table.exists /\ t.left = table.left \union {s} /\ t.turn = table.turn
    <3>1. IsFresh(c, table)
      BY FreshIsFresh DEF SnakesOrder
    <3> QED BY <1>1, <1>2, <2>1, <3>1 DEF IsFresh
  <2>3. \A d \in calls : d.do \notin SnakesPending
    BY <1>1, <1>7 DEF SnakesPending
  <2>4. table.turn \in ST!Remaining(table)
    BY <2>2, <2>3, InOrder
  <2>5. NoStart
    BY <2>2, StartHappensFirst DEF SnakesOrder
  <2>6. BeginsAlone'
    BY <1>5, <1>9, <2>5 DEF After, NoStart, SameCall, BeginsAlone
  <2>7. CopiesAreFresh'
    <3>1. \A n \in new : IsFresh(n, t)
      BY <1>2, <1>5 DEF IsFresh
    <3> QED BY <1>1, <1>5, <3>1, FreshAfterStore
  <2>8. TurnFits'
    <3>1. (\E a, b \in players \ t.left : a # b) \/ \E d \in calls' : d.do = "endGame_left"
      BY <1>5, <1>6, <1>9 DEF After, ST!Remaining
    <3>2. t.turn \in players \ t.left \/ \E d \in calls' : d.do \in SnakesPending
      <4>1. CASE last \/ turn
        BY <1>5, <1>9, <4>1 DEF After, SnakesPending
      <4>2. CASE ~(last \/ turn)
        BY <2>2, <2>4, <4>2 DEF ST!Remaining
      <4> QED BY <4>1, <4>2
    <3> QED BY <1>1, <1>9, <3>1, <3>2 DEF TurnFits, ST!Remaining
  <2>9. Carried'
    <3>1. table'.exists => table.exists /\ table'.turn = table.turn
      BY <1>9, <2>2
    <3>2. SnakesPasses(c, table.turn) => \E n \in new : SnakesPasses(n, table.turn)
      BY <1>1, <1>5, <2>2 DEF SnakesPasses, Skipping, SnakesEnding
    <3>3. c.do \notin SnakesEnding \union {"debitJoinFee"}
      BY <1>1 DEF SnakesEnding
    <3> QED BY <1>1, <1>9, <3>1, <3>2, <3>3, CarriedOn DEF SnakesOrder
  <2>10. SeatsArePointedAt'
    BY <1>1, <1>2, <1>9, <2>2 DEF SnakesOrder, SeatsArePointedAt, ST!Remaining
  <2>11. ResultsFit'
    <3>1. /\ prizes = <<>> /\ DOMAIN prizes = {}
          /\ refunds = 0 => \A r \in players : IF r \in table.left THEN results[r] = {"lost"} ELSE results[r] = {}
      BY <1>2, <2>1, <2>3, FirstLeave DEF SnakesOrder
    <3>2. last \/ turn => Unrecorded(s)'
      BY <1>1, <1>5, <1>9, <2>1 DEF After, Unrecorded, SnakesPending
    <3>3. refunds' = 0 => \A r \in players :
            IF r \in t.left THEN results'[r] = {"lost"} \/ Unrecorded(r)' ELSE results'[r] = {}
      <4> SUFFICES ASSUME refunds = 0, NEW r \in players
                   PROVE  IF r \in t.left THEN results'[r] = {"lost"} \/ Unrecorded(r)' ELSE results'[r] = {}
        BY <1>1
      <4>1. CASE r = s
        <5>1. r \in t.left
          BY <2>2, <4>1
        <5>2. CASE last \/ turn
          BY <3>2, <4>1, <5>1, <5>2
        <5>3. CASE ~(last \/ turn)
          <6>1. results'[s] = {"lost"}
            BY <1>1, <1>2, <2>1, <5>3 DEF SnakesTyped
          <6> QED BY <4>1, <5>1, <6>1
        <5> QED BY <5>2, <5>3
      <4>2. CASE r # s
        <5>1. results'[r] = results[r]
          BY <1>1, <4>2 DEF SnakesTyped
        <5> QED BY <2>2, <3>1, <4>2, <5>1
      <4> QED BY <4>1, <4>2
    <3>4. \A d \in calls' : /\ d.do = "clearTable" => refunds > 0
                            /\ d.do \in SnakesEnding /\ d.copy.exists => prizes # <<>>
                            /\ d.do \in {"leaveTable_pass", "endGame_left"} =>
                                 results'[d.seat] = {} /\ d.seat \in t.left
      <4> SUFFICES ASSUME NEW d \in calls'
                   PROVE  /\ d.do = "clearTable" => refunds > 0
                          /\ d.do \in SnakesEnding /\ d.copy.exists => prizes # <<>>
                          /\ d.do \in {"leaveTable_pass", "endGame_left"} => results'[d.seat] = {} /\ d.seat \in t.left
        OBVIOUS
      <4>1. CASE d \in new
        BY <1>1, <1>5, <2>1, <2>2, <4>1 DEF SnakesEnding
      <4>2. CASE d \notin new
        <5>1. PICK x \in calls \ {c} : SameCall(d, x)
          BY <1>9, <4>2 DEF After
        <5>2. (x.do = "clearTable" => refunds > 0) /\ (x.do \in SnakesEnding /\ x.copy.exists => prizes # <<>>)
              /\ x.do \notin {"leaveTable_pass", "endGame_left"}
          BY <2>3 DEF SnakesOrder, ResultsFit, SnakesPending
        <5> QED BY <5>1, <5>2 DEF SameCall
      <4> QED BY <4>1, <4>2
    <3>5. prizes' = <<>> /\ DOMAIN prizes' = {} /\ players' = players /\ table' = t /\ refunds' = refunds
      BY <1>1, <1>9, <3>1
    <3> QED BY <1>2, <3>1, <3>3, <3>4, <3>5 DEF ResultsFit
  <2> QED BY <2>6, <2>7, <2>8, <2>9, <2>10, <2>11 DEF SnakesOrder
<1> QED BY <1>10, <1>11

-----------------------------------------------------------------------------
(* The turn passes after who had it has left, and that is his result.       *)
LEMMA StorePassedKeeps ==
  ASSUME SnakesTyped, SnakesOrder, slips = {}, NEW c \in calls, ST!StorePassed(c)
  PROVE  SnakesTyped' /\ (slips' = {} => SnakesOrder')
<1> DEFINE s == c.seat
           t == ST!Passed(c.copy)
<1>1. /\ c.do = "leaveTable_pass" /\ ST!Store(t, {c}, {})
      /\ jobs' = (jobs \ {"skipTurn"}) \union {"skipTurn"}
      /\ results' = [results EXCEPT ![s] = @ \union {"lost"}] /\ ST!StoreSlip(c)
      /\ UNCHANGED <<players, moves, clears, active, fees, prizes, refunds>>
  BY DEF ST!StorePassed, ST!Recorded, ST!Counted, ST!When, ST!Bounds, ST!Money
<1>2. c \in SnakesCalls /\ s \in players /\ c.locked /\ c.copy.exists /\ IsSnakesTable(c.copy)
  BY <1>1 DEF SnakesTyped, SnakesCalls, SnakesPending
<1>3. t.turn \in ST!Remaining(c.copy) /\ IsSnakesTable(t) /\ t.exists /\ t.left = c.copy.left
  BY <1>2, PassedFits
<1> HIDE DEF t
<1>4. LockFits({c}, {}) /\ {} \in SUBSET SnakesCalls
  BY DEF LockFits
<1>5. /\ After({c}, {}) /\ calls' \in SUBSET SnakesCalls /\ table' = t
      /\ \A x, d \in calls' : x.locked /\ d.locked => x = d
  BY <1>1, <1>4, AfterStore
<1>6. slips' \subseteq ST!Slips /\ (slips' = {} => ~c.stale)
  BY <1>1 DEF ST!StoreSlip, ST!Slips
<1>7. SnakesTyped'
  <2>1. results' \in [players -> SUBSET {"won", "lost"}]
    BY <1>1 DEF SnakesTyped
  <2>2. jobs' \subseteq {"skipTurn", "endGame"}
    BY <1>1 DEF SnakesTyped
  <2> QED BY <1>1, <1>3, <1>5, <1>6, <2>1, <2>2, SnakesTypedAfter DEF SnakesTyped
<1>8. ASSUME slips' = {} PROVE SnakesOrder'
  <2>1. \A d \in calls \ {c} : d.do \notin SnakesPending
    BY <1>2, SnakesHolds
  <2>2. table.exists /\ c.copy.left = table.left
    <3>1. IsFresh(c, table)
      BY FreshIsFresh DEF SnakesOrder
    <3> QED BY <1>1, <1>2, <1>6, <1>8, <3>1 DEF IsFresh
  <2>3. s \in table.left /\ results[s] = {} /\ prizes = <<>>
    BY <1>1, <1>6, <1>8 DEF SnakesOrder, ResultsFit
  <2>4. NoStart
    BY <2>2, StartHappensFirst DEF SnakesOrder
  <2>5. BeginsAlone'
    BY <1>5, <2>4 DEF After, NoStart, SameCall, BeginsAlone
  <2>6. CopiesAreFresh'
    <3>1. \A n \in {} : IsFresh(n, t)
      OBVIOUS
    <3> QED BY <1>1, <1>4, <3>1, FreshAfterStore
  <2>7. TurnFits'
    <3>1. "endGame_left" \in SnakesPending /\ "endGame_left" # "leaveTable_pass"
      BY DEF SnakesPending
    <3>2. \A d \in calls : d.do # "endGame_left"
      BY <1>1, <2>1, <3>1
    <3>3. \E a, b \in ST!Remaining(table) : a # b
      BY <2>2, <3>2 DEF SnakesOrder, TurnFits
    <3> QED BY <1>1, <1>3, <1>5, <2>2, <3>3 DEF TurnFits, ST!Remaining
  <2>8. Carried'
    <3>1. c.do \notin SnakesEnding \union {"debitJoinFee"}
      BY <1>1 DEF SnakesEnding
    <3> QED BY <1>1, <1>5, <2>2, <3>1, CarriedAnew DEF SnakesOrder
  <2>9. SeatsArePointedAt'
    BY <1>1, <1>3, <1>5, <2>2 DEF SnakesOrder, SeatsArePointedAt, ST!Remaining
  <2>10. ResultsFit'
    <3>1. results'[s] = {"lost"} /\ \A r \in players : r # s => results'[r] = results[r]
      BY <1>1, <1>2, <2>3 DEF SnakesTyped
    <3>2. \A r : r # s => ~Unrecorded(r)
      BY <2>1 DEF Unrecorded
    <3>3. refunds' = 0 => \A r \in players :
            IF r \in t.left THEN results'[r] = {"lost"} ELSE results'[r] = {}
      BY <1>1, <1>3, <2>2, <2>3, <3>1, <3>2 DEF SnakesOrder, ResultsFit
    <3>4. \A d \in calls' : /\ d.do = "clearTable" => refunds > 0
                            /\ d.do \in SnakesEnding /\ d.copy.exists => prizes # <<>>
                            /\ d.do \notin SnakesPending
      <4> SUFFICES ASSUME NEW d \in calls'
                   PROVE  /\ d.do = "clearTable" => refunds > 0
                          /\ d.do \in SnakesEnding /\ d.copy.exists => prizes # <<>>
                          /\ d.do \notin SnakesPending
        OBVIOUS
      <4>1. PICK x \in calls \ {c} : SameCall(d, x)
        BY <1>5 DEF After
      <4>2. (x.do = "clearTable" => refunds > 0) /\ (x.do \in SnakesEnding /\ x.copy.exists => prizes # <<>>)
            /\ x.do \notin SnakesPending
        BY <2>1 DEF SnakesOrder, ResultsFit
      <4> QED BY <4>1, <4>2 DEF SameCall
    <3>5. prizes' = <<>> /\ DOMAIN prizes' = {} /\ players' = players /\ table' = t /\ refunds' = refunds
      BY <1>1, <1>5, <2>3
    <3> QED BY <1>3, <2>3, <3>3, <3>4, <3>5 DEF ResultsFit, SnakesPending
  <2> QED BY <2>5, <2>6, <2>7, <2>8, <2>9, <2>10 DEF SnakesOrder
<1> QED BY <1>7, <1>8

(* handleEndGame with the table as it read it.                              *)
LEMMA EnderFits ==
  ASSUME SnakesTyped, NEW c \in calls, c.do \in SnakesEnding, table.exists, ~c.copy.exists
  PROVE  LET n == [c EXCEPT !.copy = table]
         IN  /\ n \in SnakesCalls
             /\ n.do = c.do /\ n.seat = c.seat /\ n.copy = table /\ n.locked = c.locked /\ ~n.stale
<1> DEFINE n == [c EXCEPT !.copy = table]
<1>1. c \in SnakesCalls /\ c.stale = FALSE
  BY DEF SnakesTyped, SnakesCalls
<1>2. n.do = c.do /\ n.seat = c.seat /\ n.copy = table /\ n.locked = c.locked /\ ~n.stale
  BY <1>1 DEF SnakesCalls
<1>3. n \in [do : {c.do}, seat : players, copy : {table}, locked : {c.locked}, stale : {FALSE}]
  BY <1>1 DEF SnakesCalls
<1>4. IsSnakesTable(table)
  BY DEF SnakesTyped
<1>5. c.locked \in BOOLEAN /\ c.seat \in players /\ (c.do \in SnakesPending => c.locked)
  BY <1>1 DEF SnakesCalls
<1> HIDE DEF n
<1>6. n \in SnakesCalls
  BY <1>2, <1>3, <1>4, <1>5 DEF SnakesCalls, IsSnakesTable, Skipping, SnakesEnding, SnakesPending
<1> QED BY <1>2, <1>6 DEF n

(* One to four winners share.                                               *)
LEMMA WinnersCount ==
  ASSUME SnakesTyped, NEW w \in SUBSET players, w # {}
  PROVE  ST!Cardinality(w) \in ST!Seats
<1>1. PICK n \in 2..4 : players = 1..n
  BY DEF SnakesTyped
<1>2. IsFiniteSet(players) /\ ST!Cardinality(players) = n
  <2>1. 1 \in Int /\ n \in Int /\ n - 1 + 1 = n /\ ~(1 > n)
    OBVIOUS
  <2>2. IsFiniteSet(1..n) /\ ST!Cardinality(1..n) = n - 1 + 1
    BY <2>1, SnakesCount, FS_Interval
  <2> QED BY <1>1, <2>1, <2>2
<1>3. IsFiniteSet(w) /\ ST!Cardinality(w) <= n
  BY <1>2, SnakesCount, FS_Subset
<1>4. ST!Cardinality(w) \in Nat /\ ST!Cardinality(w) # 0
  BY <1>3, SnakesCount, FS_CardinalityType, FS_EmptySet
<1> QED BY <1>3, <1>4 DEF ST!Seats

LEMMA EndReadKeeps ==
  ASSUME SnakesTyped, SnakesOrder, slips = {}, NEW c \in calls, ST!EndRead(c)
  PROVE  SnakesTyped' /\ (slips' = {} => SnakesOrder')
<1>1. c.do \in SnakesEnding /\ ~c.copy.exists /\ c \in SnakesCalls
  BY DEF ST!EndRead, SnakesEnding, SnakesTyped
<1>2. NoStart
  BY <1>1, StartHappensFirst DEF SnakesOrder, SnakesEnding
<1>3. CASE ~table.exists
  <2>1. /\ ST!Work({c}, {}) /\ slips' = slips \union ST!When(c.do = "endGame_left", "endedTwice")
        /\ UNCHANGED <<ST!Bounds, active, jobs, ST!Money, results>>
    BY <1>3 DEF ST!EndRead
  <2>2. LockFits({c}, {}) /\ {} \in SUBSET SnakesCalls
    BY DEF LockFits
  <2>3. slips' \subseteq ST!Slips /\ (slips' = {} => c.do \notin SnakesPending)
    BY <1>1, <2>1 DEF ST!When, ST!Slips, SnakesEnding, SnakesPending
  <2> QED BY <1>2, <1>3, <2>1, <2>2, <2>3, WorkKeeps DEF SnakesTyped, ST!Bounds
<1>4. CASE table.exists
  <2> DEFINE n == [c EXCEPT !.copy = table]
  <2>1. PICK winners \in ST!Winners(table) :
          /\ ST!Store(table, {c}, {n})
          /\ prizes' = [s \in DOMAIN prizes \union winners |->
                        IF s \in DOMAIN prizes THEN prizes[s] ELSE ST!Cardinality(winners)]
          /\ results' = [s \in players |->
               IF s \in table.left THEN results[s]
               ELSE results[s] \union {IF s \in winners THEN "won" ELSE "lost"}]
    BY <1>4 DEF ST!EndRead
  <2>2. /\ slips' = slips \union ST!When(prizes # <<>>, "endedTwice") \union ST!When(fees = {}, "paidBeforeDebit")
                          \union ST!When(refunds > 0, "clearedInPlay")
        /\ UNCHANGED <<players, moves, clears, active, jobs, fees, refunds>>
    BY <1>4 DEF ST!EndRead, ST!Bounds
  <2>3. n \in SnakesCalls /\ n.do = c.do /\ n.seat = c.seat /\ n.copy = table /\ n.locked = c.locked /\ ~n.stale
    BY <1>1, <1>4, EnderFits
  <2> HIDE DEF n
  <2>4. LockFits({c}, {n})
    BY <2>3 DEF LockFits, SnakesTyped
  <2>5. /\ After({c}, {n}) /\ calls' \in SUBSET SnakesCalls /\ table' = table
        /\ \A x, d \in calls' : x.locked /\ d.locked => x = d
        /\ \A d \in calls' : d = n \/ (d.copy.exists => d.stale)
    BY <2>1, <2>3, <2>4, AfterStore
  <2>6. winners \in SUBSET players /\ winners # {} /\ winners \subseteq ST!Remaining(table)
    BY DEF ST!Winners, ST!Remaining
  <2>7. ST!Cardinality(winners) \in ST!Seats
    BY <2>6, WinnersCount
  <2>8. SnakesTyped'
    <3>1. DOMAIN prizes' \subseteq players /\ \A s \in DOMAIN prizes' : prizes'[s] \in ST!Seats
      BY <2>1, <2>6, <2>7 DEF SnakesTyped
    <3>2. results' \in [players -> SUBSET {"won", "lost"}]
      BY <2>1 DEF SnakesTyped
    <3>3. slips' \subseteq ST!Slips
      BY <2>2 DEF SnakesTyped, ST!When, ST!Slips
    <3>4. IsSnakesTable(table')
      BY <2>5 DEF SnakesTyped
    <3> QED BY <2>2, <2>5, <3>1, <3>2, <3>3, <3>4, SnakesTypedAfter DEF SnakesTyped
  <2>9. ASSUME slips' = {} PROVE SnakesOrder'
    <3>1. prizes = <<>> /\ fees = players /\ refunds = 0
      BY <2>2, <2>9 DEF ST!When, SnakesTyped
    <3>2. BeginsAlone'
      BY <1>1, <1>2, <2>3, <2>5 DEF After, NoStart, SameCall, BeginsAlone, SnakesEnding
    <3>3. CopiesAreFresh'
      <4>1. \A x \in {n} : IsFresh(x, table)
        BY <1>1, <1>4, <2>3 DEF IsFresh, SnakesEnding
      <4> QED BY <2>1, <2>3, <4>1, FreshAfterStore
    <3>4. TurnFits'
      <4>1. \A d \in calls : \E x \in calls' : x.do = d.do
        BY <2>3, <2>5 DEF After, SameCall
      <4> QED BY <2>2, <2>5, <4>1 DEF SnakesOrder, TurnFits, ST!Remaining
    <3>5. Carried'
      <4>1. n.do \in SnakesEnding /\ SnakesPasses(n, table.turn)
        BY <1>1, <2>3 DEF SnakesPasses
      <4> QED BY <2>2, <2>5, <4>1, CarriedOn DEF SnakesOrder
    <3>6. SeatsArePointedAt'
      BY <2>2, <2>5 DEF SnakesOrder, SeatsArePointedAt, ST!Remaining
    <3>7. ResultsFit'
      <4>1. DOMAIN prizes = {}
        BY <3>1
      <4>2. DOMAIN prizes' = winners /\ \A s \in winners : prizes'[s] = ST!Cardinality(winners)
        BY <2>1, <4>1
      <4>3. prizes' # <<>>
        <5>1. DOMAIN prizes' # {}
          BY <2>6, <4>2
        <5>2. DOMAIN <<>> = {}
          OBVIOUS
        <5> QED BY <5>1, <5>2
      <4>4. \A s \in players : IF s \in table.left THEN results[s] = {"lost"} \/ Unrecorded(s) ELSE results[s] = {}
        BY <3>1 DEF SnakesOrder, ResultsFit
      <4>5. \A s \in players : s \in table.left => results'[s] = results[s]
        BY <2>1
      <4>6. \A s \in players : Unrecorded(s) /\ s \in table.left => Unrecorded(s)'
        <5>1. \A d \in calls : \E x \in calls' : x.do = d.do /\ x.seat = d.seat
          BY <2>3, <2>5 DEF After, SameCall
        <5> QED BY <4>5, <5>1 DEF Unrecorded
      <4>7. \A s \in players : s \notin table.left =>
              results'[s] = {IF s \in winners THEN "won" ELSE "lost"}
        BY <2>1, <4>4
      <4>8. \A s \in players : results'[s] \in {{"won"}, {"lost"}} \/ Unrecorded(s)'
        <5> SUFFICES ASSUME NEW s \in players PROVE results'[s] \in {{"won"}, {"lost"}} \/ Unrecorded(s)'
          OBVIOUS
        <5>1. CASE s \in table.left
          BY <4>4, <4>5, <4>6, <5>1
        <5>2. CASE s \notin table.left
          BY <4>7, <5>2
        <5> QED BY <5>1, <5>2
      <4>9. \A s \in DOMAIN prizes' : prizes'[s] = ST!Cardinality(DOMAIN prizes') /\ results'[s] = {"won"}
        BY <2>6, <4>2, <4>7 DEF ST!Remaining
      <4>10. \A d \in calls : d.do = "endGame_left" => d.seat \in players /\ d.seat \in table.left /\ results[d.seat] = {}
        BY <1>4 DEF SnakesOrder, ResultsFit, SnakesTyped, SnakesCalls
      <4>11. \A d \in calls' : /\ d.do # "clearTable"
                               /\ d.do = "leaveTable_pass" => d.stale
                               /\ d.do = "endGame_left" => results'[d.seat] = {} /\ d.seat \in table.left
        <5> SUFFICES ASSUME NEW d \in calls'
                     PROVE  /\ d.do # "clearTable"
                            /\ d.do = "leaveTable_pass" => d.stale
                            /\ d.do = "endGame_left" => results'[d.seat] = {} /\ d.seat \in table.left
          OBVIOUS
        <5>1. d.do = "leaveTable_pass" => d.copy.exists
          BY <2>5 DEF SnakesCalls
        <5>2. d.do = "leaveTable_pass" => d.stale
          BY <1>1, <2>3, <2>5, <5>1 DEF SnakesEnding
        <5>3. \E x \in calls : x.do = d.do /\ x.seat = d.seat
          BY <2>3, <2>5 DEF After, SameCall
        <5>4. d.do # "clearTable"
          BY <3>1, <5>3 DEF SnakesOrder, ResultsFit
        <5>5. d.do = "endGame_left" => results'[d.seat] = {} /\ d.seat \in table.left
          BY <4>5, <4>10, <5>3
        <5> QED BY <5>2, <5>4, <5>5
      <4> QED BY <1>4, <2>2, <2>5, <3>1, <4>3, <4>8, <4>9, <4>11 DEF ResultsFit
    <3> QED BY <3>2, <3>3, <3>4, <3>5, <3>6, <3>7 DEF SnakesOrder
  <2> QED BY <2>8, <2>9
<1> QED BY <1>3, <1>4

LEMMA EndDeleteKeeps ==
  ASSUME SnakesTyped, SnakesOrder, slips = {}, NEW c \in calls, ST!EndDelete(c)
  PROVE  SnakesTyped' /\ (slips' = {} => SnakesOrder')
<1> DEFINE s == c.seat
<1>1. /\ c.do \in SnakesEnding /\ c.copy.exists /\ ST!Store(ST!NoTable, {c}, {}) /\ active' = active \ ST!Remaining(c.copy)
      /\ results' = IF c.do = "endGame_left" THEN [results EXCEPT ![s] = @ \union {"lost"}] ELSE results
      /\ ST!StoreSlip(c)
      /\ UNCHANGED <<players, moves, clears, jobs, fees, prizes, refunds>>
  BY DEF ST!EndDelete, ST!NoLongerActive, ST!Recorded, ST!Bounds, ST!Money, SnakesEnding
<1>2. c \in SnakesCalls /\ s \in players /\ (c.do = "endGame_left" => c.locked)
  BY DEF SnakesTyped, SnakesCalls, SnakesPending
<1>3. LockFits({c}, {}) /\ {} \in SUBSET SnakesCalls
  BY DEF LockFits
<1>4. /\ After({c}, {}) /\ calls' \in SUBSET SnakesCalls /\ table' = ST!NoTable
      /\ \A x, d \in calls' : x.locked /\ d.locked => x = d
      /\ \A d \in calls' : d.copy.exists => d.stale
  BY <1>1, <1>3, AfterStore
<1>5. slips' \subseteq ST!Slips /\ (slips' = {} => ~c.stale)
  BY <1>1 DEF ST!StoreSlip, ST!Slips
<1>6. SnakesTyped'
  <2>1. results' \in [players -> SUBSET {"won", "lost"}] /\ active' \in SUBSET players
    BY <1>1 DEF SnakesTyped
  <2> QED BY <1>1, <1>4, <1>5, <2>1, NoTableFits, SnakesTypedAfter DEF SnakesTyped
<1>7. ASSUME slips' = {} PROVE SnakesOrder'
  <2>1. table.exists /\ c.copy.left = table.left
    <3>1. IsFresh(c, table)
      BY FreshIsFresh DEF SnakesOrder
    <3> QED BY <1>1, <1>5, <1>7, <3>1 DEF IsFresh, SnakesEnding
  <2>2. prizes # <<>> /\ fees = players /\ refunds = 0 /\ ~table'.exists
    BY <1>1, <1>4 DEF SnakesOrder, ResultsFit, ST!NoTable
  <2>3. NoStart
    BY <2>1, StartHappensFirst DEF SnakesOrder
  <2>4. BeginsAlone'
    BY <1>4, <2>3 DEF After, NoStart, SameCall, BeginsAlone
  <2>5. CopiesAreFresh'
    BY <1>4 DEF CopiesAreFresh
  <2>6. TurnFits' /\ Carried'
    BY <2>2 DEF TurnFits, Carried
  <2>7. SeatsArePointedAt'
    <3>1. active = ST!Remaining(c.copy)
      BY <2>1 DEF SnakesOrder, SeatsArePointedAt, ST!Remaining
    <3> QED BY <1>1, <2>2, <3>1 DEF SeatsArePointedAt
  <2>8. ResultsFit'
    <3>1. \A r \in players : results[r] \in {{"won"}, {"lost"}} \/ Unrecorded(r)
      BY <2>2 DEF SnakesOrder, ResultsFit
    <3>2. c.do = "endGame_left" => results[s] = {} /\ results'[s] = {"lost"}
      <4>1. c.do = "endGame_left" => results[s] = {}
        BY DEF SnakesOrder, ResultsFit
      <4> QED BY <1>1, <1>2, <4>1 DEF SnakesTyped
    <3>3. \A r \in players : results'[r] = results[r] \/ (c.do = "endGame_left" /\ r = s)
      BY <1>1 DEF SnakesTyped
    <3>4. \A r \in players : results'[r] \in {{"won"}, {"lost"}} \/ Unrecorded(r)'
      <4> SUFFICES ASSUME NEW r \in players PROVE results'[r] \in {{"won"}, {"lost"}} \/ Unrecorded(r)'
        OBVIOUS
      <4>1. CASE c.do = "endGame_left" /\ r = s
        BY <3>2, <4>1
      <4>2. CASE ~(c.do = "endGame_left" /\ r = s)
        <5>1. results'[r] = results[r]
          BY <3>3, <4>2
        <5>2. CASE results[r] \in {{"won"}, {"lost"}}
          BY <5>1, <5>2
        <5>3. CASE Unrecorded(r)
          <6>1. PICK d \in calls : d.seat = r /\ d.do \in SnakesPending
            BY <5>3 DEF Unrecorded
          <6>2. d # c
            BY <1>1, <4>2, <6>1 DEF SnakesPending, SnakesEnding
          <6>3. \E x \in calls' : x.seat = r /\ x.do \in SnakesPending
            BY <1>4, <6>1, <6>2 DEF After, SameCall
          <6> QED BY <5>1, <5>3, <6>3 DEF Unrecorded
        <5> QED BY <3>1, <5>2, <5>3
      <4> QED BY <4>1, <4>2
    <3>5. \A r \in DOMAIN prizes : prizes[r] = ST!Cardinality(DOMAIN prizes) /\ results[r] = {"won"}
      BY DEF SnakesOrder, ResultsFit
    <3>6. \A r \in DOMAIN prizes' : prizes'[r] = ST!Cardinality(DOMAIN prizes') /\ results'[r] = {"won"}
      <4>1. DOMAIN prizes \subseteq players /\ prizes' = prizes
        BY <1>1 DEF SnakesTyped
      <4>2. \A r \in DOMAIN prizes : results'[r] = results[r]
        BY <3>2, <3>3, <3>5, <4>1
      <4> QED BY <3>5, <4>1, <4>2
    <3>7. \A d \in calls' : /\ d.do # "clearTable"
                            /\ d.do = "leaveTable_pass" => d.stale
                            /\ d.do = "endGame_left" => results'[d.seat] = {}
      <4> SUFFICES ASSUME NEW d \in calls'
                   PROVE  /\ d.do # "clearTable"
                          /\ d.do = "leaveTable_pass" => d.stale
                          /\ d.do = "endGame_left" => results'[d.seat] = {}
        OBVIOUS
      <4>1. d.do = "leaveTable_pass" => d.copy.exists
        BY <1>4 DEF SnakesCalls
      <4>2. d.do = "leaveTable_pass" => d.stale
        BY <1>4, <4>1
      <4>3. PICK x \in calls \ {c} : x.do = d.do /\ x.seat = d.seat /\ x.locked = d.locked
        BY <1>4 DEF After, SameCall
      <4>4. d.do # "clearTable"
        BY <2>2, <4>3 DEF SnakesOrder, ResultsFit
      <4>5. ASSUME d.do = "endGame_left" PROVE results'[d.seat] = {}
        <5>1. results[x.seat] = {} /\ x.locked /\ x.seat \in players
          BY <4>3, <4>5 DEF SnakesOrder, ResultsFit, SnakesTyped, SnakesCalls, SnakesPending
        <5>2. c.do # "endGame_left"
          BY <1>2, <4>3, <5>1 DEF SnakesTyped
        <5> QED BY <3>3, <4>3, <5>1, <5>2
      <4> QED BY <4>2, <4>4, <4>5
    <3> QED BY <1>1, <2>2, <3>4, <3>6, <3>7 DEF ResultsFit
  <2> QED BY <2>4, <2>5, <2>6, <2>7, <2>8 DEF SnakesOrder
<1> QED BY <1>6, <1>7

-----------------------------------------------------------------------------
LEMMA SnakesBegins == SnakesAssumption /\ ST!Init => SnakesInv
<1> SUFFICES ASSUME SnakesAssumption, ST!Init PROVE SnakesInv
  OBVIOUS
<1> DEFINE n == ST!Call("startGame", 1)
<1>1. PICK g \in SnakesGames : players = 1..g.players /\ moves = g.moves
  BY DEF ST!Init
<1>2. g.players \in 2..4 /\ moves \in Nat /\ 1 \in players /\ 2 \in players
  BY <1>1 DEF SnakesAssumption
<1>3. /\ table = ST!NoTable /\ active = {} /\ calls = {n} /\ jobs = {} /\ fees = {} /\ prizes = <<>>
      /\ refunds = 0 /\ results = [s \in players |-> {}] /\ clears = MaxClears /\ slips = {}
  BY DEF ST!Init
<1>4. IsSnakesTable(ST!NoTable) /\ ~ST!NoTable.exists
  BY <1>2 DEF IsSnakesTable, SnakesTables, ST!NoTable
<1>5. n.do = "startGame" /\ n.copy = ST!NoTable /\ ~n.locked /\ n \in SnakesCalls
  BY <1>2, <1>4 DEF ST!Call, SnakesCalls, IsSnakesTable, Skipping, SnakesEnding, SnakesPending,
     ST!NoTable
<1> HIDE DEF n
<1>6. SnakesTyped
  <2>1. DOMAIN prizes = {} /\ refunds \in Nat /\ clears \in Nat /\ results \in [players -> SUBSET {"won", "lost"}]
    BY <1>3 DEF SnakesAssumption
  <2> QED BY <1>1, <1>2, <1>3, <1>4, <1>5, <2>1 DEF SnakesTyped
<1>7. BeginsAlone /\ CopiesAreFresh
  BY <1>3, <1>4, <1>5 DEF BeginsAlone, CopiesAreFresh
<1>8. TurnFits /\ Carried /\ SeatsArePointedAt
  BY <1>3, <1>4 DEF TurnFits, Carried, SeatsArePointedAt
<1>9. ResultsFit
  <2>1. ST!NoTable.left = {} /\ DOMAIN prizes = {}
    BY <1>3 DEF ST!NoTable
  <2> QED BY <1>3, <1>4, <1>5, <2>1 DEF ResultsFit, SnakesEnding
<1> QED BY <1>6, <1>7, <1>8, <1>9 DEF SnakesInv, SnakesOrder

LEMMA SnakesStep == SnakesAssumption /\ SnakesInv /\ [ST!Next]_(ST!vars) => SnakesInv'
<1> SUFFICES ASSUME SnakesAssumption, SnakesInv, [ST!Next]_(ST!vars) PROVE SnakesInv'
  OBVIOUS
<1>1. SnakesTyped /\ Lives \in Nat
  BY DEF SnakesInv, SnakesAssumption
<1>2. CASE UNCHANGED ST!vars
  <2>1. SnakesTyped'
    BY <1>1, <1>2, SnakesSetsStay DEF ST!vars, SnakesTyped, IsSnakesTable, ST!Remaining
  <2>2. SnakesOrder => SnakesOrder'
    BY <1>2 DEF ST!vars, SnakesOrder, BeginsAlone, CopiesAreFresh, TurnFits, Carried,
       SnakesPasses, ResultsFit,
                Unrecorded, SeatsArePointedAt, ST!Remaining
  <2> QED BY <1>2, <2>1, <2>2 DEF SnakesInv, ST!vars
<1>3. CASE ST!Next
  <2>1. slips = {}
    BY <1>3 DEF ST!Next, ST!Followed, ST!MayBegin
  <2>2. SnakesOrder
    BY <2>1 DEF SnakesInv
  <2> USE <1>1, <2>1, <2>2
  <2>3. ASSUME NEW c \in calls, ST!Run(c) PROVE SnakesTyped' /\ (slips' = {} => SnakesOrder')
    <3>1. CASE ST!StartGame(c) \/ ST!DebitJoinFee(c)
      BY <3>1, StartGameKeeps, DebitJoinFeeKeeps
    <3>2. CASE ST!SkipRead(c) \/ ST!SkipStore(c)
      BY <3>2, SkipReadKeeps, SkipStoreKeeps
    <3>3. CASE ST!SkipReadAgain(c) \/ ST!SkipPass(c)
      BY <3>3, SkipReadAgainKeeps, SkipPassKeeps
    <3>4. CASE ST!LeaveAfterSkip(c) \/ ST!StoreTurn(c)
      BY <3>4, LeaveAfterSkipKeeps, StoreTurnKeeps
    <3>5. CASE ST!StoreLeft(c) \/ ST!StorePassed(c)
      BY <3>5, StoreLeftKeeps, StorePassedKeeps
    <3>6. CASE ST!EndRead(c) \/ ST!EndDelete(c)
      BY <3>6, EndReadKeeps, EndDeleteKeeps
    <3>7. CASE ST!ClearDelete(c)
      BY <3>7, ClearDeleteKeeps
    <3> QED BY <2>3, <3>1, <3>2, <3>3, <3>4, <3>5, <3>6, <3>7 DEF ST!Run
  <2>4. ASSUME NEW t \in jobs, ST!TurnTimer(t) \/ ST!EndTimer(t)
        PROVE  SnakesTyped' /\ (slips' = {} => SnakesOrder')
    BY <2>4, TimersKeep
  <2>5. ASSUME NEW s \in players,
               ST!Message(s) PROVE SnakesTyped' /\ (slips' = {} => SnakesOrder')
    BY <2>5, MessageKeeps
  <2>6. ASSUME ST!ClearTable PROVE SnakesTyped' /\ (slips' = {} => SnakesOrder')
    BY <2>6, ClearTableKeeps
  <2>7. \/ \E c \in calls : ST!Run(c)
        \/ \E t \in jobs : ST!TurnTimer(t) \/ ST!EndTimer(t)
        \/ \E s \in players : ST!Message(s)
        \/ ST!ClearTable
    BY <1>3 DEF ST!Next, ST!Followed, ST!MayBegin
  <2> QED BY <2>3, <2>4, <2>5, <2>6, <2>7 DEF SnakesInv
<1> QED BY <1>2, <1>3 DEF ST!Next

LEMMA SnakesInvariant == SnakesAssumption => (ST!Spec => []SnakesInv)
<1> SUFFICES ASSUME SnakesAssumption PROVE ST!Spec => []SnakesInv
  OBVIOUS
<1>1. ST!Init => SnakesInv
  BY SnakesBegins
<1>2. SnakesInv /\ [ST!Next]_(ST!vars) => SnakesInv'
  BY SnakesStep
<1> QED BY <1>1, <1>2, PTL DEF ST!Spec

(* What a game, its table and its handlers are made of; one handler at most *)
(* holds the lock of the table, in a game of any length with any number of  *)
(* handlers at work.                                                        *)
THEOREM SnakesTypeCorrect == SnakesAssumption => (ST!Spec => []ST!TypeOK)
<1> SUFFICES ASSUME SnakesAssumption PROVE ST!Spec => []ST!TypeOK
  OBVIOUS
<1>1. SnakesInv => ST!TypeOK
  <2> SUFFICES ASSUME SnakesInv PROVE ST!TypeOK
    OBVIOUS
  <2>1. SnakesTyped
    BY DEF SnakesInv
  <2>2. players \subseteq ST!Seats
    BY <2>1 DEF SnakesTyped, ST!Seats
  <2>3. /\ table.turn \in players /\ table.action \in {"rollDice", "movePawn"}
        /\ {table.dice, table.home, table.exists} \subseteq BOOLEAN
        /\ {table.left, active, fees, DOMAIN prizes} \subseteq SUBSET players
    BY <2>1 DEF SnakesTyped, IsSnakesTable, SnakesTables
  <2>4. \A s \in DOMAIN table.lives : table.lives[s] \in 0..Lives
    <3>1. table.lives \in [players -> 0..Lives] \/ table.lives = <<>>
      BY <2>1 DEF SnakesTyped, IsSnakesTable, SnakesTables
    <3>2. DOMAIN <<>> = {}
      OBVIOUS
    <3> QED BY <3>1, <3>2
  <2>5. ST!Cardinality({c \in calls : c.locked}) <= 1
    <3> DEFINE L == {c \in calls : c.locked}
    <3>1. CASE L = {}
      BY <3>1, SnakesCount, FS_EmptySet
    <3>2. CASE L # {}
      <4>1. PICK c : c \in L
        BY <3>2
      <4>2. L = {c}
        BY <2>1, <4>1 DEF SnakesTyped
      <4>3. ST!Cardinality({c}) = 1
        BY SnakesCount, FS_Singleton
      <4> QED BY <4>2, <4>3
    <3> QED BY <3>1, <3>2
  <2>6. (\A s \in DOMAIN prizes : prizes[s] \in ST!Seats) /\ DOMAIN results = players /\ slips \subseteq ST!Slips
        /\ jobs \subseteq {"skipTurn", "endGame"}
    BY <2>1 DEF SnakesTyped
  <2> QED BY <2>2, <2>3, <2>4, <2>5, <2>6 DEF ST!TypeOK
<1> QED BY <1>1, SnakesInvariant, PTL

(* handleEndGame pays only for a game whose fees were taken, the shares add *)
(* up, no winner is down as a loser, and staff do not give the fees back    *)
(* besides.                                                                 *)
LEMMA SnakesPrize == SnakesInv => ST!PrizeIsShared
<1> SUFFICES ASSUME SnakesInv, slips = {}
             PROVE  /\ prizes # <<>> => fees = players /\ refunds = 0
                    /\ \A s \in DOMAIN prizes : prizes[s] = ST!Cardinality(DOMAIN prizes)
                    /\ \A s \in DOMAIN prizes : results[s] \subseteq {"won"}
  BY DEF ST!PrizeIsShared
<1> QED BY DEF SnakesInv, SnakesOrder, ResultsFit

THEOREM SnakesPrizeIsShared == SnakesAssumption => (ST!Spec => []ST!PrizeIsShared)
BY SnakesPrize, SnakesInvariant, PTL

(* Everybody who paid has one result in the history when the table is gone, *)
(* or his fee: of leaving, of the end and of clearing, one takes care of    *)
(* each.                                                                    *)
LEMMA SnakesResults == SnakesInv => ST!EverybodyHasAResult
<1> SUFFICES ASSUME SnakesInv, slips = {}, ~table.exists, calls = {}
             PROVE  IF refunds > 0 THEN prizes = <<>> ELSE \A s \in players : ST!Cardinality(results[s]) = 1
  BY DEF ST!EverybodyHasAResult
<1>1. ResultsFit /\ refunds \in Nat
  BY DEF SnakesInv, SnakesOrder, SnakesTyped
<1>2. CASE refunds > 0
  BY <1>1, <1>2 DEF ResultsFit
<1>3. CASE ~(refunds > 0)
  <2>1. refunds = 0
    BY <1>1, <1>3
  <2>2. \A s \in players : results[s] \in {{"won"}, {"lost"}}
    BY <1>1, <1>3, <2>1 DEF ResultsFit, Unrecorded
  <2>3. ST!Cardinality({"won"}) = 1 /\ ST!Cardinality({"lost"}) = 1
    BY SnakesCount, FS_Singleton
  <2>4. \A s \in players : ST!Cardinality(results[s]) = 1
    BY <2>2, <2>3
  <2> QED BY <1>3, <2>4
<1> QED BY <1>2, <1>3

THEOREM SnakesEverybodyHasAResult == SnakesAssumption => (ST!Spec => []ST!EverybodyHasAResult)
BY SnakesResults, SnakesInvariant, PTL

(* While there is a table, the turn is with somebody who is there, a timer  *)
(* or a handler will pass it on, and the time limit or a handler will end   *)
(* the game.                                                                *)
LEMMA SnakesGoOn == SnakesInv => ST!GameGoesOn
<1> SUFFICES ASSUME SnakesInv, slips = {}, table.exists
             PROVE  /\ calls # {} \/ table.turn \in ST!Remaining(table)
                    /\ calls # {} \/ "skipTurn" \in jobs
                    /\ calls # {} \/ "endGame" \in jobs
  BY DEF ST!GameGoesOn
<1> QED BY DEF SnakesInv, SnakesOrder, TurnFits, Carried

THEOREM SnakesGameGoesOn == SnakesAssumption => (ST!Spec => []ST!GameGoesOn)
BY SnakesGoOn, SnakesInvariant, PTL

(* Who has left is not sent back to the table, and who has not is.          *)
LEMMA SnakesPointers == SnakesInv => ST!PointersAreTrue
BY DEF SnakesInv, SnakesOrder, SeatsArePointedAt, ST!PointersAreTrue

THEOREM SnakesPointersAreTrue == SnakesAssumption => (ST!Spec => []ST!PointersAreTrue)
BY SnakesPointers, SnakesInvariant, PTL
-----------------------------------------------------------------------------
(* Cricket.                                                                 *)
(* What a table can be, as it is stored or as somebody has read it.         *)
CricketTables ==
  [exists : BOOLEAN, completed : BOOLEAN, innings : 1..3, turn : 0..(Turns + 1), out : BOOLEAN,
   acted : BOOLEAN, batsman : ET!Players, score : [ET!Players -> 0..MaxScore], runs : [ET!Players -> Nat],
   target : 0..(MaxScore + 1), left : SUBSET ET!Players]

OfTheTurn == {"turn", "turnTimeout", "result", "addScore", "turnResult", "target", "out", "won"}
CricketInTheTurn == {"turnTimeout", "result", "addScore", "turnResult"}
CricketStages ==
  OfTheTurn \union {"startGame", "debit", "inningStart", "inningEnd", "nextInnings", "gameEnded",
                    "batBowl", "checkOut", "leave", "leaveLast", "tellLeft"}
CricketJobs ==
  {j \in [do : CricketStages, left : 0..CricketTurnTime, by : 0..2, runs : Nat, copy : CricketTables] :
     j.do = "leave" => j.by \in ET!Players}

CricketSlips ==
  {"not debited", "two chains", "third innings", "endless", "left behind", "ended twice", "overtaken"}

CricketTyped ==
  /\ table \in CricketTables
  /\ jobs \in SUBSET CricketJobs
  /\ fees \in SUBSET ET!Players
  /\ prizes \in Seq(0..2)
  /\ slips \in SUBSET CricketSlips

(* A turn that is played is one of the innings', and one chain carries it.  *)
TurnIsCounted ==
  /\ \A j \in jobs : j.do \in CricketInTheTurn => j.copy.turn <= Turns
  /\ slips = {} =>
       /\ \A j \in jobs : j.do \in CricketInTheTurn => table.turn <= Turns
       /\ \A j, k \in jobs : j.do \in OfTheTurn /\ k.do \in OfTheTurn => j = k

(* The game begins alone, a game that is completed stays so, and as long as *)
(* nothing slipped there is no third innings, in no copy either.            *)
CricketOrder ==
  slips = {} =>
    /\ \A j \in jobs : j.do \in {"startGame", "debit"} =>
         jobs = {j} /\ table.turn = 0 /\ ~table.completed /\ prizes = <<>>
    /\ table.innings < 3
    /\ \A j \in jobs : j.copy.exists => j.copy.innings < 3 /\ (j.copy.completed => table.completed)

CricketInv == CricketTyped /\ TurnIsCounted /\ CricketOrder /\ ET!GameGoesOn /\ ET!EndIsTold
-----------------------------------------------------------------------------
LEMMA CricketFreshJobs ==
  ASSUME CricketAssumption
  PROVE  /\ ET!NoTable \in CricketTables
         /\ \A what \in CricketStages \ {"leave"}, delay \in 0..CricketTurnTime : ET!Job(what, delay) \in CricketJobs
<1>1. ET!NoTable \in CricketTables
  BY DEF ET!NoTable, CricketTables, ET!Players, CricketAssumption
<1> QED BY <1>1 DEF ET!Job, CricketJobs, CricketAssumption

LEMMA CricketTypedInductive ==
  ASSUME CricketAssumption, CricketTyped, TurnIsCounted, CricketOrder, [ET!Next]_(ET!vars)
  PROVE  CricketTyped'
<1> USE DEF CricketTyped
<1>1. \A j \in jobs : j \in CricketJobs /\ j.copy \in CricketTables
  BY DEF CricketJobs
<1>2. ASSUME NEW t \in CricketTables, NEW j \in jobs, NEW more \in SUBSET CricketSlips,
             ET!Store(j, t, more)
      PROVE  table' \in CricketTables /\ slips' \in SUBSET CricketSlips
  BY <1>2 DEF ET!Store, ET!When, CricketSlips
<1>3. ASSUME NEW j \in jobs, NEW new \in SUBSET CricketJobs, ET!Then(j, new)
      PROVE  jobs' \in SUBSET CricketJobs
  BY <1>3 DEF ET!Then
<1> DEFINE Fresh == CricketStages \ {"leave"}
<1>4. ASSUME NEW what \in Fresh,
             NEW delay \in 0..CricketTurnTime PROVE ET!Job(what, delay) \in CricketJobs
  BY CricketFreshJobs
<1>5. 0 \in 0..CricketTurnTime /\ Second \in 0..CricketTurnTime /\ InningsTime \in 0..CricketTurnTime /\ CricketTurnTime \in 0..CricketTurnTime
  BY DEF CricketAssumption
<1> HIDE DEF Fresh
<1>20. ASSUME NEW j \in jobs PROVE j.copy.score[j.copy.batsman] + 1 \in 0..(MaxScore + 1)
  <2>1. j.copy.score \in [ET!Players -> 0..MaxScore] /\ j.copy.batsman \in ET!Players
    BY <1>1 DEF CricketTables
  <2>2. j.copy.score[j.copy.batsman] \in 0..MaxScore
    BY <2>1
  <2> QED BY <2>2 DEF CricketAssumption
<1>6. ASSUME NEW j \in jobs, ET!Read(j) PROVE CricketTyped'
  BY <1>1, <1>6 DEF ET!Read, CricketJobs
<1>7. ASSUME NEW j \in jobs, ET!StartGame(j) PROVE CricketTyped'
  <2>1. PICK s \in ET!Players : table' = [ET!NoTable EXCEPT !.exists = TRUE, !.batsman = s]
    BY <1>7 DEF ET!StartGame
  <2>2. table' \in CricketTables
    BY <2>1, CricketFreshJobs DEF CricketTables
  <2>3. ET!Job("debit", 0) \in CricketJobs
    BY <1>4, <1>5 DEF Fresh, CricketStages, OfTheTurn
  <2> QED BY <1>7, <2>2, <2>3 DEF ET!StartGame, ET!Then
<1>8. ASSUME NEW j \in jobs, ET!DebitJoinFee(j) PROVE CricketTyped'
  <2>1. ET!Job("inningStart", 0) \in CricketJobs
    BY <1>4, <1>5 DEF Fresh, CricketStages, OfTheTurn
  <2> QED BY <1>8, <2>1 DEF ET!DebitJoinFee, ET!Then, CricketSlips
<1>9. ASSUME NEW j \in jobs, ET!InningStart(j) PROVE CricketTyped'
  <2>0. 1 \in 0..(Turns + 1)
    BY DEF CricketAssumption
  <2>1. [j.copy EXCEPT !.turn = 1, !.out = FALSE] \in CricketTables
    BY <1>1, <2>0 DEF CricketTables
  <2>2. ET!Job("turn", InningsTime) \in CricketJobs
    BY <1>4, <1>5 DEF Fresh, CricketStages, OfTheTurn
  <2>3. ET!When(\E k \in jobs \ {j} : ET!Chain(k), "two chains") \in SUBSET CricketSlips
    BY DEF ET!When, CricketSlips
  <2> QED BY <1>9, <1>2, <2>1, <2>2, <2>3 DEF ET!InningStart, ET!Then
<1>10. ASSUME NEW j \in jobs, ET!Turn(j) PROVE CricketTyped'
  <2>1. ET!Job("target", 0) \in CricketJobs /\ ET!Job("turnTimeout", 0) \in CricketJobs
    BY <1>4, <1>5 DEF Fresh, CricketStages, OfTheTurn
  <2> QED BY <1>10, <2>1 DEF ET!Turn, ET!Then
<1>11. ASSUME NEW j \in jobs, ET!TurnTimeout(j) PROVE CricketTyped'
  <2>1. ET!Job("result", CricketTurnTime) \in CricketJobs
    BY <1>4, <1>5 DEF Fresh, CricketStages, OfTheTurn
  <2> QED BY <1>11, <1>1, <1>2, <2>1 DEF ET!TurnTimeout, ET!Then
<1>12. ASSUME NEW j \in jobs, ET!ResultBegins(j) PROVE CricketTyped'
  <2>1. ET!Job("addScore", 0) \in CricketJobs /\ ET!Job("turnResult", 0) \in CricketJobs
    BY <1>4, <1>5 DEF Fresh, CricketStages, OfTheTurn
  <2> QED BY <1>12, <2>1 DEF ET!ResultBegins, ET!Then
<1>13. ASSUME NEW j \in jobs, ET!AddScore(j) PROVE CricketTyped'
  <2>1. ET!Job("turnResult", 0) \in CricketJobs
    BY <1>4, <1>5 DEF Fresh, CricketStages, OfTheTurn
  <2>2. ET!Scored(j.copy).score \in [ET!Players -> 0..MaxScore]
    <3> DEFINE t == j.copy
    <3>1. t.score \in [ET!Players -> 0..MaxScore] /\ t.runs \in [ET!Players -> Nat]
      BY <1>1 DEF CricketTables
    <3>2. ET!Scored(t).score = [s \in ET!Players |-> t.score[s] + t.runs[s]]
      BY <1>1 DEF ET!Scored, CricketTables
    <3>3. \A s \in ET!Players : t.score[s] + t.runs[s] <= MaxScore
      BY <1>13, <3>2 DEF ET!AddScore
    <3>4. ASSUME NEW s \in ET!Players PROVE t.score[s] + t.runs[s] \in 0..MaxScore
      <4>1. t.score[s] \in 0..MaxScore /\ t.runs[s] \in Nat
        BY <3>1
      <4> QED BY <4>1, <3>3 DEF CricketAssumption
    <3> QED BY <3>2, <3>4
  <2>3. ET!Scored(j.copy) \in CricketTables
    BY <1>1, <2>2 DEF ET!Scored, CricketTables
  <2> QED BY <1>13, <1>2, <2>1, <2>3 DEF ET!AddScore, ET!Then
<1>14. ASSUME NEW j \in jobs, ET!TurnResult(j) PROVE CricketTyped'
  <2>1. /\ ET!Job("out", Second) \in CricketJobs /\ ET!Job("won", Second) \in CricketJobs
        /\ ET!Job("turn", Second) \in CricketJobs
    BY <1>4, <1>5 DEF Fresh, CricketStages, OfTheTurn
  <2>2. j.copy.turn <= Turns
    BY <1>14 DEF ET!TurnResult, ET!HasRead, ET!Due, TurnIsCounted, CricketInTheTurn
  <2>3. [j.copy EXCEPT !.turn = @ + 1, !.runs = <<0, 0>>] \in CricketTables
    <3>1. j.copy.turn + 1 \in 0..(Turns + 1)
      <4>1. j.copy.turn \in 0..(Turns + 1)
        BY <1>1 DEF CricketTables
      <4> QED BY <4>1, <2>2 DEF CricketAssumption
    <3>2. <<0, 0>> \in [ET!Players -> Nat]
      BY DEF ET!Players
    <3> QED BY <1>1, <3>1, <3>2 DEF CricketTables
  <2> QED BY <1>14, <1>2, <2>1, <2>3 DEF ET!TurnResult, ET!Then
<1>15. ASSUME NEW j \in jobs, ET!InningIsOver(j) PROVE CricketTyped'
  <2>1. ET!Job("inningEnd", 0) \in CricketJobs /\ ET!Job("turn", Second) \in CricketJobs
    BY <1>4, <1>5 DEF Fresh, CricketStages, OfTheTurn
  <2>2. ET!WithTarget(j.copy) \in CricketTables
    <3>1. j.copy.score[j.copy.batsman] + 1 \in 0..(MaxScore + 1)
      BY <1>20
    <3> QED BY <1>1, <3>1 DEF ET!WithTarget, CricketTables
  <2> QED BY <1>15, <1>2, <2>1, <2>2 DEF ET!InningIsOver, ET!Then
<1>16. ASSUME NEW j \in jobs, ET!InningEnd(j) PROVE CricketTyped'
  <2>1. ET!Job("nextInnings", 0) \in CricketJobs /\ ET!Job("gameEnded", 0) \in CricketJobs
    BY <1>4, <1>5 DEF Fresh, CricketStages, OfTheTurn
  <2>2. /\ [j.copy EXCEPT !.innings = 2, !.turn = 1, !.out = FALSE, !.batsman = ET!Bowler(j.copy),
                          !.score = <<0, 0>>, !.runs = <<0, 0>>] \in CricketTables
        /\ [j.copy EXCEPT !.completed = TRUE] \in CricketTables
    <3>1. 1 \in 0..(Turns + 1) /\ 2 \in 1..3
      BY DEF CricketAssumption
    <3>2. <<0, 0>> \in [ET!Players -> Nat] /\ <<0, 0>> \in [ET!Players -> 0..MaxScore]
      BY DEF ET!Players, CricketAssumption
    <3>3. ET!Bowler(j.copy) \in ET!Players
      <4>1. j.copy.batsman \in ET!Players
        BY <1>1 DEF CricketTables
      <4> QED BY <4>1 DEF ET!Bowler, ET!Players
    <3> QED BY <1>1, <3>1, <3>2, <3>3 DEF CricketTables
  <2> QED BY <1>16, <1>2, <2>1, <2>2 DEF ET!InningEnd, ET!Then
<1>17. ASSUME NEW j \in jobs, ET!GameEnded(j) PROVE CricketTyped'
  <2>1. ET!Job("turn", Second) \in CricketJobs
    BY <1>4, <1>5 DEF Fresh, CricketStages, OfTheTurn
  <2>2. ET!Winner(table) \in 0..2
    BY DEF ET!Winner
  <2>3. prizes' \in Seq(0..2)
    <3>1. Append(prizes, ET!Winner(table)) \in Seq(0..2)
      BY <2>2
    <3>2. prizes' = Append(prizes, ET!Winner(table)) \/ prizes' = prizes
      BY <1>17 DEF ET!GameEnded
    <3> QED BY <3>1, <3>2
  <2>4. slips' \in SUBSET CricketSlips
    BY <1>17 DEF ET!GameEnded, ET!When, CricketSlips
  <2> QED BY <1>17, <2>1, <2>3, <2>4 DEF ET!GameEnded, ET!Then
<1>18. ASSUME NEW j \in jobs, ET!BatBowl(j) PROVE CricketTyped'
  <2>1. ET!Job("checkOut", 0) \in CricketJobs
    BY <1>4, <1>5 DEF Fresh, CricketStages, OfTheTurn
  <2> DEFINE named == [j.copy EXCEPT !.runs[j.by] = j.runs, !.acted = TRUE]
  <2>2. [named EXCEPT !.out = named.runs[1] = named.runs[2]] \in CricketTables
    <3>1. [j.copy.runs EXCEPT ![j.by] = j.runs] \in [ET!Players -> Nat]
      BY <1>1 DEF CricketTables, CricketJobs
    <3> QED BY <1>1, <3>1 DEF CricketTables
  <2> QED BY <1>18, <1>2, <2>1, <2>2 DEF ET!BatBowl, ET!Then
<1>19. ASSUME NEW j \in jobs, ET!CheckOut(j), slips = {} PROVE CricketTyped'
  <2>1. ET!Job("inningStart", 0) \in CricketJobs
    BY <1>4, <1>5 DEF Fresh, CricketStages, OfTheTurn
  <2>2. j.copy.innings + 1 \in 1..3
    <3>1. j.copy.innings \in 1..3
      BY <1>1 DEF CricketTables
    <3>2. j.copy.innings < 3
      BY <1>19 DEF ET!CheckOut, ET!HasRead, CricketOrder
    <3> QED BY <3>1, <3>2
  <2>3. [j.copy EXCEPT !.innings = @ + 1, !.target = j.copy.score[j.copy.batsman] + 1] \in CricketTables
    BY <1>1, <1>20, <2>2 DEF CricketTables
  <2>4. ET!When(j.copy.innings = 2, "third innings") \in SUBSET CricketSlips
    BY DEF ET!When, CricketSlips
  <2> QED BY <1>19, <1>2, <2>1, <2>3, <2>4 DEF ET!CheckOut, ET!Then
<1>21. ASSUME NEW j \in jobs, ET!LeaveTable(j) PROVE CricketTyped'
  <2> DEFINE t == [j.copy EXCEPT !.left = @ \union {j.by}]
  <2>1. t \in CricketTables
    <3>1. j.copy.left \in SUBSET ET!Players /\ j.by \in ET!Players
      BY <1>1, <1>21 DEF CricketTables, CricketJobs, ET!LeaveTable, ET!HasRead, ET!Due
    <3> QED BY <1>1, <3>1 DEF CricketTables
  <2> HIDE DEF t
  <2>2. [j EXCEPT !.do = "leaveLast", !.copy = t] \in CricketJobs
    BY <1>1, <2>1 DEF CricketJobs, CricketStages
  <2> QED BY <1>21, <1>2, <2>1, <2>2 DEF ET!LeaveTable, ET!Then, t
<1>22. ASSUME NEW j \in jobs, ET!LeaveLast(j) PROVE CricketTyped'
  <2>1. ET!Job("tellLeft", 0) \in CricketJobs
    BY <1>4, <1>5 DEF Fresh, CricketStages, OfTheTurn
  <2>2. [j.copy EXCEPT !.completed = TRUE] \in CricketTables
    BY <1>1 DEF CricketTables
  <2> QED BY <1>22, <1>2, <2>1, <2>2 DEF ET!LeaveLast, ET!Then
<1>23. ASSUME NEW what \in {"leave", "batBowl"}, NEW s \in ET!Players, NEW runs \in Nat,
              ET!Message(what, s, runs)
       PROVE  CricketTyped'
  <2>1. s \in 0..2 /\ what \in CricketStages
    BY DEF ET!Players, CricketStages
  <2>2. [ET!Job(what, 0) EXCEPT !.by = s, !.runs = runs, !.copy = table] \in CricketJobs
    BY <1>5, <2>1 DEF ET!Job, CricketJobs
  <2> QED BY <1>23, <2>2 DEF ET!Message
<1>24. ASSUME ET!Tick PROVE CricketTyped'
  <2>1. ASSUME NEW j \in jobs PROVE [j EXCEPT !.left = @ - 1] \in CricketJobs
    <3>1. j.left \in 0..CricketTurnTime /\ j.left > 0
      BY <1>1, <1>24 DEF ET!Tick, CricketJobs
    <3>2. j.left - 1 \in 0..CricketTurnTime
      BY <3>1 DEF CricketAssumption
    <3> QED BY <1>1, <3>2 DEF CricketJobs
  <2> QED BY <1>24, <2>1 DEF ET!Tick
<1>25. CASE UNCHANGED ET!vars
  BY <1>25 DEF ET!vars
<1> QED
  <2>1. 0 \in Nat /\ Runs \subseteq Nat
    BY DEF CricketAssumption
  <2> QED
    BY <1>6, <1>7, <1>8, <1>9, <1>10, <1>11, <1>12, <1>13, <1>14, <1>15, <1>16, <1>17, <1>18,
       <1>19,
       <1>21, <1>22, <1>23, <1>24, <1>25, <2>1 DEF ET!Next, ET!Followed

(* Who has stored without a slip has stored over what he had read.          *)
LEMMA StoredWithoutSlip ==
  ASSUME NEW j, NEW t, NEW more, ET!Store(j, t, more), slips' = {}
  PROVE  j.copy = table /\ table' = t /\ more = {} /\ slips = {}
BY DEF ET!Store, ET!When

LEMMA CricketJobFields ==
  ASSUME NEW what, NEW delay
  PROVE  ET!Job(what, delay).do = what /\ ET!Job(what, delay).copy = ET!NoTable /\ ~ET!NoTable.exists /\ ET!NoTable.turn = 0
BY DEF ET!Job, ET!NoTable

LEMMA TurnIsCountedInductive ==
  ASSUME CricketAssumption, CricketTyped, TurnIsCounted, CricketOrder, [ET!Next]_(ET!vars)
  PROVE  TurnIsCounted'
<1> USE DEF TurnIsCounted, CricketInTheTurn, OfTheTurn
<1>1. \A j \in jobs : j \in CricketJobs /\ j.copy \in CricketTables /\ j.copy.turn \in Nat
  BY DEF CricketTyped, CricketJobs, CricketTables
<1>2. Turns \in Nat /\ Turns >= 1
  BY DEF CricketAssumption
<1>3. table \in CricketTables /\ table.turn \in Nat
  BY DEF CricketTyped, CricketTables
<1>4. ASSUME NEW j \in jobs, slips = {}, ET!Read(j) PROVE TurnIsCounted'
  <2> DEFINE c == [j EXCEPT !.copy = table]
  <2>1. jobs' = (jobs \ {j}) \union {c} /\ table' = table /\ slips' = slips /\ slips = {}
    BY <1>4 DEF ET!Read
  <2>2. c.do = j.do /\ c.copy = table
    BY <1>1 DEF CricketJobs
  <2> HIDE DEF c
  <2> QED BY <2>1, <2>2
<1>5. ASSUME NEW j \in jobs, ET!StartGame(j) PROVE TurnIsCounted'
  BY <1>2, <1>5, CricketJobFields DEF ET!StartGame, ET!Due, ET!Then, CricketOrder
<1>6. ASSUME NEW j \in jobs, slips = {}, ET!DebitJoinFee(j) PROVE TurnIsCounted'
  <2>1. jobs = {j}
    BY <1>6 DEF ET!DebitJoinFee, ET!Due, CricketOrder
  <2>2. jobs' \subseteq {ET!Job("inningStart", 0)}
    BY <1>6, <2>1 DEF ET!DebitJoinFee, ET!Then
  <2> QED BY <2>2, CricketJobFields
<1>7. ASSUME NEW j \in jobs, ET!InningStart(j) PROVE TurnIsCounted'
  <2>1. CASE j.copy.completed
    BY <1>7, <2>1 DEF ET!InningStart, ET!Then
  <2>2. CASE ~j.copy.completed
    <3> DEFINE t == [j.copy EXCEPT !.turn = 1, !.out = FALSE]
               more == ET!When(\E k \in jobs \ {j} : ET!Chain(k), "two chains")
    <3>1. jobs' = (jobs \ {j}) \union {ET!Job("turn", InningsTime)} /\ ET!Store(j, t, more)
      BY <1>7, <2>2 DEF ET!InningStart, ET!Then
    <3>2. t.turn = 1
      BY <1>1 DEF CricketTables
    <3>3. slips' = {} => table' = t /\ \A k \in jobs \ {j} : ~ET!Chain(k)
      <4> HIDE DEF t
      <4> QED BY <3>1, StoredWithoutSlip DEF ET!When
    <3>4. slips' = {} => \A k \in jobs \ {j} : k.do \notin OfTheTurn
      BY <3>3 DEF ET!Chain
    <3> HIDE DEF t
    <3> DEFINE new == ET!Job("turn", InningsTime)
    <3>5. new.do = "turn" /\ new.copy.turn = 0
      BY CricketJobFields
    <3>6. jobs' = (jobs \ {j}) \union {new}
      BY <3>1
    <3> HIDE DEF new
    <3> QED BY <1>1, <1>2, <3>2, <3>3, <3>5, <3>6, <3>4
  <2> QED BY <2>1, <2>2
<1>8. ASSUME NEW j \in jobs, ET!Turn(j) PROVE TurnIsCounted'
  BY <1>2, <1>3, <1>8, CricketJobFields DEF ET!Turn, ET!Due, ET!Then
<1>9. ASSUME NEW j \in jobs, ET!TurnTimeout(j) PROVE TurnIsCounted'
  BY <1>2, <1>9, CricketJobFields DEF ET!TurnTimeout, ET!Due, ET!HasRead, ET!Then, ET!Store,
     ET!When
<1>10. ASSUME NEW j \in jobs, ET!ResultBegins(j) PROVE TurnIsCounted'
  BY <1>2, <1>10, CricketJobFields DEF ET!ResultBegins, ET!Due, ET!Then
<1>11. ASSUME NEW j \in jobs, ET!AddScore(j) PROVE TurnIsCounted'
  BY <1>1, <1>2, <1>11, CricketJobFields DEF ET!AddScore, ET!Due, ET!HasRead, ET!Then,
     ET!Store, ET!When, ET!Scored, CricketTables
<1>12. ASSUME NEW j \in jobs, ET!TurnResult(j) PROVE TurnIsCounted'
  BY <1>1, <1>2, <1>12, CricketJobFields DEF ET!TurnResult, ET!Due, ET!HasRead, ET!Then,
     ET!Store, ET!When, CricketTables
<1>13. ASSUME NEW j \in jobs, ET!InningIsOver(j) PROVE TurnIsCounted'
  BY <1>1, <1>2, <1>13, CricketJobFields DEF ET!InningIsOver, ET!Due, ET!HasRead, ET!Then,
     ET!Store, ET!When, ET!WithTarget, CricketTables
<1>14. ASSUME NEW j \in jobs, ET!InningEnd(j) PROVE TurnIsCounted'
  <2>1. CASE j.copy.innings = 1
    <3> DEFINE t == [j.copy EXCEPT !.innings = 2, !.turn = 1, !.out = FALSE, !.batsman = ET!Bowler(j.copy),
                                   !.score = <<0, 0>>, !.runs = <<0, 0>>]
    <3>1. ET!Store(j, t, {}) /\ jobs' = (jobs \ {j}) \union {ET!Job("nextInnings", 0)}
      BY <1>14, <2>1 DEF ET!InningEnd, ET!Then
    <3>2. t.turn = 1
      BY <1>1 DEF CricketTables
    <3> HIDE DEF t
    <3>3. slips' = {} => slips = {} /\ table' = t
      BY <3>1, StoredWithoutSlip
    <3> QED BY <1>2, <3>1, <3>2, <3>3, CricketJobFields
  <2>2. CASE j.copy.innings = 2
    <3> DEFINE t == [j.copy EXCEPT !.completed = TRUE]
    <3>1. ET!Store(j, t, {}) /\ jobs' = (jobs \ {j}) \union {ET!Job("gameEnded", 0)}
      BY <1>14, <2>2 DEF ET!InningEnd, ET!Then
    <3>2. t.turn = j.copy.turn
      BY <1>1 DEF CricketTables
    <3> HIDE DEF t
    <3>3. slips' = {} => slips = {} /\ table' = t /\ j.copy = table
      BY <3>1, StoredWithoutSlip
    <3> QED BY <1>2, <3>1, <3>2, <3>3, CricketJobFields
  <2>3. CASE j.copy.innings \notin {1, 2}
    BY <1>14, <2>3 DEF ET!InningEnd, ET!Then
  <2> QED BY <2>1, <2>2, <2>3
<1>15. ASSUME NEW j \in jobs, slips = {}, ET!GameEnded(j) PROVE TurnIsCounted'
  <2>1. j.do = "won" \/ jobs' = jobs \ {j}
    BY <1>15 DEF ET!GameEnded, ET!Then
  <2>2. j.do = "won" => jobs' = (jobs \ {j}) \union {ET!Job("turn", Second)}
    BY <1>15 DEF ET!GameEnded, ET!Then
  <2>3. table' = table /\ slips = {}
    BY <1>15 DEF ET!GameEnded
  <2> QED BY <2>1, <2>2, <2>3, CricketJobFields
<1>16. ASSUME NEW j \in jobs, ET!BatBowl(j) PROVE TurnIsCounted'
  BY <1>1, <1>2, <1>16, CricketJobFields DEF ET!BatBowl, ET!Due, ET!HasRead, ET!Then, ET!Store,
     ET!When, CricketTables
<1>17. ASSUME NEW j \in jobs, ET!CheckOut(j) PROVE TurnIsCounted'
  <2>1. CASE j.copy.out
    <3> DEFINE t == [j.copy EXCEPT !.innings = @ + 1, !.target = j.copy.score[j.copy.batsman] + 1]
    <3>1. ET!Store(j, t, ET!When(j.copy.innings = 2, "third innings")) /\ jobs' = (jobs \ {j}) \union {ET!Job("inningStart", 0)}
      BY <1>17, <2>1 DEF ET!CheckOut, ET!Then
    <3>2. t.turn = j.copy.turn
      BY <1>1 DEF CricketTables
    <3> HIDE DEF t
    <3>3. slips' = {} => slips = {} /\ table' = t /\ j.copy = table
      BY <3>1, StoredWithoutSlip
    <3> DEFINE new == ET!Job("inningStart", 0)
    <3>5. new.do = "inningStart" /\ new.copy.turn = 0
      BY CricketJobFields
    <3>6. jobs' = (jobs \ {j}) \union {new}
      BY <3>1
    <3> HIDE DEF new
    <3> QED BY <1>1, <1>2, <3>2, <3>3, <3>5, <3>6
  <2>2. CASE ~j.copy.out
    BY <1>17, <2>2 DEF ET!CheckOut, ET!Then
  <2> QED BY <2>1, <2>2
<1>18. ASSUME NEW j \in jobs, ET!LeaveTable(j) PROVE TurnIsCounted'
  <2> DEFINE t == [j.copy EXCEPT !.left = @ \union {j.by}]
             k == [j EXCEPT !.do = "leaveLast", !.copy = t]
  <2>1. ET!Store(j, t, {}) /\ jobs' \subseteq (jobs \ {j}) \union {k}
    BY <1>18 DEF ET!LeaveTable, ET!Then
  <2>2. t.turn = j.copy.turn
    BY <1>1 DEF CricketTables
  <2>3. k.do = "leaveLast"
    BY <1>1 DEF CricketJobs
  <2> HIDE DEF t, k
  <2>4. slips' = {} => slips = {} /\ table' = t /\ j.copy = table
    BY <2>1, StoredWithoutSlip
  <2> QED BY <1>2, <2>1, <2>2, <2>3, <2>4
<1>19. ASSUME NEW j \in jobs, ET!LeaveLast(j) PROVE TurnIsCounted'
  BY <1>1, <1>2, <1>19, CricketJobFields DEF ET!LeaveLast, ET!Due, ET!HasRead, ET!Then,
     ET!Store, ET!When, CricketTables
<1>20. ASSUME NEW what \in {"leave", "batBowl"}, NEW s, NEW runs,
              ET!Message(what, s, runs) PROVE TurnIsCounted'
  BY <1>2, <1>20 DEF ET!Message, ET!Job
<1>21. ASSUME ET!Tick PROVE TurnIsCounted'
  <2>1. ASSUME NEW k \in jobs' PROVE \E j \in jobs : k = [j EXCEPT !.left = @ - 1] /\ k.do = j.do /\ k.copy = j.copy
    BY <1>1, <1>21 DEF ET!Tick, CricketJobs
  <2> QED BY <1>21, <2>1 DEF ET!Tick
<1>22. CASE UNCHANGED ET!vars
  BY <1>22 DEF ET!vars
<1> QED
  BY <1>4, <1>5, <1>6, <1>7, <1>8, <1>9, <1>10, <1>11, <1>12, <1>13, <1>14, <1>15, <1>16,
     <1>17, <1>18,
     <1>19, <1>20, <1>21, <1>22 DEF ET!Next, ET!Followed

(* What a step keeps that is a handler's own, table and jobs.               *)
LEMMA OrderAndGoalsKept ==
  ASSUME CricketOrder, ET!GameGoesOn, ET!EndIsTold, slips = {},
         NEW j \in jobs, NEW new, ET!Then(j, new), j.do \notin {"startGame", "debit"},
         \A k \in new : /\ k.do \notin {"startGame", "debit"}
                        /\ k.copy.exists => k.copy.innings < 3 /\ (k.copy.completed => table'.completed),
         table'.innings < 3,
         table.completed => table'.completed,
         table'.completed => table.completed \/ \E k \in new : k.do \in {"gameEnded", "tellLeft"},
         ET!Chain(j) /\ ~table'.completed => \E k \in new : ET!Chain(k),
         prizes' = prizes, j.do \notin {"gameEnded", "tellLeft"}
  PROVE  CricketOrder' /\ ET!GameGoesOn' /\ ET!EndIsTold'
<1>1. CricketOrder'
  BY DEF CricketOrder, ET!Then
<1>2. ET!GameGoesOn'
  BY DEF ET!GameGoesOn, ET!Then, ET!Chain
<1>3. ET!EndIsTold'
  BY DEF ET!EndIsTold, ET!Then
<1> QED BY <1>1, <1>2, <1>3

LEMMA CricketGoesOnInductive ==
  ASSUME CricketAssumption, CricketTyped, CricketOrder, ET!GameGoesOn, ET!EndIsTold,
         [ET!Next]_(ET!vars)
  PROVE  CricketOrder' /\ ET!GameGoesOn' /\ ET!EndIsTold'
<1> DEFINE Goal == CricketOrder' /\ ET!GameGoesOn' /\ ET!EndIsTold'
<1>1. \A j \in jobs : j \in CricketJobs /\ j.copy \in CricketTables
  BY DEF CricketTyped, CricketJobs
<1>2. CASE slips' # {}
  BY <1>2 DEF CricketOrder, ET!GameGoesOn, ET!EndIsTold
<1>3. CASE UNCHANGED ET!vars
  BY <1>3 DEF ET!vars, CricketOrder, ET!GameGoesOn, ET!EndIsTold, ET!Chain
<1> SUFFICES ASSUME slips = {}, slips' = {}, ET!Next PROVE Goal
  BY <1>2, <1>3 DEF ET!Next, ET!Followed, ET!Tick
<1>4. table \in CricketTables /\ table.innings < 3
  BY DEF CricketTyped, CricketOrder
<1>5. \A j \in jobs : j.copy.exists => j.copy.innings < 3 /\ (j.copy.completed => table.completed)
  BY DEF CricketOrder
<1>6. \A what, delay : /\ ET!Job(what, delay).do = what /\ ~ET!Job(what, delay).copy.exists
                       /\ ET!Chain(ET!Job(what, delay)) <=>
                            what \notin {"batBowl", "checkOut", "leave", "leaveLast", "tellLeft"}
  BY CricketJobFields DEF ET!Chain
<1>7. ASSUME NEW j \in jobs, NEW t, NEW more, ET!Store(j, t, more)
      PROVE  j.copy = table /\ table' = t /\ more = {}
  BY <1>7, StoredWithoutSlip
<1>8. ASSUME NEW j \in jobs, ET!Read(j) PROVE Goal
  <2> DEFINE c == [j EXCEPT !.copy = table]
  <2>1. ET!Then(j, {c}) /\ table' = table /\ prizes' = prizes /\ j.do \notin {"startGame", "debit", "gameEnded", "tellLeft"}
    BY <1>8 DEF ET!Read, ET!Then
  <2>2. c.do = j.do /\ c.copy = table
    BY <1>1 DEF CricketJobs
  <2>3. ET!Chain(j) => ET!Chain(c)
    BY <2>2 DEF ET!Chain
  <2> HIDE DEF c
  <2> QED BY <1>4, <2>1, <2>2, <2>3, OrderAndGoalsKept
<1>9. ASSUME NEW j \in jobs, ET!StartGame(j) PROVE Goal
  <2>1. jobs = {j} /\ prizes = <<>>
    BY <1>9 DEF ET!StartGame, ET!Due, CricketOrder
  <2>2. jobs' = {ET!Job("debit", 0)} /\ prizes' = <<>>
    BY <1>9, <2>1 DEF ET!StartGame, ET!Then
  <2>3. table'.turn = 0 /\ ~table'.completed /\ table'.innings = 1
    BY <1>9 DEF ET!StartGame, ET!NoTable
  <2>4. ET!GameGoesOn'
    BY <1>6, <2>2 DEF ET!GameGoesOn, ET!Chain
  <2> QED BY <1>6, <2>2, <2>3, <2>4 DEF CricketOrder, ET!EndIsTold
<1>10. ASSUME NEW j \in jobs, ET!DebitJoinFee(j) PROVE Goal
  <2>1. jobs = {j} /\ prizes = <<>> /\ ~table.completed
    BY <1>10 DEF ET!DebitJoinFee, ET!Due, CricketOrder
  <2>2. jobs' = {ET!Job("inningStart", 0)} /\ prizes' = <<>> /\ table' = table
    BY <1>10, <2>1 DEF ET!DebitJoinFee, ET!Then
  <2>3. ET!GameGoesOn'
    BY <1>6, <2>2 DEF ET!GameGoesOn, ET!Chain
  <2> QED BY <1>4, <1>6, <2>1, <2>2, <2>3 DEF CricketOrder, ET!EndIsTold
<1>11. ASSUME NEW j \in jobs, ET!InningStart(j) PROVE Goal
  <2>1. j.copy.exists /\ j.do \in {"inningStart", "nextInnings"} /\ prizes' = prizes
    BY <1>11 DEF ET!InningStart, ET!HasRead, ET!Due
  <2>2. CASE j.copy.completed
    <3>1. ET!Then(j, {}) /\ table' = table /\ table.completed
      BY <1>5, <1>11, <2>1, <2>2 DEF ET!InningStart
    <3> QED BY <1>4, <2>1, <3>1, OrderAndGoalsKept
  <2>3. CASE ~j.copy.completed
    <3> DEFINE t == [j.copy EXCEPT !.turn = 1, !.out = FALSE]
    <3>1. ET!Then(j, {ET!Job("turn", InningsTime)}) /\ j.copy = table /\ table' = t
      BY <1>7, <1>11, <2>3 DEF ET!InningStart
    <3>2. t.completed = j.copy.completed /\ t.innings = j.copy.innings
      BY <1>1 DEF CricketTables
    <3> HIDE DEF t
    <3> QED BY <1>4, <1>6, <2>1, <3>1, <3>2, OrderAndGoalsKept
  <2> QED BY <2>2, <2>3
<1>12. ASSUME NEW j \in jobs, ET!Turn(j) PROVE Goal
  <2>1. j.do = "turn" /\ prizes' = prizes /\ table' = table
    BY <1>12 DEF ET!Turn, ET!Due
  <2>2. CASE table.completed
    BY <1>4, <1>12, <2>1, <2>2, OrderAndGoalsKept DEF ET!Turn
  <2>3. CASE ~table.completed
    <3>1. ET!Then(j, {ET!Job("target", 0)}) \/ ET!Then(j, {ET!Job("turnTimeout", 0)})
      BY <1>12, <2>3 DEF ET!Turn
    <3> QED BY <1>4, <1>6, <2>1, <2>3, <3>1, OrderAndGoalsKept
  <2> QED BY <2>2, <2>3
<1>13. ASSUME NEW j \in jobs, ET!TurnTimeout(j) PROVE Goal
  <2>1. j.do = "turnTimeout" /\ prizes' = prizes /\ table' = table /\ ET!Then(j, {ET!Job("result", CricketTurnTime)})
    BY <1>7, <1>13 DEF ET!TurnTimeout, ET!HasRead, ET!Due
  <2> QED BY <1>4, <1>6, <2>1, OrderAndGoalsKept
<1>14. ASSUME NEW j \in jobs, ET!ResultBegins(j) PROVE Goal
  <2>1. j.do = "result" /\ prizes' = prizes /\ table' = table
    BY <1>14 DEF ET!ResultBegins, ET!Due
  <2>2. ET!Then(j, {ET!Job("addScore", 0)}) \/ ET!Then(j, {ET!Job("turnResult", 0)})
    BY <1>14 DEF ET!ResultBegins
  <2> QED BY <1>4, <1>6, <2>1, <2>2, OrderAndGoalsKept
<1>15. ASSUME NEW j \in jobs, ET!AddScore(j) PROVE Goal
  <2>1. j.do = "addScore" /\ prizes' = prizes /\ ET!Then(j, {ET!Job("turnResult", 0)}) /\ j.copy = table
        /\ table' = ET!Scored(j.copy)
    BY <1>7, <1>15 DEF ET!AddScore, ET!HasRead, ET!Due
  <2>2. ET!Scored(j.copy).completed = j.copy.completed /\ ET!Scored(j.copy).innings = j.copy.innings
    BY <1>1 DEF ET!Scored, CricketTables
  <2> QED BY <1>4, <1>6, <2>1, <2>2, OrderAndGoalsKept
<1>16. ASSUME NEW j \in jobs, ET!TurnResult(j) PROVE Goal
  <2> DEFINE t == [j.copy EXCEPT !.turn = @ + 1, !.runs = <<0, 0>>]
  <2>1. j.do = "turnResult" /\ prizes' = prizes
    BY <1>16 DEF ET!TurnResult, ET!HasRead, ET!Due
  <2>2. \/ ET!Then(j, {ET!Job("out", Second)}) /\ table' = table
        \/ ET!Then(j, {ET!Job("won", Second)}) /\ table' = table
        \/ ET!Then(j, {ET!Job("turn", Second)}) /\ ET!Store(j, t, {})
    BY <1>16 DEF ET!TurnResult
  <2>3. t.completed = j.copy.completed /\ t.innings = j.copy.innings
    BY <1>1 DEF CricketTables
  <2> HIDE DEF t
  <2>4. table'.completed = table.completed /\ table'.innings < 3
    BY <1>4, <1>7, <2>2, <2>3
  <2> QED BY <1>6, <2>1, <2>2, <2>4, OrderAndGoalsKept
<1>17. ASSUME NEW j \in jobs, ET!InningIsOver(j) PROVE Goal
  <2> DEFINE new == {ET!Job("inningEnd", 0)} \union (IF j.do = "out" THEN {ET!Job("turn", Second)} ELSE {})
  <2>1. j.do \in {"target", "out"} /\ prizes' = prizes /\ j.copy = table /\ table' = ET!WithTarget(j.copy)
    BY <1>7, <1>17 DEF ET!InningIsOver, ET!HasRead, ET!Due
  <2>2. ET!WithTarget(j.copy).completed = j.copy.completed /\ ET!WithTarget(j.copy).innings = j.copy.innings
    BY <1>1 DEF ET!WithTarget, CricketTables
  <2>3. ET!Then(j, new)
    BY <1>17 DEF ET!InningIsOver
  <2>4. /\ \A k \in new : k.do \in {"inningEnd", "turn"} /\ ~k.copy.exists
        /\ \E k \in new : ET!Chain(k)
    BY <1>6
  <2> HIDE DEF new
  <2> QED BY <1>4, <2>1, <2>2, <2>3, <2>4, OrderAndGoalsKept
<1>18. ASSUME NEW j \in jobs, ET!InningEnd(j) PROVE Goal
  <2>1. j.do = "inningEnd" /\ prizes' = prizes /\ j.copy.exists
    BY <1>18 DEF ET!InningEnd, ET!HasRead, ET!Due
  <2>2. CASE j.copy.innings = 1
    <3> DEFINE t == [j.copy EXCEPT !.innings = 2, !.turn = 1, !.out = FALSE, !.batsman = ET!Bowler(j.copy),
                                   !.score = <<0, 0>>, !.runs = <<0, 0>>]
    <3>1. ET!Store(j, t, {}) /\ ET!Then(j, {ET!Job("nextInnings", 0)})
      BY <1>18, <2>2 DEF ET!InningEnd
    <3>2. t.completed = j.copy.completed /\ t.innings = 2
      BY <1>1 DEF CricketTables
    <3> HIDE DEF t
    <3>3. j.copy = table /\ table' = t
      BY <1>7, <3>1
    <3> QED BY <1>6, <2>1, <3>1, <3>2, <3>3, OrderAndGoalsKept
  <2>3. CASE j.copy.innings = 2
    <3> DEFINE t == [j.copy EXCEPT !.completed = TRUE]
    <3>1. ET!Store(j, t, {}) /\ ET!Then(j, {ET!Job("gameEnded", 0)})
      BY <1>18, <2>3 DEF ET!InningEnd
    <3>2. t.completed /\ t.innings = 2
      BY <1>1, <2>3 DEF CricketTables
    <3> HIDE DEF t
    <3>3. j.copy = table /\ table' = t
      BY <1>7, <3>1
    <3> QED BY <1>6, <2>1, <3>1, <3>2, <3>3, OrderAndGoalsKept
  <2>4. j.copy.innings \in {1, 2}
    <3>1. j.copy.innings \in 1..3 /\ j.copy.innings < 3
      BY <1>1, <1>5, <2>1 DEF CricketTables
    <3> QED BY <3>1
  <2> QED BY <2>2, <2>3, <2>4
<1>19. ASSUME NEW j \in jobs, ET!GameEnded(j) PROVE Goal
  <2>1. /\ table.completed /\ table' = table /\ j.do \in {"gameEnded", "tellLeft", "won"}
        /\ prizes = <<>> /\ prizes' = Append(prizes, ET!Winner(table))
        /\ \/ ET!Then(j, {}) \/ ET!Then(j, {ET!Job("turn", Second)})
    BY <1>19 DEF ET!GameEnded, ET!Due, ET!When
  <2>2. Len(prizes') = 1 /\ prizes' # <<>>
    BY <2>1
  <2>3. \A k \in jobs' : k \in jobs \/ (k.do = "turn" /\ ~k.copy.exists)
    BY <1>6, <2>1 DEF ET!Then
  <2>4. \A k \in jobs : k.do \notin {"startGame", "debit"}
    BY <2>1 DEF CricketOrder
  <2>5. CricketOrder'
    BY <1>4, <1>5, <2>1, <2>3, <2>4 DEF CricketOrder
  <2> QED BY <2>1, <2>2, <2>5 DEF ET!GameGoesOn, ET!EndIsTold
<1>20. ASSUME NEW j \in jobs, ET!BatBowl(j) PROVE Goal
  <2> DEFINE named == [j.copy EXCEPT !.runs[j.by] = j.runs, !.acted = TRUE]
             t == [named EXCEPT !.out = named.runs[1] = named.runs[2]]
  <2>1. j.do = "batBowl" /\ prizes' = prizes /\ ET!Then(j, {ET!Job("checkOut", 0)}) /\ ET!Store(j, t, {})
    BY <1>20 DEF ET!BatBowl, ET!HasRead, ET!Due
  <2>2. t.completed = j.copy.completed /\ t.innings = j.copy.innings
    BY <1>1 DEF CricketTables
  <2> HIDE DEF t
  <2>3. table'.completed = table.completed /\ table'.innings < 3
    BY <1>4, <1>7, <2>1, <2>2
  <2>4. ~ET!Chain(j)
    BY <2>1 DEF ET!Chain
  <2> QED BY <1>6, <2>1, <2>3, <2>4, OrderAndGoalsKept
<1>21. ASSUME NEW j \in jobs, ET!CheckOut(j) PROVE Goal
  <2>1. j.do = "checkOut" /\ prizes' = prizes /\ ~ET!Chain(j) /\ j.copy.exists
    BY <1>21 DEF ET!CheckOut, ET!HasRead, ET!Due, ET!Chain
  <2>2. CASE j.copy.out
    <3> DEFINE t == [j.copy EXCEPT !.innings = @ + 1, !.target = j.copy.score[j.copy.batsman] + 1]
               more == ET!When(j.copy.innings = 2, "third innings")
    <3>1. ET!Store(j, t, more) /\ ET!Then(j, {ET!Job("inningStart", 0)})
      BY <1>21, <2>2 DEF ET!CheckOut
    <3>2. t.completed = j.copy.completed /\ t.innings = j.copy.innings + 1
      BY <1>1 DEF CricketTables
    <3> HIDE DEF t, more
    <3>3. j.copy = table /\ table' = t /\ more = {}
      BY <1>7, <3>1
    <3>4. j.copy.innings # 2
      BY <3>3 DEF more, ET!When
    <3>5. table'.innings < 3
      <4>1. j.copy.innings \in 1..3 /\ j.copy.innings < 3
        BY <1>1, <1>5, <2>1 DEF CricketTables
      <4> QED BY <3>2, <3>3, <3>4, <4>1
    <3> QED BY <1>6, <2>1, <3>1, <3>2, <3>3, <3>5, OrderAndGoalsKept
  <2>3. CASE ~j.copy.out
    <3>1. ET!Then(j, {}) /\ table' = table
      BY <1>21, <2>3 DEF ET!CheckOut
    <3> QED BY <1>4, <2>1, <3>1, OrderAndGoalsKept
  <2> QED BY <2>2, <2>3
<1>22. ASSUME NEW j \in jobs, ET!LeaveTable(j) PROVE Goal
  <2> DEFINE t == [j.copy EXCEPT !.left = @ \union {j.by}]
             k == [j EXCEPT !.do = "leaveLast", !.copy = t]
  <2>1. j.do = "leave" /\ prizes' = prizes /\ ET!Store(j, t, {}) /\ (ET!Then(j, {k}) \/ ET!Then(j, {})) /\ j.copy.exists
    BY <1>22 DEF ET!LeaveTable, ET!HasRead, ET!Due
  <2>2. t.completed = j.copy.completed /\ t.innings = j.copy.innings
    BY <1>1 DEF CricketTables
  <2>3. k.do = "leaveLast" /\ k.copy = t
    BY <1>1 DEF CricketJobs
  <2>4. ~ET!Chain(j)
    BY <2>1 DEF ET!Chain
  <2> HIDE DEF t, k
  <2>5. j.copy = table /\ table' = t
    BY <1>7, <2>1
  <2> QED BY <1>4, <2>1, <2>2, <2>3, <2>4, <2>5, OrderAndGoalsKept
<1>23. ASSUME NEW j \in jobs, ET!LeaveLast(j) PROVE Goal
  <2> DEFINE t == [j.copy EXCEPT !.completed = TRUE]
  <2>1. j.do = "leaveLast" /\ prizes' = prizes /\ ET!Store(j, t, {}) /\ ET!Then(j, {ET!Job("tellLeft", 0)})
    BY <1>23 DEF ET!LeaveLast, ET!HasRead, ET!Due
  <2>2. t.completed /\ t.innings = j.copy.innings
    BY <1>1 DEF CricketTables
  <2> HIDE DEF t
  <2>3. j.copy = table /\ table' = t
    BY <1>7, <2>1
  <2> QED BY <1>4, <1>6, <2>1, <2>2, <2>3, OrderAndGoalsKept
<1>24. ASSUME NEW what \in {"leave", "batBowl"}, NEW s, NEW runs,
              ET!Message(what, s, runs) PROVE Goal
  <2> DEFINE k == [ET!Job(what, 0) EXCEPT !.by = s, !.runs = runs, !.copy = table]
  <2>1. jobs' = jobs \union {k} /\ table' = table /\ prizes' = prizes /\ table.turn > 0
    BY <1>24 DEF ET!Message
  <2>2. k.do = what /\ k.copy = table
    BY DEF ET!Job
  <2> HIDE DEF k
  <2>3. table.turn # 0
    BY <1>4, <2>1 DEF CricketTables
  <2>4. CricketOrder'
    BY <1>4, <2>1, <2>2, <2>3 DEF CricketOrder
  <2>5. ET!GameGoesOn'
    BY <2>1 DEF ET!GameGoesOn, ET!Chain
  <2> QED BY <2>1, <2>4, <2>5 DEF ET!EndIsTold
<1>25. ASSUME ET!Tick PROVE Goal
  <2>1. ASSUME NEW k \in jobs' PROVE \E j \in jobs : k = [j EXCEPT !.left = @ - 1] /\ k.do = j.do /\ k.copy = j.copy
    BY <1>1, <1>25 DEF ET!Tick, CricketJobs
  <2>2. ASSUME NEW j \in jobs PROVE \E k \in jobs' : k.do = j.do
    <3>1. [j EXCEPT !.left = @ - 1] \in jobs'
      BY <1>25 DEF ET!Tick
    <3>2. [j EXCEPT !.left = @ - 1].do = j.do
      BY <1>1 DEF CricketJobs
    <3> QED BY <3>1, <3>2
  <2>3. table' = table /\ prizes' = prizes /\ jobs' = {[j EXCEPT !.left = @ - 1] : j \in jobs}
    BY <1>25 DEF ET!Tick
  <2>4. CricketOrder'
    BY <1>4, <2>1, <2>3 DEF CricketOrder
  <2>5. ET!GameGoesOn'
    BY <2>2, <2>3 DEF ET!GameGoesOn, ET!Chain
  <2> QED BY <2>2, <2>3, <2>4, <2>5 DEF ET!EndIsTold
<1> QED
  BY <1>8, <1>9, <1>10, <1>11, <1>12, <1>13, <1>14, <1>15, <1>16, <1>17, <1>18, <1>19, <1>20,
     <1>21,
     <1>22, <1>23, <1>24, <1>25 DEF ET!Next, ET!Followed

LEMMA CricketBegins == ASSUME CricketAssumption, ET!Init PROVE CricketInv
<1>1. ET!Job("startGame", 0) \in CricketJobs /\ ET!NoTable \in CricketTables
  <2>1. 0 \in 0..CricketTurnTime
    BY DEF CricketAssumption
  <2> QED BY <2>1, CricketFreshJobs DEF CricketStages
<1>2. CricketTyped
  BY <1>1 DEF ET!Init, CricketTyped
<1>3. /\ jobs = {ET!Job("startGame", 0)} /\ ET!Job("startGame", 0).do = "startGame"
      /\ ET!Job("startGame", 0).copy = ET!NoTable /\ table = ET!NoTable /\ prizes = <<>>
  BY CricketJobFields DEF ET!Init
<1>4. TurnIsCounted
  BY <1>3 DEF TurnIsCounted, CricketInTheTurn, OfTheTurn
<1>5. CricketOrder /\ ET!GameGoesOn /\ ET!EndIsTold
  BY <1>3 DEF CricketOrder, ET!GameGoesOn, ET!EndIsTold, ET!Chain, ET!NoTable
<1> QED BY <1>2, <1>4, <1>5 DEF CricketInv

LEMMA CricketInductive == ASSUME CricketAssumption, CricketInv,
                                 [ET!Next]_(ET!vars) PROVE CricketInv'
BY CricketTypedInductive, TurnIsCountedInductive, CricketGoesOnInductive DEF CricketInv

LEMMA CricketInvariant == ASSUME CricketAssumption PROVE ET!Spec => []CricketInv
BY CricketBegins, CricketInductive, PTL DEF ET!Spec

LEMMA CricketTypes == ASSUME CricketAssumption, CricketTyped PROVE ET!TypeOK
<1>1. table \in CricketTables
  BY DEF CricketTyped
<1>2. /\ table.innings \in 1..3 /\ table.turn \in 0..(Turns + 1)
      /\ {table.exists, table.completed, table.out, table.acted} \subseteq BOOLEAN
      /\ table.batsman \in ET!Players
      /\ table.score \in [ET!Players -> 0..MaxScore] /\ table.target \in 0..(MaxScore + 1)
      /\ {table.left, fees} \subseteq SUBSET ET!Players
  BY <1>1 DEF CricketTables, CricketTyped
<1>3. \A j \in jobs : j.left \in 0..CricketTurnTime /\ j.by \in 0..2
  BY DEF CricketTyped, CricketJobs
<1>4. \A i \in DOMAIN prizes : prizes[i] \in 0..2
  BY DEF CricketTyped
<1> QED BY <1>2, <1>3, <1>4 DEF ET!TypeOK, CricketTyped, CricketSlips

(* What a cricket table, and what is pending for it, can be after any       *)
(* number of turns, outs and innings.                                       *)
THEOREM CricketTypeCorrect == ASSUME CricketAssumption PROVE ET!Spec => []ET!TypeOK
<1>1. CricketInv => ET!TypeOK
  BY CricketTypes DEF CricketInv
<1> QED BY <1>1, CricketInvariant, PTL

(* As long as nothing has slipped, a game that is not completed has a timer *)
(* or a handler pending that brings the next turn.                          *)
THEOREM CricketGoesOn == ASSUME CricketAssumption PROVE ET!Spec => []ET!GameGoesOn
<1>1. CricketInv => ET!GameGoesOn
  BY DEF CricketInv
<1> QED BY <1>1, CricketInvariant, PTL

(* As long as nothing has slipped, a completed game is told to its players  *)
(* or about to be, and told once, never before it is completed.             *)
THEOREM CricketEndIsTold == ASSUME CricketAssumption PROVE ET!Spec => []ET!EndIsTold
<1>1. CricketInv => ET!EndIsTold
  BY DEF CricketInv
<1> QED BY <1>1, CricketInvariant, PTL
-----------------------------------------------------------------------------
(* The mega tournament's table.                                             *)
LEMMA MegaCount == \A S : MT!Cardinality(S) = Cardinality(S)
BY DEF MT!Cardinality, Cardinality

MegaStoring == {"store roll", "store move", "store start", "store skip"}
EndStages == {"end", "delete", "delete pointer", "result"}
TimedStages == {"skipTurn", "startGame"}

(* Tables and calls have their fields, whatever is in them.                 *)
IsMegaTable(t) ==
  t \in [exists : BOOLEAN, place : {t.place}, enemy : {t.enemy}, action : {t.action}, dice : {t.dice},
         started : BOOLEAN, lives : {t.lives}, moves : {t.moves}, bonus : {t.bonus}]
IsMegaCall(c) ==
  /\ c \in [do : MegaStoring \union EndStages \union TimedStages, copy : {c.copy}, locked : BOOLEAN]
  /\ IsMegaTable(c.copy)

MegaShape ==
  /\ IsMegaTable(table)
  /\ \A c \in calls : IsMegaCall(c)
  /\ {active, jobs} \subseteq BOOLEAN

(* One handler has the lock, and whoever stores a table is it.              *)
MegaLocked ==
  /\ \A c \in calls : (c.do \in MegaStoring => c.locked) /\ (c.do \in TimedStages => ~c.locked)
  /\ \A c, d \in calls : c.locked /\ d.locked => c = d

PawnsCanMove(t) == t.action = "movePawn" => MT!CanMove(t) # {}

(* What is about to be stored is a table still played at; a skip that ends  *)
(* the game changes nothing of the score.                                   *)
CopiesAreTrue ==
  \A c \in calls : c.do \in MegaStoring =>
    /\ table.exists /\ c.copy.exists /\ c.copy.started /\ PawnsCanMove(c.copy)
    /\ c.do = "store start" => ~MT!ShouldEndGame(c.copy)
    /\ c.do = "store skip" => MT!FinalScore(c.copy) = MT!FinalScore(table)

(* A game is ended by one call, which nobody stores a table beside.         *)
OneEnd ==
  \A c, d \in calls : c.do \in EndStages => d.do \notin MegaStoring /\ (d.do \in EndStages => c = d)

EndHasItsScore ==
  \A c \in calls : c.do \in EndStages =>
    /\ results = <<>>
    /\ prizes = {MT!FinalScore(IF c.do = "end" THEN table ELSE c.copy)}
    /\ c.do \in {"end", "delete"} => table.exists /\ active
    /\ c.do \in {"delete pointer", "result"} => ~table.exists /\ ~jobs
    /\ c.do = "result" => ~active

(* Somebody will make a move, or has the timer told him to.                 *)
WillGoOn(c) == c.do \in MegaStoring \/ c.do = "skipTurn" \/ (c.do = "startGame" /\ ~table.started)

PlayedOrOver ==
  (\A c \in calls : c.do \notin EndStages) =>
    IF table.exists
    THEN /\ active /\ results = <<>> /\ prizes = {} /\ ~MT!ShouldEndGame(table)
         /\ jobs \/ \E c \in calls : WillGoOn(c)
    ELSE ~active /\ ~jobs /\ \E score \in prizes : results = <<score>> /\ prizes = {score}

MegaOrder ==
  slips = {} =>
    /\ CopiesAreTrue /\ OneEnd /\ EndHasItsScore /\ PlayedOrOver
    /\ table.exists => PawnsCanMove(table)

MegaInv == MegaShape /\ MegaLocked /\ MegaOrder
-----------------------------------------------------------------------------
LEMMA SameRoom ==
  ASSUME NEW t, NEW u, u.place = t.place, u.dice = t.dice
  PROVE  MT!CanMove(u) = MT!CanMove(t)
BY DEF MT!CanMove

LEMMA NextTurnShape ==
  ASSUME NEW t, IsMegaTable(t)
  PROVE  /\ IsMegaTable(MT!NextTurn(t)) /\ IsMegaTable(MT!Start(t))
         /\ MT!NextTurn(t).exists = t.exists /\ MT!NextTurn(t).action = t.action /\ MT!NextTurn(t).started = t.started
         /\ MT!NextTurn(t).place = t.place /\ MT!NextTurn(t).bonus = t.bonus
         /\ MT!Start(t).exists = t.exists /\ MT!Start(t).started /\ MT!Start(t).action = t.action
         /\ MT!Start(t).place = t.place /\ MT!Start(t).dice = t.dice /\ MT!Start(t).lives = t.lives
         /\ MT!Start(t).moves = t.moves /\ MT!Start(t).bonus = t.bonus
BY DEF IsMegaTable, MT!NextTurn, MT!Start

(* A table that begins its turn anew is still the game's, ...               *)
LEMMA MegaStartKeeps ==
  ASSUME NEW t, IsMegaTable(t)
  PROVE  /\ MT!ShouldEndGame(MT!Start(t)) = MT!ShouldEndGame(t)
         /\ MT!CanMove(MT!Start(t)) = MT!CanMove(t)
         /\ PawnsCanMove(t) => PawnsCanMove(MT!Start(t))
<1>1. MT!CanMove(MT!Start(t)) = MT!CanMove(t)
  BY NextTurnShape, SameRoom
<1> QED BY <1>1, NextTurnShape DEF MT!ShouldEndGame, PawnsCanMove

(* ... and so is one that is rolled, ...                                    *)
LEMMA MegaRollKeeps ==
  ASSUME NEW t, IsMegaTable(t), t.action = "rollDice", NEW dice
  PROVE  /\ IsMegaTable(MT!RollDice(t, dice)) /\ MT!RollDice(t, dice).exists = t.exists
         /\ MT!RollDice(t, dice).started /\ PawnsCanMove(MT!RollDice(t, dice))
<1> DEFINE a == [t EXCEPT !.dice = Append(@, dice)]
           u == MT!Start(a)
           v == IF Len(u.dice) = 3 /\ \A i \in 1..3 : u.dice[i] = MT!Six THEN MT!NextTurn(u) ELSE u
           w == [v EXCEPT !.action = "movePawn"]
           x == [v EXCEPT !.bonus = @ + MT!SumOf(v.dice)]
<1>1. IsMegaTable(a) /\ a.exists = t.exists /\ a.action = "rollDice"
  BY DEF IsMegaTable
<1>2. IsMegaTable(u) /\ u.exists = t.exists /\ u.action = "rollDice" /\ u.started
  BY <1>1, NextTurnShape
<1> HIDE DEF u
<1>3. IsMegaTable(v) /\ v.exists = t.exists /\ v.action = "rollDice" /\ v.started
  BY <1>2, NextTurnShape
<1> HIDE DEF v
<1>4. IsMegaTable(w) /\ w.exists = t.exists /\ w.started /\ w.place = v.place /\ w.dice = v.dice
  BY <1>3 DEF IsMegaTable
<1>5. IsMegaTable(x) /\ x.exists = t.exists /\ x.action = "rollDice" /\ x.started
  BY <1>3 DEF IsMegaTable
<1>6. MT!CanMove(w) = MT!CanMove(v)
  BY <1>4, SameRoom
<1> HIDE DEF w, x
<1>7. MT!RollDice(t, dice) \in {v, MT!NextTurn(x)} \/ (MT!RollDice(t, dice) = w /\ MT!CanMove(v) # {})
  BY DEF MT!RollDice, u, v, w, x
<1> QED BY <1>3, <1>4, <1>5, <1>6, <1>7, NextTurnShape DEF PawnsCanMove

(* ... moved, ...                                                           *)
LEMMA MegaMoveKeeps ==
  ASSUME NEW t, IsMegaTable(t), NEW p, NEW i
  PROVE  /\ IsMegaTable(MT!MovePawn(t, p, i)) /\ MT!MovePawn(t, p, i).exists = t.exists
         /\ MT!MovePawn(t, p, i).started /\ PawnsCanMove(MT!MovePawn(t, p, i))
<1> DEFINE next == t.place[p] + t.dice[i]
           killed == IF next \in Safe THEN {} ELSE {e \in DOMAIN Targets : t.enemy[e] = next}
           u == [t EXCEPT
                   !.place[p] = next,
                   !.enemy = [e \in DOMAIN Targets |-> IF e \in killed THEN Targets[e].base ELSE @[e]],
                   !.bonus = @ + (IF next = MegaHome THEN PerHome ELSE 0) + MT!PointsOfAll(t, killed),
                   !.moves = @ + (IF next = MegaHome \/ killed # {} THEN 1 ELSE 0),
                   !.dice = MT!RemoveAt(@, i)]
           x == [u EXCEPT !.action = "rollDice", !.bonus = @ + MT!SumOf(u.dice)]
<1>1. MT!MovePawn(t, p, i) = MT!Start(IF MT!CanMove(u) # {} THEN u ELSE MT!NextTurn(x))
  BY DEF MT!MovePawn
<1>2. IsMegaTable(u) /\ u.exists = t.exists
  BY DEF IsMegaTable
<1> HIDE DEF u
<1>3. IsMegaTable(x) /\ x.exists = t.exists /\ x.action = "rollDice"
  BY <1>2 DEF IsMegaTable
<1> HIDE DEF x
<1>4. CASE MT!CanMove(u) # {}
  BY <1>1, <1>2, <1>4, NextTurnShape, MegaStartKeeps DEF PawnsCanMove
<1>5. CASE MT!CanMove(u) = {}
  BY <1>1, <1>3, <1>5, NextTurnShape DEF PawnsCanMove
<1> QED BY <1>4, <1>5

(* ... or skipped, which leaves the score of a game that is not over.       *)
LEMMA MegaSkipKeeps ==
  ASSUME NEW t, IsMegaTable(t)
  PROVE  /\ IsMegaTable(MT!SkipTurn(t)) /\ MT!SkipTurn(t).exists = t.exists
         /\ MT!SkipTurn(t).started /\ PawnsCanMove(MT!SkipTurn(t))
         /\ ~MT!ShouldEndGame(t) => MT!FinalScore(MT!SkipTurn(t)) = MT!FinalScore(t)
<1> DEFINE n == MT!NextTurn(t)
           x == [n EXCEPT !.action = "rollDice", !.lives = @ - 1]
<1>1. MT!SkipTurn(t) = MT!Start(x)
  BY DEF MT!SkipTurn
<1>2. IsMegaTable(n) /\ n.exists = t.exists /\ n.place = t.place /\ n.bonus = t.bonus
  BY NextTurnShape
<1> HIDE DEF n
<1>3. IsMegaTable(x) /\ x.exists = t.exists /\ x.place = t.place /\ x.bonus = t.bonus /\ x.action = "rollDice"
  BY <1>2 DEF IsMegaTable
<1> HIDE DEF x
<1>4. MT!SkipTurn(t).place = t.place /\ MT!SkipTurn(t).bonus = t.bonus /\ MT!SkipTurn(t).action = "rollDice"
  BY <1>1, <1>3, NextTurnShape
<1>5. ~MT!ShouldEndGame(t) => MT!FinalScore(MT!SkipTurn(t)) = MT!FinalScore(t)
  BY <1>4 DEF MT!ShouldEndGame, MT!FinalScore, MT!TotalScore
<1> QED BY <1>1, <1>3, <1>4, <1>5, NextTurnShape DEF PawnsCanMove
-----------------------------------------------------------------------------
(* A handler that begins to work at the table: what it will store is played *)
(* at, and if the game is being ended by then, that is a slip.              *)
LEMMA MegaBeginKeeps ==
  ASSUME MegaInv, slips = {}, table.exists,
         NEW what \in MegaStoring, NEW t, IsMegaTable(t), t.exists, t.started, PawnsCanMove(t),
         ~MT!ShouldEndGame(table) =>
           /\ what = "store start" => ~MT!ShouldEndGame(t)
           /\ what = "store skip" => MT!FinalScore(t) = MT!FinalScore(table),
         MT!Begin(what, t)
  PROVE  MegaInv'
<1> DEFINE new == [do |-> what, copy |-> t, locked |-> TRUE]
<1>1. /\ calls' = calls \union {new} /\ MT!Unlocked
      /\ UNCHANGED <<table, active, jobs, results, prizes>>
      /\ MT!Ending => slips' # {}
  BY DEF MT!Begin, MT!Replace, MT!Slip
<1>2. IsMegaCall(new) /\ new.do = what /\ new.copy = t /\ new.locked
  BY DEF IsMegaCall
<1> HIDE DEF new
<1>3. MegaShape'
  BY <1>1, <1>2 DEF MegaInv, MegaShape, IsMegaTable, IsMegaCall
<1>4. MegaLocked'
  BY <1>1, <1>2 DEF MegaInv, MegaLocked, MT!Unlocked, MegaStoring, TimedStages
<1>5. ASSUME slips' = {} PROVE MegaOrder'
  <2>1. \A c \in calls' : c.do \notin EndStages
    BY <1>1, <1>2, <1>5 DEF MT!Ending, EndStages, MegaStoring
  <2>2. /\ CopiesAreTrue /\ active /\ results = <<>> /\ prizes = {} /\ ~MT!ShouldEndGame(table)
        /\ PawnsCanMove(table)
    BY <1>1, <2>1 DEF MegaInv, MegaOrder, PlayedOrOver
  <2>3. CopiesAreTrue'
    BY <1>1, <1>2, <2>2 DEF CopiesAreTrue
  <2>4. OneEnd' /\ EndHasItsScore'
    BY <2>1 DEF OneEnd, EndHasItsScore
  <2>5. PlayedOrOver'
    BY <1>1, <1>2, <2>2 DEF PlayedOrOver, WillGoOn
  <2> QED BY <1>1, <2>2, <2>3, <2>4, <2>5 DEF MegaOrder
<1> QED BY <1>3, <1>4, <1>5 DEF MegaInv, MegaOrder

(* The actions of the player.                                               *)
LEMMA PlayerKeepsOrder ==
  ASSUME MegaInv, slips = {}, MT!Roll \/ MT!Move \/ MT!ReadyToStart \/ MT!SkipMessage
  PROVE  MegaInv'
<1>1. IsMegaTable(table)
  BY DEF MegaInv, MegaShape
<1>2. CASE MT!Roll
  <2>1. PICK dice \in Dice : MT!Begin("store roll", MT!RollDice(table, dice))
    BY <1>2 DEF MT!Roll
  <2> QED BY <1>1, <1>2, <2>1, MegaRollKeeps, MegaBeginKeeps DEF MT!Roll, MegaStoring
<1>3. CASE MT!Move
  <2>1. PICK m \in MT!CanMove(table) : MT!Begin("store move", MT!MovePawn(table, m[1], m[2]))
    BY <1>3 DEF MT!Move
  <2> QED BY <1>1, <1>3, <2>1, MegaMoveKeeps, MegaBeginKeeps DEF MT!Move, MegaStoring
<1>4. CASE MT!ReadyToStart
  <2>1. PawnsCanMove(table)
    BY <1>4 DEF MT!ReadyToStart, MegaInv, MegaOrder
  <2>2. /\ IsMegaTable(MT!Start(table)) /\ MT!Start(table).exists /\ MT!Start(table).started
        /\ PawnsCanMove(MT!Start(table)) /\ MT!ShouldEndGame(MT!Start(table)) = MT!ShouldEndGame(table)
    BY <1>1, <1>4, <2>1, NextTurnShape, MegaStartKeeps DEF MT!ReadyToStart
  <2> QED BY <1>4, <2>2, MegaBeginKeeps DEF MT!ReadyToStart, MegaStoring
<1>5. CASE MT!SkipMessage
  BY <1>1, <1>5, MegaSkipKeeps, MegaBeginKeeps DEF MT!SkipMessage, MegaStoring
<1> QED BY <1>2, <1>3, <1>4, <1>5

LEMMA LeaveKeepsOrder ==
  ASSUME MegaInv, slips = {}, MT!LeaveTable
  PROVE  MegaInv'
<1> DEFINE new == MT!Call("end")
<1>1. /\ calls' = calls \union {new} /\ table.exists
      /\ UNCHANGED <<table, active, jobs, results>>
      /\ prizes' = prizes \union {MT!FinalScore(table)}
      /\ calls # {} => slips' # {}
  BY DEF MT!LeaveTable, MT!Replace, MT!Slip
<1>2. IsMegaCall(new) /\ new.do = "end" /\ ~new.locked
  BY DEF IsMegaCall, IsMegaTable, MT!Call, MT!NoTable, EndStages
<1> HIDE DEF new
<1>3. MegaShape'
  BY <1>1, <1>2 DEF MegaInv, MegaShape, IsMegaTable, IsMegaCall
<1>4. MegaLocked'
  BY <1>1, <1>2 DEF MegaInv, MegaLocked, MegaStoring, TimedStages
<1>5. ASSUME slips' = {} PROVE MegaOrder'
  <2>1. calls = {} /\ calls' = {new}
    BY <1>1, <1>5
  <2>2. active /\ results = <<>> /\ prizes = {} /\ PawnsCanMove(table)
    BY <1>1, <2>1 DEF MegaInv, MegaOrder, PlayedOrOver
  <2>3. CopiesAreTrue' /\ OneEnd'
    BY <1>2, <2>1 DEF CopiesAreTrue, OneEnd, MegaStoring
  <2>4. EndHasItsScore'
    BY <1>1, <1>2, <2>1, <2>2 DEF EndHasItsScore
  <2>5. PlayedOrOver'
    BY <1>2, <2>1 DEF PlayedOrOver, EndStages
  <2> QED BY <1>1, <2>2, <2>3, <2>4, <2>5 DEF MegaOrder
<1> QED BY <1>3, <1>4, <1>5 DEF MegaInv, MegaOrder

LEMMA TimerKeepsOrder ==
  ASSUME MegaInv, slips = {}, MT!Timer
  PROVE  MegaInv'
<1> DEFINE new == [MT!Call(IF table.started THEN "skipTurn" ELSE "startGame") EXCEPT !.copy = table]
<1>1. /\ calls' = calls \union {new} /\ jobs /\ ~jobs' /\ jobs' \in BOOLEAN
      /\ UNCHANGED <<table, active, results, prizes, slips>>
  BY DEF MT!Timer, MT!Replace, MT!Quiet
<1>2. /\ IsMegaCall(new) /\ new.do \in TimedStages /\ ~new.locked
      /\ new.do = "startGame" => ~table.started
  BY DEF IsMegaCall, IsMegaTable, MT!Call, MT!NoTable, TimedStages, MegaInv, MegaShape
<1> HIDE DEF new
<1>3. MegaShape'
  BY <1>1, <1>2 DEF MegaInv, MegaShape, IsMegaTable, IsMegaCall
<1>4. MegaLocked'
  BY <1>1, <1>2 DEF MegaInv, MegaLocked, MegaStoring, TimedStages
<1>5. CopiesAreTrue /\ OneEnd /\ EndHasItsScore /\ PlayedOrOver /\ (table.exists => PawnsCanMove(table))
  BY DEF MegaInv, MegaOrder
<1>6. new.do \notin MegaStoring /\ new.do \notin EndStages
  BY <1>2 DEF TimedStages, MegaStoring, EndStages
<1>7. CopiesAreTrue'
  BY <1>1, <1>5, <1>6 DEF CopiesAreTrue
<1>8. OneEnd'
  BY <1>1, <1>5, <1>6 DEF OneEnd
<1>9. EndHasItsScore'
  BY <1>1, <1>5, <1>6 DEF EndHasItsScore
<1>10. PlayedOrOver'
  BY <1>1, <1>2, <1>5 DEF PlayedOrOver, WillGoOn, TimedStages
<1> QED BY <1>1, <1>3, <1>4, <1>5, <1>7, <1>8, <1>9, <1>10 DEF MegaInv, MegaOrder

LEMMA TimedOutKeepsOrder ==
  ASSUME MegaInv, slips = {}, NEW c \in calls, MT!TimedOut(c)
  PROVE  MegaInv'
<1>1. /\ c.do \in TimedStages /\ IsMegaTable(table) /\ ~c.locked
      /\ c.do \notin MegaStoring /\ c.do \notin EndStages
      /\ UNCHANGED <<table, jobs, active, results, prizes>>
  BY DEF MT!TimedOut, TimedStages, MegaStoring, EndStages, MT!Quiet, MegaInv, MegaShape,
     MegaLocked
<1>2. CopiesAreTrue /\ OneEnd /\ EndHasItsScore /\ PlayedOrOver /\ (table.exists => PawnsCanMove(table))
  BY DEF MegaInv, MegaOrder
<1>3. CASE ~table.exists \/ (c.do = "startGame" /\ table.started)
  <2>1. calls' = calls \ {c} /\ slips' = slips
    BY <1>3 DEF MT!TimedOut, MT!Replace
  <2>2. MegaShape' /\ MegaLocked'
    BY <1>1, <2>1 DEF MegaInv, MegaShape, IsMegaTable, IsMegaCall, MegaLocked
  <2>3. CopiesAreTrue' /\ OneEnd' /\ EndHasItsScore'
    BY <1>1, <1>2, <2>1 DEF CopiesAreTrue, OneEnd, EndHasItsScore
  <2>4. PlayedOrOver'
    BY <1>1, <1>2, <1>3, <2>1 DEF PlayedOrOver, WillGoOn, MegaStoring
  <2> QED BY <1>1, <1>2, <2>1, <2>2, <2>3, <2>4 DEF MegaInv, MegaOrder
<1>4. CASE ~(~table.exists \/ (c.do = "startGame" /\ table.started))
  <2> DEFINE t == IF c.do = "startGame" THEN MT!Start(table) ELSE MT!SkipTurn(table)
             new == [do |-> IF c.do = "startGame" THEN "store start" ELSE "store skip", locked |-> TRUE,
                     copy |-> t]
  <2>1. /\ MT!Unlocked /\ calls' = (calls \ {c}) \union {new}
        /\ MT!Ending => slips' # {}
    BY <1>4 DEF MT!TimedOut, MT!Replace, MT!Slip
  <2>2. /\ IsMegaTable(t) /\ t.exists /\ t.started /\ PawnsCanMove(t)
        /\ ~MT!ShouldEndGame(table) =>
             /\ c.do = "startGame" => ~MT!ShouldEndGame(t)
             /\ c.do # "startGame" => MT!FinalScore(t) = MT!FinalScore(table)
    BY <1>1, <1>2, <1>4, NextTurnShape, MegaStartKeeps, MegaSkipKeeps
  <2> HIDE DEF t
  <2>3. /\ IsMegaCall(new) /\ new.locked /\ new.copy = t /\ new.do \in {"store start", "store skip"}
        /\ new.do = "store start" <=> c.do = "startGame"
    BY <2>2 DEF IsMegaCall, MegaStoring
  <2> HIDE DEF new
  <2>4. MegaShape'
    BY <1>1, <2>1, <2>3 DEF MegaInv, MegaShape, IsMegaTable, IsMegaCall
  <2>5. MegaLocked'
    BY <2>1, <2>3 DEF MegaInv, MegaLocked, MT!Unlocked, MegaStoring, TimedStages
  <2>6. ASSUME slips' = {} PROVE MegaOrder'
    <3>1. (\A d \in calls : d.do \notin EndStages) /\ (\A d \in calls' : d.do \notin EndStages)
      BY <2>1, <2>3, <2>6 DEF MT!Ending, EndStages
    <3>2. active /\ results = <<>> /\ prizes = {} /\ ~MT!ShouldEndGame(table)
      BY <1>2, <1>4, <3>1 DEF PlayedOrOver
    <3>3. CopiesAreTrue'
      BY <1>1, <1>2, <1>4, <2>1, <2>2, <2>3, <3>2 DEF CopiesAreTrue
    <3>4. OneEnd' /\ EndHasItsScore'
      BY <3>1 DEF OneEnd, EndHasItsScore
    <3>5. PlayedOrOver'
      BY <1>1, <1>4, <2>1, <2>3, <3>2 DEF PlayedOrOver, WillGoOn, MegaStoring
    <3> QED BY <1>1, <1>2, <3>3, <3>4, <3>5 DEF MegaOrder
  <2> QED BY <2>4, <2>5, <2>6 DEF MegaInv, MegaOrder
<1> QED BY <1>3, <1>4

(* A table is stored, by the one call that stores one: the game goes on     *)
(* with a new timer, or comes to its end with the score of that table.      *)
LEMMA StoreKeepsOrder ==
  ASSUME MegaInv, slips = {}, NEW c \in calls, MT!StoreTable(c)
  PROVE  MegaInv'
<1> DEFINE over == c.do # "store start" /\ MT!ShouldEndGame(c.copy)
           new == [MT!Call("end") EXCEPT !.locked = c.do = "store move"]
<1>1. /\ c.do \in MegaStoring /\ c.locked /\ IsMegaCall(c) /\ IsMegaTable(c.copy)
      /\ UNCHANGED <<active, results, slips>>
  BY DEF MT!StoreTable, MegaStoring, MegaInv, MegaShape, MegaLocked, IsMegaCall
<1>2. CopiesAreTrue /\ OneEnd /\ EndHasItsScore /\ PlayedOrOver /\ (table.exists => PawnsCanMove(table))
  BY DEF MegaInv, MegaOrder
<1>3. \A d \in calls : d.do \notin EndStages /\ (d.do \in MegaStoring => d = c)
  BY <1>1, <1>2 DEF OneEnd, MegaInv, MegaLocked
<1>4. table.exists /\ active /\ results = <<>> /\ prizes = {} /\ ~MT!ShouldEndGame(table)
  BY <1>1, <1>2, <1>3 DEF PlayedOrOver, CopiesAreTrue
<1>5. /\ c.copy.exists /\ c.copy.started /\ PawnsCanMove(c.copy)
      /\ c.do = "store start" => ~MT!ShouldEndGame(c.copy)
      /\ c.do = "store skip" => MT!FinalScore(c.copy) = MT!FinalScore(table)
  BY <1>1, <1>2 DEF CopiesAreTrue
<1>6. over <=> MT!ShouldEndGame(c.copy)
  BY <1>5
<1>7. CASE over
  <2>1. /\ calls' = (calls \ {c}) \union {new}
        /\ prizes' = {MT!FinalScore(c.copy)}
        /\ table' = IF c.do = "store skip" THEN table ELSE c.copy
        /\ jobs' = IF c.do = "store skip" THEN jobs ELSE FALSE
    BY <1>4, <1>6, <1>7 DEF MT!StoreTable, MT!Ended, MT!Replace
  <2>2. IsMegaCall(new) /\ new.do = "end"
    BY DEF IsMegaCall, IsMegaTable, MT!Call, MT!NoTable, EndStages
  <2> HIDE DEF new, over
  <2>3. /\ IsMegaTable(table') /\ table'.exists /\ PawnsCanMove(table')
        /\ MT!FinalScore(table') = MT!FinalScore(c.copy)
    BY <1>1, <1>2, <1>4, <1>5, <2>1 DEF MegaInv, MegaShape
  <2>4. MegaShape'
    BY <1>1, <2>1, <2>2, <2>3 DEF MegaInv, MegaShape, IsMegaTable, IsMegaCall
  <2>5. MegaLocked'
    BY <1>1, <2>1, <2>2 DEF MegaInv, MegaLocked, MegaStoring, TimedStages
  <2>6. CopiesAreTrue' /\ OneEnd'
    BY <1>3, <2>1, <2>2 DEF CopiesAreTrue, OneEnd, MegaStoring
  <2>7. EndHasItsScore'
    BY <1>1, <1>3, <1>4, <2>1, <2>2, <2>3 DEF EndHasItsScore
  <2>8. PlayedOrOver'
    BY <2>1, <2>2 DEF PlayedOrOver, EndStages
  <2> QED BY <1>1, <2>3, <2>4, <2>5, <2>6, <2>7, <2>8 DEF MegaInv, MegaOrder, PawnsCanMove
<1>8. CASE ~over
  <2>1. /\ calls' = calls \ {c} /\ prizes' = {}
        /\ table' = c.copy /\ jobs' = TRUE
    BY <1>4, <1>6, <1>8 DEF MT!StoreTable, MT!Ended, MT!Replace
  <2> HIDE DEF new, over
  <2>2. MegaShape' /\ MegaLocked'
    BY <1>1, <2>1 DEF MegaInv, MegaShape, IsMegaTable, IsMegaCall, MegaLocked
  <2>3. CopiesAreTrue' /\ OneEnd' /\ EndHasItsScore'
    BY <1>3, <2>1 DEF CopiesAreTrue, OneEnd, EndHasItsScore
  <2>4. PlayedOrOver'
    BY <1>1, <1>4, <1>5, <1>6, <1>8, <2>1 DEF PlayedOrOver
  <2> QED BY <1>1, <1>5, <2>1, <2>2, <2>3, <2>4 DEF MegaInv, MegaOrder, PawnsCanMove
<1> QED BY <1>7, <1>8

(* The four steps that end a game, with no other that ends it or stores it. *)
LEMMA EndKeepsOrder ==
  ASSUME MegaInv, slips = {}, NEW c \in calls,
         MT!EndGame(c) \/ MT!DeleteTable(c) \/ MT!DeletePointer(c) \/ MT!StoreResult(c)
  PROVE  MegaInv'
<1>1. c.do \in EndStages /\ IsMegaCall(c) /\ IsMegaTable(c.copy) /\ IsMegaTable(table) /\ slips' = slips
  BY DEF MT!EndGame, MT!DeleteTable, MT!DeletePointer, MT!StoreResult, EndStages, MegaInv,
     MegaShape, IsMegaCall
<1>2. CopiesAreTrue /\ OneEnd /\ EndHasItsScore /\ PlayedOrOver /\ (table.exists => PawnsCanMove(table))
  BY DEF MegaInv, MegaOrder
<1>3. \A d \in calls : d.do \notin MegaStoring /\ (d.do \in EndStages => d = c)
  BY <1>1, <1>2 DEF OneEnd
<1>4. /\ results = <<>>
      /\ prizes = {MT!FinalScore(IF c.do = "end" THEN table ELSE c.copy)}
      /\ c.do \in {"end", "delete"} => table.exists /\ active
      /\ c.do \in {"delete pointer", "result"} => ~table.exists /\ ~jobs
      /\ c.do = "result" => ~active
  BY <1>1, <1>2 DEF EndHasItsScore
<1>5. ASSUME NEW new, IsMegaCall(new), new.do \in EndStages, new.locked = c.locked,
             calls' = (calls \ {c}) \union {new}, MegaShape',
             table'.exists => PawnsCanMove(table'),
             results' = <<>>,
             prizes' = {MT!FinalScore(new.copy)}, new.do # "end",
             new.do = "delete" => table'.exists /\ active',
             new.do \in {"delete pointer", "result"} => ~table'.exists /\ ~jobs',
             new.do = "result" => ~active'
      PROVE  MegaInv'
  <2>1. MegaLocked'
    BY <1>5 DEF MegaInv, MegaLocked, EndStages, MegaStoring, TimedStages
  <2>2. CopiesAreTrue' /\ OneEnd'
    BY <1>3, <1>5 DEF CopiesAreTrue, OneEnd, EndStages, MegaStoring
  <2>3. EndHasItsScore'
    BY <1>3, <1>5 DEF EndHasItsScore
  <2>4. PlayedOrOver'
    BY <1>5 DEF PlayedOrOver
  <2> QED BY <1>5, <2>1, <2>2, <2>3, <2>4 DEF MegaInv, MegaOrder
<1>6. CASE MT!EndGame(c)
  <2> DEFINE new == [c EXCEPT !.do = "delete", !.copy = table]
  <2>1. /\ c.do = "end" /\ calls' = (calls \ {c}) \union {new}
        /\ UNCHANGED <<table, active, jobs, results, prizes>>
    BY <1>4, <1>6 DEF MT!EndGame, MT!Replace, MT!Quiet
  <2>2. IsMegaCall(new) /\ new.do = "delete" /\ new.copy = table /\ new.locked = c.locked
    BY <1>1 DEF IsMegaCall, EndStages
  <2> HIDE DEF new
  <2>3. MegaShape'
    BY <2>1, <2>2 DEF MegaInv, MegaShape, IsMegaTable, IsMegaCall
  <2> QED BY <1>2, <1>4, <1>5, <2>1, <2>2, <2>3 DEF EndStages, PawnsCanMove
<1>7. CASE MT!DeleteTable(c)
  <2> DEFINE new == [c EXCEPT !.do = "delete pointer"]
  <2>1. /\ c.do = "delete" /\ calls' = (calls \ {c}) \union {new}
        /\ table' = MT!NoTable /\ jobs' = FALSE
        /\ UNCHANGED <<active, results, prizes>>
    BY <1>7 DEF MT!DeleteTable, MT!Replace
  <2>2. IsMegaCall(new) /\ new.do = "delete pointer" /\ new.copy = c.copy /\ new.locked = c.locked
    BY <1>1 DEF IsMegaCall, EndStages
  <2> HIDE DEF new
  <2>3. IsMegaTable(table') /\ ~table'.exists
    BY <2>1 DEF MT!NoTable, IsMegaTable
  <2>4. MegaShape'
    BY <2>1, <2>2, <2>3 DEF MegaInv, MegaShape, IsMegaCall
  <2> QED BY <1>4, <1>5, <2>1, <2>2, <2>3, <2>4 DEF EndStages
<1>8. CASE MT!DeletePointer(c)
  <2> DEFINE new == [c EXCEPT !.do = "result"]
  <2>1. /\ c.do = "delete pointer" /\ calls' = (calls \ {c}) \union {new} /\ active' = FALSE
        /\ UNCHANGED <<table, jobs, results, prizes>>
    BY <1>8 DEF MT!DeletePointer, MT!Replace
  <2>2. IsMegaCall(new) /\ new.do = "result" /\ new.copy = c.copy /\ new.locked = c.locked
    BY <1>1 DEF IsMegaCall, EndStages
  <2> HIDE DEF new
  <2>3. MegaShape'
    BY <2>1, <2>2 DEF MegaInv, MegaShape, IsMegaTable, IsMegaCall
  <2> QED BY <1>4, <1>5, <2>1, <2>2, <2>3 DEF EndStages
<1>9. CASE MT!StoreResult(c)
  <2>1. /\ c.do = "result" /\ calls' = calls \ {c}
        /\ results' = Append(results, MT!FinalScore(c.copy))
        /\ UNCHANGED <<table, active, jobs, prizes>>
    BY <1>9 DEF MT!StoreResult, MT!Replace
  <2>2. MegaShape' /\ MegaLocked'
    BY <2>1 DEF MegaInv, MegaShape, IsMegaTable, IsMegaCall, MegaLocked
  <2>3. \A d \in calls' : d.do \notin MegaStoring /\ d.do \notin EndStages
    BY <1>3, <2>1
  <2>4. CopiesAreTrue' /\ OneEnd' /\ EndHasItsScore'
    BY <2>3 DEF CopiesAreTrue, OneEnd, EndHasItsScore
  <2>5. results' = <<MT!FinalScore(c.copy)>> /\ prizes' = {MT!FinalScore(c.copy)}
    BY <1>4, <2>1
  <2>6. PlayedOrOver'
    BY <1>4, <2>1, <2>5 DEF PlayedOrOver
  <2> QED BY <1>4, <2>1, <2>2, <2>4, <2>6 DEF MegaInv, MegaOrder
<1> QED BY <1>6, <1>7, <1>8, <1>9

LEMMA MegaBegins ==
  ASSUME MegaAssumption, MT!Init
  PROVE  MegaInv
<1>1. /\ table.exists /\ table.action = "rollDice" /\ IsMegaTable(table)
      /\ table.moves = TotalMoves /\ table.lives = Lives /\ table.place = [p \in MegaPawns |-> 1]
  BY DEF MT!Init, MT!NoTable, IsMegaTable
<1>2. MT!HomePawnCount(table.place) = 0
  <2>1. {p \in MegaPawns : table.place[p] = MegaHome} = {}
    BY <1>1 DEF MegaAssumption
  <2> QED BY <2>1, MegaCount, FS_EmptySet DEF MT!HomePawnCount
<1>3. MT!Cardinality(MegaPawns) # 0
  BY MegaCount, FS_EmptySet DEF MegaAssumption
<1>4. ~MT!ShouldEndGame(table)
  BY <1>1, <1>2, <1>3 DEF MT!ShouldEndGame, MegaAssumption
<1>5. MegaShape /\ MegaLocked
  BY <1>1 DEF MT!Init, MegaShape, MegaLocked
<1>6. CopiesAreTrue /\ OneEnd /\ EndHasItsScore
  BY DEF MT!Init, CopiesAreTrue, OneEnd, EndHasItsScore
<1>7. PlayedOrOver
  BY <1>1, <1>4 DEF MT!Init, PlayedOrOver
<1> QED BY <1>1, <1>5, <1>6, <1>7 DEF MegaInv, MegaOrder, PawnsCanMove

LEMMA MegaGoesOnInductive ==
  ASSUME MegaInv, [MT!Next]_(MT!vars)
  PROVE  MegaInv'
<1>1. CASE UNCHANGED MT!vars
  BY <1>1 DEF MT!vars, MegaInv, MegaShape, IsMegaTable, IsMegaCall, MegaLocked, MegaOrder,
     CopiesAreTrue,
     OneEnd, EndHasItsScore, PlayedOrOver, WillGoOn, PawnsCanMove
<1>2. CASE MT!Next
  <2>1. slips = {}
    BY <1>2 DEF MT!Next
  <2>2. CASE MT!PlayAgain
    <3>1. MegaShape' /\ MegaLocked' /\ slips' # {}
      BY <2>2 DEF MT!PlayAgain, MegaInv, MegaShape, IsMegaTable, IsMegaCall, MegaLocked
    <3> QED BY <3>1 DEF MegaInv, MegaOrder
  <2> QED BY <1>2, <2>1, <2>2, PlayerKeepsOrder, LeaveKeepsOrder, TimerKeepsOrder,
             TimedOutKeepsOrder,
             StoreKeepsOrder, EndKeepsOrder DEF MT!Next
<1> QED BY <1>1, <1>2

LEMMA MegaInvariant == ASSUME MegaAssumption PROVE MT!Spec => []MegaInv
BY MegaBegins, MegaGoesOnInductive, PTL DEF MT!Spec

LEMMA MegaGoOn == MegaInv => MT!GameGoesOn
BY DEF MegaInv, MegaOrder, PlayedOrOver, MT!GameGoesOn, PawnsCanMove

(* As long as nothing has slipped, a game goes on and no longer than it may: *)
(* who is asked to move has a pawn that can, and while no handler is at work *)
(* a timer will skip the turn and the game is not one that should have ended. *)
THEOREM MegaGameGoesOn == ASSUME MegaAssumption PROVE MT!Spec => []MT!GameGoesOn
BY MegaGoOn, MegaInvariant, PTL

LEMMA MegaResult == MegaInv => MT!ResultIsFinal
<1> SUFFICES ASSUME MegaInv, slips = {}, calls = {} PROVE MT!ResultIsFinal
  BY DEF MT!ResultIsFinal
<1>1. IF table.exists THEN active /\ results = <<>>
      ELSE ~active /\ \E score \in prizes : results = <<score>> /\ prizes = {score}
  BY DEF MegaInv, MegaOrder, PlayedOrOver
<1>2. CASE table.exists
  <2>1. table.exists = TRUE
    BY <1>2 DEF MegaInv, MegaShape, IsMegaTable
  <2>2. results = <<>> /\ active
    BY <1>1, <1>2
  <2>3. DOMAIN results = {}
    BY <2>2
  <2>4. MT!Reconnected = "started"
    BY <2>1, <2>2 DEF MT!Reconnected
  <2> QED BY <2>1, <2>2, <2>3, <2>4 DEF MT!ResultIsFinal
<1>3. CASE ~table.exists
  BY <1>1, <1>3 DEF MT!ResultIsFinal, MT!LastEvent, MegaInv, MegaShape, IsMegaTable
<1> QED BY <1>2, <1>3

(* As long as nothing has slipped, and while no handler is at work, a game  *)
(* has a result just when its table is gone, and it is the score the player *)
(* had when the game was over; until then a returning client is sent back.  *)
THEOREM MegaResultIsFinal == ASSUME MegaAssumption PROVE MT!Spec => []MT!ResultIsFinal
BY MegaResult, MegaInvariant, PTL
-----------------------------------------------------------------------------
(* The games together: each by its invariant, which the steps of the others *)
(* say nothing of.                                                          *)
GamesInv ==
  /\ game \in {"ludo", "snakes", "cricket", "mega"}
  /\ game = "ludo" => LudoInv
  /\ game = "snakes" => SnakesInv
  /\ game = "cricket" => CricketInv
  /\ game = "mega" => MegaInv

LEMMA GamesBegin == GamesInit => GamesInv
BY GamesAssumption, LudoBegins, SnakesBegins, CricketBegins, MegaBegins DEF GamesInit, GamesInv

(* While the tables stand still, each game's table does.                    *)
LEMMA AllStandStill ==
  ASSUME UNCHANGED Tables
  PROVE  UNCHANGED LT!vars /\ UNCHANGED ST!vars /\ UNCHANGED ET!vars /\ UNCHANGED MT!vars
BY DEF Tables, LT!vars, ST!vars, ET!vars, MT!vars

LEMMA GamesInductive ==
  ASSUME GamesInv, [GamesNext]_<<game, Tables>>
  PROVE  GamesInv'
<1>1. LudoAssumption /\ SnakesAssumption /\ CricketAssumption /\ MegaAssumption
  BY GamesAssumption
<1>2. game' = game /\ game \in {"ludo", "snakes", "cricket", "mega"}
  BY DEF GamesInv, GamesNext, PlayLudo, PlaySnakes, PlayCricket, PlayMega
<1>3. ASSUME game = "ludo" PROVE LudoInv'
  <2>1. [LT!Next]_(LT!vars)
    BY <1>3, AllStandStill DEF GamesNext, PlayLudo, PlaySnakes, PlayCricket, PlayMega
  <2> QED BY <1>1, <1>3, <2>1, LudoInductive DEF GamesInv
<1>4. ASSUME game = "snakes" PROVE SnakesInv'
  <2>1. [ST!Next]_(ST!vars)
    BY <1>4, AllStandStill DEF GamesNext, PlayLudo, PlaySnakes, PlayCricket, PlayMega
  <2> QED BY <1>1, <1>4, <2>1, SnakesStep DEF GamesInv
<1>5. ASSUME game = "cricket" PROVE CricketInv'
  <2>1. [ET!Next]_(ET!vars)
    BY <1>5, AllStandStill DEF GamesNext, PlayLudo, PlaySnakes, PlayCricket, PlayMega
  <2> QED BY <1>1, <1>5, <2>1, CricketInductive DEF GamesInv
<1>6. ASSUME game = "mega" PROVE MegaInv'
  <2>1. [MT!Next]_(MT!vars)
    BY <1>6, AllStandStill DEF GamesNext, PlayLudo, PlaySnakes, PlayCricket, PlayMega
  <2> QED BY <1>1, <1>6, <2>1, MegaGoesOnInductive DEF GamesInv
<1> QED BY <1>2, <1>3, <1>4, <1>5, <1>6 DEF GamesInv

LEMMA GamesInvariant == GamesSpec => []GamesInv
BY GamesBegin, GamesInductive, PTL DEF GamesSpec

(* At the table of every game a prize is paid once, for a game whose fees   *)
(* were taken; fees are paid out or given back, never both; and everybody   *)
(* has one result when the game is over.                                    *)
THEOREM EveryGameIsSettled == GamesSpec => []GamesAreSettled
<1>1. GamesInv => GamesAreSettled
  BY LudoPrize, SnakesPrize, SnakesResults, MegaResult
     DEF GamesInv, CricketInv, GamesAreSettled
<1> QED BY <1>1, GamesInvariant, PTL

(* At the table of every game something is pending that carries the game    *)
(* on, and the turn of a Ludo game is with somebody who can take it.        *)
THEOREM EveryGameGoesOn == GamesSpec => []GameGoesOn
<1>1. GamesInv => GameGoesOn
  BY LudoGoOn, LudoTurn, SnakesGoOn, MegaGoOn DEF GamesInv, CricketInv, GameGoesOn
<1> QED BY <1>1, GamesInvariant, PTL

(* A client of Ludo or of Snakes and Ladders that comes back is sent to the *)
(* table it plays at, not to one it has left, and hears of the end only at  *)
(* the end.                                                                 *)
THEOREM EveryClientIsToldTheTruth == GamesSpec => []ClientsAreToldTheTruth
<1>1. GamesInv => ClientsAreToldTheTruth
  BY LudoTruth, SnakesPointers DEF GamesInv, ClientsAreToldTheTruth
<1> QED BY <1>1, GamesInvariant, PTL
=============================================================================
