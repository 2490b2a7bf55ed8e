----------------------------- MODULE LockerProofs -----------------------------
(***************************************************************************)
(* What locks guarantee: LockerService's for any number of requests and    *)
(* keys, and, in a second part, roundLock's for any number of bets that    *)
(* find an Aviator round over: one of them starts the next.                *)
(***************************************************************************)
EXTENDS Locker, Integers, Sequences, FiniteSetTheorems, TLAPS

(* One SET NX, DEL or expiry, and what the finally block does, keep every   *)
(* variable in its type.                                                    *)
THEOREM TypeCorrect == Spec => []TypeOK
<1>1. Init => TypeOK
  BY LockAssumption DEF Init, TypeOK, States
<1>2. ASSUME TypeOK, [Next]_vars PROVE TypeOK'
  <2> USE <1>2, LockAssumption DEF TypeOK, States
  <2>1. ASSUME NEW r \in Requests, Begin(r) PROVE TypeOK'
    BY <2>1 DEF Begin
  <2>2. ASSUME NEW r \in Requests, Enter(r) PROVE TypeOK'
    BY <2>2 DEF Enter
  <2>3. ASSUME NEW r \in Requests, Leave(r) PROVE TypeOK'
    BY <2>3 DEF Leave
  <2>4. ASSUME NEW r \in Requests, Die(r) PROVE TypeOK'
    BY <2>4 DEF Die
  <2>5. ASSUME NEW r \in Requests, NEW k \in Keys, Acquire(r, k) PROVE TypeOK'
    BY <2>5 DEF Acquire
  <2>6. ASSUME NEW r \in Requests, NEW k \in Keys, Retry(r, k) PROVE TypeOK'
    <3>1. tries[r][k] + 1 \in 0..RetryLimit
      BY <2>6 DEF Retry
    <3> QED BY <2>6, <3>1 DEF Retry
  <2>7. ASSUME NEW r \in Requests, NEW k \in Keys, GiveUp(r, k) PROVE TypeOK'
    <3>1. tries[r][k] + 1 \in 0..RetryLimit
      BY <2>7 DEF GiveUp
    <3> QED BY <2>7, <3>1 DEF GiveUp
  <2>8. ASSUME NEW r \in Requests, NEW k \in Keys, Release(r, k) PROVE TypeOK'
    BY <2>8 DEF Release, Vanish, Rob
  <2>9. ASSUME NEW k \in Keys, Expire(k) PROVE TypeOK'
    BY <2>9 DEF Expire, Vanish, Rob
  <2>10. CASE UNCHANGED vars
    BY <2>10 DEF vars
  <2> QED BY <2>1, <2>2, <2>3, <2>4, <2>5, <2>6, <2>7, <2>8, <2>9, <2>10 DEF Next
<1> QED BY <1>1, <1>2, PTL DEF Spec

-----------------------------------------------------------------------------
(* A request on its way in, or in, still holds every key it has taken,      *)
(* except those that vanished under it.                                     *)
Holds(r, k) ==
  (pc[r] \in {"waiting", "inside"} /\ k \notin trying[r] /\ k \notin robbed[r]) => stored[k] = r

HoldsOrRobbed ==
  /\ \A r \in Requests : \A k \in Wants[r] : Holds(r, k)
  /\ \A r \in Requests : pc[r] = "inside" => trying[r] = {}
  /\ \A r \in Requests : toRelease[r] # {} => pc[r] = "releasing"

LEMMA HoldsStep == ASSUME TypeOK, HoldsOrRobbed, [Next]_vars PROVE HoldsOrRobbed'
<1> USE LockAssumption DEF TypeOK, States
<1>k. \A r \in Requests : Wants[r] \subseteq Keys
  OBVIOUS
<1>1. ASSUME NEW r \in Requests, Begin(r) PROVE HoldsOrRobbed'
  BY <1>1, <1>k DEF Begin, HoldsOrRobbed, Holds
<1>2. ASSUME NEW r \in Requests, Enter(r) PROVE HoldsOrRobbed'
  BY <1>2, <1>k DEF Enter, HoldsOrRobbed, Holds
<1>3. ASSUME NEW r \in Requests, Leave(r) PROVE HoldsOrRobbed'
  BY <1>3, <1>k DEF Leave, HoldsOrRobbed, Holds
<1>4. ASSUME NEW r \in Requests, Die(r) PROVE HoldsOrRobbed'
  BY <1>4, <1>k DEF Die, HoldsOrRobbed, Holds
<1>5. ASSUME NEW r \in Requests, NEW k \in Keys, Acquire(r, k) PROVE HoldsOrRobbed'
  BY <1>5, <1>k DEF Acquire, HoldsOrRobbed, Holds
<1>6. ASSUME NEW r \in Requests, NEW k \in Keys, Retry(r, k) PROVE HoldsOrRobbed'
  BY <1>6, <1>k DEF Retry, HoldsOrRobbed, Holds
<1>7. ASSUME NEW r \in Requests, NEW k \in Keys, GiveUp(r, k) PROVE HoldsOrRobbed'
  <2>1. \A s \in Requests : s # r => pc'[s] = pc[s] /\ trying'[s] = trying[s] /\ toRelease'[s] = toRelease[s]
    BY <1>7 DEF GiveUp
  <2>2. pc'[r] \notin {"waiting", "inside"} /\ (toRelease'[r] # {} => pc'[r] = "releasing")
    BY <1>7 DEF GiveUp, HoldsOrRobbed
  <2>3. stored' = stored /\ robbed' = robbed
    BY <1>7 DEF GiveUp
  <2> QED BY <2>1, <2>2, <2>3, <1>k DEF HoldsOrRobbed, Holds
<1>8. ASSUME NEW r \in Requests, NEW k \in Keys, Release(r, k) PROVE HoldsOrRobbed'
  <2>1. pc[r] = "releasing" /\ pc'[r] \in {"releasing", "done"}
    BY <1>8 DEF Release, HoldsOrRobbed
  <2>2. toRelease'[r] # {} => pc'[r] = "releasing"
    <3>1. CASE toRelease[r] = {k}
      BY <3>1, <1>8 DEF Release
    <3>2. CASE toRelease[r] # {k}
      BY <3>2, <2>1, <1>8 DEF Release
    <3> QED BY <3>1, <3>2
  <2>3. \A s \in Requests : s # r => pc'[s] = pc[s] /\ toRelease'[s] = toRelease[s]
    BY <1>8 DEF Release
  <2>4. \A s \in Requests : \A l \in Wants[s] : Holds(s, l)'
    <3> SUFFICES ASSUME NEW s \in Requests, NEW l \in Wants[s],
                        pc'[s] \in {"waiting", "inside"}, l \notin trying'[s], l \notin robbed'[s]
                 PROVE  stored'[l] = s
      BY DEF Holds
    <3>1. s # r /\ pc'[s] = pc[s] /\ trying' = trying
      BY <2>1, <2>3, <1>8 DEF Release
    <3>2. robbed'[s] = IF s = stored[k] /\ s # r THEN robbed[s] \union {k} ELSE robbed[s]
      BY <1>8 DEF Release, Rob
    <3>3. stored[l] = s
      BY <3>1, <3>2 DEF HoldsOrRobbed, Holds
    <3>4. l # k
      BY <3>1, <3>2, <3>3
    <3> QED BY <3>3, <3>4, <1>8, <1>k DEF Release, Vanish
  <2>5. trying' = trying
    BY <1>8 DEF Release
  <2> QED BY <2>1, <2>2, <2>3, <2>4, <2>5 DEF HoldsOrRobbed
<1>9. ASSUME NEW k \in Keys, Expire(k) PROVE HoldsOrRobbed'
  <2>1. \A s \in Requests : \A l \in Wants[s] : Holds(s, l)'
    <3> SUFFICES ASSUME NEW s \in Requests, NEW l \in Wants[s],
                        pc'[s] \in {"waiting", "inside"}, l \notin trying'[s], l \notin robbed'[s]
                 PROVE  stored'[l] = s
      BY DEF Holds
    <3>1. robbed'[s] = IF s = stored[k] THEN robbed[s] \union {k} ELSE robbed[s]
      BY <1>9 DEF Expire, Rob
    <3>2. stored[l] = s
      BY <3>1, <1>9 DEF HoldsOrRobbed, Holds, Expire
    <3>3. l # k
      BY <3>1, <3>2
    <3> QED BY <3>2, <3>3, <1>9, <1>k DEF Expire, Vanish
  <2> QED BY <2>1, <1>9 DEF HoldsOrRobbed, Expire
<1>10. CASE UNCHANGED vars
  BY <1>10 DEF vars, HoldsOrRobbed, Holds
<1> QED BY <1>1, <1>2, <1>3, <1>4, <1>5, <1>6, <1>7, <1>8, <1>9, <1>10 DEF Next

(* However many keys a request takes and in whatever order, two requests    *)
(* are at work under the same key only after the key vanished under one of  *)
(* them: the lock has no other hole.                                        *)
THEOREM OnlyHoleIsAVanishedKey == Spec => []ExclusiveUnlessRobbed
<1>1. Init => HoldsOrRobbed
  BY LockAssumption DEF Init, HoldsOrRobbed, Holds
<1>2. TypeOK /\ HoldsOrRobbed => ExclusiveUnlessRobbed
  BY LockAssumption DEF TypeOK, HoldsOrRobbed, Holds, ExclusiveUnlessRobbed, Inside
<1> QED BY <1>1, <1>2, HoldsStep, TypeCorrect, PTL DEF Spec

-----------------------------------------------------------------------------
OneKeyEach == \A r \in Requests : \E k \in Keys : Wants[r] = {k}

(* With one key, no key grows old, so none expires under a live request,    *)
(* and the finally block finds the key its own request has set.             *)
NothingVanishes ==
  /\ \A r \in Requests : trying[r] \subseteq Wants[r] /\ toRelease[r] \subseteq Wants[r]
  /\ \A r \in Requests : aged[r] = {}
  /\ \A r \in Requests : pc[r] \notin {"dead", "refused", "done"} => robbed[r] = {}
  /\ \A r \in Requests : \A k \in toRelease[r] : stored[k] = r

LEMMA NothingVanishesStep ==
  ASSUME OneKeyEach, InsideTry = {}, TypeOK, HoldsOrRobbed, NothingVanishes, [Next]_vars
  PROVE  NothingVanishes'
<1> USE LockAssumption DEF TypeOK, States
<1>k. \A r \in Requests : Wants[r] \subseteq Keys
  OBVIOUS
<1>1. ASSUME NEW r \in Requests, Begin(r) PROVE NothingVanishes'
  BY <1>1 DEF Begin, NothingVanishes
<1>2. ASSUME NEW r \in Requests, Enter(r) PROVE NothingVanishes'
  BY <1>2 DEF Enter, NothingVanishes
<1>3. ASSUME NEW r \in Requests, Leave(r) PROVE NothingVanishes'
  <2>1. \A k \in Wants[r] : stored[k] = r
    BY <1>3 DEF Leave, NothingVanishes, HoldsOrRobbed, Holds
  <2> QED BY <2>1, <1>3 DEF Leave, NothingVanishes
<1>4. ASSUME NEW r \in Requests, Die(r) PROVE NothingVanishes'
  BY <1>4 DEF Die, NothingVanishes
<1>5. ASSUME NEW r \in Requests, NEW k \in Keys, Acquire(r, k) PROVE NothingVanishes'
  BY <1>5, <1>k DEF Acquire, NothingVanishes
<1>6. ASSUME NEW r \in Requests, NEW k \in Keys, Retry(r, k) PROVE NothingVanishes'
  <2>1. Wants[r] \ trying[r] = {}
    BY <1>6 DEF Retry, NothingVanishes, OneKeyEach
  <2> QED BY <2>1, <1>6 DEF Retry, NothingVanishes
<1>7. ASSUME NEW r \in Requests, NEW k \in Keys, GiveUp(r, k) PROVE NothingVanishes'
  <2>1. toRelease' = toRelease /\ stored' = stored /\ aged' = aged /\ robbed' = robbed
    BY <1>7 DEF GiveUp
  <2>2. \A s \in Requests : trying'[s] \subseteq trying[s]
    BY <1>7 DEF GiveUp
  <2>3. \A s \in Requests : pc'[s] \notin {"dead", "refused", "done"} => pc[s] = pc'[s]
    BY <1>7 DEF GiveUp
  <2> QED BY <2>1, <2>2, <2>3 DEF NothingVanishes
<1>8. ASSUME NEW r \in Requests, NEW k \in Keys, Release(r, k) PROVE NothingVanishes'
  <2>1. stored[k] = r
    BY <1>8 DEF Release, NothingVanishes
  <2>2. robbed' = robbed
    BY <2>1, <1>8 DEF Release, Rob
  <2>3. \A s \in Requests : \A l \in toRelease'[s] : stored'[l] = s
    <3> SUFFICES ASSUME NEW s \in Requests, NEW l \in toRelease'[s] PROVE stored'[l] = s
      OBVIOUS
    <3>1. l \in toRelease[s] /\ l # k
      <4>1. l \in toRelease[s] /\ (s = r => l # k)
        BY <1>8 DEF Release
      <4> QED BY <4>1, <2>1 DEF NothingVanishes
    <3> QED BY <3>1, <1>8 DEF Release, Vanish, NothingVanishes
  <2>4. pc[r] = "releasing"
    BY <1>8 DEF Release, HoldsOrRobbed
  <2> QED BY <2>2, <2>3, <2>4, <1>8 DEF Release, NothingVanishes
<1>9. ASSUME NEW k \in Keys, Expire(k) PROVE NothingVanishes'
  <2>1. pc[stored[k]] \in {"dead", "refused", "done"}
    BY <1>9 DEF Expire, NothingVanishes
  <2>2. \A s \in Requests : pc'[s] \notin {"dead", "refused", "done"} => robbed'[s] = {}
    BY <2>1, <1>9 DEF Expire, Rob, NothingVanishes
  <2>3. \A s \in Requests : \A l \in toRelease'[s] : stored'[l] = s
    <3> SUFFICES ASSUME NEW s \in Requests, NEW l \in toRelease'[s] PROVE stored'[l] = s
      OBVIOUS
    <3>1. l \in toRelease[s] /\ stored[l] = s /\ pc[s] = "releasing"
      BY <1>9 DEF Expire, NothingVanishes, HoldsOrRobbed
    <3>2. l # k
      BY <3>1, <2>1
    <3> QED BY <3>1, <3>2, <1>9 DEF Expire, Vanish
  <2> QED BY <2>2, <2>3, <1>9 DEF Expire, NothingVanishes
<1>10. CASE UNCHANGED vars
  BY <1>10 DEF vars, NothingVanishes
<1> QED BY <1>1, <1>2, <1>3, <1>4, <1>5, <1>6, <1>7, <1>8, <1>9, <1>10 DEF Next

(* Where every request takes a single key, before its try block, the lock   *)
(* excludes: the game timer, movePawn, the matching loop and the scheduler  *)
(* are safe against each other for any number of requests, even when some   *)
(* of them die or give up.                                                  *)
THEOREM OneKeyExcludes ==
  ASSUME OneKeyEach, InsideTry = {}
  PROVE  Spec => []MutualExclusion
<1>1. Init => HoldsOrRobbed /\ NothingVanishes
  BY LockAssumption DEF Init, HoldsOrRobbed, Holds, NothingVanishes
<1>2. TypeOK /\ HoldsOrRobbed /\ NothingVanishes => MutualExclusion
  BY LockAssumption
  DEF TypeOK, HoldsOrRobbed, Holds, NothingVanishes, MutualExclusion, Conflict, Inside
<1>3. TypeOK /\ HoldsOrRobbed /\ NothingVanishes /\ [Next]_vars => (HoldsOrRobbed /\ NothingVanishes)'
  BY HoldsStep, NothingVanishesStep
<1> QED BY <1>1, <1>2, <1>3, TypeCorrect, PTL DEF Spec
-----------------------------------------------------------------------------
(* Aviator: any number of players, of bets under way and of rounds.         *)
CONSTANTS Users, MaxBets, MaxCashouts, MaxRounds, CallIds, FlightIds
VARIABLES info, lock, crash, bets, calls, cashing, flights, debits, credits, bound, slips

AV == INSTANCE Aviator

(* The instance counts as this module does.                                 *)
LEMMA SameCount == \A S : AV!Cardinality(S) = Cardinality(S)
BY DEF AV!Cardinality, Cardinality

Statuses == {"waiting", "started", "ended"}
Round == [no : Nat, status : Statuses]
SeenRound == [no : Nat \union {AV!None}, status : Statuses \union {"none"}]
Betting == {"read", "debited"}
Starting == {"starting", "locking", "initializing"}
Holding == {"initializing", "drawing", "unlocking"}
BetCall ==
  [at : {"none", "recording"} \union Betting \union Starting \union Holding, user : Users \union {"nobody"},
   no : Nat \union {AV!None}, seen : SeenRound]
Flight == [at : {"none", "timer", "flying", "landing"}, seen : SeenRound]


AviatorTyped ==
  /\ info \in Round /\ lock \in BOOLEAN /\ crash \in BOOLEAN
  /\ bets \in SUBSET (Nat \X Users)
  /\ calls \in [CallIds -> BetCall]
  /\ \A c \in CallIds : /\ calls[c].at \in Betting => calls[c].user \in Users /\ calls[c].no \in Nat
                        /\ calls[c].at \in {"locking", "initializing"} => calls[c].seen \in Round
  /\ cashing \in [Users -> Nat \union {AV!None}]
  /\ flights \in [FlightIds -> Flight]
  /\ \A f \in FlightIds : flights[f].at = "landing" => flights[f].seen \in Round
  /\ debits \in Seq(Users \X Nat) /\ credits \in Seq(Users \X Nat)

(* Whoever plays has paid, whatever slips.                                  *)
BetsArePaid ==
  /\ \A b \in bets : AV!Booked(debits, b[2], b[1])
  /\ \A c \in CallIds : calls[c].at = "debited" => AV!Booked(debits, calls[c].user, calls[c].no)

(* One call starts a round, with the lock, and the round it has seen is the *)
(* one that is over.                                                        *)
OneStarts ==
  /\ lock <=> \E c \in CallIds : calls[c].at \in Holding
  /\ \A c, d \in CallIds : calls[c].at \in Holding /\ calls[d].at \in Holding => c = d
  /\ \A c \in CallIds :
       /\ calls[c].at = "locking" => calls[c].seen.status = "ended"
       /\ calls[c].at = "initializing" => calls[c].seen = info /\ info.status = "ended"
       /\ calls[c].at \in {"drawing", "unlocking"} => info.status = "waiting"

(* The round has one timer or flight, as far as the round is.               *)
OneFlight ==
  /\ \A f \in FlightIds :
       /\ flights[f].at = "none" => flights[f] = AV!NoFlight
       /\ flights[f].at = "timer" => info.status = "waiting"
       /\ flights[f].at \in {"flying", "landing"} => info.status = "started"
       /\ flights[f].at = "landing" => flights[f].seen = info
  /\ \A f, g \in FlightIds : flights[f].at # "none" /\ flights[g].at # "none" => f = g
  /\ info.status # "ended" => \E f \in FlightIds : flights[f].at # "none"
  /\ info.status = "started" => crash

(* A bet on its way is on this round or on the next, the only one of its    *)
(* player, and not paid for before; ...                                     *)
CallsInRound ==
  \A c \in CallIds : calls[c].at \in Betting =>
    /\ calls[c].no <= AV!BetRound(info)
    /\ calls[c].seen.status # "ended" => calls[c].no <= info.no
OneBet ==
  /\ \A c, d \in CallIds :
       calls[c].at \in Betting /\ calls[d].at \in Betting /\ calls[c].user = calls[d].user => c = d
  /\ \A c \in CallIds : calls[c].at = "read" => ~AV!Booked(debits, calls[c].user, calls[c].no)

(* ... a bet that is placed starts the round it is on.                      *)
BetsInRound ==
  /\ \A b \in bets : b[1] <= AV!BetRound(info)
  /\ info.status = "ended" /\ (\E b \in bets : b[1] = info.no + 1) =>
       \E c \in CallIds : AV!WillStart(calls[c])

DebitsArePlayed ==
  \A i \in DOMAIN debits :
    /\ AV!Times(debits, debits[i][1], debits[i][2]) = 1
    /\ debits[i][2] <= AV!BetRound(info)
    /\ debits[i][2] = AV!BetRound(info) =>
         \/ <<debits[i][2], debits[i][1]>> \in bets
         \/ \E c \in CallIds : /\ calls[c].at = "debited"
                               /\ calls[c].user = debits[i][1] /\ calls[c].no = debits[i][2]

CreditsArePlayed ==
  /\ \A u \in Users : cashing[u] # AV!None => cashing[u] = info.no /\ AV!Booked(debits, u, cashing[u])
  /\ \A i \in DOMAIN credits : AV!Booked(debits, credits[i][1], credits[i][2])

AviatorOrder ==
  /\ AviatorTyped /\ BetsArePaid /\ OneStarts /\ OneFlight
  /\ CallsInRound /\ OneBet /\ BetsInRound /\ DebitsArePlayed /\ CreditsArePlayed

AviatorInv == AviatorTyped /\ BetsArePaid /\ (slips = {} => AviatorOrder)
-----------------------------------------------------------------------------
(* Whoever is not booked yet is booked once, and all others as before.      *)
IsBookedNow(s, t, u, n) ==
  /\ t \in Seq(Users \X Nat) /\ AV!Times(t, u, n) = 1 /\ ~AV!Booked(s, u, n)
  /\ \A v, m : <<v, m>> # <<u, n>> => AV!Times(t, v, m) = AV!Times(s, v, m)
  /\ \A v, m : AV!Booked(t, v, m) <=> AV!Booked(s, v, m) \/ <<v, m>> = <<u, n>>
  /\ \A i \in DOMAIN t : t[i] = <<u, n>> \/ \E j \in DOMAIN s : t[i] = s[j]

LEMMA BookedOnce ==
  ASSUME NEW s \in Seq(Users \X Nat), NEW u \in Users, NEW n \in Nat, ~AV!Booked(s, u, n),
         NEW t, t = Append(s, <<u, n>>)
  PROVE  IsBookedNow(s, t, u, n)
<1> DEFINE last == Len(s) + 1
           At(r, v, m) == {i \in DOMAIN r : r[i] = <<v, m>>}
<1>1. /\ t \in Seq(Users \X Nat) /\ DOMAIN t = (DOMAIN s) \union {last} /\ last \notin DOMAIN s
      /\ t[last] = <<u, n>> /\ \A i \in DOMAIN s : t[i] = s[i]
  OBVIOUS
<1> HIDE DEF last
<1>2. At(s, u, n) = {}
  BY DEF AV!Booked
<1>3. At(t, u, n) = {last}
  BY <1>1, <1>2
<1>4. AV!Times(t, u, n) = 1
  BY <1>3, SameCount, FS_Singleton DEF AV!Times
<1>5. ASSUME NEW v, NEW m, <<v, m>> # <<u, n>> PROVE AV!Times(t, v, m) = AV!Times(s, v, m)
  <2>1. At(t, v, m) = At(s, v, m)
    BY <1>1, <1>5
  <2> QED BY <2>1 DEF AV!Times
<1>6. ASSUME NEW v, NEW m PROVE AV!Booked(t, v, m) <=> AV!Booked(s, v, m) \/ <<v, m>> = <<u, n>>
  BY <1>1 DEF AV!Booked
<1>7. \A i \in DOMAIN t : t[i] = <<u, n>> \/ \E j \in DOMAIN s : t[i] = s[j]
  BY <1>1
<1> QED BY <1>1, <1>2, <1>4, <1>5, <1>6, <1>7 DEF AV!Booked, IsBookedNow

(* One call goes on, and the others stay where they are.                    *)
LEMMA CallMoves ==
  ASSUME AviatorTyped, NEW c \in CallIds, NEW r \in BetCall, calls' = [calls EXCEPT ![c] = r]
  PROVE  /\ calls' \in [CallIds -> BetCall] /\ calls'[c] = r
         /\ \A d \in CallIds \ {c} : calls'[d] = calls[d]
BY DEF AviatorTyped

LEMMA FlightMoves ==
  ASSUME AviatorTyped, NEW f \in FlightIds, NEW r \in Flight, flights' = [flights EXCEPT ![f] = r]
  PROVE  /\ flights' \in [FlightIds -> Flight] /\ flights'[f] = r
         /\ \A g \in FlightIds \ {f} : flights'[g] = flights[g]
BY DEF AviatorTyped

LEMMA NothingMoves ==
  AV!NoCall \in BetCall /\ AV!NoCall.at = "none" /\ AV!NoFlight \in Flight /\ AV!NoFlight.at = "none"
BY DEF AV!NoCall, AV!NoFlight, BetCall, Flight, SeenRound

(* Every step keeps the types, whatever slips.                              *)
LEMMA AviatorTypedKeeps ==
  ASSUME AviatorTyped, AV!Next
  PROVE  AviatorTyped'
<1>0. /\ info \in Round /\ lock \in BOOLEAN /\ crash \in BOOLEAN /\ info.no \in Nat
      /\ AV!BetRound(info) \in Nat
  BY DEF AviatorTyped, Round, AV!BetRound
<1>1. ASSUME NEW c \in CallIds, NEW u \in Users, AV!Bet(c, u) PROVE AviatorTyped'
  <2> DEFINE new == [at |-> "read", user |-> u, no |-> AV!BetRound(info), seen |-> info]
  <2>1. /\ new \in BetCall /\ calls' = [calls EXCEPT ![c] = new]
        /\ new.at = "read" /\ new.user = u /\ new.no = AV!BetRound(info)
    BY <1>0, <1>1 DEF AV!Bet, BetCall, Betting, Round, SeenRound, Statuses
  <2> HIDE DEF new
  <2> QED BY <1>0, <1>1, <2>1, CallMoves DEF AV!Bet, AviatorTyped, Betting
<1>2. ASSUME NEW c \in CallIds, AV!DebitBetAmount(c) PROVE AviatorTyped'
  <2>1. CASE AV!End(c) /\ UNCHANGED debits
    BY <1>2, <2>1, NothingMoves, CallMoves DEF AV!End, AV!DebitBetAmount, AviatorTyped, Betting
  <2>2. CASE /\ debits' = Append(debits, <<calls[c].user, calls[c].no>>)
             /\ calls' = [calls EXCEPT ![c].at = "debited"]
    <3> DEFINE new == [calls[c] EXCEPT !.at = "debited"]
    <3>1. /\ new \in BetCall /\ calls' = [calls EXCEPT ![c] = new] /\ new.at = "debited"
          /\ new.user = calls[c].user /\ new.no = calls[c].no
          /\ calls[c].user \in Users /\ calls[c].no \in Nat
      BY <1>2, <2>2 DEF AV!DebitBetAmount, AviatorTyped, BetCall, Betting
    <3> HIDE DEF new
    <3>2. debits' \in Seq(Users \X Nat)
      BY <2>2, <3>1 DEF AviatorTyped
    <3> QED BY <1>2, <3>1, <3>2, CallMoves DEF AV!DebitBetAmount, AviatorTyped, Betting
  <2> QED BY <1>2, <2>1, <2>2 DEF AV!DebitBetAmount
<1>3. ASSUME NEW c \in CallIds, NEW r \in BetCall, calls' = [calls EXCEPT ![c] = r],
             r.at \notin Betting, r.at \in {"locking", "initializing"} => r.seen \in Round,
             UNCHANGED <<info, cashing, flights, debits, credits>>,
             bets' \in SUBSET (Nat \X Users), lock' \in BOOLEAN, crash' \in BOOLEAN
      PROVE  AviatorTyped'
  BY <1>3, CallMoves DEF AviatorTyped
<1>4. ASSUME NEW c \in CallIds, AV!End(c), UNCHANGED <<info, bets, cashing, flights, debits, credits, crash>>,
             lock' \in BOOLEAN
      PROVE  AviatorTyped'
  BY <1>0, <1>3, <1>4, NothingMoves DEF AV!End, AviatorTyped, Betting
<1>5. ASSUME NEW c \in CallIds, AV!PlayerBet(c) PROVE AviatorTyped'
  <2> DEFINE new == [calls[c] EXCEPT !.at = "recording"]
  <2>1. /\ new \in BetCall /\ calls' = [calls EXCEPT ![c] = new] /\ new.at = "recording"
        /\ calls[c].user \in Users /\ calls[c].no \in Nat
    BY <1>5 DEF AV!PlayerBet, AviatorTyped, BetCall, Betting
  <2> HIDE DEF new
  <2>2. bets' \in SUBSET (Nat \X Users)
    <3>1. bets' = bets \union {<<calls[c].no, calls[c].user>>} /\ bets \in SUBSET (Nat \X Users)
      BY <1>5 DEF AV!PlayerBet, AviatorTyped
    <3> QED BY <2>1, <3>1
  <2> QED BY <1>0, <1>3, <1>5, <2>1, <2>2 DEF AV!PlayerBet, Betting
<1>6. ASSUME NEW c \in CallIds, AV!CreateUserHistory(c) PROVE AviatorTyped'
  <2>1. CASE AV!End(c)
    BY <1>0, <1>4, <1>6, <2>1 DEF AV!CreateUserHistory
  <2>2. CASE calls' = [calls EXCEPT ![c].at = "starting"]
    <3> DEFINE new == [calls[c] EXCEPT !.at = "starting"]
    <3>1. new \in BetCall /\ calls' = [calls EXCEPT ![c] = new] /\ new.at = "starting"
      BY <2>2 DEF AviatorTyped, BetCall, Starting
    <3> HIDE DEF new
    <3> QED BY <1>0, <1>3, <1>6, <3>1 DEF AV!CreateUserHistory, AviatorTyped, Betting
  <2> QED BY <1>6, <2>1, <2>2 DEF AV!CreateUserHistory
<1>7. ASSUME NEW c \in CallIds, AV!StartRound(c) PROVE AviatorTyped'
  <2>1. CASE AV!End(c)
    BY <1>0, <1>4, <1>7, <2>1 DEF AV!StartRound
  <2>2. CASE calls' = [calls EXCEPT ![c].at = "locking", ![c].seen = info]
    <3> DEFINE new == [calls[c] EXCEPT !.at = "locking", !.seen = info]
    <3>1. calls[c] \in BetCall /\ calls \in [CallIds -> BetCall]
      BY DEF AviatorTyped
    <3>2. new \in BetCall /\ calls' = [calls EXCEPT ![c] = new] /\ new.at = "locking" /\ new.seen = info
      BY <1>0, <2>2, <3>1 DEF BetCall, Starting, Round, SeenRound
    <3> HIDE DEF new
    <3> QED BY <1>0, <1>3, <1>7, <3>2 DEF AV!StartRound, AviatorTyped, Betting
  <2> QED BY <1>7, <2>1, <2>2 DEF AV!StartRound
<1>8. ASSUME NEW c \in CallIds, AV!SetRoundLock(c) PROVE AviatorTyped'
  <2> DEFINE new == [calls[c] EXCEPT !.at = "initializing"]
  <2>1. /\ new \in BetCall /\ calls' = [calls EXCEPT ![c] = new] /\ new.at = "initializing"
        /\ new.seen = calls[c].seen /\ calls[c].seen \in Round
    BY <1>8 DEF AV!SetRoundLock, AviatorTyped, BetCall, Starting
  <2> HIDE DEF new
  <2> QED BY <1>0, <1>3, <1>8, <2>1 DEF AV!SetRoundLock, AviatorTyped, Betting
<1>9. ASSUME NEW c \in CallIds, AV!InitializeRound(c) PROVE AviatorTyped'
  <2> DEFINE new == [calls[c] EXCEPT !.at = "drawing"]
  <2>1. /\ new \in BetCall /\ calls' = [calls EXCEPT ![c] = new] /\ new.at = "drawing"
        /\ calls[c].seen \in Round
    BY <1>9 DEF AV!InitializeRound, AviatorTyped, BetCall, Holding
  <2> HIDE DEF new
  <2>2. PICK f \in FlightIds : flights' = [flights EXCEPT ![f].at = "timer"]
    BY <1>9 DEF AV!InitializeRound
  <2> DEFINE timer == [flights[f] EXCEPT !.at = "timer"]
  <2>3. timer \in Flight /\ timer.at = "timer" /\ flights' = [flights EXCEPT ![f] = timer]
    BY <2>2 DEF AviatorTyped, Flight
  <2> HIDE DEF timer
  <2>4. info' \in Round
    <3>1. info' = [no |-> calls[c].seen.no + 1, status |-> "waiting"]
      BY <1>9 DEF AV!InitializeRound
    <3> QED BY <2>1, <3>1 DEF Round, Statuses
  <2>5. /\ flights' \in [FlightIds -> Flight]
        /\ \A g \in FlightIds : flights'[g].at = "landing" => flights'[g].seen \in Round
    BY <2>3, FlightMoves DEF AviatorTyped
  <2>6. /\ calls' \in [CallIds -> BetCall] /\ calls'[c] = new
        /\ \A d \in CallIds \ {c} : calls'[d] = calls[d]
    BY <2>1, CallMoves
  <2> QED BY <1>0, <1>9, <2>1, <2>4, <2>5, <2>6 DEF AV!InitializeRound, AviatorTyped, Betting
<1>10. ASSUME NEW c \in CallIds, AV!GenerateGameResult(c) PROVE AviatorTyped'
  <2> DEFINE new == [calls[c] EXCEPT !.at = "unlocking"]
  <2>1. new \in BetCall /\ calls' = [calls EXCEPT ![c] = new] /\ new.at = "unlocking"
    BY <1>10 DEF AV!GenerateGameResult, AviatorTyped, BetCall, Holding
  <2> HIDE DEF new
  <2> QED BY <1>0, <1>3, <1>10, <2>1 DEF AV!GenerateGameResult, AviatorTyped, Betting
<1>11. ASSUME NEW c \in CallIds, AV!ReleaseRoundLock(c) PROVE AviatorTyped'
  BY <1>0, <1>4, <1>11 DEF AV!ReleaseRoundLock
<1>12. ASSUME NEW f \in FlightIds, NEW r \in Flight, flights' = [flights EXCEPT ![f] = r],
              r.at = "landing" => r.seen \in Round, info' \in Round,
              UNCHANGED <<lock, crash, bets, calls, cashing, debits, credits>>
       PROVE  AviatorTyped'
  BY <1>12, FlightMoves DEF AviatorTyped
<1>13. ASSUME NEW f \in FlightIds, AV!OnRoundStarted(f) PROVE AviatorTyped'
  <2> DEFINE new == IF crash THEN [flights[f] EXCEPT !.at = "flying"] ELSE AV!NoFlight
  <2>1. new \in Flight /\ new.at # "landing" /\ flights' = [flights EXCEPT ![f] = new]
    BY <1>13, NothingMoves DEF AV!OnRoundStarted, AviatorTyped, Flight
  <2>2. info' \in Round
    BY <1>0, <1>13 DEF AV!OnRoundStarted, Round, Statuses
  <2> HIDE DEF new
  <2> QED BY <1>12, <1>13, <2>1, <2>2 DEF AV!OnRoundStarted
<1>14. ASSUME NEW f \in FlightIds, AV!OnCrash(f) PROVE AviatorTyped'
  <2> DEFINE landing == [at |-> "landing", seen |-> info]
  <2>1. landing \in Flight /\ landing.seen \in Round
    BY <1>0 DEF Flight, Round, SeenRound
  <2>2. CASE flights' = [flights EXCEPT ![f] = landing]
    <3> HIDE DEF landing
    <3> QED BY <1>0, <1>12, <1>14, <2>1, <2>2 DEF AV!OnCrash
  <2>3. CASE flights' = [flights EXCEPT ![f] = AV!NoFlight]
    BY <1>0, <1>12, <1>14, <2>3, NothingMoves DEF AV!OnCrash
  <2> QED BY <1>14, <2>2, <2>3 DEF AV!OnCrash
<1>15. ASSUME NEW f \in FlightIds, AV!EndRound(f) PROVE AviatorTyped'
  <2>1. info' \in Round
    BY <1>15 DEF AV!EndRound, AviatorTyped, Round, Statuses
  <2> QED BY <1>12, <1>15, <2>1, NothingMoves DEF AV!EndRound
<1>16. ASSUME NEW u \in Users, AV!OnCashout(u) PROVE AviatorTyped'
  BY <1>0, <1>16 DEF AV!OnCashout, AviatorTyped
<1>17. ASSUME NEW u \in Users, AV!AddWinningAmount(u) PROVE AviatorTyped'
  <2>1. credits' \in Seq(Users \X Nat)
    BY <1>0, <1>17 DEF AV!AddWinningAmount, AviatorTyped
  <2> QED BY <1>17, <2>1 DEF AV!AddWinningAmount, AviatorTyped
<1>18. CASE AV!Restart
  BY <1>18, NothingMoves DEF AV!Restart, AviatorTyped, Betting
<1> QED BY <1>1, <1>2, <1>5, <1>6, <1>7, <1>8, <1>9, <1>10, <1>11, <1>13, <1>14, <1>15, <1>16, <1>17, <1>18
        DEF AV!Next

(* Nothing takes a debit back, and a bet is placed after its debit.         *)
LEMMA BetsArePaidKeeps ==
  ASSUME AviatorTyped, BetsArePaid, AV!Next
  PROVE  BetsArePaid'
<1>0. calls \in [CallIds -> BetCall] /\ debits \in Seq(Users \X Nat)
  BY DEF AviatorTyped
<1>1. ASSUME NEW c \in CallIds, AV!DebitBetAmount(c) PROVE BetsArePaid'
  <2>1. CASE AV!End(c) /\ UNCHANGED debits
    BY <1>0, <1>1, <2>1, NothingMoves, CallMoves DEF AV!End, AV!DebitBetAmount, BetsArePaid
  <2>2. CASE /\ debits' = Append(debits, <<calls[c].user, calls[c].no>>)
             /\ calls' = [calls EXCEPT ![c].at = "debited"]
    <3>1. /\ calls'[c].user = calls[c].user /\ calls'[c].no = calls[c].no
          /\ \A d \in CallIds \ {c} : calls'[d] = calls[d]
      BY <1>0, <2>2 DEF BetCall
    <3>2. \A v, m : AV!Booked(debits, v, m) \/ <<v, m>> = <<calls[c].user, calls[c].no>> => AV!Booked(debits', v, m)
      <4> DEFINE bet == <<calls[c].user, calls[c].no>>
      <4>1. bet \in Users \X Nat
        BY <1>1 DEF AV!DebitBetAmount, AviatorTyped, Betting
      <4>2. debits' = Append(debits, bet)
        BY <2>2
      <4> HIDE DEF bet
      <4>3. /\ \A i \in DOMAIN debits : i \in DOMAIN debits' /\ debits'[i] = debits[i]
            /\ Len(debits) + 1 \in DOMAIN debits' /\ debits'[Len(debits) + 1] = bet
        BY <1>0, <4>1, <4>2
      <4> QED BY <4>3 DEF AV!Booked, bet
    <3> QED BY <1>1, <3>1, <3>2 DEF AV!DebitBetAmount, BetsArePaid
  <2> QED BY <1>1, <2>1, <2>2 DEF AV!DebitBetAmount
<1>2. ASSUME NEW c \in CallIds, AV!PlayerBet(c) PROVE BetsArePaid'
  <2>1. calls'[c].at = "recording" /\ \A d \in CallIds \ {c} : calls'[d] = calls[d]
    BY <1>0, <1>2 DEF AV!PlayerBet, BetCall
  <2>2. /\ bets' = bets \union {<<calls[c].no, calls[c].user>>} /\ debits' = debits
        /\ AV!Booked(debits, calls[c].user, calls[c].no)
    BY <1>2 DEF AV!PlayerBet, BetsArePaid
  <2>3. \A b \in bets' : AV!Booked(debits, b[2], b[1])
    BY <2>2 DEF BetsArePaid
  <2> QED BY <2>1, <2>2, <2>3 DEF BetsArePaid
<1>3. ASSUME NEW c \in CallIds, calls'[c].at # "debited", \A d \in CallIds \ {c} : calls'[d] = calls[d],
             bets' \subseteq bets, UNCHANGED debits
      PROVE  BetsArePaid'
  BY <1>3 DEF BetsArePaid
<1>4. ASSUME NEW c \in CallIds, NEW u \in Users, AV!Bet(c, u) PROVE BetsArePaid'
  BY <1>0, <1>3, <1>4 DEF AV!Bet
<1>5. ASSUME NEW c \in CallIds, AV!End(c), UNCHANGED <<bets, debits>> PROVE BetsArePaid'
  BY <1>0, <1>3, <1>5, NothingMoves DEF AV!End
<1>6. ASSUME NEW c \in CallIds, AV!CreateUserHistory(c) PROVE BetsArePaid'
  <2>1. CASE calls' = [calls EXCEPT ![c].at = "starting"]
    <3>1. calls'[c].at = "starting" /\ \A d \in CallIds \ {c} : calls'[d] = calls[d]
      BY <1>0, <2>1 DEF BetCall
    <3> QED BY <1>3, <1>6, <3>1 DEF AV!CreateUserHistory
  <2> QED BY <1>5, <1>6, <2>1 DEF AV!CreateUserHistory
<1>7. ASSUME NEW c \in CallIds, AV!StartRound(c) PROVE BetsArePaid'
  <2>1. CASE calls' = [calls EXCEPT ![c].at = "locking", ![c].seen = info]
    BY <1>0, <1>3, <1>7, <2>1 DEF AV!StartRound, BetCall
  <2> QED BY <1>5, <1>7, <2>1 DEF AV!StartRound
<1>8. ASSUME NEW c \in CallIds, AV!SetRoundLock(c) PROVE BetsArePaid'
  BY <1>0, <1>3, <1>8 DEF AV!SetRoundLock, BetCall
<1>9. ASSUME NEW c \in CallIds, AV!InitializeRound(c) PROVE BetsArePaid'
  <2>1. calls'[c].at = "drawing" /\ \A d \in CallIds \ {c} : calls'[d] = calls[d]
    BY <1>0, <1>9 DEF AV!InitializeRound, BetCall
  <2> QED BY <1>3, <1>9, <2>1 DEF AV!InitializeRound
<1>10. ASSUME NEW c \in CallIds, AV!GenerateGameResult(c) PROVE BetsArePaid'
  BY <1>0, <1>3, <1>10 DEF AV!GenerateGameResult, BetCall
<1>11. ASSUME NEW c \in CallIds, AV!ReleaseRoundLock(c) PROVE BetsArePaid'
  BY <1>5, <1>11 DEF AV!ReleaseRoundLock
<1>12. ASSUME UNCHANGED <<bets, calls, debits>> PROVE BetsArePaid'
  BY <1>12 DEF BetsArePaid
<1>13. CASE AV!Restart
  BY <1>13, NothingMoves DEF AV!Restart, BetsArePaid
<1> QED BY <1>1, <1>2, <1>4, <1>6, <1>7, <1>8, <1>9, <1>10, <1>11, <1>12, <1>13
        DEF AV!Next, AV!OnRoundStarted, AV!OnCrash, AV!EndRound, AV!OnCashout, AV!AddWinningAmount

LEMMA BetKeeps ==
  ASSUME AviatorOrder, slips = {}, slips' = {}, NEW c \in CallIds, NEW u \in Users, AV!Bet(c, u)
  PROVE  AviatorOrder'
<1> DEFINE new == [at |-> "read", user |-> u, no |-> AV!BetRound(info), seen |-> info]
<1>0. AviatorTyped /\ info \in Round /\ AV!BetRound(info) \in Nat
  BY DEF AviatorOrder, AviatorTyped, Round, AV!BetRound
<1>1. new \in BetCall
  BY <1>0 DEF BetCall, Betting, Round, SeenRound, Statuses
<1>2. /\ calls[c].at = "none" /\ calls' = [calls EXCEPT ![c] = new]
      /\ UNCHANGED <<info, lock, crash, bets, cashing, flights, debits, credits>>
  BY NothingMoves DEF AV!Bet
<1>3. /\ new.at = "read" /\ new.user = u /\ new.no = AV!BetRound(info) /\ new.seen = info
  OBVIOUS
<1> HIDE DEF new
<1>4. /\ calls' \in [CallIds -> BetCall] /\ calls'[c] = new
      /\ \A d \in CallIds \ {c} : calls'[d] = calls[d]
  BY <1>0, <1>1, <1>2, CallMoves
<1>5. AviatorTyped' /\ BetsArePaid'
  BY AviatorTypedKeeps, BetsArePaidKeeps DEF AviatorOrder, AV!Next
<1>6. OneStarts'
  BY <1>2, <1>3, <1>4 DEF AviatorOrder, OneStarts, Holding
<1>7. OneFlight'
  BY <1>2 DEF AviatorOrder, OneFlight
<1>8. CallsInRound'
  <2>1. AV!BetRound(info) <= AV!BetRound(info) /\ (info.status # "ended" => AV!BetRound(info) <= info.no)
    BY <1>0 DEF AV!BetRound, Round
  <2> QED BY <1>2, <1>3, <1>4, <2>1 DEF AviatorOrder, CallsInRound
<1>13. OneBet'
  <2>1. \A d \in CallIds : calls[d].at \in Betting => calls[d].user # u
    <3>1. AV!Betting(u) = {}
      BY DEF AV!Bet, AV!Slip
    <3> QED BY <3>1 DEF AV!Betting, Betting
  <2>2. ~AV!Booked(debits, u, AV!BetRound(info))
    <3> SUFFICES ASSUME NEW i \in DOMAIN debits, debits[i] = <<u, AV!BetRound(info)>>
                 PROVE  FALSE
      BY DEF AV!Booked
    <3>1. debits[i][1] = u /\ debits[i][2] = AV!BetRound(info)
      OBVIOUS
    <3>2. <<AV!BetRound(info), u>> \notin bets
      BY DEF AV!Bet
    <3> QED BY <2>1, <3>1, <3>2 DEF AviatorOrder, DebitsArePlayed, Betting
  <2> QED BY <1>2, <1>3, <1>4, <2>1, <2>2 DEF AviatorOrder, OneBet
<1>9. BetsInRound'
  BY <1>2, <1>4 DEF AviatorOrder, BetsInRound, AV!WillStart
<1>10. \A d \in CallIds : calls[d].at = "debited" => calls'[d] = calls[d]
  BY <1>2, <1>4
<1>11. DebitsArePlayed'
  BY <1>2, <1>10 DEF AviatorOrder, DebitsArePlayed
<1>12. CreditsArePlayed'
  BY <1>2 DEF AviatorOrder, CreditsArePlayed
<1> QED BY <1>5, <1>6, <1>7, <1>8, <1>9, <1>11, <1>12, <1>13 DEF AviatorOrder

(* A call that starts nothing, and has no bet on its way, may end.          *)
LEMMA EndKeeps ==
  ASSUME AviatorOrder, NEW c \in CallIds, calls[c].at # "debited", calls[c].at \notin Holding,
         AV!WillStart(calls[c]) => lock \/ info.status # "ended", calls[c].at # "locking",
         AV!End(c), UNCHANGED <<info, lock, crash, bets, cashing, flights, debits, credits>>
  PROVE  AviatorOrder'
<1>0. AviatorTyped
  BY DEF AviatorOrder
<1>1. /\ calls' \in [CallIds -> BetCall] /\ calls'[c].at = "none"
      /\ \A d \in CallIds \ {c} : calls'[d] = calls[d]
  BY <1>0, CallMoves, NothingMoves DEF AV!End
<1>2. AviatorTyped'
  BY <1>0, <1>1 DEF AviatorTyped, Betting
<1>10. BetsArePaid'
  BY <1>1 DEF AviatorOrder, BetsArePaid
<1>11. OneBet'
  BY <1>1 DEF AviatorOrder, OneBet, Betting
<1>3. OneStarts'
  BY <1>1 DEF AviatorOrder, OneStarts, Holding
<1>4. OneFlight'
  BY DEF AviatorOrder, OneFlight
<1>5. CallsInRound'
  BY <1>1 DEF AviatorOrder, CallsInRound, Betting
<1>6. BetsInRound'
  <2>1. ASSUME info.status = "ended", NEW d \in CallIds, AV!WillStart(calls[d])
        PROVE  \E e \in CallIds : AV!WillStart(calls'[e])
    <3>1. CASE d # c
      BY <1>1, <2>1, <3>1
    <3>2. CASE d = c
      <4>1. PICK e \in CallIds : calls[e].at \in Holding
        BY <2>1, <3>2 DEF AviatorOrder, OneStarts
      <4>2. calls[e].at = "initializing" /\ e # c
        BY <2>1, <4>1 DEF AviatorOrder, OneStarts, Holding
      <4> QED BY <1>1, <4>2 DEF AV!WillStart
    <3> QED BY <3>1, <3>2
  <2> QED BY <2>1 DEF AviatorOrder, BetsInRound
<1>7. \A d \in CallIds : calls[d].at = "debited" => calls'[d] = calls[d]
  BY <1>1
<1>8. DebitsArePlayed'
  BY <1>7 DEF AviatorOrder, DebitsArePlayed
<1>9. CreditsArePlayed'
  BY DEF AviatorOrder, CreditsArePlayed
<1> QED BY <1>2, <1>3, <1>4, <1>5, <1>6, <1>8, <1>9, <1>10, <1>11 DEF AviatorOrder

LEMMA DebitKeeps ==
  ASSUME AviatorOrder, NEW c \in CallIds, AV!DebitBetAmount(c)
  PROVE  AviatorOrder'
<1> DEFINE u == calls[c].user
           n == calls[c].no
           new == [calls[c] EXCEPT !.at = "debited"]
<1>0. /\ AviatorTyped /\ calls[c] \in BetCall /\ calls[c].at = "read" /\ u \in Users /\ n \in Nat
      /\ debits \in Seq(Users \X Nat)
      /\ UNCHANGED <<info, lock, crash, bets, cashing, flights, credits>>
  BY DEF AviatorOrder, AviatorTyped, AV!DebitBetAmount, Betting
<1>1. CASE AV!End(c) /\ UNCHANGED debits
  BY <1>0, <1>1, EndKeeps DEF Holding, AV!WillStart
<1>2. CASE /\ debits' = Append(debits, <<u, n>>) /\ calls' = [calls EXCEPT ![c].at = "debited"]
  <2>1. /\ new \in BetCall /\ new.at = "debited" /\ new.user = u /\ new.no = n /\ new.seen = calls[c].seen
        /\ calls' = [calls EXCEPT ![c] = new]
    BY <1>0, <1>2 DEF BetCall, Betting, AviatorTyped
  <2> HIDE DEF new, u, n
  <2>2. /\ calls' \in [CallIds -> BetCall] /\ calls'[c] = new
        /\ \A d \in CallIds \ {c} : calls'[d] = calls[d]
    BY <1>0, <2>1, CallMoves
  <2>3. n <= AV!BetRound(info) /\ (calls[c].seen.status # "ended" => n <= info.no)
    BY <1>0 DEF AviatorOrder, CallsInRound, Betting, n
  <2>4. /\ debits' \in Seq(Users \X Nat) /\ AV!Times(debits', u, n) = 1 /\ ~AV!Booked(debits, u, n)
        /\ \A v, m : <<v, m>> # <<u, n>> => AV!Times(debits', v, m) = AV!Times(debits, v, m)
        /\ \A v, m : AV!Booked(debits', v, m) <=> AV!Booked(debits, v, m) \/ <<v, m>> = <<u, n>>
        /\ \A i \in DOMAIN debits' : debits'[i] = <<u, n>> \/ \E j \in DOMAIN debits : debits'[i] = debits[j]
    <3>1. IsBookedNow(debits, debits', u, n)
      <4>1. ~AV!Booked(debits, u, n)
        BY <1>0 DEF AviatorOrder, OneBet, u, n
      <4> QED BY <1>0, <1>2, <4>1, BookedOnce
    <3> QED BY <3>1 DEF IsBookedNow
  <2>5. AviatorTyped' /\ BetsArePaid'
    BY AviatorTypedKeeps, BetsArePaidKeeps DEF AviatorOrder, AV!Next
  <2>6. OneStarts'
    BY <1>0, <2>1, <2>2 DEF AviatorOrder, OneStarts, Holding
  <2>7. OneFlight'
    BY <1>0 DEF AviatorOrder, OneFlight
  <2>8. CallsInRound'
    BY <1>0, <2>1, <2>2, <2>3 DEF AviatorOrder, CallsInRound, Betting
  <2>12. OneBet'
    <3>1. \A d \in CallIds : calls'[d].at \in Betting =>
            calls[d].at \in Betting /\ calls'[d].user = calls[d].user /\ calls'[d].no = calls[d].no
      BY <1>0, <2>1, <2>2 DEF Betting, u, n
    <3>2. ASSUME NEW d \in CallIds, calls'[d].at = "read"
          PROVE  ~AV!Booked(debits', calls'[d].user, calls'[d].no)
      <4>1. d # c /\ calls'[d] = calls[d]
        BY <2>1, <2>2, <3>2
      <4>2. calls[d].user # u
        BY <1>0, <3>2, <4>1 DEF AviatorOrder, OneBet, Betting, u
      <4>3. ~AV!Booked(debits, calls[d].user, calls[d].no)
        BY <3>2, <4>1 DEF AviatorOrder, OneBet
      <4> QED BY <2>4, <4>1, <4>2, <4>3
    <3> QED BY <3>1, <3>2 DEF AviatorOrder, OneBet
  <2>9. BetsInRound'
    BY <1>0, <2>1, <2>2 DEF AviatorOrder, BetsInRound, AV!WillStart
  <2>10. DebitsArePlayed'
    <3> SUFFICES ASSUME NEW i \in DOMAIN debits'
                 PROVE  /\ AV!Times(debits', debits'[i][1], debits'[i][2]) = 1
                        /\ debits'[i][2] <= AV!BetRound(info)
                        /\ debits'[i][2] = AV!BetRound(info) =>
                             \/ <<debits'[i][2], debits'[i][1]>> \in bets
                             \/ \E d \in CallIds : /\ calls'[d].at = "debited"
                                                   /\ calls'[d].user = debits'[i][1]
                                                   /\ calls'[d].no = debits'[i][2]
      BY <1>0 DEF DebitsArePlayed
    <3>1. CASE debits'[i] = <<u, n>>
      BY <2>1, <2>2, <2>3, <2>4, <3>1
    <3>2. ASSUME NEW j \in DOMAIN debits, debits'[i] = debits[j]
          PROVE  /\ AV!Times(debits', debits'[i][1], debits'[i][2]) = 1
                 /\ debits'[i][2] <= AV!BetRound(info)
                 /\ debits'[i][2] = AV!BetRound(info) =>
                      \/ <<debits'[i][2], debits'[i][1]>> \in bets
                      \/ \E d \in CallIds : /\ calls'[d].at = "debited"
                                            /\ calls'[d].user = debits'[i][1]
                                            /\ calls'[d].no = debits'[i][2]
      <4>1. debits[j] \in Users \X Nat /\ debits[j] = <<debits[j][1], debits[j][2]>>
        BY <1>0
      <4>2. <<debits[j][1], debits[j][2]>> # <<u, n>>
        BY <2>4, <4>1 DEF AV!Booked
      <4>3. AV!Times(debits', debits[j][1], debits[j][2]) = 1
        <5>1. AV!Times(debits, debits[j][1], debits[j][2]) = 1
          BY DEF AviatorOrder, DebitsArePlayed
        <5> QED BY <2>4, <4>2, <5>1
      <4>4. /\ debits[j][2] <= AV!BetRound(info)
            /\ debits[j][2] = AV!BetRound(info) =>
                 \/ <<debits[j][2], debits[j][1]>> \in bets
                 \/ \E d \in CallIds : /\ calls'[d].at = "debited"
                                       /\ calls'[d].user = debits[j][1] /\ calls'[d].no = debits[j][2]
        BY <1>0, <2>2 DEF AviatorOrder, DebitsArePlayed
      <4> QED BY <3>2, <4>3, <4>4
    <3> QED BY <2>4, <3>1, <3>2
  <2>11. CreditsArePlayed'
    BY <1>0, <2>4 DEF AviatorOrder, CreditsArePlayed
  <2> QED BY <2>5, <2>6, <2>7, <2>8, <2>9, <2>10, <2>11, <2>12 DEF AviatorOrder
<1> QED BY <1>1, <1>2 DEF AV!DebitBetAmount

(* A bet is placed on a round that is still to end, and starts the next one *)
(* when that has seen this one end.                                         *)
LEMMA PlayerBetKeeps ==
  ASSUME AviatorOrder, slips = {}, slips' = {}, NEW c \in CallIds, AV!PlayerBet(c)
  PROVE  AviatorOrder'
<1> DEFINE u == calls[c].user
           n == calls[c].no
           late == calls[c].seen.status = "ended"
           new == [calls[c] EXCEPT !.at = "recording"]
<1>0. /\ AviatorTyped /\ calls[c] \in BetCall /\ calls[c].at = "debited" /\ u \in Users /\ n \in Nat
      /\ info \in Round /\ bets' = bets \union {<<n, u>>}
      /\ UNCHANGED <<info, lock, crash, cashing, flights, debits, credits>>
  BY DEF AviatorOrder, AviatorTyped, AV!PlayerBet, Betting
<1>1. /\ new \in BetCall /\ new.at = "recording" /\ (late => AV!WillStart(new))
      /\ calls' = [calls EXCEPT ![c] = new]
  BY <1>0 DEF BetCall, AviatorTyped, AV!PlayerBet, AV!WillStart
<1>2. /\ n <= AV!BetRound(info) /\ (~late => n <= info.no)
      /\ ~(n < info.no \/ (n = info.no /\ info.status = "ended"))
  BY <1>0 DEF AviatorOrder, CallsInRound, Betting, AV!PlayerBet, AV!Slip
<1> HIDE DEF u, n, late, new
<1>3. /\ calls' \in [CallIds -> BetCall] /\ calls'[c] = new
      /\ \A d \in CallIds \ {c} : calls'[d] = calls[d]
  BY <1>0, <1>1, CallMoves
<1>4. AviatorTyped' /\ BetsArePaid'
  BY AviatorTypedKeeps, BetsArePaidKeeps DEF AviatorOrder, AV!Next
<1>5. OneStarts'
  BY <1>0, <1>1, <1>3 DEF AviatorOrder, OneStarts, Holding
<1>6. OneFlight'
  BY <1>0 DEF AviatorOrder, OneFlight
<1>7. CallsInRound'
  BY <1>0, <1>1, <1>3 DEF AviatorOrder, CallsInRound, Betting
<1>11. OneBet'
  BY <1>0, <1>1, <1>3 DEF AviatorOrder, OneBet, Betting
<1>8. BetsInRound'
  <2>1. \A b \in bets' : b[1] <= AV!BetRound(info)
    BY <1>0, <1>2 DEF AviatorOrder, BetsInRound
  <2>2. ASSUME info.status = "ended", NEW b \in bets', b[1] = info.no + 1
        PROVE  \E d \in CallIds : AV!WillStart(calls'[d])
    <3>1. CASE b \in bets
      <4>1. PICK d \in CallIds : AV!WillStart(calls[d])
        BY <1>0, <2>2, <3>1 DEF AviatorOrder, BetsInRound
      <4>2. d # c
        BY <1>0, <4>1 DEF AV!WillStart
      <4> QED BY <1>3, <4>1, <4>2
    <3>2. CASE b = <<n, u>>
      <4>1. late
        BY <1>0, <1>2, <2>2, <3>2 DEF Round
      <4> QED BY <1>1, <1>3, <4>1
    <3> QED BY <1>0, <3>1, <3>2
  <2> QED BY <1>0, <2>1, <2>2 DEF BetsInRound
<1>9. DebitsArePlayed'
  <2>1. \A d \in CallIds : calls[d].at = "debited" => calls'[d] = calls[d] \/ d = c
    BY <1>3
  <2> QED BY <1>0, <2>1 DEF AviatorOrder, DebitsArePlayed, u, n
<1>10. CreditsArePlayed'
  BY <1>0 DEF AviatorOrder, CreditsArePlayed
<1> QED BY <1>4, <1>5, <1>6, <1>7, <1>8, <1>9, <1>10, <1>11 DEF AviatorOrder

(* A call that has no bet on its way goes on, in the same round.            *)
LEMMA StageKeeps ==
  ASSUME AviatorOrder, NEW c \in CallIds, NEW r \in BetCall, calls' = [calls EXCEPT ![c] = r],
         calls[c].at \notin Betting, r.at \notin Betting, r.at \in {"locking", "initializing"} => r.seen \in Round,
         AV!WillStart(calls[c]) => AV!WillStart(r) \/ info.status # "ended",
         UNCHANGED <<info, bets, cashing, flights, debits, credits>>,
         lock' \in BOOLEAN, crash' \in BOOLEAN, crash => crash', OneStarts'
  PROVE  AviatorOrder'
<1>1. AviatorTyped
  BY DEF AviatorOrder
<1>2. /\ calls' \in [CallIds -> BetCall] /\ calls'[c] = r
      /\ \A d \in CallIds \ {c} : calls'[d] = calls[d]
  BY <1>1, CallMoves
<1>3. AviatorTyped'
  BY <1>1, <1>2 DEF AviatorTyped, Betting
<1>10. BetsArePaid'
  BY <1>2 DEF AviatorOrder, BetsArePaid, Betting
<1>11. OneBet'
  BY <1>2 DEF AviatorOrder, OneBet, Betting
<1>4. OneFlight'
  BY DEF AviatorOrder, OneFlight
<1>5. CallsInRound'
  BY <1>2 DEF AviatorOrder, CallsInRound, Betting
<1>6. BetsInRound'
  BY <1>2 DEF AviatorOrder, BetsInRound
<1>7. \A d \in CallIds : calls[d].at = "debited" => calls'[d] = calls[d]
  BY <1>2 DEF Betting
<1>8. DebitsArePlayed'
  BY <1>7 DEF AviatorOrder, DebitsArePlayed
<1>9. CreditsArePlayed'
  BY DEF AviatorOrder, CreditsArePlayed
<1> QED BY <1>3, <1>4, <1>5, <1>6, <1>8, <1>9, <1>10, <1>11 DEF AviatorOrder

(* The history is written, or no round is waiting for it.                   *)
LEMMA RecordKeeps ==
  ASSUME AviatorOrder, slips = {}, slips' = {}, NEW c \in CallIds, AV!CreateUserHistory(c)
  PROVE  AviatorOrder'
<1>0. /\ AviatorTyped /\ calls[c] \in BetCall /\ calls[c].at = "recording"
      /\ UNCHANGED <<info, lock, crash, bets, cashing, flights, debits, credits>>
  BY DEF AviatorOrder, AviatorTyped, AV!CreateUserHistory
<1>1. CASE AV!End(c) /\ calls[c].seen.status # "ended"
  BY <1>0, <1>1, EndKeeps DEF AV!WillStart, Holding
<1>2. CASE calls' = [calls EXCEPT ![c].at = "starting"]
  <2> DEFINE r == [calls[c] EXCEPT !.at = "starting"]
  <2>1. r \in BetCall /\ r.at = "starting" /\ calls' = [calls EXCEPT ![c] = r]
    BY <1>0, <1>2 DEF BetCall, Starting, AviatorTyped
  <2> HIDE DEF r
  <2>2. calls'[c] = r /\ \A d \in CallIds \ {c} : calls'[d] = calls[d]
    BY <1>0, <2>1, CallMoves
  <2>3. OneStarts'
    BY <1>0, <2>1, <2>2 DEF AviatorOrder, OneStarts, Holding
  <2>4. lock' \in BOOLEAN /\ crash' \in BOOLEAN /\ (crash => crash')
    BY <1>0 DEF AviatorTyped
  <2> QED BY <1>0, <2>1, <2>3, <2>4, StageKeeps DEF Betting, AV!WillStart
<1> QED BY <1>1, <1>2 DEF AV!CreateUserHistory, AV!Slip

LEMMA StartRoundKeeps ==
  ASSUME AviatorOrder, NEW c \in CallIds, AV!StartRound(c)
  PROVE  AviatorOrder'
<1>0. /\ AviatorTyped /\ calls[c] \in BetCall /\ calls[c].at = "starting" /\ info \in Round
      /\ UNCHANGED <<info, lock, crash, bets, cashing, flights, debits, credits>>
  BY DEF AviatorOrder, AviatorTyped, AV!StartRound
<1>1. CASE lock \/ info.status # "ended"
  BY <1>0, <1>1, EndKeeps DEF AV!StartRound, Holding
<1>2. CASE ~(lock \/ info.status # "ended")
  <2> DEFINE r == [calls[c] EXCEPT !.at = "locking", !.seen = info]
  <2>1. /\ r \in BetCall /\ r.at = "locking" /\ r.seen = info
        /\ calls' = [calls EXCEPT ![c] = r]
    BY <1>0, <1>2 DEF AV!StartRound, BetCall, Starting, AviatorTyped, Round, SeenRound
  <2> HIDE DEF r
  <2>2. calls'[c] = r /\ \A d \in CallIds \ {c} : calls'[d] = calls[d]
    BY <1>0, <2>1, CallMoves
  <2>3. OneStarts'
    BY <1>0, <1>2, <2>1, <2>2 DEF AviatorOrder, OneStarts, Holding
  <2>4. lock' \in BOOLEAN /\ crash' \in BOOLEAN /\ (crash => crash')
    BY <1>0 DEF AviatorTyped
  <2> QED BY <1>0, <2>1, <2>3, <2>4, StageKeeps DEF Betting, AV!WillStart
<1> QED BY <1>1, <1>2

(* The lock is taken by one call alone, that still sees the round as it is. *)
LEMMA SetLockKeeps ==
  ASSUME AviatorOrder, slips = {}, slips' = {}, NEW c \in CallIds, AV!SetRoundLock(c)
  PROVE  AviatorOrder'
<1> DEFINE r == [calls[c] EXCEPT !.at = "initializing"]
<1>0. /\ AviatorTyped /\ calls[c] \in BetCall /\ calls[c].at = "locking" /\ ~lock /\ info = calls[c].seen
      /\ lock' = TRUE /\ UNCHANGED <<info, crash, bets, cashing, flights, debits, credits>>
  BY DEF AviatorOrder, AviatorTyped, AV!SetRoundLock, AV!Slip
<1>1. /\ r \in BetCall /\ r.at = "initializing" /\ r.seen = info
      /\ calls' = [calls EXCEPT ![c] = r]
  BY <1>0 DEF AV!SetRoundLock, BetCall, Starting, AviatorTyped
<1> HIDE DEF r
<1>2. calls'[c] = r /\ \A d \in CallIds \ {c} : calls'[d] = calls[d]
  BY <1>0, <1>1, CallMoves
<1>3. info.status = "ended"
  BY <1>0 DEF AviatorOrder, OneStarts
<1>4. OneStarts'
  BY <1>0, <1>1, <1>2, <1>3 DEF AviatorOrder, OneStarts, Holding
<1>5. lock' \in BOOLEAN /\ crash' \in BOOLEAN /\ (crash => crash')
  BY <1>0 DEF AviatorTyped
<1>6. r.seen \in Round
  BY <1>0, <1>1 DEF AviatorTyped
<1> QED BY <1>0, <1>1, <1>4, <1>6, <1>5, StageKeeps DEF Betting, AV!WillStart

LEMMA ResultKeeps ==
  ASSUME AviatorOrder, NEW c \in CallIds, AV!GenerateGameResult(c)
  PROVE  AviatorOrder'
<1> DEFINE r == [calls[c] EXCEPT !.at = "unlocking"]
<1>0. /\ AviatorTyped /\ calls[c] \in BetCall /\ calls[c].at = "drawing"
      /\ crash' = TRUE /\ UNCHANGED <<info, lock, bets, cashing, flights, debits, credits>>
  BY DEF AviatorOrder, AviatorTyped, AV!GenerateGameResult
<1>1. r \in BetCall /\ r.at = "unlocking" /\ calls' = [calls EXCEPT ![c] = r]
  BY <1>0 DEF AV!GenerateGameResult, BetCall, Holding, AviatorTyped
<1> HIDE DEF r
<1>2. calls'[c] = r /\ \A d \in CallIds \ {c} : calls'[d] = calls[d]
  BY <1>0, <1>1, CallMoves
<1>3. OneStarts'
  BY <1>0, <1>1, <1>2 DEF AviatorOrder, OneStarts, Holding
<1>4. lock' \in BOOLEAN /\ crash' \in BOOLEAN
  BY <1>0 DEF AviatorTyped
<1> QED BY <1>0, <1>1, <1>3, <1>4, StageKeeps DEF Betting, AV!WillStart

LEMMA ReleaseKeeps ==
  ASSUME AviatorOrder, slips = {}, slips' = {}, NEW c \in CallIds, AV!ReleaseRoundLock(c)
  PROVE  AviatorOrder'
<1>0. /\ AviatorTyped /\ calls[c].at = "unlocking" /\ lock' = FALSE
      /\ UNCHANGED <<info, crash, bets, cashing, flights, debits, credits>>
  BY DEF AviatorOrder, AV!ReleaseRoundLock, AV!Slip
<1>1. AV!NoCall \in BetCall /\ AV!NoCall.at = "none" /\ calls' = [calls EXCEPT ![c] = AV!NoCall]
  BY NothingMoves DEF AV!ReleaseRoundLock, AV!End
<1>2. calls'[c] = AV!NoCall /\ \A d \in CallIds \ {c} : calls'[d] = calls[d]
  BY <1>0, <1>1, CallMoves
<1>3. OneStarts'
  BY <1>0, <1>1, <1>2 DEF AviatorOrder, OneStarts, Holding
<1>4. lock' \in BOOLEAN /\ crash' \in BOOLEAN /\ (crash => crash')
  BY <1>0 DEF AviatorTyped
<1> QED BY <1>0, <1>1, <1>3, <1>4, StageKeeps DEF Betting, AV!WillStart

(* The new round begins: its bets are placed already, those of the old go.  *)
LEMMA InitializeKeeps ==
  ASSUME AviatorOrder, slips = {}, slips' = {}, NEW c \in CallIds, AV!InitializeRound(c)
  PROVE  AviatorOrder'
<1> DEFINE r == [calls[c] EXCEPT !.at = "drawing"]
<1>0. /\ AviatorTyped /\ calls[c] \in BetCall /\ calls[c].at = "initializing" /\ info \in Round
      /\ calls[c].seen = info /\ info.status = "ended" /\ info.no \in Nat
      /\ UNCHANGED <<lock, cashing, debits, credits>>
  BY DEF AviatorOrder, AviatorTyped, AV!InitializeRound, OneStarts, Round
<1>1. /\ bets' = {b \in bets : b[1] # info.no} /\ crash' = FALSE
      /\ info' = [no |-> info.no + 1, status |-> "waiting"]
  BY <1>0 DEF AV!InitializeRound
<1>2. info' \in Round /\ info'.no = info.no + 1 /\ info'.status = "waiting"
  BY <1>0, <1>1 DEF Round, Statuses
<1>3. AV!BetRound(info') = AV!BetRound(info) /\ AV!BetRound(info) = info.no + 1
  BY <1>0, <1>2 DEF AV!BetRound
<1>4. r \in BetCall /\ r.at = "drawing" /\ calls' = [calls EXCEPT ![c] = r]
  BY <1>0 DEF AV!InitializeRound, BetCall, Holding, AviatorTyped
<1> HIDE DEF r
<1>5. /\ calls' \in [CallIds -> BetCall] /\ calls'[c] = r
      /\ \A d \in CallIds \ {c} : calls'[d] = calls[d]
  BY <1>0, <1>4, CallMoves
<1>6. PICK f \in FlightIds : flights' = [flights EXCEPT ![f].at = "timer"]
  BY DEF AV!InitializeRound
<1>7. \A g \in FlightIds : flights[g].at = "none"
  BY <1>0 DEF AviatorOrder, OneFlight, AviatorTyped, Flight
<1>8. /\ flights' \in [FlightIds -> Flight] /\ flights'[f].at = "timer"
      /\ \A g \in FlightIds \ {f} : flights'[g] = flights[g]
  <2> DEFINE new == [flights[f] EXCEPT !.at = "timer"]
  <2>1. new \in Flight /\ new.at = "timer" /\ flights' = [flights EXCEPT ![f] = new]
    BY <1>0, <1>6 DEF AviatorTyped, Flight
  <2> HIDE DEF new
  <2> QED BY <1>0, <2>1, FlightMoves
<1>9. AviatorTyped' /\ BetsArePaid'
  BY AviatorTypedKeeps, BetsArePaidKeeps DEF AviatorOrder, AV!Next
<1>10. OneStarts'
  BY <1>0, <1>2, <1>4, <1>5 DEF AviatorOrder, OneStarts, Holding
<1>11. OneFlight'
  BY <1>2, <1>7, <1>8 DEF AviatorOrder, OneFlight
<1>12. CallsInRound'
  <2>1. ASSUME NEW d \in CallIds, calls'[d].at \in Betting
        PROVE  /\ calls'[d] = calls[d] /\ calls[d].no \in Nat /\ calls[d].no <= AV!BetRound(info)
    BY <1>0, <1>4, <1>5, <2>1 DEF AviatorOrder, AviatorTyped, CallsInRound, Betting
  <2> QED BY <1>0, <1>2, <1>3, <2>1 DEF CallsInRound
<1>17. OneBet'
  BY <1>0, <1>4, <1>5 DEF AviatorOrder, OneBet, Betting
<1>13. BetsInRound'
  BY <1>0, <1>1, <1>2, <1>3 DEF AviatorOrder, BetsInRound
<1>14. \A d \in CallIds : calls[d].at = "debited" => calls'[d] = calls[d]
  BY <1>0, <1>5
<1>15. DebitsArePlayed'
  <2>1. \A i \in DOMAIN debits : debits[i][2] = AV!BetRound(info) => debits[i][2] # info.no
    BY <1>0, <1>3
  <2>2. \A b : b \in bets /\ b[1] # info.no => b \in bets'
    BY <1>1
  <2> QED BY <1>0, <1>3, <1>14, <2>1, <2>2 DEF AviatorOrder, DebitsArePlayed
<1>16. CreditsArePlayed'
  <2>1. \A u \in Users : cashing[u] = AV!None
    BY DEF AV!InitializeRound, AV!Slip
  <2> QED BY <1>0, <2>1 DEF AviatorOrder, CreditsArePlayed
<1> QED BY <1>9, <1>10, <1>11, <1>12, <1>13, <1>15, <1>16, <1>17 DEF AviatorOrder

(* The timer, the flight and its crash.                                     *)
LEMMA RoundStartedKeeps ==
  ASSUME AviatorOrder, slips = {}, slips' = {}, NEW f \in FlightIds, AV!OnRoundStarted(f)
  PROVE  AviatorOrder'
<1> DEFINE new == [flights[f] EXCEPT !.at = "flying"]
<1>0. /\ AviatorTyped /\ flights[f] \in Flight /\ flights[f].at = "timer" /\ crash /\ ~lock
      /\ info \in Round /\ info.status = "waiting" /\ info.no \in Nat
      /\ info' = [info EXCEPT !.status = "started"]
      /\ UNCHANGED <<lock, crash, bets, calls, cashing, debits, credits>>
  BY DEF AviatorOrder, AviatorTyped, OneFlight, AV!OnRoundStarted, AV!Slip, Round
<1>1. new \in Flight /\ new.at = "flying" /\ flights' = [flights EXCEPT ![f] = new]
  BY <1>0 DEF AV!OnRoundStarted, Flight
<1> HIDE DEF new
<1>2. /\ flights' \in [FlightIds -> Flight] /\ flights'[f] = new
      /\ \A g \in FlightIds \ {f} : flights'[g] = flights[g]
  BY <1>0, <1>1, FlightMoves
<1>3. info' \in Round /\ info'.no = info.no /\ info'.status = "started"
  BY <1>0 DEF Round, Statuses
<1>4. AV!BetRound(info') = AV!BetRound(info)
  BY <1>0, <1>3 DEF AV!BetRound
<1>5. AviatorTyped' /\ BetsArePaid'
  BY AviatorTypedKeeps, BetsArePaidKeeps DEF AviatorOrder, AV!Next
<1>12. OneBet'
  BY <1>0 DEF AviatorOrder, OneBet
<1>6. OneStarts'
  BY <1>0, <1>3 DEF AviatorOrder, OneStarts, Holding
<1>7. OneFlight'
  BY <1>0, <1>1, <1>2, <1>3 DEF AviatorOrder, OneFlight
<1>8. CallsInRound'
  BY <1>0, <1>3, <1>4 DEF AviatorOrder, CallsInRound
<1>9. BetsInRound'
  BY <1>0, <1>3, <1>4 DEF AviatorOrder, BetsInRound
<1>10. DebitsArePlayed'
  BY <1>0, <1>4 DEF AviatorOrder, DebitsArePlayed
<1>11. CreditsArePlayed'
  BY <1>0, <1>3 DEF AviatorOrder, CreditsArePlayed
<1> QED BY <1>5, <1>6, <1>7, <1>8, <1>9, <1>10, <1>11, <1>12 DEF AviatorOrder

LEMMA CrashKeeps ==
  ASSUME AviatorOrder, slips = {}, slips' = {}, NEW f \in FlightIds, AV!OnCrash(f)
  PROVE  AviatorOrder'
<1> DEFINE new == [at |-> "landing", seen |-> info]
<1>0. /\ AviatorTyped /\ flights[f].at = "flying" /\ info.status = "started" /\ info \in Round
      /\ flights' = [flights EXCEPT ![f] = new]
      /\ UNCHANGED <<info, lock, crash, bets, calls, cashing, debits, credits>>
  BY DEF AviatorOrder, AviatorTyped, OneFlight, AV!OnCrash, AV!Slip
<1>1. new \in Flight /\ new.at = "landing" /\ new.seen = info
  BY <1>0 DEF Flight, Round, SeenRound
<1> HIDE DEF new
<1>2. /\ flights' \in [FlightIds -> Flight] /\ flights'[f] = new
      /\ \A g \in FlightIds \ {f} : flights'[g] = flights[g]
  BY <1>0, <1>1, FlightMoves
<1>3. AviatorTyped' /\ BetsArePaid'
  BY AviatorTypedKeeps, BetsArePaidKeeps DEF AviatorOrder, AV!Next
<1>4. OneStarts' /\ CallsInRound' /\ OneBet' /\ BetsInRound'
  BY <1>0 DEF AviatorOrder, OneStarts, CallsInRound, OneBet, BetsInRound
<1>5. OneFlight'
  BY <1>0, <1>1, <1>2 DEF AviatorOrder, OneFlight
<1>6. DebitsArePlayed'
  BY <1>0 DEF AviatorOrder, DebitsArePlayed
<1>7. CreditsArePlayed'
  BY <1>0 DEF AviatorOrder, CreditsArePlayed
<1> QED BY <1>3, <1>4, <1>5, <1>6, <1>7 DEF AviatorOrder

LEMMA EndRoundKeeps ==
  ASSUME AviatorOrder, NEW f \in FlightIds, AV!EndRound(f)
  PROVE  AviatorOrder'
<1>0. /\ AviatorTyped /\ flights[f].at = "landing" /\ info.status = "started"
      /\ flights[f].seen = info /\ info \in Round /\ info.no \in Nat
      /\ flights' = [flights EXCEPT ![f] = AV!NoFlight]
      /\ UNCHANGED <<lock, crash, bets, calls, cashing, debits, credits>>
  BY DEF AviatorOrder, AviatorTyped, OneFlight, AV!EndRound, Round
<1>1. info' \in Round /\ info'.no = info.no /\ info'.status = "ended"
  BY <1>0 DEF AV!EndRound, Round, Statuses
<1>2. /\ flights' \in [FlightIds -> Flight] /\ flights'[f] = AV!NoFlight /\ AV!NoFlight.at = "none"
      /\ \A g \in FlightIds \ {f} : flights'[g] = flights[g]
  BY <1>0, NothingMoves, FlightMoves
<1>3. AV!BetRound(info') = info.no + 1 /\ AV!BetRound(info) = info.no
  BY <1>0, <1>1 DEF AV!BetRound
<1>4. AviatorTyped' /\ BetsArePaid'
  BY AviatorTypedKeeps, BetsArePaidKeeps DEF AviatorOrder, AV!Next
<1>14. OneBet'
  BY <1>0 DEF AviatorOrder, OneBet
<1>5. OneStarts'
  BY <1>0, <1>1 DEF AviatorOrder, OneStarts, Holding
<1>6. OneFlight'
  BY <1>0, <1>1, <1>2 DEF AviatorOrder, OneFlight
<1>7. CallsInRound'
  BY <1>0, <1>1, <1>3 DEF AviatorOrder, CallsInRound, AviatorTyped
<1>8. \A b \in bets : b[1] \in Nat /\ b[1] <= info.no
  BY <1>0, <1>3 DEF AviatorOrder, BetsInRound, AviatorTyped
<1>9. BetsInRound'
  BY <1>0, <1>1, <1>3, <1>8 DEF BetsInRound
<1>10. \A i \in DOMAIN debits : debits[i][2] \in Nat /\ debits[i][2] <= info.no
  <2>1. \A i \in DOMAIN debits : debits[i] \in Users \X Nat
    BY <1>0 DEF AviatorTyped
  <2>2. \A i \in DOMAIN debits : debits[i][2] <= AV!BetRound(info)
    BY DEF AviatorOrder, DebitsArePlayed
  <2> QED BY <1>3, <2>1, <2>2
<1>11. \A i \in DOMAIN debits : debits[i][2] <= info.no + 1 /\ debits[i][2] # info.no + 1
  BY <1>0, <1>10
<1>12. DebitsArePlayed'
  BY <1>0, <1>3, <1>11 DEF AviatorOrder, DebitsArePlayed
<1>13. CreditsArePlayed'
  BY <1>0, <1>1 DEF AviatorOrder, CreditsArePlayed
<1> QED BY <1>4, <1>5, <1>6, <1>7, <1>9, <1>12, <1>13, <1>14 DEF AviatorOrder

(* Who has bet cashes out, and is paid in the same round.                   *)
LEMMA CashoutKeeps ==
  ASSUME AviatorOrder, NEW u \in Users, AV!OnCashout(u)
  PROVE  AviatorOrder'
<1>0. /\ AviatorTyped /\ info \in Round /\ info.no \in Nat /\ <<info.no, u>> \in bets
      /\ cashing' = [cashing EXCEPT ![u] = info.no]
      /\ UNCHANGED <<info, lock, crash, bets, calls, flights, debits, credits>>
  BY DEF AviatorOrder, AviatorTyped, AV!OnCashout, Round
<1>1. AV!Booked(debits, u, info.no)
  BY <1>0 DEF AviatorOrder, BetsArePaid
<1>2. /\ cashing' \in [Users -> Nat \union {AV!None}] /\ cashing'[u] = info.no
      /\ \A v \in Users \ {u} : cashing'[v] = cashing[v]
  BY <1>0 DEF AviatorTyped
<1>3. AviatorTyped' /\ BetsArePaid'
  BY AviatorTypedKeeps, BetsArePaidKeeps DEF AviatorOrder, AV!Next
<1>4. OneStarts' /\ OneFlight' /\ CallsInRound' /\ OneBet' /\ BetsInRound'
  BY <1>0 DEF AviatorOrder, OneStarts, OneFlight, CallsInRound, OneBet, BetsInRound
<1>5. DebitsArePlayed'
  BY <1>0 DEF AviatorOrder, DebitsArePlayed
<1>6. CreditsArePlayed'
  BY <1>0, <1>1, <1>2 DEF AviatorOrder, CreditsArePlayed
<1> QED BY <1>3, <1>4, <1>5, <1>6 DEF AviatorOrder

LEMMA WinningKeeps ==
  ASSUME AviatorOrder, NEW u \in Users, AV!AddWinningAmount(u)
  PROVE  AviatorOrder'
<1>0. /\ AviatorTyped /\ info \in Round /\ info.no \in Nat /\ credits \in Seq(Users \X Nat)
      /\ cashing[u] = info.no /\ cashing[u] # AV!None
      /\ credits' = Append(credits, <<u, info.no>>)
      /\ cashing' = [cashing EXCEPT ![u] = AV!None]
      /\ UNCHANGED <<info, lock, crash, bets, calls, flights, debits>>
  BY DEF AviatorOrder, AviatorTyped, CreditsArePlayed, AV!AddWinningAmount, Round
<1>1. AV!Booked(debits, u, info.no)
  BY <1>0 DEF AviatorOrder, CreditsArePlayed
<1>2. \A i \in DOMAIN credits' : credits'[i] = <<u, info.no>> \/ \E j \in DOMAIN credits : credits'[i] = credits[j]
  BY <1>0
<1>3. /\ cashing' \in [Users -> Nat \union {AV!None}] /\ cashing'[u] = AV!None
      /\ \A v \in Users \ {u} : cashing'[v] = cashing[v]
  BY <1>0 DEF AviatorTyped
<1>4. AviatorTyped' /\ BetsArePaid'
  BY AviatorTypedKeeps, BetsArePaidKeeps DEF AviatorOrder, AV!Next
<1>5. OneStarts' /\ OneFlight' /\ CallsInRound' /\ OneBet' /\ BetsInRound'
  BY <1>0 DEF AviatorOrder, OneStarts, OneFlight, CallsInRound, OneBet, BetsInRound
<1>6. DebitsArePlayed'
  BY <1>0 DEF AviatorOrder, DebitsArePlayed
<1>7. ASSUME NEW i \in DOMAIN credits' PROVE AV!Booked(debits, credits'[i][1], credits'[i][2])
  BY <1>1, <1>2 DEF AviatorOrder, CreditsArePlayed
<1>8. CreditsArePlayed'
  BY <1>0, <1>3, <1>7 DEF AviatorOrder, CreditsArePlayed
<1> QED BY <1>4, <1>5, <1>6, <1>8 DEF AviatorOrder

(* A restart that cuts nothing off only forgets who was cashing out.        *)
LEMMA RestartKeeps ==
  ASSUME AviatorOrder, slips = {}, slips' = {}, AV!Restart
  PROVE  AviatorOrder'
<1>0. /\ AviatorTyped
      /\ \A f \in FlightIds : flights[f] = AV!NoFlight
      /\ \A c \in CallIds : calls[c] = AV!NoCall
      /\ UNCHANGED <<info, lock, crash, bets, debits, credits>>
      /\ flights' = [f \in FlightIds |-> AV!NoFlight] /\ calls' = [c \in CallIds |-> AV!NoCall]
      /\ cashing' = [u \in Users |-> AV!None]
  BY DEF AviatorOrder, AV!Restart, AV!Slip
<1>1. flights' = flights /\ calls' = calls
  BY <1>0 DEF AviatorTyped
<1>2. AviatorTyped' /\ BetsArePaid'
  BY AviatorTypedKeeps, BetsArePaidKeeps DEF AviatorOrder, AV!Next
<1>3. OneStarts' /\ OneFlight' /\ CallsInRound' /\ OneBet' /\ BetsInRound'
  BY <1>0, <1>1 DEF AviatorOrder, OneStarts, OneFlight, CallsInRound, OneBet, BetsInRound
<1>4. DebitsArePlayed'
  BY <1>0, <1>1 DEF AviatorOrder, DebitsArePlayed
<1>5. CreditsArePlayed'
  BY <1>0 DEF AviatorOrder, CreditsArePlayed
<1> QED BY <1>2, <1>3, <1>4, <1>5 DEF AviatorOrder
-----------------------------------------------------------------------------
LEMMA AviatorInvariant == AV!Spec => []AviatorInv
<1>1. AV!Init => AviatorInv
  <2> SUFFICES ASSUME AV!Init PROVE AviatorOrder
    BY DEF AviatorInv, AviatorOrder
  <2>1. /\ info \in Round /\ info.no = 0 /\ info.status = "ended"
        /\ bets = {} /\ debits = <<>> /\ credits = <<>> /\ lock = FALSE /\ crash = FALSE
    BY DEF AV!Init, Round, Statuses
  <2>2. /\ calls \in [CallIds -> BetCall] /\ \A c \in CallIds : calls[c].at = "none"
        /\ flights \in [FlightIds -> Flight] /\ \A f \in FlightIds : flights[f] = AV!NoFlight /\ flights[f].at = "none"
        /\ cashing \in [Users -> Nat \union {AV!None}] /\ \A u \in Users : cashing[u] = AV!None
    BY NothingMoves DEF AV!Init
  <2>3. AviatorTyped
    <3>1. debits \in Seq(Users \X Nat) /\ credits \in Seq(Users \X Nat)
      BY <2>1
    <3>2. \A c \in CallIds : calls[c].at \notin Betting /\ calls[c].at \notin {"locking", "initializing"}
      BY <2>2 DEF Betting
    <3>3. info \in Round /\ lock \in BOOLEAN /\ crash \in BOOLEAN /\ bets \in SUBSET (Nat \X Users)
      BY <2>1
    <3>4. \A f \in FlightIds : flights[f].at # "landing"
      BY <2>2
    <3> QED BY <2>2, <3>1, <3>2, <3>3, <3>4 DEF AviatorTyped
  <2>4. BetsArePaid /\ OneStarts /\ OneFlight
    BY <2>1, <2>2 DEF BetsArePaid, OneStarts, OneFlight, Holding
  <2>5. CallsInRound /\ OneBet /\ BetsInRound
    BY <2>1, <2>2 DEF CallsInRound, OneBet, BetsInRound, Betting
  <2>6. DebitsArePlayed /\ CreditsArePlayed
    BY <2>1, <2>2 DEF DebitsArePlayed, CreditsArePlayed
  <2> QED BY <2>3, <2>4, <2>5, <2>6 DEF AviatorOrder
<1>2. AviatorInv /\ [AV!Next]_(AV!vars) => AviatorInv'
  <2> SUFFICES ASSUME AviatorInv, [AV!Next]_(AV!vars) PROVE AviatorInv'
    OBVIOUS
  <2>1. CASE UNCHANGED AV!vars
    BY <2>1 DEF AV!vars, AviatorInv, AviatorOrder, AviatorTyped, BetsArePaid, OneStarts, OneFlight,
       CallsInRound, OneBet,
       BetsInRound, DebitsArePlayed, CreditsArePlayed
  <2>2. CASE AV!Next
    <3>1. AviatorTyped' /\ BetsArePaid'
      BY <2>2, AviatorTypedKeeps, BetsArePaidKeeps DEF AviatorInv
    <3>2. ASSUME slips' = {} PROVE AviatorOrder'
      <4>1. slips = {}
        BY <2>2, <3>2 DEF AV!Next, AV!Bet, AV!DebitBetAmount, AV!PlayerBet, AV!CreateUserHistory, AV!StartRound,
           AV!SetRoundLock, AV!InitializeRound,
           AV!GenerateGameResult, AV!ReleaseRoundLock, AV!OnRoundStarted, AV!OnCrash, AV!EndRound, AV!OnCashout,
           AV!AddWinningAmount, AV!Restart, AV!Slip
      <4>2. AviatorOrder
        BY <4>1 DEF AviatorInv
      <4> QED BY <2>2, <3>2, <4>1, <4>2, BetKeeps, DebitKeeps, PlayerBetKeeps, RecordKeeps, StartRoundKeeps,
                 SetLockKeeps,
                 InitializeKeeps, ResultKeeps, ReleaseKeeps, RoundStartedKeeps, CrashKeeps, EndRoundKeeps,
                 CashoutKeeps, WinningKeeps, RestartKeeps DEF AV!Next
    <3> QED BY <3>1, <3>2 DEF AviatorInv
  <2> QED BY <2>1, <2>2
<1> QED BY <1>1, <1>2, PTL DEF AV!Spec

(* Whoever plays has paid, whatever slips.  As long as nothing has slipped, *)
(* a player is debited once for a round, which is the last or the next, and *)
(* is in it while it is still to end; and what is paid is for a round whose *)
(* bet was debited.                                                         *)
THEOREM AviatorBetsArePlayed == AV!Spec => []AV!BetsArePlayed
<1>1. AviatorInv => AV!BetsArePlayed
  <2> SUFFICES ASSUME AviatorInv PROVE AV!BetsArePlayed
    OBVIOUS
  <2>1. \A b \in bets : AV!Booked(debits, b[2], b[1])
    BY DEF AviatorInv, BetsArePaid
  <2>2. ASSUME AviatorOrder, NEW i \in DOMAIN debits
        PROVE  /\ AV!Times(debits, debits[i][1], debits[i][2]) = 1
               /\ debits[i][2] <= AV!BetRound(info)
               /\ debits[i][2] = AV!BetRound(info) =>
                    \/ <<debits[i][2], debits[i][1]>> \in bets
                    \/ \E c \in CallIds : /\ calls[c].at = "debited"
                                          /\ calls[c].user = debits[i][1] /\ calls[c].no = debits[i][2]
    BY <2>2 DEF AviatorOrder, DebitsArePlayed
  <2>3. ASSUME AviatorOrder, NEW i \in DOMAIN credits
        PROVE  AV!Times(debits, credits[i][1], credits[i][2]) = 1
    <3>1. AV!Booked(debits, credits[i][1], credits[i][2])
      BY <2>3 DEF AviatorOrder, CreditsArePlayed
    <3>2. PICK j \in DOMAIN debits : debits[j] = <<credits[i][1], credits[i][2]>>
      BY <3>1 DEF AV!Booked
    <3>3. debits[j][1] = credits[i][1] /\ debits[j][2] = credits[i][2]
      BY <3>2
    <3>4. AV!Times(debits, debits[j][1], debits[j][2]) = 1
      BY <2>2, <2>3
    <3> QED BY <3>3, <3>4
  <2>4. slips = {} => AviatorOrder
    BY DEF AviatorInv
  <2> QED BY <2>1, <2>2, <2>3, <2>4 DEF AV!BetsArePlayed
<1> QED BY <1>1, AviatorInvariant, PTL

(* As long as nothing has slipped, a round that has not ended has one flight *)
(* or timer to end it, a lock has somebody who starts a round, and who has   *)
(* bet on the next round will see it started.                                *)
THEOREM AviatorRoundGoesOn == AV!Spec => []AV!RoundGoesOn
<1>1. AviatorInv => AV!RoundGoesOn
  <2> SUFFICES ASSUME AviatorOrder PROVE AV!RoundGoesOn
    BY DEF AviatorInv, AV!RoundGoesOn
  <2> DEFINE Flying == {f \in FlightIds : flights[f] # AV!NoFlight}
  <2>1. OneFlight /\ OneStarts /\ BetsInRound /\ AviatorTyped
    BY DEF AviatorOrder
  <2>2. \A f \in FlightIds : flights[f] # AV!NoFlight <=> flights[f].at # "none"
    BY <2>1, NothingMoves DEF OneFlight
  <2>3. AV!Cardinality(Flying) = IF info.status = "ended" THEN 0 ELSE 1
    <3>1. CASE info.status = "ended"
      <4>1. Flying = {}
        BY <2>1, <2>2, <3>1 DEF OneFlight, AviatorTyped, Flight
      <4> QED BY <3>1, <4>1, SameCount, FS_EmptySet
    <3>2. CASE info.status # "ended"
      <4>1. PICK f \in FlightIds : flights[f].at # "none"
        BY <2>1, <3>2 DEF OneFlight
      <4>2. Flying = {f}
        BY <2>1, <2>2, <4>1 DEF OneFlight
      <4> QED BY <3>2, <4>2, SameCount, FS_Singleton
    <3> QED BY <3>1, <3>2
  <2>4. lock <=> \E c \in CallIds : calls[c].at \in {"initializing", "drawing", "unlocking"}
    BY <2>1 DEF OneStarts, Holding
  <2>5. info.status = "ended" /\ (\E b \in bets : b[1] = info.no + 1) =>
          \E c \in CallIds : AV!WillStart(calls[c])
    BY <2>1 DEF BetsInRound
  <2>6. info.status = "started" => crash
    BY <2>1 DEF OneFlight
  <2> QED BY <2>3, <2>4, <2>5, <2>6 DEF AV!RoundGoesOn
<1> QED BY <1>1, AviatorInvariant, PTL
=============================================================================
