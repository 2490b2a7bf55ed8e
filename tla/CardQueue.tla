------------------------------ MODULE CardQueue ------------------------------
(***************************************************************************)
(* How players of Rummy and of Skill Patti come to a table.  A request     *)
(* looks at the lock of its user and then sets it; a match reads the       *)
(* queue before it looks at the lock of the queue, and looks before it     *)
(* sets that too.  A match fills the empty seats of tables that play       *)
(* already and opens tables for the rest.  Who waits too long is sent away *)
(* by a timer of the process in Rummy, by the match in Skill Patti.        *)
(*                                                                         *)
(* app is the game a behaviour is about.  slips names players to whom      *)
(* something happened that the code lets through and that spoils what      *)
(* follows.  Commands that are sent together are one step.                 *)
(***************************************************************************)
EXTENDS Integers, Sequences, FiniteSets, SequencesExt

CONSTANTS
  Users, Types,
  Room,            \* type -> players of a table
  Callers,         \* the players who send requests
  Waiting,         \* those who wait at first: user -> type
  MatchingTime,    \* seconds
  LastTick,        \* bound: seconds
  MaxCalls,        \* bound: requests
  MaxPasses        \* bound: matches

VARIABLES app, clock,
          queue,     \* type -> user -> expiry
          waitsIn,   \* userWaitingTable: user -> type
          active,    \* userActiveTable: user -> number of a table
          tables,    \* those opened: type, players, and whether the game is over
          locks,     \* users who are locked
          held,      \* types whose queue is locked
          calls, passes,
          timers,    \* of matching: user and number
          number,    \* matchingNo: user -> number
          out,       \* users whose last news is that they have left or were not matched
          count,     \* requests and matches so far
          slips

vars == <<app, clock, queue, waitsIn, active, tables, locks, held, calls, passes, timers, number,
          out, count, slips>>
Store == <<queue, waitsIn, active, tables>>

None == -1
CallIds == 1..2                      \* bound: requests under way
PassIds == 1..2                      \* bound: matches under way
NoCall == [at |-> "none", do |-> "none", user |-> "nobody", type |-> None]
NoPass == [at |-> "none", type |-> None, keys |-> {}, ready |-> <<>>, gone |-> {}, table |-> None]

Init ==
  /\ app \in {"rummy", "patti"}
  /\ clock = 1
  /\ queue = [t \in Types |-> [u \in Users |->
                 IF u \in DOMAIN Waiting /\ Waiting[u] = t THEN MatchingTime ELSE None]]
  /\ waitsIn = [u \in Users |-> IF u \in DOMAIN Waiting THEN Waiting[u] ELSE None]
  /\ active = [u \in Users |-> None]
  /\ tables = <<>>
  /\ locks = {} /\ held = {}
  /\ calls = [c \in CallIds |-> NoCall] /\ passes = [p \in PassIds |-> NoPass]
  /\ timers = IF app = "patti" THEN {}
              ELSE {[user |-> u, no |-> 1, at |-> MatchingTime] : u \in DOMAIN Waiting}
  /\ number = [u \in Users |-> IF app = "rummy" /\ u \in DOMAIN Waiting THEN 1 ELSE 0]
  /\ out = Users \ DOMAIN Waiting
  /\ count = [calls |-> 0, passes |-> 0]
  /\ slips = {}

Seated(u, k) == ~tables[k].over /\ u \in tables[k].players
SeatsOf(u) == {k \in DOMAIN tables : Seated(u, k)}
Waits(u, t) == queue[t][u] # None
Slip(what, who) == slips' = slips \union {<<what, u>> : u \in who}

NextCall(c) == calls[c] = NoCall /\ \A d \in CallIds : d < c => calls[d] # NoCall
NextPass(p) == passes[p] = NoPass /\ \A q \in PassIds : q < p => passes[q] # NoPass

Tick ==
  /\ clock < LastTick /\ clock' = clock + 1
  /\ UNCHANGED <<app, Store, locks, held, calls, passes, timers, number, out, count, slips>>
-----------------------------------------------------------------------------
(* checkUserLock, and lockUser later: two requests of a player can pass. *)
CheckUserLock(c, u, do, t) ==
  /\ NextCall(c) /\ u \notin locks /\ count.calls < MaxCalls
  /\ calls' = [calls EXCEPT ![c] = [at |-> "looked", do |-> do, user |-> u, type |-> t]]
  /\ count' = [count EXCEPT !.calls = @ + 1]
  /\ Slip("two requests", {u} \cap {calls[d].user : d \in CallIds})
  /\ UNCHANGED <<app, clock, Store, locks, held, passes, timers, number, out>>

Return(c) == calls' = [calls EXCEPT ![c] = NoCall] /\ locks' = locks \ {calls[c].user}

(* Who joins may not play, nor wait in this queue; others are not looked at. *)
MayJoin(u, t) == active[u] = None /\ ~Waits(u, t)

LockUser(c) ==
  LET u == calls[c].user
  IN  /\ calls[c].at = "looked"
      /\ IF calls[c].do = "join" /\ ~MayJoin(u, calls[c].type)
         THEN Return(c)
         ELSE calls' = [calls EXCEPT ![c].at = "locked"] /\ locks' = locks \union {u}
      /\ UNCHANGED <<app, clock, Store, held, passes, timers, number, out, count, slips>>

(* Whoever connects locks and unlocks the player without a look. *)
HandleConnection(u) ==
  /\ u \in locks /\ locks' = locks \ {u}
  /\ Slip("lock lost", {u})
  /\ UNCHANGED <<app, clock, Store, held, calls, passes, timers, number, out, count>>

AddToQueue(c) ==
  LET u == calls[c].user
      t == calls[c].type
  IN  /\ calls[c].at = "locked" /\ calls[c].do = "join"
      /\ queue' = [queue EXCEPT ![t][u] = clock + MatchingTime]
      /\ waitsIn' = [waitsIn EXCEPT ![u] = t]
      /\ IF app = "rummy"
         THEN /\ number' = [number EXCEPT ![u] = @ + 1]
              /\ timers' = timers \union {[user |-> u, no |-> number[u] + 1, at |-> clock + MatchingTime]}
         ELSE UNCHANGED <<number, timers>>
      /\ out' = out \ {u}
      /\ Slip("two queues", IF active[u] # None \/ waitsIn[u] # None \/ \E p \in PassIds : u \in passes[p].keys
                            THEN {u} ELSE {})
      /\ Return(c)
      /\ UNCHANGED <<app, clock, active, tables, held, passes, count>>

CanLeave(u) == waitsIn[u] # None /\ u \notin UNION {tables[k].players : k \in {active[u]} \ {None}}

(* leaveWaitingTable, up to the second look at the lock of the queue. *)
LeaveWaitingTable(c) ==
  LET u == calls[c].user
      t == waitsIn[u]
  IN  /\ calls[c].at = "locked" /\ calls[c].do = "leave"
      /\ IF CanLeave(u)
         THEN /\ t \notin held
              /\ IF Waits(u, t)
                 THEN calls' = [calls EXCEPT ![c].at = "removing", ![c].type = t] /\ UNCHANGED locks
                 ELSE Return(c)
         ELSE Return(c)
      /\ UNCHANGED <<app, clock, Store, held, passes, timers, number, out, count, slips>>

(* The timer a joining set sends the player away if nothing has happened    *)
(* since: it takes no lock of the player.                                   *)
HandleMatchingTime(c, m) ==
  /\ NextCall(c) /\ m.at <= clock
  /\ timers' = timers \ {m}
  /\ IF number[m.user] = m.no /\ CanLeave(m.user)
     THEN /\ number' = [number EXCEPT ![m.user] = 0]
          /\ LET t == waitsIn[m.user]
             IN  /\ t \notin held
                 /\ calls' = IF Waits(m.user, t)
                             THEN [calls EXCEPT ![c] = [at |-> "removing", do |-> "expire", user |-> m.user, type |-> t]]
                             ELSE calls
     ELSE UNCHANGED <<number, calls>>
  /\ UNCHANGED <<app, clock, Store, locks, held, passes, out, count, slips>>

RemoveFromQueue(c) ==
  LET u == calls[c].user
  IN  /\ calls[c].at = "removing"
      /\ queue' = [queue EXCEPT ![calls[c].type][u] = None]
      /\ waitsIn' = [waitsIn EXCEPT ![u] = None]
      /\ out' = out \union {u}
      /\ IF calls[c].do = "leave" THEN Return(c) ELSE calls' = [calls EXCEPT ![c] = NoCall] /\ UNCHANGED locks
      /\ Slip("matched while leaving",
              {x \in {u} : waitsIn[u] # calls[c].type
                           \/ \E p \in PassIds : passes[p].type = calls[c].type /\ u \in passes[p].keys})
      /\ UNCHANGED <<app, clock, active, tables, held, passes, timers, number, count>>
-----------------------------------------------------------------------------
Late(t, u) == clock > queue[t][u]
ByExpiry(t, s) == \A i, j \in DOMAIN s : i < j => queue[t][s[i]] <= queue[t][s[j]]

(* A match reads the queue, and then looks at its lock.  An entry that goes *)
(* while it reads makes it fail before it has done anything: left out.      *)
GetUserQueueData(p, t) ==
  LET waiting == {u \in Users : Waits(u, t)}
      late == {u \in waiting : Late(t, u)}
  IN  /\ NextPass(p) /\ waiting # {} /\ count.passes < MaxPasses
      /\ \E s \in SetToSeqs(waiting \ late) :
           /\ ByExpiry(t, s)
           /\ passes' = [passes EXCEPT ![p] = [NoPass EXCEPT !.at = "looking", !.type = t, !.keys = waiting, !.ready = s,
                                                             !.gone = IF app = "patti" THEN late ELSE {}]]
      /\ count' = [count EXCEPT !.passes = @ + 1]
      /\ UNCHANGED <<app, clock, Store, locks, held, calls, timers, number, out, slips>>

GetQueueLock(p) ==
  /\ passes[p].at = "looking"
  /\ passes' = [passes EXCEPT ![p] = IF passes[p].type \in held THEN NoPass ELSE [@ EXCEPT !.at = "locking"]]
  /\ UNCHANGED <<app, clock, Store, locks, held, calls, timers, number, out, count, slips>>

(* Players whose entries are not any more what the match has read. *)
Changed(p) == {u \in passes[p].keys : ~Waits(u, passes[p].type) \/ active[u] # None}

SetQueueLock(p) ==
  /\ passes[p].at = "locking"
  /\ held' = held \union {passes[p].type}
  /\ passes' = [passes EXCEPT ![p].at = "matching"]
  /\ Slip("stale list", Changed(p) \union
            (IF passes[p].type \in held THEN passes[p].keys ELSE {}))
  /\ UNCHANGED <<app, clock, Store, locks, calls, timers, number, out, count>>

(* Tables with an empty seat: none of those for two are looked for. *)
EmptySeats(t) ==
  IF Room[t] = 2 THEN {}
  ELSE {k \in DOMAIN tables : tables[k].type = t /\ ~tables[k].over /\ Cardinality(tables[k].players) < Room[t]}

Smaller(a, b) == IF a < b THEN a ELSE b
FirstOf(s, n) == {s[i] : i \in 1..Smaller(n, Len(s))}
AfterFirst(s, n) == SubSeq(s, Smaller(n, Len(s)) + 1, Len(s))

GetEmptySeatTable(p) ==
  /\ passes[p].at = "matching" /\ passes[p].ready # <<>>
  /\ \E k \in EmptySeats(passes[p].type) : passes' = [passes EXCEPT ![p].at = "seating", ![p].table = k]
  /\ UNCHANGED <<app, clock, Store, locks, held, calls, timers, number, out, count, slips>>

Free(k) == Room[tables[k].type] - Cardinality(tables[k].players)

(* Who is to join a table that has gone meanwhile leaves the queue unseated. *)
JoinExistingTable(p) ==
  LET k == passes[p].table
      joining == FirstOf(passes[p].ready, Free(k))
  IN  /\ passes[p].at = "seating"
      /\ IF tables[k].over
         THEN /\ passes' = [passes EXCEPT ![p].at = "clearing", ![p].gone = @ \union joining]
              /\ Slip("seat lost", joining) /\ UNCHANGED <<active, tables>>
         ELSE /\ tables' = [tables EXCEPT ![k].players = @ \union joining]
              /\ active' = [u \in Users |-> IF u \in joining THEN k ELSE active[u]]
              /\ passes' = [passes EXCEPT ![p].at = "matching", ![p].gone = @ \union joining,
                                          ![p].ready = AfterFirst(@, Free(k)), ![p].table = None]
              /\ UNCHANGED slips
      /\ UNCHANGED <<app, clock, queue, waitsIn, locks, held, calls, timers, number, out, count>>

(* A new table for two or more; it is stored together with the pointers.    *)
CreateNewTable(p) ==
  LET t == passes[p].type
      seated == FirstOf(passes[p].ready, Room[t])
  IN  /\ passes[p].at = "matching" /\ EmptySeats(t) = {} /\ Len(passes[p].ready) >= 2
      /\ tables' = Append(tables, [type |-> t, players |-> seated, over |-> FALSE])
      /\ active' = [u \in Users |-> IF u \in seated THEN Len(tables) + 1 ELSE active[u]]
      /\ passes' = [passes EXCEPT ![p].gone = @ \union seated, ![p].ready = AfterFirst(@, Room[t])]
      /\ UNCHANGED <<app, clock, queue, waitsIn, locks, held, calls, timers, number, out, count, slips>>

Clear(p) ==
  LET t == passes[p].type
      gone == passes[p].gone
  IN  /\ queue' = [queue EXCEPT ![t] = [u \in Users |-> IF u \in gone THEN None ELSE @[u]]]
      /\ waitsIn' = [u \in Users |-> IF u \in gone THEN None ELSE waitsIn[u]]

(* Entries and keys of the seated go, and of the late, and then the lock. *)
EndMatch(p) ==
  LET t == passes[p].type
  IN  /\ \/ passes[p].at = "clearing"
         \/ passes[p].at = "matching" /\ (passes[p].ready = <<>> \/ (EmptySeats(t) = {} /\ Len(passes[p].ready) = 1))
      /\ Clear(p)
      /\ out' = out \union {u \in passes[p].gone : SeatsOf(u) = {}}
      /\ held' = held \ {t}
      /\ passes' = [passes EXCEPT ![p] = NoPass]
      /\ Slip("key of another queue", {u \in passes[p].gone : waitsIn[u] \notin {t, None}})
      /\ UNCHANGED <<app, clock, active, tables, locks, calls, timers, number, count>>

(* The game at a table ends, and its players' pointers go. *)
RemoveTable(k) ==
  /\ ~tables[k].over
  /\ tables' = [tables EXCEPT ![k].over = TRUE]
  /\ active' = [u \in Users |-> IF u \in tables[k].players THEN None ELSE active[u]]
  /\ out' = out \union tables[k].players
  /\ UNCHANGED <<app, clock, queue, waitsIn, locks, held, calls, passes, timers, number, count, slips>>

(* The locks and the queue outlive the process; requests, matches and the   *)
(* timers of matching do not.                                               *)
Restart ==
  /\ calls' = [c \in CallIds |-> NoCall] /\ passes' = [p \in PassIds |-> NoPass] /\ timers' = {}
  /\ Slip("cut off by a restart",
          locks \union {calls[c].user : c \in {d \in CallIds : calls[d] # NoCall}}
                \union UNION {passes[p].keys : p \in PassIds}
                \union {u \in Users : app = "rummy" /\ waitsIn[u] # None})
  /\ UNCHANGED <<app, clock, Store, locks, held, number, out, count>>

-----------------------------------------------------------------------------
(* The same in the two services. *)
Rummy == app = "rummy"
Patti == app = "patti"

OnJoinTable(c, u, t) == Rummy /\ CheckUserLock(c, u, "join", t)
OnBuyIn(c, u, t) == Patti /\ CheckUserLock(c, u, "join", t)
OnLeaveWaitingRummy(c, u) == Rummy /\ CheckUserLock(c, u, "leave", None)
OnLeaveWaitingPatti(c, u) == Patti /\ CheckUserLock(c, u, "leave", None)
AddToReQueue(c) == Rummy /\ AddToQueue(c)
AddToPattiQueue(c) == Patti /\ AddToQueue(c)
LeaveRummy(c) == Rummy /\ LeaveWaitingTable(c)
LeavePatti(c) == Patti /\ LeaveWaitingTable(c)
RemoveFromReQueue(c) == Rummy /\ RemoveFromQueue(c)
RemoveFromPattiQueue(c) == Patti /\ RemoveFromQueue(c)
MatchRe(p, t) == Rummy /\ GetUserQueueData(p, t)
MatchPatti(p, t) == Patti /\ GetUserQueueData(p, t)
GetEmptySeatReTables(p) == Rummy /\ GetEmptySeatTable(p)
GetEmptySeatPattiTables(p) == Patti /\ GetEmptySeatTable(p)
JoinExistingReTable(p) == Rummy /\ JoinExistingTable(p)
JoinExistingPattiTable(p) == Patti /\ JoinExistingTable(p)
CreateNewReTable(p) == Rummy /\ CreateNewTable(p)
CreateNewPattiTable(p) == Patti /\ CreateNewTable(p)
EndMatchRe(p) == Rummy /\ EndMatch(p)
EndMatchPatti(p) == Patti /\ EndMatch(p)

Request(c) ==
  \/ \E u \in Callers, t \in Types : OnJoinTable(c, u, t) \/ OnBuyIn(c, u, t)
  \/ \E u \in Callers : OnLeaveWaitingRummy(c, u) \/ OnLeaveWaitingPatti(c, u)
  \/ LockUser(c)
  \/ AddToReQueue(c) \/ AddToPattiQueue(c)
  \/ LeaveRummy(c) \/ LeavePatti(c)
  \/ RemoveFromReQueue(c) \/ RemoveFromPattiQueue(c)
  \/ \E m \in timers : HandleMatchingTime(c, m)

Match(p) ==
  \/ \E t \in Types : MatchRe(p, t) \/ MatchPatti(p, t)
  \/ GetQueueLock(p) \/ SetQueueLock(p)
  \/ GetEmptySeatReTables(p) \/ GetEmptySeatPattiTables(p)
  \/ JoinExistingReTable(p) \/ JoinExistingPattiTable(p)
  \/ CreateNewReTable(p) \/ CreateNewPattiTable(p)
  \/ EndMatchRe(p) \/ EndMatchPatti(p)

Next ==
  \/ Tick \/ Restart
  \/ \E c \in CallIds : Request(c)
  \/ \E u \in Users : HandleConnection(u)
  \/ \E p \in PassIds : Match(p)
  \/ \E k \in DOMAIN tables : RemoveTable(k)

Spec == Init /\ [][Next]_vars
-----------------------------------------------------------------------------
Slipped(u) == \E s \in slips : s[2] = u
Busy(u) ==
  \/ \E c \in CallIds : calls[c].user = u
  \/ \E p \in PassIds : u \in passes[p].keys

Standing(u) ==
  (IF u \in out THEN {"out"} ELSE {})
  \union (IF waitsIn[u] # None THEN {"waiting"} ELSE {})
  \union (IF active[u] # None THEN {"playing"} ELSE {})

TypeOK ==
  /\ clock \in 1..LastTick
  /\ queue \in [Types -> [Users -> -1..(LastTick + MatchingTime)]]
  /\ waitsIn \in [Users -> Types \union {None}]
  /\ active \in [Users -> DOMAIN tables \union {None}]
  /\ locks \subseteq Users /\ held \subseteq Types /\ out \subseteq Users
  /\ \A k \in DOMAIN tables : tables[k].players \subseteq Users
  /\ \A p \in PassIds : passes[p].gone \subseteq passes[p].keys

(* Nobody sits at two tables, no table is overfull, and who was told to be  *)
(* out of it neither waits nor sits.                                        *)
SeatedOnce ==
  /\ \A u \in Users : ~Slipped(u) =>
       /\ Cardinality(SeatsOf(u)) <= 1
       /\ u \in out => SeatsOf(u) = {}
       /\ u \in out /\ ~Busy(u) => \A t \in Types : ~Waits(u, t)
  /\ \A k \in DOMAIN tables : slips = {} => Cardinality(tables[k].players) <= Room[tables[k].type]

(* Between the requests and matches that concern a player, the waiting key  *)
(* says where it waits, the pointer where it sits, and it waits, plays or   *)
(* has been told to be out of it.                                           *)
WaitersAreKnown ==
  \A u \in Users : ~Slipped(u) /\ ~Busy(u) =>
    /\ \A t \in Types : waitsIn[u] = t <=> Waits(u, t)
    /\ \A k \in DOMAIN tables : active[u] = k <=> Seated(u, k)
    /\ Cardinality(Standing(u)) = 1
    /\ u \notin locks

(* In Rummy somebody who waits has a timer to come that will find it.       *)
NobodyWaitsForEver ==
  \A u \in Users : app = "rummy" /\ ~Slipped(u) /\ waitsIn[u] # None =>
    \/ \E m \in timers : m.user = u /\ m.no = number[u] /\ m.at <= queue[waitsIn[u]][u]
    \/ Busy(u)
=============================================================================
