------------------------------ MODULE LudoQueue ------------------------------
(***************************************************************************)
(* How players of Ludo come to a table: the hash of waiting players of     *)
(* each table type, the key that says where a player waits, the pass that  *)
(* matches them every second, and the start of the games it finds.         *)
(*                                                                         *)
(* Joining and leaving take the player's lock, so a player has one such    *)
(* call at a time; a pass takes no lock, is not awaited by the scheduler,  *)
(* and does not wait for the games it starts.  A step is one command of    *)
(* Redis or what happens between two of them.                              *)
(*                                                                         *)
(* slips names players to whom something happened that the code lets       *)
(* through and that spoils what follows.                                   *)
(***************************************************************************)
EXTENDS Integers, Sequences, FiniteSets, SequencesExt

CONSTANTS
  Users,
  TypeSeq,        \* the table types in the order of the remote configuration
  Room,           \* type -> maxPlayer
  Restricted,     \* furious types under isIPRestrictionEnabled
  Ip,             \* user -> address
  Callers,        \* the players who send requests
  Waiting,        \* those who wait at first: user -> type
  MatchingTime,   \* seconds a player waits
  LastTick,       \* bound: seconds
  MaxJoins        \* bound: joinTable requests

VARIABLES clock,     \* seconds
          queue,     \* {tableTypeId}: user -> expiry, 0 once left, None without entry
          waitsIn,   \* userWaitingTable: user -> type
          active,    \* userActiveTable: user -> number of a table
          tables,    \* tables started: players, and whether the start is done
          calls,     \* user -> the call that holds the user's lock
          passes,    \* matchAllTypes under way
          joins,
          slips

vars == <<clock, queue, waitsIn, active, tables, calls, passes, joins, slips>>

None == -1
Types == Range(TypeSeq)
Passes == 1..2                       \* bound: passes that overlap
Idle == [at |-> "idle", type |-> 0, groups |-> <<>>, matched |-> {}, left |-> {}, expired |-> {}]
NoCall == [at |-> "none", type |-> 0]

Init ==
  /\ clock = 1
  /\ queue = [t \in Types |-> [u \in Users |->
                 IF u \in DOMAIN Waiting /\ Waiting[u] = t THEN 1 + MatchingTime ELSE None]]
  /\ waitsIn = [u \in Users |-> IF u \in DOMAIN Waiting THEN Waiting[u] ELSE None]
  /\ active = [u \in Users |-> None]
  /\ tables = <<>>
  /\ calls = [u \in Users |-> NoCall]
  /\ passes = [p \in Passes |-> Idle]
  /\ joins = 0
  /\ slips = {}

Seated(u) == \E k \in DOMAIN tables : u \in Range(tables[k].players)
Waits(u, t) == queue[t][u] > 0
-----------------------------------------------------------------------------
(* joinTable: nothing asks whether the player waits or plays already. *)
JoinTable(u, t) ==
  /\ calls[u] = NoCall /\ joins < MaxJoins
  /\ joins' = joins + 1
  /\ queue' = [queue EXCEPT ![t][u] = clock + MatchingTime]
  /\ calls' = [calls EXCEPT ![u] = [at |-> "joining", type |-> t]]
  /\ slips' = slips \union (IF Seated(u) THEN {<<"joined while playing", u>>} ELSE {})
                    \union (IF \E o \in Types \ {t} : queue[o][u] # None THEN {<<"two queues", u>>} ELSE {})
  /\ UNCHANGED <<clock, waitsIn, active, tables, passes>>

SetUserWaitingQueueName(u) ==
  /\ calls[u].at = "joining"
  /\ waitsIn' = [waitsIn EXCEPT ![u] = calls[u].type]
  /\ calls' = [calls EXCEPT ![u] = NoCall]
  /\ UNCHANGED <<clock, queue, active, tables, passes, joins, slips>>

(* Without a waiting key the player is told "left" at once, without an      *)
(* entry that the request has failed.  The lock of the player makes the     *)
(* three reads one step: only passes write in between, and they delete.     *)
LeaveWaitingTable(u) ==
  /\ calls[u] = NoCall /\ waitsIn[u] # None /\ Waits(u, waitsIn[u])
  /\ calls' = [calls EXCEPT ![u] = [at |-> "removing", type |-> waitsIn[u]]]
  /\ UNCHANGED <<clock, queue, waitsIn, active, tables, passes, joins, slips>>

(* removeFromQueue writes the entry it has read back, with expiry 0. *)
RemoveFromQueue(u) ==
  LET t == calls[u].type
  IN  /\ calls[u].at = "removing"
      /\ queue' = [queue EXCEPT ![t][u] = 0]
      /\ calls' = [calls EXCEPT ![u] = NoCall]
      /\ slips' = slips \union (IF queue[t][u] = None THEN {<<"revived", u>>} ELSE {})
      /\ UNCHANGED <<clock, waitsIn, active, tables, passes, joins>>
-----------------------------------------------------------------------------
(* The waiting players of a type by expiry, those of equal expiry in any order. *)
Entries(t) == {[user |-> u, expiry |-> queue[t][u]] : u \in {x \in Users : queue[t][x] # None}}
InOrder(s) == \A i, j \in DOMAIN s : i < j => s[i].expiry <= s[j].expiry
WaitingUsers(t) == {s \in SetToSeqs(Entries(t)) : InOrder(s)}

SameOrigin(a, b) == Ip[a.user] = Ip[b.user]

(* The first group none of whose members has the same address takes the player. *)
SplitWaitingUsers(s) ==
  FoldLeft(LAMBDA groups, w :
             LET free == {i \in DOMAIN groups : \A x \in Range(groups[i]) : ~SameOrigin(x, w)}
             IN  IF free = {} THEN Append(groups, <<w>>)
                 ELSE LET i == CHOOSE i \in free : \A j \in free : i <= j
                      IN  [groups EXCEPT ![i] = Append(@, w)],
           <<>>, s)

(* The groups of a type one after the other, then the next type. *)
Turn(p, groups) ==
  IF groups # <<>>
  THEN [Idle EXCEPT !.at = "matching", !.type = passes[p].type, !.groups = groups]
  ELSE IF passes[p].type < Len(TypeSeq)
       THEN [Idle EXCEPT !.at = "reading", !.type = passes[p].type + 1]
       ELSE Idle

(* A second starts a pass, whether or not the one before has ended. *)
Tick(p) ==
  /\ clock < LastTick
  /\ clock' = clock + 1
  /\ IF passes[p] = Idle
     THEN passes' = [passes EXCEPT ![p] = [Idle EXCEPT !.at = "reading", !.type = 1]]
     ELSE (\A q \in Passes : passes[q] # Idle) /\ UNCHANGED passes
  /\ UNCHANGED <<queue, waitsIn, active, tables, calls, joins, slips>>

TypeOf(p) == TypeSeq[passes[p].type]

GetWaitingUsers(p) ==
  /\ passes[p].at = "reading"
  /\ \E s \in WaitingUsers(TypeOf(p)) :
       passes' = [passes EXCEPT ![p] = Turn(p,
         IF TypeOf(p) \in Restricted \/ s = <<>> THEN SplitWaitingUsers(s) ELSE <<s>>)]
  /\ UNCHANGED <<clock, queue, waitsIn, active, tables, calls, joins, slips>>

(* The players who have not left, cut into rooms; the last may be short. *)
Remaining(g) == SelectSeq(g, LAMBDA w : w.expiry # 0)
Rooms(g, size) ==
  LET r == Remaining(g)
  IN  [i \in 1..((Len(r) + size - 1) \div size) |->
         SubSeq(r, (i - 1) * size + 1, IF i * size <= Len(r) THEN i * size ELSE Len(r))]

Late(room) == clock > room[1].expiry
Starts(room, size) == Len(room) > 1 /\ (Len(room) = size \/ Late(room))
Expires(room) == Len(room) = 1 /\ Late(room)
UsersOf(s) == {s[i].user : i \in DOMAIN s}
NewTable(room, t) == [type |-> t, players |-> [i \in DOMAIN room |-> room[i].user], stored |-> FALSE]

(* A player matched on an entry that is not there any more, or whom another *)
(* pass is about to delete, is matched on a stale reading.                  *)
Stale(p, w) ==
  \/ queue[TypeOf(p)][w.user] # w.expiry
  \/ \E q \in Passes \ {p} : w.user \in passes[q].matched /\ passes[q].type = passes[p].type

Match(p) ==
  LET t == TypeOf(p)
      g == Head(passes[p].groups)
      rooms == Rooms(g, Room[t])
      started == SelectSeq(rooms, LAMBDA r : Starts(r, Room[t]))
  IN  /\ passes[p].at = "matching"
      /\ tables' = tables \o [i \in DOMAIN started |-> NewTable(started[i], t)]
      /\ passes' = [passes EXCEPT
           ![p].at = "deleting",
           ![p].matched = UNION {UsersOf(started[i]) : i \in DOMAIN started},
           ![p].left = UsersOf(SelectSeq(g, LAMBDA w : w.expiry = 0)),
           ![p].expired = UNION {UsersOf(rooms[i]) : i \in {j \in DOMAIN rooms : Expires(rooms[j])}}]
      /\ slips' = slips \union {<<"stale pass", w.user>> : w \in {x \in Range(g) : Stale(p, x)}}
      /\ UNCHANGED <<clock, queue, waitsIn, active, calls, joins>>

Gone(p) == passes[p].matched \union passes[p].left \union passes[p].expired

(* A player whose entry has changed since it was read loses the new one. *)
DeleteEntries(p) ==
  LET t == TypeOf(p)
  IN  /\ passes[p].at = "deleting"
      /\ queue' = [queue EXCEPT ![t] = [u \in Users |-> IF u \in Gone(p) THEN None ELSE @[u]]]
      /\ passes' = [passes EXCEPT ![p].at = "forgetting"]
      /\ slips' = slips \union {<<"stale pass", w.user>> :
                     w \in {x \in Range(Head(passes[p].groups)) : x.user \in Gone(p) /\ queue[t][x.user] # x.expiry}}
      /\ UNCHANGED <<clock, waitsIn, active, tables, calls, joins>>

DeleteWaitingKeys(p) ==
  /\ passes[p].at = "forgetting"
  /\ waitsIn' = [u \in Users |-> IF u \in Gone(p) THEN None ELSE waitsIn[u]]
  /\ passes' = [passes EXCEPT ![p] = Turn(p, Tail(@.groups))]
  /\ slips' = slips \union {<<"key of a later queue", u>> : u \in {x \in Gone(p) :
       waitsIn[x] \notin {None, TypeOf(p)} \/ queue[TypeOf(p)][x] # None \/ calls[x].at = "joining"}}
  /\ UNCHANGED <<clock, queue, active, tables, calls, joins>>

(* startGame, which nobody waits for: the pointers of the players, one by   *)
(* one, and the table.  Only a client that comes back would see a part of it. *)
StartGame(k) ==
  /\ ~tables[k].stored
  /\ tables' = [tables EXCEPT ![k].stored = TRUE]
  /\ active' = [u \in Users |-> IF u \in Range(tables[k].players) THEN k ELSE active[u]]
  /\ UNCHANGED <<clock, queue, waitsIn, calls, passes, joins, slips>>

Request(u) ==
  \/ \E t \in Types : JoinTable(u, t)
  \/ SetUserWaitingQueueName(u)
  \/ LeaveWaitingTable(u) \/ RemoveFromQueue(u)

Pass(p) ==
  \/ Tick(p) \/ GetWaitingUsers(p) \/ Match(p)
  \/ DeleteEntries(p) \/ DeleteWaitingKeys(p)

Next ==
  \/ \E u \in Callers : Request(u)
  \/ \E p \in Passes : Pass(p)
  \/ \E k \in DOMAIN tables : StartGame(k)

Spec == Init /\ [][Next]_vars
-----------------------------------------------------------------------------
(* What connected answers a client: a key whose entry is missing makes it fail. *)
Connected(u) ==
  CASE waitsIn[u] # None -> IF queue[waitsIn[u]][u] # None THEN "waiting" ELSE "fails"
    [] waitsIn[u] = None /\ active[u] # None -> "started"
    [] OTHER -> "not reconnected"

Slipped(u) == \E s \in slips : s[2] = u
Busy(u) == calls[u] # NoCall \/ \E p \in Passes : u \in Gone(p)

TypeOK ==
  /\ clock \in 1..LastTick /\ joins \in 0..MaxJoins
  /\ queue \in [Types -> [Users -> -1..(LastTick + MatchingTime)]]
  /\ waitsIn \in [Users -> Types \union {None}]
  /\ active \in [Users -> DOMAIN tables \union {None}]
  /\ \A p \in Passes : passes[p].type \in 0..Len(TypeSeq) /\ Gone(p) \subseteq Users

(* One queue brings a player to one table: unless the player asked for a    *)
(* second one, or a pass worked on a reading that another had overtaken,    *)
(* nobody is seated twice, although a pass neither locks the queue nor      *)
(* waits for the games it starts.                                           *)
SeatedOnce ==
  \A u \in Users : ~Slipped(u) =>
    Cardinality({k \in DOMAIN tables : u \in Range(tables[k].players)}) <= 1

(* Between the calls and passes that concern a player, the waiting key and  *)
(* the entry say the same, so that a client that comes back is answered     *)
(* and can leave.                                                           *)
WaitersAreKnown ==
  \A u \in Users : ~Slipped(u) /\ ~Busy(u) =>
    /\ \A t \in Types : waitsIn[u] = t <=> queue[t][u] # None
    /\ waitsIn[u] # None => ~Seated(u)
    /\ Connected(u) # "fails"

(* Under the restriction players of one address do not meet at a table. *)
AddressesAreApart ==
  \A k \in DOMAIN tables :
    LET g == tables[k]
    IN  g.type \in Restricted =>
          \A i, j \in DOMAIN g.players : i # j => Ip[g.players[i]] # Ip[g.players[j]]
=============================================================================
