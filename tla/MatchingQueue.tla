---------------------------- MODULE MatchingQueue ----------------------------
(***************************************************************************)
(* How players of Snakes and Ladders, and of cricket, come to a table.     *)
(* Unlike Ludo's queue this one is locked: joining and leaving hold the    *)
(* lock of the table type and of the player, a match holds that of the     *)
(* type.  What is not locked: a match does not wait for the games it       *)
(* starts, and the key that says where a player waits is shared by types.  *)
(*                                                                         *)
(* app is the game a behaviour is about; slips names players to whom       *)
(* something happened that the code lets through.                          *)
(***************************************************************************)
EXTENDS Integers, Sequences, FiniteSets, SequencesExt

CONSTANTS
  Users, Types,
  MaxPlayer,       \* type -> players of a table of Snakes and Ladders
  Restricted,      \* isIPRestrictionEnabled
  Ip,              \* user -> address
  MatchingTime, Extension,
  LastTick,        \* bound: seconds
  MaxJoins         \* bound: joinTable requests

VARIABLES app, clock,
          queue,     \* type -> user -> expiry
          waitsIn,   \* user -> type
          active,    \* user -> number of a table
          tables,
          due,       \* types a tick has asked to match
          removing,  \* type -> players whose keys a match is about to delete
          joins, slips

vars == <<app, clock, queue, waitsIn, active, tables, due, removing, joins, slips>>

None == -1
PlayersPerGame == 2

Init ==
  /\ app \in {"snakes", "cricket"}
  /\ clock = 1
  /\ queue = [t \in Types |-> [u \in Users |-> None]]
  /\ waitsIn = [u \in Users |-> None]
  /\ active = [u \in Users |-> None]
  /\ tables = <<>>
  /\ due = {}
  /\ removing = [t \in Types |-> {}]
  /\ joins = 0
  /\ slips = {}

Locked(t) == removing[t] # {}
Waits(u, t) == queue[t][u] # None
Seated(u) == \E k \in DOMAIN tables : u \in Range(tables[k].players)

(* The entry, and the key that names the type. *)
PutInQueue(u, t) ==
  /\ queue' = [queue EXCEPT ![t][u] = clock + MatchingTime]
  /\ waitsIn' = [waitsIn EXCEPT ![u] = t]

(* Nothing asks whether the player waits or plays already; who joins again  *)
(* has the group wait longer.                                               *)
HandleJoinTableRequest(u, t) ==
  /\ ~Locked(t) /\ joins < MaxJoins
  /\ joins' = joins + 1
  /\ PutInQueue(u, t)
  /\ slips' = slips \union (IF Seated(u) THEN {<<"joined while playing", u>>} ELSE {})
                    \union (IF \E o \in Types \ {t} : Waits(u, o) \/ u \in removing[o]
                            THEN {<<"two queues", u>>} ELSE {})
                    \union (IF Waits(u, t) THEN {<<"renewed", u>>} ELSE {})
  /\ UNCHANGED <<app, clock, active, tables, due, removing>>

JoinSnakes(u, t) == app = "snakes" /\ HandleJoinTableRequest(u, t)
JoinCricket(u, t) == app = "cricket" /\ HandleJoinTableRequest(u, t)

(* A request that names another type than the key is passed over. *)
LeaveWaitingTable(u, t) ==
  /\ ~Locked(t) /\ waitsIn[u] = t
  /\ queue' = [queue EXCEPT ![t][u] = None]
  /\ waitsIn' = [waitsIn EXCEPT ![u] = None]
  /\ slips' = slips \union (IF \E x \in Users \ {u} : Waits(x, t) /\ queue[t][x] < clock
                            THEN {<<"left at the last moment", u>>} ELSE {})
  /\ UNCHANGED <<app, clock, active, tables, due, removing, joins>>

LeaveSnakes(u, t) == app = "snakes" /\ LeaveWaitingTable(u, t)
LeaveCricket(u, t) == app = "cricket" /\ LeaveWaitingTable(u, t)
-----------------------------------------------------------------------------
(* Those who wait, by expiry. *)
Entries(t) == {[user |-> u, expiry |-> queue[t][u]] : u \in {x \in Users : Waits(x, t)}}
UsersFromQueue(t) == {s \in SetToSeqs(Entries(t)) : \A i, j \in DOMAIN s : i < j => s[i].expiry <= s[j].expiry}

SplitWaitingUsers(s) ==
  FoldLeft(LAMBDA groups, w :
             LET free == {i \in DOMAIN groups : \A x \in Range(groups[i]) : Ip[x.user] # Ip[w.user]}
             IN  IF free = {} THEN Append(groups, <<w>>)
                 ELSE LET i == CHOOSE i \in free : \A j \in free : i <= j
                      IN  [groups EXCEPT ![i] = Append(@, w)],
           <<>>, s)

Chunks(s, size) ==
  [i \in 1..((Len(s) + size - 1) \div size) |->
     SubSeq(s, (i - 1) * size + 1, IF i * size <= Len(s) THEN i * size ELSE Len(s))]

AllChunks(groups, size) == FlattenSeq([i \in DOMAIN groups |-> Chunks(groups[i], size)])

(* When a group is matched: one alone never, a full one when the last has   *)
(* come, others some time after the second came.                            *)
(* Mutant: the first player's own time does not count.                      *)
TimeoutAfterSecond(g, size) ==
  IF Len(g) = 1 THEN g[1].expiry
  ELSE IF Len(g) < size THEN g[2].expiry - MatchingTime + Extension
       ELSE g[size].expiry - MatchingTime

MatchingTimeout(g, size) ==
  LET second == g[2].expiry - MatchingTime + Extension
  IN  IF Len(g) = 1 THEN g[1].expiry
      ELSE IF Len(g) < size THEN IF g[1].expiry > second THEN second ELSE g[1].expiry
           ELSE g[size].expiry - MatchingTime

(* In cricket a second later, and two play. *)
CricketTimeout(g) ==
  IF Len(g) = 1 THEN g[1].expiry ELSE g[PlayersPerGame].expiry - MatchingTime + 1

Tick ==
  /\ clock < LastTick /\ due = {} /\ \A t \in Types : ~Locked(t)
  /\ clock' = clock + 1
  /\ due' = Types
  /\ UNCHANGED <<app, queue, waitsIn, active, tables, removing, joins, slips>>

(* The games are started and not waited for; the entries go, then the keys. *)
MatchChunks(t, chunks, late(_)) ==
  LET over == SelectSeq(chunks, late)
      full == SelectSeq(over, LAMBDA g : Len(g) > 1)
      gone == UNION {{over[i][j].user : j \in DOMAIN over[i]} : i \in DOMAIN over}
  IN  /\ tables' = tables \o [i \in DOMAIN full |->
                     [type |-> t, players |-> [j \in DOMAIN full[i] |-> full[i][j].user], stored |-> FALSE]]
      /\ queue' = [queue EXCEPT ![t] = [u \in Users |-> IF u \in gone THEN None ELSE @[u]]]
      /\ removing' = [removing EXCEPT ![t] = gone]
      /\ due' = due \ {t}
      /\ UNCHANGED <<app, clock, waitsIn, active, joins, slips>>

MatchSnakes(t) ==
  /\ app = "snakes" /\ t \in due /\ ~Locked(t)
  /\ \E s \in UsersFromQueue(t) :
       MatchChunks(t, AllChunks(IF t \in Restricted THEN SplitWaitingUsers(s) ELSE <<s>>, MaxPlayer[t]),
                   LAMBDA g : clock > MatchingTimeout(g, MaxPlayer[t]))

MatchCricket(t) ==
  /\ app = "cricket" /\ t \in due /\ ~Locked(t)
  /\ \E s \in UsersFromQueue(t) :
       MatchChunks(t, Chunks(s, PlayersPerGame), LAMBDA g : clock > CricketTimeout(g))

RemoveWaitingKeys(t) ==
  /\ Locked(t)
  /\ waitsIn' = [u \in Users |-> IF u \in removing[t] THEN None ELSE waitsIn[u]]
  /\ removing' = [removing EXCEPT ![t] = {}]
  /\ UNCHANGED <<app, clock, queue, active, tables, due, joins, slips>>

(* storeGameTable, when the game that was started comes to it. *)
StoreGameTable(k) ==
  /\ ~tables[k].stored
  /\ tables' = [tables EXCEPT ![k].stored = TRUE]
  /\ active' = [u \in Users |-> IF u \in Range(tables[k].players) THEN k ELSE active[u]]
  /\ UNCHANGED <<app, clock, queue, waitsIn, due, removing, joins, slips>>

Next ==
  \/ Tick
  \/ \E u \in Users, t \in Types :
       JoinSnakes(u, t) \/ JoinCricket(u, t) \/ LeaveSnakes(u, t) \/ LeaveCricket(u, t)
  \/ \E t \in Types : MatchSnakes(t) \/ MatchCricket(t) \/ RemoveWaitingKeys(t)
  \/ \E k \in DOMAIN tables : StoreGameTable(k)

Spec == Init /\ [][Next]_vars
-----------------------------------------------------------------------------
(* getReconnectionData: the table played at goes before the queue. *)
Reconnection(u) ==
  CASE active[u] # None -> "table"
    [] active[u] = None /\ waitsIn[u] # None -> "waiting"
    [] OTHER -> "nothing"

Slipped(u) == \E s \in slips : s[2] = u

TypeOK ==
  /\ clock \in 1..LastTick /\ joins \in 0..MaxJoins /\ due \subseteq Types
  /\ queue \in [Types -> [Users -> -1..(LastTick + MatchingTime)]]
  /\ waitsIn \in [Users -> Types \union {None}]
  /\ active \in [Users -> DOMAIN tables \union {None}]
  /\ removing \in [Types -> SUBSET Users]

(* One queue brings a player to one table, where others sit too: unless the *)
(* player asked for more, nobody is seated twice, or alone.                 *)
SeatedOnce ==
  /\ \A u \in Users : ~Slipped(u) =>
       Cardinality({k \in DOMAIN tables : u \in Range(tables[k].players)}) <= 1
  /\ \A k \in DOMAIN tables : Len(tables[k].players) > 1

(* While no match is deleting them, the key and the entry say the same, and *)
(* a client that comes back is sent to the table it plays at, or waits at.  *)
WaitersAreKnown ==
  \A u \in Users : ~Slipped(u) /\ (\A t \in Types : u \notin removing[t]) =>
    /\ \A t \in Types : waitsIn[u] = t <=> Waits(u, t)
    /\ Reconnection(u) = "waiting" <=> \E t \in Types : Waits(u, t)

(* Under the restriction players of one address do not meet at a table of   *)
(* Snakes and Ladders.                                                      *)
AddressesAreApart ==
  \A k \in DOMAIN tables :
    LET p == tables[k].players
    IN  app = "snakes" /\ tables[k].type \in Restricted => \A i, j \in DOMAIN p : i # j => Ip[p[i]] # Ip[p[j]]

(* Once a tick is served nobody waits beyond the time the client was told,  *)
(* but for the second or two a full table takes to be matched, whoever has  *)
(* come or left in the meantime and whatever group is waited in, unless a   *)
(* player keeps joining again, or leaves others whose time is up.           *)
NobodyWaitsTooLong ==
  slips = {} => \A t \in Types, u \in Users :
    t \notin due /\ Waits(u, t) => clock <= queue[t][u] + (IF app = "snakes" THEN 1 ELSE 2)
=============================================================================
