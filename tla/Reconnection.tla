----------------------------- MODULE Reconnection -----------------------------
(***************************************************************************)
(* The connections of one player to one gateway: a socket opens while an    *)
(* older one is still open, or drops and is replaced; the gateway looks up  *)
(* where the player is, tells the new socket, takes it into the room of the *)
(* table and closes the older ones.  Meanwhile the player is matched, and   *)
(* seated, leaves, or the game goes on and ends.                            *)
(*                                                                         *)
(* The gateways do this in six styles:                                      *)
(*   "skill patti", "rummy"  the id of the socket is kept in Redis;         *)
(*   "callbreak"  sockets are in a room of the user, nothing else is kept;  *)
(*   "ludo"       as callbreak, but the queue, the pointer and the database *)
(*                are asked in turn, and leaving is noticed;                *)
(*   "board"      snakes and the mega tournament: as callbreak;             *)
(*   "main"       the gateway of the lobby asks each game in turn.          *)
(* Sockets are numbered in the order in which they connect; tables are      *)
(* numbered too, and for the lobby table g is the one of game g.            *)
(***************************************************************************)
EXTENDS Integers, FiniteSets

CONSTANTS MaxSockets,   \* connections of the player
          MaxTables,    \* tables on which the player is seated
          MaxSteps      \* stages of their games

Sockets == 1..MaxSockets
Tables == 1..MaxTables
Styles == {"skill patti", "rummy", "callbreak", "ludo", "board", "main"}
Stages == {"playing", "showing", "ended"}

VARIABLES style,     \* of this gateway
          open,      \* sockets that are connected
          latest,    \* the newest of them all
          conns,     \* connections: what handleConnection knows so far
          rooms,     \* tables in whose room a socket is
          told,      \* what the client on a socket was told last
          stored,    \* the socket id in Redis, 0 for none
          storing,   \* sockets whose id is on its way to Redis
          locked,    \* the user lock, a flag
          place,     \* [active: the pointer to a table, waiting: in a queue]
          stage,     \* of each table: "none", a stage of its game, "over"
          seatings,  \* players on their way from a match into the room
          steps,
          slips      \* what came between, and is not looked at further

vars == <<style, open, latest, conns, rooms, told, stored, storing, locked, place, stage, seatings, steps, slips>>

Idle == [at |-> "idle", table |-> 0, seen |-> "none", previous |-> 0]
Alive(t) == stage[t] \in Stages
ByUser == style \notin {"skill patti", "rummy"}

TypeOK ==
  /\ style \in Styles /\ open \subseteq 1..latest /\ latest \in 0..MaxSockets
  /\ conns \in [Sockets -> [at : {"idle", "asked", "queue", "database", "table", "found", "joined"},
                            table : 0..MaxTables, seen : {"none", "over"} \union Stages,
                            previous : 0..MaxSockets]]
  /\ rooms \in [Sockets -> SUBSET Tables]
  /\ told \in [Sockets -> {"nothing", "free", "waiting", "outdated"} \union Stages]
  /\ stored \in 0..MaxSockets /\ storing \subseteq Sockets /\ locked \in BOOLEAN
  /\ place \in [active : 0..MaxTables, waiting : BOOLEAN]
  /\ stage \in [Tables -> {"none", "over"} \union Stages]
  /\ seatings \subseteq [table : Tables, at : {"fetch", "join"}, socket : 0..MaxSockets]
  /\ steps \in 0..MaxSteps
  /\ slips \subseteq {"twins", "overtaken", "spoke out of turn", "matched while connecting",
                      "left while connecting", "stale picture", "moved while asked"}

Init ==
  /\ style \in Styles
  /\ open = {} /\ latest = 0 /\ conns = [s \in Sockets |-> Idle]
  /\ rooms = [s \in Sockets |-> {}] /\ told = [s \in Sockets |-> "nothing"]
  /\ stored = 0 /\ storing = {} /\ locked = FALSE
  /\ place = [active |-> 0, waiting |-> FALSE]
  /\ stage = [t \in Tables |-> "none"] /\ seatings = {} /\ steps = 0 /\ slips = {}

Slip(when, what) == slips' = slips \union (IF when THEN {what} ELSE {})
-----------------------------------------------------------------------------
(* The rooms and the sockets: what is closed is in no room and hears nothing. *)
Keep(sockets) ==
  /\ open' = open \intersect sockets
  /\ rooms' = [s \in Sockets |-> IF s \in open \intersect sockets THEN rooms[s] ELSE {}]

Tell(sockets, what) == told' = [s \in Sockets |-> IF s \in sockets \intersect open THEN what ELSE told[s]]

InRoom(t) == {s \in open : t \in rooms[s]}

SocketsJoin(sockets, t) ==
  rooms' = [s \in Sockets |-> IF s \in sockets \intersect open THEN rooms[s] \union {t} ELSE rooms[s]]

(* A socket drops.  The handlers of a disconnection do nothing.             *)
HandleDisconnect(s) ==
  /\ s \in open /\ Keep(Sockets \ {s}) /\ told' = [told EXCEPT ![s] = "nothing"]
  /\ conns' = IF ByUser THEN [conns EXCEPT ![s] = Idle] ELSE conns
  /\ UNCHANGED <<style, latest, stored, storing, locked, place, stage, seatings, steps, slips>>

(* A new socket.  By user, the older ones are logged out and closed at once, *)
(* and what their handlers still do reaches nobody; otherwise the user lock *)
(* is set, and the ids are compared later.                                  *)
HandleConnection ==
  LET s == latest + 1 IN
  /\ s \in Sockets /\ latest' = s
  /\ conns' = [r \in Sockets |-> CASE r = s -> [Idle EXCEPT !.at = "asked"]
                                   [] r # s /\ ByUser -> Idle
                                   [] OTHER -> conns[r]]
  /\ IF ByUser
     THEN open' = {s} /\ rooms' = [r \in Sockets |-> {}] /\ told' = [r \in Sockets |-> "nothing"]
          /\ UNCHANGED locked
     ELSE open' = open \union {s} /\ locked' = TRUE /\ UNCHANGED <<rooms, told>>
  /\ UNCHANGED <<style, stored, storing, place, stage, seatings, steps, slips>>

(* The last words of handleConnection: the answer, the previous socket      *)
(* closed, the lock taken off - whoever else may be connecting.             *)
ForceLogout(previous) == Keep(Sockets \ {previous})
Answer(s, what, previous) ==
  /\ told' = [r \in Sockets |-> CASE r = previous -> "nothing"
                                  [] r # previous /\ r = s /\ s \in open -> what
                                  [] OTHER -> told[r]]
  /\ conns' = [conns EXCEPT ![s] = Idle]
  /\ locked' = FALSE

Find(s, at, t, previous) ==
  conns' = [conns EXCEPT ![s] = [Idle EXCEPT !.at = at, !.table = t, !.previous = previous]]
-----------------------------------------------------------------------------
(* Skill Patti and Rummy: pointer, socket id and queue are read together,   *)
(* and the new id is written without waiting for it.                        *)
Connected(s) ==
  /\ ~ByUser /\ conns[s].at = "asked"
  /\ storing' = storing \union {s}
  /\ slips' = slips \union (IF storing # {} THEN {"twins"} ELSE {})
                    \union (IF stored > s \/ \E r \in Sockets : r < s /\ conns[r].at = "asked"
                            THEN {"overtaken"} ELSE {})
  /\ IF place.active # 0
     THEN /\ Find(s, "table", place.active, stored)
          /\ UNCHANGED <<open, rooms, told, locked>>
     ELSE /\ Answer(s, IF place.waiting THEN "waiting" ELSE "free", stored)
          /\ ForceLogout(stored)
  /\ UNCHANGED <<style, latest, stored, place, stage, seatings, steps>>

SetUserSocketId(s) ==
  /\ s \in storing /\ storing' = storing \ {s} /\ stored' = s
  /\ UNCHANGED <<style, open, latest, conns, rooms, told, locked, place, stage, seatings, steps, slips>>

(* Callbreak and the board games: the pointer.  Who waits at a table of     *)
(* Callbreak has a pointer too, to a table that waits.                      *)
ConnectedByUser(s) ==
  /\ style \in {"callbreak", "board"} /\ conns[s].at = "asked"
  /\ IF place.active # 0
     THEN Find(s, "table", place.active, 0) /\ UNCHANGED <<told, locked>>
     ELSE Answer(s, IF place.waiting THEN "waiting" ELSE "free", 0)
  /\ UNCHANGED <<style, open, latest, rooms, stored, storing, place, stage, seatings, steps, slips>>

(* Ludo: the queue goes before the pointer, and without either the database *)
(* is asked for a game that has started.                                    *)
ConnectedToLudo(s) ==
  /\ style = "ludo" /\ conns[s].at = "asked"
  /\ CASE place.waiting -> Find(s, "queue", 0, 0)
       [] ~place.waiting /\ place.active # 0 -> Find(s, "table", place.active, 0)
       [] OTHER -> Find(s, "database", 0, 0)
  /\ UNCHANGED <<style, open, latest, rooms, told, stored, storing, locked, place, stage, seatings, steps, slips>>

(* A player who is no longer in the queue makes this throw, and is told     *)
(* that nothing was found.                                                  *)
WaitingInLudo(s) ==
  /\ conns[s].at = "queue"
  /\ Answer(s, IF place.waiting THEN "waiting" ELSE "free", 0)
  /\ Slip(place.active # 0, "matched while connecting")
  /\ UNCHANGED <<style, open, latest, rooms, stored, storing, place, stage, seatings, steps>>

OngoingGame(s) ==
  /\ conns[s].at = "database"
  /\ IF place.active # 0 /\ Alive(place.active)
     THEN Find(s, "table", place.active, 0) /\ UNCHANGED <<told, locked>>
     ELSE Answer(s, "free", 0)
  /\ UNCHANGED <<style, open, latest, rooms, stored, storing, place, stage, seatings, steps, slips>>

(* The lobby asks one game after the other; a place in its queue or at its  *)
(* table is the same to it.                                                 *)
GetConnectedGame(s) ==
  LET game == conns[s].table + 1 IN
  /\ style = "main" /\ conns[s].at = "asked"
  /\ CASE place.active = game -> Answer(s, "playing", 0)
       [] place.active # game /\ game < MaxTables -> Find(s, "asked", game, 0) /\ UNCHANGED <<told, locked>>
       [] OTHER -> Answer(s, "free", 0)
  /\ UNCHANGED <<style, open, latest, rooms, stored, storing, place, stage, seatings, steps, slips>>
-----------------------------------------------------------------------------
(* The table, or that there is none any more.  Ludo sees whether the player *)
(* has left it.  The id is written by then: Redis keeps the order.          *)
GetTable(s) ==
  LET t == conns[s].table IN
  /\ conns[s].at = "table" /\ s \notin storing
  /\ conns' = [conns EXCEPT ![s].at = "found",
                            ![s].seen = IF ~Alive(t) \/ (style = "ludo" /\ place.active # t) THEN "over" ELSE stage[t]]
  /\ UNCHANGED <<style, open, latest, rooms, told, stored, storing, locked, place, stage, seatings, steps, slips>>

(* The client is told what the table was, and joins its room.  Callbreak,   *)
(* Ludo and the board games have closed the older sockets before.           *)
Enter(s) == SocketsJoin(IF conns[s].seen = "over" THEN {} ELSE {s}, conns[s].table)
Seen(s) == IF conns[s].seen = "over" THEN "free" ELSE conns[s].seen
LeftBehind(s) ==
  Slip(/\ style # "ludo" /\ conns[s].seen # "over"
       /\ place.active # conns[s].table /\ Alive(conns[s].table), "left while connecting")

ReconnectByUser(s) ==
  /\ ByUser /\ conns[s].at = "found"
  /\ Answer(s, Seen(s), 0) /\ Enter(s) /\ LeftBehind(s)
  /\ UNCHANGED <<style, open, latest, stored, storing, place, stage, seatings, steps>>

(* Skill Patti and Rummy close the previous socket last.                    *)
EnterAlone(s) ==
  LET previous == conns[s].previous IN
  /\ open' = open \ {previous}
  /\ rooms' = [r \in Sockets |->
       CASE r = previous -> {}
         [] r # previous /\ r = s /\ s \in open /\ conns[s].seen # "over" -> rooms[s] \union {conns[s].table}
         [] OTHER -> rooms[r]]

ReconnectToPatti(s) ==
  /\ style = "skill patti" /\ conns[s].at = "found"
  /\ Answer(s, Seen(s), conns[s].previous) /\ EnterAlone(s) /\ LeftBehind(s)
  /\ UNCHANGED <<style, latest, stored, storing, place, stage, seatings, steps>>

ReconnectToRummy(s) ==
  /\ style = "rummy"
  /\ conns[s].at = "joined" \/ (conns[s].at = "found" /\ conns[s].seen # "ended")
  /\ Answer(s, Seen(s), conns[s].previous) /\ EnterAlone(s) /\ LeftBehind(s)
  /\ UNCHANGED <<style, latest, stored, storing, place, stage, seatings, steps>>

(* At the end of a round of Rummy its result is computed before the client  *)
(* is told, when the socket is in the room already.                         *)
GetRoundResult(s) ==
  /\ style = "rummy" /\ conns[s].at = "found" /\ conns[s].seen = "ended"
  /\ conns' = [conns EXCEPT ![s].at = "joined"]
  /\ Enter(s)
  /\ UNCHANGED <<style, open, latest, told, stored, storing, locked, place, stage, seatings, steps, slips>>
-----------------------------------------------------------------------------
(* A request to join a queue.  Skill Patti and Rummy write the id of its    *)
(* socket before they look at the user lock: an older socket takes the      *)
(* place of the newer one so, and one that speaks before its connection has *)
(* read the previous id is taken for the previous one and closed.           *)
JoinTable(s) ==
  LET accepted == place.active = 0 /\ ~place.waiting /\ ~locked IN
  /\ style # "main" /\ s \in open /\ (ByUser => accepted)
  /\ place' = [place EXCEPT !.waiting = @ \/ accepted]
  /\ stored' = IF ByUser THEN stored ELSE s
  /\ Tell({s}, IF accepted THEN "waiting" ELSE told[s])
  /\ CASE ~ByUser /\ (s # latest \/ conns[s].at = "asked") -> Slip(TRUE, "spoke out of turn")
       [] OTHER -> Slip(accepted /\ conns[s].at \in {"database", "table", "found"}, "stale picture")
  /\ UNCHANGED <<style, open, latest, conns, rooms, storing, locked, stage, seatings, steps>>

(* When its time in the queue is over, the client asks whether it has a      *)
(* table, and is taken out of the queue.  In Ludo it joins the room as well. *)
CheckIfJoined(s) ==
  /\ ~ByUser /\ s \in open /\ place.waiting /\ told[s] = "waiting"
  /\ place' = [place EXCEPT !.waiting = FALSE]
  /\ Tell({s}, "free")
  /\ Slip(s # latest, "spoke out of turn")
  /\ UNCHANGED <<style, open, latest, conns, rooms, stored, storing, locked, stage, seatings, steps>>

CheckIfJoinedLudo(s) ==
  LET joined == place.active # 0 /\ Alive(place.active) IN
  /\ style = "ludo" /\ s \in open /\ conns[s] = Idle /\ told[s] = "waiting" /\ place.active # 0
  /\ SocketsJoin(IF joined THEN {s} ELSE {}, place.active)
  /\ Tell({s}, IF joined THEN stage[place.active] ELSE "free")
  /\ UNCHANGED <<style, open, latest, conns, stored, storing, locked, place, stage, seatings, steps, slips>>

(* The match sets the pointer and makes, or finds, the table; Ludo clears   *)
(* the queue afterwards.  On a gateway of one game the player waited for    *)
(* it; the lobby sees only that the player is now in one.                   *)
Match(t) ==
  /\ place.waiting \/ style = "main"
  /\ place.active = 0 /\ stage[t] = "none"
  /\ place' = [active |-> t, waiting |-> style = "ludo"]
  /\ stage' = [stage EXCEPT ![t] = "playing"]
  /\ IF style = "main"
     THEN Tell(open, "outdated") /\ UNCHANGED seatings
     ELSE seatings' = seatings \union {[table |-> t, at |-> IF ByUser THEN "join" ELSE "fetch", socket |-> 0]}
          /\ UNCHANGED told
  /\ Slip(style = "main" /\ \E s \in open : conns[s].at = "asked" /\ conns[s].table >= t, "moved while asked")
  /\ UNCHANGED <<style, open, latest, conns, rooms, stored, storing, locked, steps>>

DeleteFromQueue ==
  /\ place.waiting /\ place.active # 0 /\ place' = [place EXCEPT !.waiting = FALSE]
  /\ UNCHANGED <<style, open, latest, conns, rooms, told, stored, storing, locked, stage, seatings, steps, slips>>

(* Skill Patti and Rummy look up the socket that joins the room.            *)
GetUserSocketId(j) ==
  /\ j \in seatings /\ j.at = "fetch"
  /\ seatings' = (seatings \ {j}) \union {[j EXCEPT !.at = "join", !.socket = stored]}
  /\ Slip(\E s \in storing \intersect open : conns[s].at = "idle", "matched while connecting")
  /\ UNCHANGED <<style, open, latest, conns, rooms, told, stored, storing, locked, place, stage, steps>>

JoinRoom(j) ==
  LET joining == IF ByUser THEN open ELSE {j.socket} IN
  /\ j \in seatings /\ j.at = "join" /\ seatings' = seatings \ {j}
  /\ SocketsJoin(joining, j.table)
  /\ Tell(joining, IF Alive(j.table) THEN stage[j.table] ELSE "free")
  /\ UNCHANGED <<style, open, latest, conns, stored, storing, locked, place, stage, steps, slips>>
-----------------------------------------------------------------------------
Overlooked(t) == \E s \in Sockets : conns[s].at \in {"found", "joined"} /\ conns[s].table = t

Outdated(what) == IF style = "main" THEN "outdated" ELSE what

(* The player leaves, asked for by a client that knows of the table and is  *)
(* not locked out, or because a timer ran out too often.  By then the       *)
(* player is in the room and out of the queue; LudoQueue has the rest.      *)
LeaveTable ==
  LET t == place.active
      leaving == IF ByUser THEN open ELSE {stored}
  IN  /\ t # 0 /\ Alive(t) /\ {j \in seatings : j.table = t} = {} /\ ~place.waiting
      /\ place' = [place EXCEPT !.active = 0]
      /\ rooms' = [s \in Sockets |-> IF s \in leaving THEN rooms[s] \ {t} ELSE rooms[s]]
      /\ Tell(IF style = "main" THEN open ELSE leaving \intersect InRoom(t), Outdated("free"))
      /\ Slip(Overlooked(t), "stale picture")
      /\ UNCHANGED <<style, open, latest, conns, stored, storing, locked, stage, seatings, steps>>

OnLeaveTable == (\E s \in open : told[s] \in Stages) /\ (~ByUser => ~locked) /\ LeaveTable
SkippedTooOften == steps < MaxSteps /\ LeaveTable

(* The game goes on, and the room hears of it.                              *)
Proceed(t) ==
  /\ steps < MaxSteps /\ stage[t] \in {"playing", "showing"} /\ steps' = steps + 1
  /\ {j \in seatings : j.table = t} = {}
  /\ stage' = [stage EXCEPT ![t] = IF @ = "playing" THEN "showing" ELSE "ended"]
  /\ IF style = "main" THEN Tell(open, "outdated") ELSE Tell(InRoom(t), stage'[t])
  /\ Slip(Overlooked(t), "stale picture")
  /\ UNCHANGED <<style, open, latest, conns, rooms, stored, storing, locked, place, seatings>>

EndGame(t) ==
  /\ stage[t] = "ended" /\ ~(place.active = t /\ place.waiting) /\ stage' = [stage EXCEPT ![t] = "over"]
  /\ place' = [place EXCEPT !.active = IF @ = t THEN 0 ELSE @]
  /\ IF style = "main" THEN Tell(open, "outdated") ELSE Tell(InRoom(t), "free")
  /\ rooms' = [s \in Sockets |-> IF ByUser THEN rooms[s] \ {t} ELSE rooms[s]]
  /\ Slip(Overlooked(t), "stale picture")
  /\ UNCHANGED <<style, open, latest, conns, stored, storing, locked, seatings, steps>>

Next ==
  \/ HandleConnection
  \/ \E s \in Sockets :
       \/ HandleDisconnect(s) \/ Connected(s) \/ SetUserSocketId(s) \/ ConnectedByUser(s)
       \/ ConnectedToLudo(s) \/ WaitingInLudo(s) \/ OngoingGame(s) \/ GetConnectedGame(s)
       \/ GetTable(s) \/ ReconnectByUser(s) \/ ReconnectToPatti(s) \/ ReconnectToRummy(s) \/ GetRoundResult(s)
       \/ JoinTable(s) \/ CheckIfJoined(s) \/ CheckIfJoinedLudo(s)
  \/ \E t \in Tables : Match(t) \/ Proceed(t) \/ EndGame(t)
  \/ \E j \in seatings : GetUserSocketId(j) \/ JoinRoom(j)
  \/ DeleteFromQueue \/ OnLeaveTable \/ SkippedTooOften

Spec == Init /\ [][Next]_vars
-----------------------------------------------------------------------------
Settled == slips = {} /\ storing = {} /\ seatings = {} /\ \A s \in Sockets : conns[s] = Idle

(* When nobody is connecting, the player has one socket, the newest; where  *)
(* its id is kept, it is the id that is kept, so what is sent to the player *)
(* arrives there (handleConnection, forceLogout, setUserSocketId).          *)
NewestSocketStays ==
  Settled => /\ open \subseteq {latest}
             /\ ~ByUser => open \subseteq {stored}

(* The socket of a player at a table is in its room, and in the room of no  *)
(* table that the player has left (client.join, socketsJoin, socketsLeave). *)
RoomFollowsSeat ==
  Settled /\ style # "main" => \A s \in open, t \in Tables : Alive(t) => (t \in rooms[s] <=> place.active = t)

(* The client knows where the player is and how far the game has come,      *)
(* whatever happened while it was not connected (reconnectGame).            *)
ToldTheTruth ==
  Settled => \A s \in open :
    \/ told[s] = "outdated"
    \/ told[s] = CASE place.active # 0 -> IF style = "main" THEN "playing" ELSE stage[place.active]
                   [] place.active = 0 /\ place.waiting -> "waiting"
                   [] OTHER -> "free"
=============================================================================
