---------------------------- MODULE CallbreakRoom ----------------------------
(***************************************************************************)
(* How players of Callbreak come to a table.  There is no queue: a table   *)
(* type has one waiting table, of which Redis keeps two copies, the table  *)
(* and the entry that is offered to the next player.  Joining holds the    *)
(* locks of the player and of the type, but reads the offer before it      *)
(* takes the lock of the table, and stores the table once more after it    *)
(* has given that lock back.  Leaving, and the timer that gives a table    *)
(* up, hold the lock of the table.                                         *)
(*                                                                         *)
(* slips names what the code lets through and spoils what follows.         *)
(***************************************************************************)
EXTENDS Integers, FiniteSets

CONSTANTS
  Users,
  Room,            \* players of a table
  MaxTables,       \* bound: tables that are opened
  MaxJoins         \* bound: joinTable requests

VARIABLES tables,    \* number -> seats and status
          offer,     \* the entry of the type: a number and seats, or NoOffer
          active,    \* user -> number of a table
          calls,     \* user -> the joining that holds the player's lock
          timers,    \* tables whose timer is pending
          joins, slips

vars == <<tables, offer, active, calls, timers, joins, slips>>

None == 0
Empty == ""
SeatIds == 1..Room
Seats == [SeatIds -> Users \union {Empty}]
NoSeats == [i \in SeatIds |-> Empty]
NoOffer == [table |-> None, seats |-> NoSeats]
NoCall == [at |-> "none", table |-> None, seats |-> NoSeats]

Init ==
  /\ tables = [k \in 1..MaxTables |-> [seats |-> NoSeats, status |-> "none"]]
  /\ offer = NoOffer
  /\ active = [u \in Users |-> None]
  /\ calls = [u \in Users |-> NoCall]
  /\ timers = {} /\ joins = 0 /\ slips = {}

Seated(seats) == {seats[i] : i \in SeatIds} \ {Empty}
Without(seats, u) == [i \in SeatIds |-> IF seats[i] = u THEN Empty ELSE seats[i]]
Live == {k \in DOMAIN tables : tables[k].status \in {"waiting", "started"}}
TypeLocked == \E u \in Users : calls[u] # NoCall
Slip(what, when) == slips' = slips \union (IF when THEN {what} ELSE {})
-----------------------------------------------------------------------------
(* Who plays already is refused; then the offer of the type is read. *)
JoinTable(u) ==
  /\ ~TypeLocked /\ active[u] = None /\ joins < MaxJoins
  /\ joins' = joins + 1
  /\ calls' = [calls EXCEPT ![u] = [at |-> "joining", table |-> offer.table, seats |-> offer.seats]]
  /\ UNCHANGED <<tables, offer, active, timers, slips>>

(* The timer of the table is set with it. *)
CreateNewTable(u) ==
  /\ calls[u].at = "joining" /\ calls[u].table = None
  /\ \E k \in {x \in DOMAIN tables : tables[x].status = "none"} :
       LET seats == [NoSeats EXCEPT ![1] = u]
       IN  /\ \A x \in DOMAIN tables : tables[x].status = "none" => k <= x
           /\ tables' = [tables EXCEPT ![k] = [seats |-> seats, status |-> "waiting"]]
           /\ offer' = [table |-> k, seats |-> seats]
           /\ active' = [active EXCEPT ![u] = k]
           /\ timers' = timers \union {k}
           /\ calls' = [calls EXCEPT ![u] = [at |-> "announcing", table |-> k, seats |-> seats]]
  /\ UNCHANGED <<joins, slips>>

NextEmptyPlayerId(seats) == CHOOSE i \in SeatIds : seats[i] = Empty /\ \A j \in 1..(i - 1) : seats[j] # Empty

(* The new player is added to the offer as it was read: who has left, or    *)
(* given the table up, meanwhile is not noticed.                            *)
JoinExistingTable(u) ==
  LET k == calls[u].table
      seats == [calls[u].seats EXCEPT ![NextEmptyPlayerId(calls[u].seats)] = u]
  IN  /\ calls[u].at = "joining" /\ k # None
      /\ tables' = [tables EXCEPT ![k] = [seats |-> seats, status |-> "waiting"]]
      /\ offer' = [table |-> k, seats |-> seats]
      /\ active' = [active EXCEPT ![u] = k]
      /\ calls' = [calls EXCEPT ![u] = [at |-> "announcing", table |-> k, seats |-> seats]]
      /\ Slip("stale offer", tables[k].seats # calls[u].seats \/ tables[k].status # "waiting")
      /\ UNCHANGED <<timers, joins>>

(* The table is stored again without its lock, and starts when it is full. *)
AnnounceJoin(u) ==
  LET k == calls[u].table
      full == Empty \notin {calls[u].seats[i] : i \in SeatIds}
  IN  /\ calls[u].at = "announcing"
      /\ tables' = [tables EXCEPT ![k] = [seats |-> calls[u].seats,
                                          status |-> IF full THEN "started" ELSE "waiting"]]
      /\ offer' = IF full THEN NoOffer ELSE offer
      /\ calls' = [calls EXCEPT ![u] = NoCall]
      /\ Slip("leaving undone", tables[k].seats # calls[u].seats \/ tables[k].status # "waiting")
      /\ UNCHANGED <<active, timers, joins>>
-----------------------------------------------------------------------------
(* The last player takes the table along. *)
LeaveTableInWaiting(u) ==
  LET k == active[u]
      seats == Without(tables[k].seats, u)
  IN  /\ calls[u] = NoCall /\ k # None /\ tables[k].status = "waiting"
      /\ IF Seated(tables[k].seats) = {u}
         THEN tables' = [tables EXCEPT ![k].status = "removed"] /\ offer' = NoOffer
         ELSE tables' = [tables EXCEPT ![k].seats = seats] /\ offer' = [table |-> k, seats |-> seats]
      /\ active' = [active EXCEPT ![u] = None]
      /\ Slip("another table's offer", offer.table # k)
      /\ UNCHANGED <<calls, timers, joins>>

(* The time of a table is up: it goes, unless it is full. *)
DeleteTable(k) ==
  /\ k \in timers /\ timers' = timers \ {k}
  /\ IF tables[k].status = "waiting" /\ Cardinality(Seated(tables[k].seats)) < Room
     THEN /\ tables' = [tables EXCEPT ![k].status = "removed"]
          /\ offer' = NoOffer
          /\ active' = [u \in Users |-> IF u \in Seated(tables[k].seats) THEN None ELSE active[u]]
          /\ Slip("another table's offer", offer.table # k)
     ELSE UNCHANGED <<tables, offer, active, slips>>
  /\ UNCHANGED <<calls, joins>>

(* Timers, and the requests under way, end with the process. *)
Restart ==
  /\ timers' = {} /\ calls' = [u \in Users |-> NoCall]
  /\ Slip("cut off by a restart", TypeLocked \/ \E k \in timers : tables[k].status = "waiting")
  /\ UNCHANGED <<tables, offer, active, joins>>

(* A game comes to its end. *)
RemoveTable(k) ==
  /\ tables[k].status = "started"
  /\ tables' = [tables EXCEPT ![k].status = "removed"]
  /\ active' = [u \in Users |-> IF active[u] = k THEN None ELSE active[u]]
  /\ UNCHANGED <<offer, calls, timers, joins, slips>>

Next ==
  \/ \E u \in Users : JoinTable(u) \/ CreateNewTable(u) \/ JoinExistingTable(u) \/ AnnounceJoin(u)
                      \/ LeaveTableInWaiting(u)
  \/ \E k \in DOMAIN tables : DeleteTable(k) \/ RemoveTable(k)
  \/ Restart

Spec == Init /\ [][Next]_vars
-----------------------------------------------------------------------------
(* What connected answers a client: its table, if its pointer has one. *)
Connected(u) ==
  IF active[u] = None THEN "not reconnected"
  ELSE IF active[u] \in Live THEN tables[active[u]].status ELSE "table gone"

TypeOK ==
  /\ \A k \in DOMAIN tables : tables[k].seats \in Seats
  /\ offer.table \in {None} \union DOMAIN tables /\ offer.seats \in Seats
  /\ active \in [Users -> {None} \union DOMAIN tables]
  /\ timers \subseteq DOMAIN tables

(* Nobody has two seats, and the seats of a table that starts are taken by  *)
(* players whose pointer leads there, each of whom will be debited.         *)
SeatedOnce ==
  slips = {} =>
    /\ \A k, m \in Live, i, j \in SeatIds :
         tables[k].seats[i] # Empty /\ tables[k].seats[i] = tables[m].seats[j] => k = m /\ i = j
    /\ \A k \in Live : \A u \in Seated(tables[k].seats) : active[u] = k
    /\ \A k \in Live : tables[k].status = "started" => Empty \notin {tables[k].seats[i] : i \in SeatIds}

(* While nobody is joining, the offer of the type is its waiting table, of  *)
(* which there is one at most, with a seat left; and a client that comes    *)
(* back finds the table it sits at.                                         *)
WaitersAreKnown ==
  slips = {} /\ ~TypeLocked =>
    /\ \A k \in Live : tables[k].status = "waiting" <=> offer = [table |-> k, seats |-> tables[k].seats]
    /\ offer # NoOffer => offer.table \in Live /\ Empty \in {offer.seats[i] : i \in SeatIds}
    /\ \A u \in Users : Connected(u) # "table gone" /\ (active[u] # None => u \in Seated(tables[active[u]].seats))

(* A table that waits has its timer, which gives it up. *)
NobodyWaitsForEver == slips = {} => \A k \in Live : tables[k].status = "waiting" => k \in timers \/ TypeLocked
=============================================================================
