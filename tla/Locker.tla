-------------------------------- MODULE Locker --------------------------------
(***************************************************************************)
(* The Redis lock that the game services put around a request: a key that  *)
(* exists while somebody works on the table, the queue or the player it    *)
(* names.  A request takes all its keys at the same time (Promise.all of   *)
(* acquireLock), each in a retry loop of its own, and deletes them all in  *)
(* a finally block, whoever has set them by then.                          *)
(*                                                                         *)
(* Two locks exist for the same keys: LockerService (SET PX NX, mostly     *)
(* taken before the try) and the older RedisService (SET NX without an     *)
(* expiry, mostly taken inside the try, so that a request which gives up   *)
(* runs the finally block as well).                                        *)
(***************************************************************************)
EXTENDS Naturals, FiniteSets

CONSTANTS Requests,     \* requests in progress at the same time
          Keys,         \* table ids, table type ids, user ids
          Wants,        \* the keys each request locks
          RetryLimit,   \* tries of one acquire loop (500 or 10 in the code)
          Timed,        \* the requests that set their keys with PX
          InsideTry,    \* the requests that take their keys inside the try block
          MaxDeaths,    \* bound on the requests whose process dies
          NoOne         \* the setter of a key that does not exist

ASSUME LockAssumption ==
  /\ Wants \in [Requests -> (SUBSET Keys) \ {{}}]
  /\ RetryLimit \in Nat \ {0}
  /\ Timed \subseteq Requests
  /\ InsideTry \subseteq Requests
  /\ MaxDeaths \in Nat
  /\ NoOne \notin Requests

VARIABLES stored,       \* who has set each key; Redis itself only knows that it is set
          pc,           \* where each request is
          trying,       \* the keys whose acquire loop still runs
          tries,        \* failed tries of each loop
          aged,         \* keys held across a retry delay of another key
          toRelease,    \* the keys the finally block has still to delete
          robbed,       \* history: keys that vanished under the request that set them
          deaths

vars == <<stored, pc, trying, tries, aged, toRelease, robbed, deaths>>

States == {"idle", "waiting", "inside", "releasing", "refused", "done", "dead"}

TypeOK ==
  /\ stored \in [Keys -> Requests \union {NoOne}]
  /\ pc \in [Requests -> States]
  /\ trying \in [Requests -> SUBSET Keys]
  /\ tries \in [Requests -> [Keys -> 0..RetryLimit]]
  /\ aged \in [Requests -> SUBSET Keys]
  /\ toRelease \in [Requests -> SUBSET Keys]
  /\ robbed \in [Requests -> SUBSET Keys]
  /\ deaths \in 0..MaxDeaths

Init ==
  /\ stored = [k \in Keys |-> NoOne]
  /\ pc = [r \in Requests |-> "idle"]
  /\ trying = [r \in Requests |-> {}]
  /\ tries = [r \in Requests |-> [k \in Keys |-> 0]]
  /\ aged = [r \in Requests |-> {}]
  /\ toRelease = [r \in Requests |-> {}]
  /\ robbed = [r \in Requests |-> {}]
  /\ deaths = 0

(* Promise.all starts one acquire loop for each key.                        *)
Begin(r) ==
  /\ pc[r] = "idle"
  /\ pc' = [pc EXCEPT ![r] = "waiting"]
  /\ trying' = [trying EXCEPT ![r] = Wants[r]]
  /\ UNCHANGED <<stored, tries, aged, toRelease, robbed, deaths>>

(* SET key NX answers OK.                                                   *)
Acquire(r, k) ==
  /\ k \in trying[r]
  /\ stored[k] = NoOne
  /\ stored' = [stored EXCEPT ![k] = r]
  /\ trying' = [trying EXCEPT ![r] = @ \ {k}]
  /\ UNCHANGED <<pc, tries, aged, toRelease, robbed, deaths>>

(* Mutant: the loop has no last try.                                        *)
RetryForEver(r, k) ==
  /\ k \in trying[r]
  /\ stored[k] # NoOne
  /\ tries' = [tries EXCEPT ![r][k] = @ + 1]
  /\ aged' = [aged EXCEPT ![r] = @ \union (Wants[r] \ trying[r])]
  /\ UNCHANGED <<stored, pc, trying, toRelease, robbed, deaths>>

(* SET key NX answers nothing: the loop sleeps, and the keys the request    *)
(* has taken already grow old meanwhile.                                    *)
Retry(r, k) ==
  /\ k \in trying[r]
  /\ stored[k] # NoOne
  /\ tries[r][k] + 1 < RetryLimit
  /\ tries' = [tries EXCEPT ![r][k] = @ + 1]
  /\ aged' = [aged EXCEPT ![r] = @ \union (Wants[r] \ trying[r])]
  /\ UNCHANGED <<stored, pc, trying, toRelease, robbed, deaths>>

(* The last try fails and the loop throws.  Promise.all rejects; the other  *)
(* loops of the request go on by themselves.                                *)
GiveUp(r, k) ==
  /\ k \in trying[r]
  /\ stored[k] # NoOne
  /\ tries[r][k] + 1 = RetryLimit
  /\ tries' = [tries EXCEPT ![r][k] = @ + 1]
  /\ trying' = [trying EXCEPT ![r] = @ \ {k}]
  /\ \/ /\ pc[r] = "waiting"
        /\ r \notin InsideTry
        /\ pc' = [pc EXCEPT ![r] = "refused"]
        /\ UNCHANGED toRelease
     \/ /\ pc[r] = "waiting"
        /\ r \in InsideTry
        /\ pc' = [pc EXCEPT ![r] = "releasing"]
        /\ toRelease' = [toRelease EXCEPT ![r] = Wants[r]]
     \/ /\ pc[r] # "waiting"
        /\ UNCHANGED <<pc, toRelease>>
  /\ UNCHANGED <<stored, aged, robbed, deaths>>

(* Mutant: Promise.race in the place of Promise.all.                        *)
EnterWithFirstKey(r) ==
  /\ pc[r] = "waiting"
  /\ trying[r] # Wants[r]
  /\ pc' = [pc EXCEPT ![r] = "inside"]
  /\ UNCHANGED <<stored, trying, tries, aged, toRelease, robbed, deaths>>

Enter(r) ==
  /\ pc[r] = "waiting"
  /\ trying[r] = {}
  /\ pc' = [pc EXCEPT ![r] = "inside"]
  /\ UNCHANGED <<stored, trying, tries, aged, toRelease, robbed, deaths>>

Leave(r) ==
  /\ pc[r] = "inside"
  /\ pc' = [pc EXCEPT ![r] = "releasing"]
  /\ toRelease' = [toRelease EXCEPT ![r] = Wants[r]]
  /\ UNCHANGED <<stored, trying, tries, aged, robbed, deaths>>

Vanish(k) ==
  /\ stored' = [stored EXCEPT ![k] = NoOne]

Rob(k, thief) ==
  robbed' = [s \in Requests |->
               IF s = stored[k] /\ s # thief THEN robbed[s] \union {k} ELSE robbed[s]]

(* releaseLock: DEL key, without looking who has set it.                    *)
Release(r, k) ==
  /\ k \in toRelease[r]
  /\ Vanish(k)
  /\ Rob(k, r)
  /\ toRelease' = [toRelease EXCEPT ![r] = @ \ {k}]
  /\ pc' = [pc EXCEPT ![r] = IF toRelease[r] = {k} THEN "done" ELSE @]
  /\ UNCHANGED <<trying, tries, aged, deaths>>

(* Mutant: SET without PX.                                                  *)
ExpireNever(k) == FALSE /\ UNCHANGED vars

(* The ttl runs out.  A request spends far less than the ttl inside, so a   *)
(* key expires only under a request that died, that gave up on another key, *)
(* or that held the key while it was retrying for another one: 500 tries of *)
(* up to half a second each, against a ttl of 12 seconds.                   *)
Expire(k) ==
  /\ stored[k] \in Timed
  /\ pc[stored[k]] \in {"dead", "refused", "done"} \/ k \in aged[stored[k]]
  /\ Vanish(k)
  /\ Rob(k, NoOne)
  /\ UNCHANGED <<pc, trying, tries, aged, toRelease, deaths>>

Die(r) ==
  /\ deaths < MaxDeaths
  /\ pc[r] \in {"waiting", "inside", "releasing"}
  /\ pc' = [pc EXCEPT ![r] = "dead"]
  /\ trying' = [trying EXCEPT ![r] = {}]
  /\ toRelease' = [toRelease EXCEPT ![r] = {}]
  /\ deaths' = deaths + 1
  /\ UNCHANGED <<stored, tries, aged, robbed>>

Next ==
  \/ \E r \in Requests : Begin(r) \/ Enter(r) \/ Leave(r) \/ Die(r)
  \/ \E r \in Requests, k \in Keys :
       Acquire(r, k) \/ Retry(r, k) \/ GiveUp(r, k) \/ Release(r, k)
  \/ \E k \in Keys : Expire(k)

Spec == Init /\ [][Next]_vars

(* The event loop runs every loop and handler that can go on, and Redis     *)
(* removes a key whose time is over.                                        *)
Fairness ==
  /\ \A r \in Requests : /\ WF_vars(Enter(r))
                         /\ WF_vars(Leave(r))
  /\ \A r \in Requests, k \in Keys : /\ WF_vars(Acquire(r, k) \/ Retry(r, k) \/ GiveUp(r, k))
                                     /\ WF_vars(Release(r, k))
  /\ \A k \in Keys : WF_vars(Expire(k))

FairSpec == Spec /\ Fairness

-----------------------------------------------------------------------------
Conflict(r, s) == r # s /\ Wants[r] \cap Wants[s] # {}
Inside(r) == pc[r] = "inside"

(* 'Still Processing the previous request' (locker.service.ts:29): while    *)
(* one request works under a key, no other one is let in.                   *)
MutualExclusion ==
  \A r, s \in Requests : Conflict(r, s) => ~(Inside(r) /\ Inside(s))

(* Two requests are inside on the same key only if the key vanished under   *)
(* one of them, by expiry or by somebody else's finally block.              *)
ExclusiveUnlessRobbed ==
  \A r, s \in Requests : \A k \in Wants[r] \cap Wants[s] :
    (r # s /\ Inside(r) /\ Inside(s)) => k \in robbed[r] \union robbed[s]

(* A request for several keys never waits for ever, even against requests   *)
(* that take the same keys in the other order: an expiry or the retry limit *)
(* ends the embrace.                                                        *)
EveryRequestEnds ==
  \A r \in Requests : pc[r] = "waiting" ~> pc[r] \in {"refused", "done", "dead"}

(* A key set by LockerService is not left behind: whatever happens to the   *)
(* request that set it, and to the requests it excludes, it goes away.      *)
KeysAreFreed == \A r \in Timed, k \in Keys : stored[k] = r ~> stored[k] # r

(* Nobody waits for a lock for ever, and no lock outlives its holder.       *)
NothingWaitsForEver == EveryRequestEnds /\ KeysAreFreed
=============================================================================
