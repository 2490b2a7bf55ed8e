---------------------------- MODULE MegaTournament ----------------------------
(***************************************************************************)
(* One Ludo mega tournament from its first entry to its prizes: the play    *)
(* requests, the ends of the games, the closeTournament job and the         *)
(* cancellation by staff.  Each of them reads the tournament once and works *)
(* on that copy.  Play requests exclude each other with the join lock; the  *)
(* end of a game takes the tournament's lock after it has read the          *)
(* tournament; the job and the cancellation take no lock.                   *)
(*                                                                         *)
(* A game is its table and its end: how the dice fall is not part of this   *)
(* module, nor are scores and the split of the prizes.  A lock does not     *)
(* expire under its holder here (module Locker).                            *)
(***************************************************************************)
EXTENDS Naturals, FiniteSets

CONSTANTS Plays,              \* calls of handlePlayRequest; each opens a table of its own
          Users, UserOf,      \* the player of each of them
          Ends, TableOf,      \* calls of handleEndGame, and the table each is about
          Closes,             \* runs of the closeTournament job
          Cancels,            \* calls of cancelTournament
          MaxTotalEntries, MaxEntriesPerUser, MaxExtensionLimit,
          Repeatable,         \* isRepeatable
          MaxFailures         \* bound on the calls that throw or die halfway

Finalizers == Ends \union Closes
Handlers == Plays \union Finalizers \union Cancels
Payments == Plays \union Finalizers      \* a join fee, or the prizes of one finalization

ASSUME TournamentAssumption ==
  /\ UserOf \in [Plays -> Users]
  /\ TableOf \in [Ends -> Plays]
  /\ {MaxTotalEntries, MaxEntriesPerUser, MaxExtensionLimit, MaxFailures} \subseteq Nat
  /\ Repeatable \in BOOLEAN
  /\ IsFiniteSet(Plays)
  /\ Plays \cap Finalizers = {} /\ Ends \cap Closes = {}
  /\ Cancels \cap (Plays \union Finalizers) = {}

VARIABLES status,             \* tournament document
          entered,            \* tournament document: enteredUserCount
          extended,           \* tournament document: extendedCount
          jobs,               \* closeTournament jobs in the queue
          debits,             \* join fee transactions
          tables,             \* game tables in Redis
          results,            \* tournament player documents, by the call that stored them
          paid,               \* prize transactions, by the finalization
          refunds,            \* refund transactions for each transaction
          locked,             \* the tournament's lock is set
          pc, copy,           \* where each call is, and the tournament it has read
          found,              \* the transactions each cancellation has found
          failures,
          stale               \* history: a call acted on a tournament that had changed

tournament == <<status, entered, extended>>
money == <<debits, paid, refunds>>
vars == <<status, entered, extended, jobs, debits, tables, results, paid, refunds, locked,
          pc, copy, found, failures, stale>>

Statuses == {"live", "full", "closed", "completed", "canceled"}
Joining == {"debit", "count", "full", "table"}
Finalizing == {"prize", "complete"}
AtWork == Joining \union Finalizing \union
          {"delete", "store", "reread", "lock", "compare", "extend", "close",
           "cancel", "find", "refund"}

TypeOK ==
  /\ status \in Statuses
  /\ entered \in Nat
  /\ extended \in Nat
  /\ jobs \in Nat
  /\ debits \in SUBSET Plays
  /\ tables \in SUBSET Plays
  /\ results \in SUBSET Ends
  /\ paid \in SUBSET Finalizers
  /\ refunds \in [Payments -> Nat]
  /\ locked \in BOOLEAN
  /\ pc \in [Handlers -> {"idle", "done", "refused", "broken"} \union AtWork]
  /\ copy \in [Handlers -> [status : Statuses, entered : Nat, extended : Nat]]
  /\ found \in [Cancels -> [Payments -> Nat]]
  /\ failures \in 0..MaxFailures
  /\ stale \in BOOLEAN

Unread == [status |-> "live", entered |-> 0, extended |-> 0]
Current == [status |-> status, entered |-> entered, extended |-> extended]

(* createLudoMegaTournament.                                                *)
Init ==
  /\ status = "live"
  /\ entered = 0
  /\ extended = 0
  /\ jobs = 1
  /\ debits = {}
  /\ tables = {}
  /\ results = {}
  /\ paid = {}
  /\ refunds = [t \in Payments |-> 0]
  /\ locked = FALSE
  /\ pc = [h \in Handlers |-> "idle"]
  /\ copy = [h \in Handlers |-> Unread]
  /\ found = [x \in Cancels |-> [t \in Payments |-> 0]]
  /\ failures = 0
  /\ stale = FALSE

Goto(h, s) == pc' = [pc EXCEPT ![h] = s]
Read(h) == copy' = [copy EXCEPT ![h] = Current]
Forget(h) == copy' = [copy EXCEPT ![h] = Unread]
Changed(h) == copy[h].status # status \/ copy[h].entered # entered
Note(accident) == stale' = (stale \/ accident)

-----------------------------------------------------------------------------
(* getUserEntryCount counts player documents, which exist once a game ended. *)
EntryCount(u) == Cardinality({e \in results : UserOf[TableOf[e]] = u})

IsJoinable(u) ==
  /\ status = "live"
  /\ EntryCount(u) < MaxEntriesPerUser
  /\ entered < MaxTotalEntries

(* Mutant: the request does not take the join lock.                         *)
CheckIfJoinableUnlocked(p) ==
  /\ p \in Plays
  /\ pc[p] = "idle"
  /\ \/ IsJoinable(UserOf[p]) /\ Goto(p, "debit") /\ Read(p)
     \/ ~IsJoinable(UserOf[p]) /\ Goto(p, "refused") /\ UNCHANGED copy
  /\ UNCHANGED <<tournament, jobs, money, tables, results, locked, found, failures, stale>>

(* handlePlayRequest: the join lock is held from before the tournament is   *)
(* read until the table is stored or the call throws.                       *)
CheckIfJoinable(p) ==
  /\ p \in Plays
  /\ pc[p] = "idle"
  /\ \A q \in Plays : pc[q] \notin Joining
  /\ \/ IsJoinable(UserOf[p]) /\ Goto(p, "debit") /\ Read(p)
     \/ ~IsJoinable(UserOf[p]) /\ Goto(p, "refused") /\ UNCHANGED copy
  /\ UNCHANGED <<tournament, jobs, money, tables, results, locked, found, failures, stale>>

(* The wallet refuses or books; this join fee is exempt from its double     *)
(* transaction check.                                                       *)
DebitJoinFee(p) ==
  /\ pc[p] = "debit"
  /\ \/ Goto(p, "refused") /\ Forget(p) /\ UNCHANGED debits
     \/ Goto(p, "count") /\ debits' = debits \union {p} /\ UNCHANGED copy
  /\ UNCHANGED <<tournament, jobs, paid, refunds, tables, results, locked, found, failures, stale>>

(* Mutant: $inc with the wrong sign.                                        *)
DecrementEnteredUserCount(p) ==
  /\ pc[p] = "count"
  /\ entered' = entered - 1
  /\ Goto(p, "table")
  /\ Note(status # "live")
  /\ Forget(p)
  /\ UNCHANGED <<status, extended, jobs, money, tables, results, locked, found, failures>>

(* $inc in the database and ++ in the copy, which decides on isFull.        *)
IncrementEnteredUserCount(p) ==
  /\ pc[p] = "count"
  /\ entered' = entered + 1
  /\ Goto(p, IF MaxTotalEntries <= copy[p].entered + 1 THEN "full" ELSE "table")
  /\ Note(status # "live")
  /\ Forget(p)
  /\ UNCHANGED <<status, extended, jobs, money, tables, results, locked, found, failures>>

(* #repeatTournament lets the next tournament end as long before now as     *)
(* this one's end is ahead, and its creation throws, unless this one is at  *)
(* its end already.                                                         *)
RepeatTournament(p) == Goto(p, "table") \/ Goto(p, "broken")

HandleFullTournament(p) ==
  /\ pc[p] = "full"
  /\ status' = "full"
  /\ Note(status # "live")
  /\ IF Repeatable THEN RepeatTournament(p) ELSE Goto(p, "table")
  /\ UNCHANGED <<entered, extended, jobs, money, tables, results, locked, copy, found, failures>>

StoreGameTable(p) ==
  /\ pc[p] = "table"
  /\ tables' = tables \union {p}
  /\ Goto(p, "done")
  /\ UNCHANGED <<tournament, jobs, money, results, locked, copy, found, failures, stale>>

-----------------------------------------------------------------------------
(* handleEndGame, which the timer, a move and leaveTable call without the   *)
(* table's lock or without waiting for it, as soon as the table is known.   *)
RetrieveGameTable(e) ==
  /\ e \in Ends
  /\ pc[e] = "idle"
  /\ pc[TableOf[e]] = "done"
  /\ Goto(e, IF TableOf[e] \in tables THEN "delete" ELSE "refused")
  /\ UNCHANGED <<tournament, jobs, money, tables, results, locked, copy, found, failures, stale>>

DeleteGameTable(e) ==
  /\ pc[e] = "delete"
  /\ tables' = tables \ {TableOf[e]}
  /\ Goto(e, "store")
  /\ UNCHANGED <<tournament, jobs, money, results, locked, copy, found, failures, stale>>

StoreGameResult(e) ==
  /\ pc[e] = "store"
  /\ results' = results \union {e}
  /\ Goto(e, "reread")
  /\ UNCHANGED <<tournament, jobs, money, tables, locked, copy, found, failures, stale>>

GetTournamentById(e) ==
  /\ pc[e] = "reread"
  /\ Read(e)
  /\ Goto(e, "lock")
  /\ UNCHANGED <<tournament, jobs, money, tables, results, locked, found, failures, stale>>

AcquireLock(e) ==
  /\ pc[e] = "lock"
  /\ ~locked
  /\ locked' = TRUE
  /\ Goto(e, "compare")
  /\ UNCHANGED <<tournament, jobs, money, tables, results, copy, found, failures, stale>>

(* The finally block of handleEndGame deletes the lock; the job has none.   *)
Unlock(h) == locked' = (IF h \in Ends THEN FALSE ELSE locked)

(* Mutant: a completed tournament can be finalized again.                   *)
ReadyToFinalizeAgain(h) == copy[h].status \in {"full", "closed", "completed"}

(* finalizeIfAllGamesCompleted, on the copy of the caller.                  *)
ReadyToFinalize(h) == copy[h].status \in {"full", "closed"}

(* Mutant: nobody compares the counts.                                      *)
CompareStatusAlone(h) ==
  /\ pc[h] = "compare"
  /\ \/ ReadyToFinalize(h) /\ Goto(h, "prize") /\ UNCHANGED <<copy, locked>>
     \/ ~ReadyToFinalize(h) /\ Goto(h, "done") /\ Forget(h) /\ Unlock(h)
  /\ Note(ReadyToFinalize(h) /\ (Changed(h) \/ \E g \in Handlers : pc[g] \in Finalizing))
  /\ UNCHANGED <<tournament, jobs, money, tables, results, found, failures>>

CompareCounts(h) ==
  LET all == ReadyToFinalize(h) /\ copy[h].entered = Cardinality(results)
  IN  /\ pc[h] = "compare"
      /\ \/ all /\ Goto(h, "prize") /\ UNCHANGED <<copy, locked>>
         \/ ~all /\ Goto(h, "done") /\ Forget(h) /\ Unlock(h)
      /\ Note(ReadyToFinalize(h) /\ (Changed(h) \/ \E g \in Handlers : pc[g] \in Finalizing))
      /\ UNCHANGED <<tournament, jobs, money, tables, results, found, failures>>

(* updateLeaderboard ranks the results, and creditLudoMegaTournamentPrizes  *)
(* does not look for earlier prizes.                                        *)
CreditPrizes(h) ==
  /\ pc[h] = "prize"
  /\ paid' = paid \union {h}
  /\ Goto(h, "complete")
  /\ UNCHANGED <<tournament, jobs, debits, refunds, tables, results, locked, copy, found,
                 failures, stale>>

MarkAsCompleted(h) ==
  /\ pc[h] = "complete"
  /\ status' = "completed"
  /\ Note(Changed(h))
  /\ Goto(h, "done")
  /\ Forget(h)
  /\ Unlock(h)
  /\ UNCHANGED <<entered, extended, jobs, money, tables, results, found, failures>>

-----------------------------------------------------------------------------
(* closeTournament.                                                         *)
StartClose(c) ==
  /\ c \in Closes
  /\ pc[c] = "idle"
  /\ jobs > 0
  /\ jobs' = jobs - 1
  /\ \/ status # "live" /\ Goto(c, "done") /\ UNCHANGED copy
     \/ status = "live" /\ extended < MaxExtensionLimit /\ Goto(c, "extend") /\ Read(c)
     \/ status = "live" /\ extended >= MaxExtensionLimit /\ Goto(c, "close") /\ Read(c)
  /\ UNCHANGED <<tournament, money, tables, results, locked, found, failures, stale>>

(* Mutant: the next job is not scheduled.                                   *)
ExtendWithoutJob(c) ==
  /\ pc[c] = "extend"
  /\ extended' = copy[c].extended + 1
  /\ Goto(c, "done")
  /\ Forget(c)
  /\ UNCHANGED <<status, entered, jobs, money, tables, results, locked, found, failures, stale>>

ExtendTournament(c) ==
  /\ pc[c] = "extend"
  /\ jobs' = jobs + 1
  /\ extended' = copy[c].extended + 1
  /\ Goto(c, "done")
  /\ Forget(c)
  /\ UNCHANGED <<status, entered, money, tables, results, locked, found, failures, stale>>

DoCloseTournament(c) ==
  /\ pc[c] = "close"
  /\ status' = "closed"
  /\ copy' = [copy EXCEPT ![c].status = "closed"]
  /\ Note(Changed(c))
  /\ Goto(c, "compare")
  /\ UNCHANGED <<entered, extended, jobs, money, tables, results, locked, found, failures>>

-----------------------------------------------------------------------------
(* cancelTournament.                                                        *)
CheckIfCancelable(x) ==
  /\ x \in Cancels
  /\ pc[x] = "idle"
  /\ Goto(x, IF status \in {"live", "closed"} THEN "cancel" ELSE "refused")
  /\ UNCHANGED <<tournament, jobs, money, tables, results, locked, copy, found, failures, stale>>

WriteCanceled(x) ==
  /\ pc[x] = "cancel"
  /\ status' = "canceled"
  /\ Note(status \notin {"live", "closed"} \/ \E h \in Finalizers : pc[h] \in Finalizing)
  /\ Goto(x, "find")
  /\ UNCHANGED <<entered, extended, jobs, money, tables, results, locked, copy, found, failures>>

(* refundTournamentJoinFees finds every transaction of the tournament:      *)
(* join fees, but prizes and earlier refunds as well.                       *)
FindTransactions(x) ==
  /\ pc[x] = "find"
  /\ found' = [found EXCEPT ![x] =
       [t \in Payments |-> IF t \in debits \union paid THEN 1 + refunds[t] ELSE 0]]
  /\ Goto(x, "refund")
  /\ UNCHANGED <<tournament, jobs, money, tables, results, locked, copy, failures, stale>>

(* Mutant: refunds until nothing is found.                                  *)
RefundJoinFeesAgain(x) ==
  /\ pc[x] = "refund"
  /\ refunds' = [t \in Payments |-> refunds[t] + found[x][t]]
  /\ Goto(x, "find")
  /\ UNCHANGED <<tournament, jobs, debits, paid, tables, results, locked, copy, found,
                 failures, stale>>

RefundJoinFees(x) ==
  /\ pc[x] = "refund"
  /\ refunds' = [t \in Payments |-> refunds[t] + found[x][t]]
  /\ Goto(x, "done")
  /\ UNCHANGED <<tournament, jobs, debits, paid, tables, results, locked, copy, found,
                 failures, stale>>

-----------------------------------------------------------------------------
(* A call throws or its process dies.  The finally block of handleEndGame   *)
(* deletes the tournament's lock, whether this call had set it or not, once *)
(* the table has been read.                                                 *)
Fail(h) ==
  /\ failures < MaxFailures
  /\ pc[h] \in AtWork
  /\ failures' = failures + 1
  /\ Goto(h, "broken")
  /\ Forget(h)
  /\ Unlock(h)
  /\ UNCHANGED <<tournament, jobs, money, tables, results, found, stale>>

PlayOn(p) == CheckIfJoinable(p) \/ DebitJoinFee(p) \/ IncrementEnteredUserCount(p)
             \/ HandleFullTournament(p) \/ StoreGameTable(p)
Finalize(h) == CompareCounts(h) \/ CreditPrizes(h) \/ MarkAsCompleted(h)
EndOn(e) == RetrieveGameTable(e) \/ DeleteGameTable(e) \/ StoreGameResult(e)
            \/ GetTournamentById(e) \/ AcquireLock(e)
CloseOn(c) == StartClose(c) \/ ExtendTournament(c) \/ DoCloseTournament(c)
CancelOn(x) == CheckIfCancelable(x) \/ WriteCanceled(x) \/ FindTransactions(x)
               \/ RefundJoinFees(x)

Next == \E h \in Handlers : \/ PlayOn(h)
                            \/ EndOn(h) \/ CloseOn(h) \/ Finalize(h)
                            \/ CancelOn(h)
                            \/ Fail(h)

Spec == Init /\ [][Next]_vars

(* Handlers go on, the queue runs its job when its time has come, and every *)
(* table is ended, as its timer takes a life for each turn nobody plays.    *)
Fairness ==
  /\ \A p \in Plays : WF_vars(pc[p] # "idle" /\ PlayOn(p))
  /\ \A e \in Ends : WF_vars(EndOn(e))
  /\ \A c \in Closes : WF_vars(CloseOn(c))
  /\ \A h \in Finalizers : WF_vars(Finalize(h))

FairSpec == Spec /\ Fairness

-----------------------------------------------------------------------------
Counted(p) == p \in debits /\ pc[p] \in {"full", "table", "done"}
Ended(p) == \E e \in results : TableOf[e] = p
EndedTwice == \E d, e \in results : d # e /\ TableOf[d] = TableOf[e]

(* There are never more entries than places, nor more than were paid for,   *)
(* however many players press the button at the same time.                  *)
PlacesRespected ==
  /\ entered <= MaxTotalEntries
  /\ entered <= Cardinality(debits)

PaidHalfway == \E h \in paid : pc[h] = "broken"

(* The prizes are paid once, unless a call acted on a tournament that had   *)
(* changed since it read it, as the lock that handleEndGame takes does not  *)
(* guard the copy it decides on and closeTournament takes none, or broke    *)
(* off between paying and writing the status.                               *)
PrizesPaidOnce == Cardinality(paid) <= 1 \/ stale \/ PaidHalfway

(* Prizes are paid when the games of all the entries counted so far have    *)
(* ended, unless a call acted on a stale copy or a game ended twice.        *)
NobodyIsLeftOut ==
  [][(paid' # paid) => (stale \/ EndedTwice \/ \A p \in Plays : Counted(p) => Ended(p))]_vars

(* A cancellation refunds the fee of every entry, once and only where no    *)
(* prizes were paid, unless a call acted on a stale copy (a request that    *)
(* was found joinable before is debited after the refunds) or the payment   *)
(* of the prizes broke off halfway.                                         *)
RefundedOnce ==
  \/ stale \/ PaidHalfway
  \/ \A p \in Plays :
       /\ refunds[p] <= 1
       /\ refunds[p] > 0 => paid = {}
       /\ Counted(p) /\ (\E x \in Cancels : pc[x] = "done") => refunds[p] = 1

SomeCallBrokeOff == \E h \in Handlers : pc[h] = "broken"

(* A full or closed tournament that is not canceled pays its prizes in the  *)
(* end, whatever the order in which the last entry, the last games and the  *)
(* job run, unless a call acted on a stale copy, broke off, or ended a game *)
(* a second time, which leaves more results than entries.                   *)
PrizesArePaid ==
  status \in {"full", "closed"}
    ~> \/ paid # {} \/ status = "canceled"
       \/ stale \/ SomeCallBrokeOff \/ EndedTwice

(* A tournament that nobody fills does not stay open: the job extends it    *)
(* only so often, unless a job breaks off, which schedules no other.        *)
LiveComesToAnEnd ==
  status = "live" ~> (status # "live" \/ \E c \in Closes : pc[c] = "broken")

(* A tournament comes to its end, and its end pays the prizes.              *)
TournamentComesToAnEnd == LiveComesToAnEnd /\ PrizesArePaid
=============================================================================
