------------------------- MODULE MegaTournamentProofs -------------------------
(***************************************************************************)
(* Theorems about a mega tournament with any number of players, entries,   *)
(* games, runs of the job and cancellations.                               *)
(***************************************************************************)
EXTENDS MegaTournament, FiniteSetTheorems, TLAPS

(* Each stage of a handler belongs to calls of one kind.                    *)
Kinds ==
  \A h \in Handlers :
    /\ pc[h] \in Joining => h \in Plays
    /\ pc[h] \in {"delete", "store", "reread", "lock"} => h \in Ends
    /\ pc[h] \in {"compare", "prize", "complete"} => h \in Finalizers
    /\ pc[h] \in {"extend", "close"} => h \in Closes
    /\ pc[h] \in {"cancel", "find", "refund"} => h \in Cancels

LEMMA TypeStep == ASSUME TypeOK, Kinds, [Next]_vars PROVE TypeOK' /\ Kinds'
<1> USE TournamentAssumption DEF TypeOK, Kinds, Handlers, Finalizers, Payments, Statuses,
        Joining, Finalizing, AtWork, tournament, money, Goto, Unread
<1>1. ASSUME NEW h \in Handlers, CheckIfJoinable(h) PROVE TypeOK' /\ Kinds'
  <2>1. CASE Goto(h, "debit") /\ Read(h)
    BY <1>1, <2>1 DEF CheckIfJoinable, Read, Current
  <2>2. CASE Goto(h, "refused") /\ UNCHANGED copy
    BY <1>1, <2>2 DEF CheckIfJoinable
  <2> QED BY <1>1, <2>1, <2>2 DEF CheckIfJoinable
<1>2. ASSUME NEW h \in Handlers, DebitJoinFee(h) PROVE TypeOK' /\ Kinds'
  <2>1. CASE Goto(h, "refused") /\ Forget(h) /\ UNCHANGED debits
    BY <1>2, <2>1 DEF DebitJoinFee, Forget
  <2>2. CASE Goto(h, "count") /\ debits' = debits \union {h} /\ UNCHANGED copy
    BY <1>2, <2>2 DEF DebitJoinFee
  <2> QED BY <1>2, <2>1, <2>2 DEF DebitJoinFee
<1>3. ASSUME NEW h \in Handlers, IncrementEnteredUserCount(h) PROVE TypeOK' /\ Kinds'
  BY <1>3 DEF IncrementEnteredUserCount, Forget, Note
<1>4. ASSUME NEW h \in Handlers, HandleFullTournament(h) PROVE TypeOK' /\ Kinds'
  BY <1>4 DEF HandleFullTournament, RepeatTournament, Note
<1>5. ASSUME NEW h \in Handlers, StoreGameTable(h) PROVE TypeOK' /\ Kinds'
  BY <1>5 DEF StoreGameTable
<1>6. ASSUME NEW h \in Handlers, RetrieveGameTable(h) PROVE TypeOK' /\ Kinds'
  BY <1>6 DEF RetrieveGameTable
<1>7. ASSUME NEW h \in Handlers, DeleteGameTable(h) PROVE TypeOK' /\ Kinds'
  BY <1>7 DEF DeleteGameTable
<1>8. ASSUME NEW h \in Handlers, StoreGameResult(h) PROVE TypeOK' /\ Kinds'
  BY <1>8 DEF StoreGameResult
<1>9. ASSUME NEW h \in Handlers, GetTournamentById(h) PROVE TypeOK' /\ Kinds'
  BY <1>9 DEF GetTournamentById, Read, Current
<1>10. ASSUME NEW h \in Handlers, AcquireLock(h) PROVE TypeOK' /\ Kinds'
  BY <1>10 DEF AcquireLock
<1>11. ASSUME NEW h \in Handlers, CompareCounts(h) PROVE TypeOK' /\ Kinds'
  <2>1. CASE Goto(h, "prize") /\ UNCHANGED <<copy, locked>>
    BY <1>11, <2>1 DEF CompareCounts, Note
  <2>2. CASE Goto(h, "done") /\ Forget(h) /\ Unlock(h)
    BY <1>11, <2>2 DEF CompareCounts, Forget, Unlock, Note
  <2> QED BY <1>11, <2>1, <2>2 DEF CompareCounts
<1>12. ASSUME NEW h \in Handlers, CreditPrizes(h) PROVE TypeOK' /\ Kinds'
  BY <1>12 DEF CreditPrizes
<1>13. ASSUME NEW h \in Handlers, MarkAsCompleted(h) PROVE TypeOK' /\ Kinds'
  BY <1>13 DEF MarkAsCompleted, Forget, Unlock, Note
<1>14. ASSUME NEW h \in Handlers, StartClose(h) PROVE TypeOK' /\ Kinds'
  <2>1. CASE Goto(h, "done") /\ UNCHANGED copy
    BY <1>14, <2>1 DEF StartClose
  <2>2. CASE (Goto(h, "extend") \/ Goto(h, "close")) /\ Read(h)
    <3>1. copy' \in [Handlers -> [status : Statuses, entered : Nat, extended : Nat]]
      BY <2>2 DEF Read, Current
    <3>2. jobs' \in Nat /\ h \in Closes
      BY <1>14 DEF StartClose
    <3>3. CASE Goto(h, "extend")
      BY <1>14, <3>1, <3>2, <3>3 DEF StartClose
    <3>4. CASE Goto(h, "close")
      BY <1>14, <3>1, <3>2, <3>4 DEF StartClose
    <3> QED BY <2>2, <3>3, <3>4
  <2> QED BY <1>14, <2>1, <2>2 DEF StartClose
<1>15. ASSUME NEW h \in Handlers, ExtendTournament(h) PROVE TypeOK' /\ Kinds'
  BY <1>15 DEF ExtendTournament, Forget
<1>16. ASSUME NEW h \in Handlers, DoCloseTournament(h) PROVE TypeOK' /\ Kinds'
  BY <1>16 DEF DoCloseTournament, Note
<1>17. ASSUME NEW h \in Handlers, CheckIfCancelable(h) PROVE TypeOK' /\ Kinds'
  BY <1>17 DEF CheckIfCancelable
<1>18. ASSUME NEW h \in Handlers, WriteCanceled(h) PROVE TypeOK' /\ Kinds'
  BY <1>18 DEF WriteCanceled, Note
<1>19. ASSUME NEW h \in Handlers, FindTransactions(h) PROVE TypeOK' /\ Kinds'
  BY <1>19 DEF FindTransactions
<1>20. ASSUME NEW h \in Handlers, RefundJoinFees(h) PROVE TypeOK' /\ Kinds'
  BY <1>20 DEF RefundJoinFees
<1>21. ASSUME NEW h \in Handlers, Fail(h) PROVE TypeOK' /\ Kinds'
  <2>1. failures' \in 0..MaxFailures
    BY <1>21 DEF Fail
  <2>2. locked' \in BOOLEAN
    BY <1>21 DEF Fail, Unlock
  <2> QED BY <1>21, <2>1, <2>2 DEF Fail, Forget
<1>22. CASE UNCHANGED vars
  BY <1>22 DEF vars
<1> QED BY <1>1, <1>2, <1>3, <1>4, <1>5, <1>6, <1>7, <1>8, <1>9, <1>10, <1>11, <1>12, <1>13, <1>14, <1>15, <1>16, <1>17, <1>18, <1>19, <1>20, <1>21, <1>22
       DEF Next, PlayOn, EndOn, CloseOn, Finalize, CancelOn

(* Every variable keeps its type, and each handler its stages.              *)
THEOREM TypeCorrect == Spec => [](TypeOK /\ Kinds)
<1>1. ASSUME Init PROVE TypeOK /\ Kinds
  <2>1. Unread \in [status : Statuses, entered : Nat, extended : Nat]
    BY DEF Unread, Statuses
  <2>2. failures \in 0..MaxFailures
    BY <1>1, TournamentAssumption DEF Init
  <2>3. copy \in [Handlers -> [status : Statuses, entered : Nat, extended : Nat]]
    BY <1>1, <2>1 DEF Init
  <2>4. refunds \in [Payments -> Nat] /\ found \in [Cancels -> [Payments -> Nat]]
    BY <1>1 DEF Init
  <2>5. pc \in [Handlers -> {"idle", "done", "refused", "broken"} \union AtWork]
    BY <1>1 DEF Init
  <2>6. TypeOK
    BY <1>1, <2>2, <2>3, <2>4, <2>5 DEF Init, TypeOK, Statuses
  <2>7. Kinds
    BY <1>1 DEF Init, Kinds, Joining
  <2> QED BY <2>6, <2>7
<1>2. TypeOK /\ Kinds /\ [Next]_vars => (TypeOK /\ Kinds)'
  BY TypeStep
<1> QED BY <1>1, <1>2, PTL DEF Spec

-----------------------------------------------------------------------------
(* The join lock lets one play request in at a time, and what this request  *)
(* has read of the number of entries stays true while it is inside.         *)
OneJoins ==
  \A p, q \in Plays : (pc[p] \in Joining /\ pc[q] \in Joining) => p = q

CopyIsCurrent ==
  \A p \in Plays :
    pc[p] \in {"debit", "count"} => copy[p].entered = entered /\ entered < MaxTotalEntries

(* A request that has paid and not counted yet is one debit ahead.          *)
DebitsAhead ==
  /\ \A p \in Plays : pc[p] \in {"idle", "debit"} => p \notin debits
  /\ \A p \in Plays : pc[p] = "count" => entered + 1 <= Cardinality(debits)

EntryInvariant == PlacesRespected /\ OneJoins /\ CopyIsCurrent /\ DebitsAhead

(* What the other actions do to the requests leaves the invariant alone.    *)
LEMMA Unconcerned ==
  ASSUME TypeOK, EntryInvariant, UNCHANGED <<entered, debits>>,
         \A p \in Plays :
           \/ pc'[p] = pc[p] /\ copy'[p] = copy[p]
           \/ /\ pc'[p] \notin {"idle", "debit", "count"}
              /\ pc'[p] \in Joining => pc[p] \in Joining
  PROVE  EntryInvariant'
<1>1. PlacesRespected'
  BY DEF EntryInvariant, PlacesRespected
<1>2. OneJoins'
  BY DEF EntryInvariant, OneJoins, Joining
<1>3. CopyIsCurrent'
  BY DEF EntryInvariant, CopyIsCurrent
<1>4. DebitsAhead'
  BY DEF EntryInvariant, DebitsAhead
<1> QED BY <1>1, <1>2, <1>3, <1>4 DEF EntryInvariant

LEMMA EntryStep ==
  ASSUME TypeOK, Kinds, EntryInvariant, [Next]_vars
  PROVE  EntryInvariant'
<1> USE TournamentAssumption
<1>a. IsFiniteSet(debits) /\ Cardinality(debits) \in Nat
  BY FS_Subset, FS_CardinalityType DEF TypeOK
<1>b. entered \in Nat /\ MaxTotalEntries \in Nat
  BY DEF TypeOK
<1>1. ASSUME NEW p \in Handlers, CheckIfJoinable(p) PROVE EntryInvariant'
  <2>1. CASE Goto(p, "refused")
    BY <1>1, <2>1, Unconcerned DEF CheckIfJoinable, Goto, TypeOK, Handlers, Joining, tournament,
       money
  <2>2. CASE IsJoinable(UserOf[p]) /\ Goto(p, "debit") /\ Read(p)
    <3>1. UNCHANGED <<entered, debits>> /\ p \in Plays /\ pc[p] = "idle"
          /\ \A q \in Plays : pc[q] \notin Joining
      BY <1>1 DEF CheckIfJoinable, tournament, money
    <3>2. /\ pc'[p] = "debit" /\ copy'[p].entered = entered
          /\ entered < MaxTotalEntries
          /\ \A q \in Plays \ {p} : pc'[q] = pc[q] /\ copy'[q] = copy[q]
      BY <2>2, <3>1 DEF Goto, Read, Current, IsJoinable, TypeOK, Handlers
    <3> QED BY <3>1, <3>2 DEF EntryInvariant, PlacesRespected, OneJoins, CopyIsCurrent,
            DebitsAhead, Joining
  <2> QED BY <1>1, <2>1, <2>2 DEF CheckIfJoinable
<1>2. ASSUME NEW p \in Handlers, DebitJoinFee(p) PROVE EntryInvariant'
  <2>0. p \in Plays /\ pc[p] = "debit" /\ entered' = entered
    BY <1>2 DEF DebitJoinFee, Kinds, Joining, tournament
  <2>1. CASE Goto(p, "refused") /\ Forget(p) /\ UNCHANGED debits
    BY <2>0, <2>1, Unconcerned DEF Goto, Forget, TypeOK, Handlers, Joining
  <2>2. CASE Goto(p, "count") /\ debits' = debits \union {p} /\ UNCHANGED copy
    <3>1. p \notin debits
      BY <2>0 DEF EntryInvariant, DebitsAhead
    <3>2. Cardinality(debits') = Cardinality(debits) + 1
      BY <1>a, <2>2, <3>1, FS_AddElement
    <3>3. /\ pc'[p] = "count" /\ copy' = copy
          /\ \A q \in Plays \ {p} : pc'[q] = pc[q] /\ pc[q] \notin Joining
      BY <2>0, <2>2 DEF Goto, TypeOK, Handlers, EntryInvariant, OneJoins, Joining
    <3>4. PlacesRespected'
      BY <1>a, <1>b, <2>0, <3>2 DEF EntryInvariant, PlacesRespected
    <3>5. OneJoins'
      BY <3>3 DEF OneJoins, Joining
    <3>6. CopyIsCurrent'
      BY <2>0, <3>3 DEF EntryInvariant, CopyIsCurrent, Joining
    <3>7. DebitsAhead'
      BY <1>a, <1>b, <2>0, <2>2, <3>2, <3>3
         DEF EntryInvariant, DebitsAhead, PlacesRespected, Joining
    <3> QED BY <3>4, <3>5, <3>6, <3>7 DEF EntryInvariant
  <2> QED BY <1>2, <2>1, <2>2 DEF DebitJoinFee
<1>3. ASSUME NEW p \in Handlers, IncrementEnteredUserCount(p) PROVE EntryInvariant'
  <2>1. p \in Plays /\ pc[p] = "count" /\ entered' = entered + 1 /\ debits' = debits
    BY <1>3 DEF IncrementEnteredUserCount, Kinds, Joining, money
  <2>2. /\ pc'[p] \in {"full", "table"}
        /\ \A q \in Plays \ {p} : pc'[q] = pc[q] /\ pc[q] \notin Joining
    BY <1>3, <2>1 DEF IncrementEnteredUserCount, Goto, TypeOK, Handlers, EntryInvariant,
       OneJoins, Joining
  <2>3. PlacesRespected'
    BY <1>a, <1>b, <2>1 DEF EntryInvariant, PlacesRespected, CopyIsCurrent, DebitsAhead
  <2>4. OneJoins' /\ CopyIsCurrent' /\ DebitsAhead'
    BY <2>1, <2>2 DEF EntryInvariant, OneJoins, CopyIsCurrent, DebitsAhead, Joining
  <2> QED BY <2>3, <2>4 DEF EntryInvariant
<1>4. ASSUME NEW h \in Handlers, HandleFullTournament(h) \/ StoreGameTable(h)
      PROVE  EntryInvariant'
  BY <1>4, Unconcerned DEF HandleFullTournament, RepeatTournament, StoreGameTable, Goto, TypeOK, Handlers,
     Joining, tournament, money
<1>5. ASSUME NEW h \in Handlers, EndOn(h) PROVE EntryInvariant'
  <2>1. h \notin Plays /\ UNCHANGED <<entered, debits>>
    BY <1>5 DEF EndOn, RetrieveGameTable, DeleteGameTable, StoreGameResult, GetTournamentById,
       AcquireLock, Kinds, Finalizers, tournament, money
  <2>2. \A p \in Plays : pc'[p] = pc[p] /\ copy'[p] = copy[p]
    BY <1>5, <2>1 DEF EndOn, RetrieveGameTable, DeleteGameTable, StoreGameResult,
       GetTournamentById, AcquireLock, Goto, Read, TypeOK, Handlers
  <2> QED BY <2>1, <2>2, Unconcerned
<1>6. ASSUME NEW h \in Handlers, CloseOn(h) PROVE EntryInvariant'
  <2>1. h \notin Plays /\ UNCHANGED <<entered, debits>>
    BY <1>6 DEF CloseOn, StartClose, ExtendTournament, DoCloseTournament, Kinds, Finalizers,
       tournament, money
  <2>2. \A p \in Plays : pc'[p] = pc[p] /\ copy'[p] = copy[p]
    BY <1>6, <2>1 DEF CloseOn, StartClose, ExtendTournament, DoCloseTournament, Goto, Read,
       Forget, TypeOK, Handlers
  <2> QED BY <2>1, <2>2, Unconcerned
<1>7. ASSUME NEW h \in Handlers, Finalize(h) PROVE EntryInvariant'
  <2>1. h \notin Plays /\ UNCHANGED <<entered, debits>>
    BY <1>7 DEF Finalize, CompareCounts, CreditPrizes, MarkAsCompleted, Kinds, tournament, money
  <2>2. \A p \in Plays : pc'[p] = pc[p] /\ copy'[p] = copy[p]
    BY <1>7, <2>1 DEF Finalize, CompareCounts, CreditPrizes, MarkAsCompleted, Goto, Forget,
       TypeOK, Handlers
  <2> QED BY <2>1, <2>2, Unconcerned
<1>8. ASSUME NEW h \in Handlers, CancelOn(h) PROVE EntryInvariant'
  <2>1. h \notin Plays /\ UNCHANGED <<entered, debits, copy>>
    BY <1>8 DEF CancelOn, CheckIfCancelable, WriteCanceled, FindTransactions, RefundJoinFees,
       Kinds, tournament, money
  <2>2. \A p \in Plays : pc'[p] = pc[p]
    BY <1>8, <2>1 DEF CancelOn, CheckIfCancelable, WriteCanceled, FindTransactions,
       RefundJoinFees, Goto, TypeOK, Handlers
  <2> QED BY <2>1, <2>2, Unconcerned
<1>9. ASSUME NEW h \in Handlers, Fail(h) PROVE EntryInvariant'
  <2>1. UNCHANGED <<entered, debits>>
    BY <1>9 DEF Fail, tournament, money
  <2>2. \A p \in Plays : \/ pc'[p] = pc[p] /\ copy'[p] = copy[p]
                         \/ pc'[p] = "broken"
    BY <1>9 DEF Fail, Goto, Forget, TypeOK, Handlers
  <2> QED BY <2>1, <2>2, Unconcerned DEF Joining
<1>10. CASE UNCHANGED vars
  BY <1>10, Unconcerned DEF vars
<1> QED BY <1>1, <1>2, <1>3, <1>4, <1>5, <1>6, <1>7, <1>8, <1>9, <1>10 DEF Next, PlayOn

(* Whoever joins at the same time, a tournament never has more entries than *)
(* places, and every entry it counts has been paid.                         *)
THEOREM NoMoreEntriesThanPlaces == Spec => []PlacesRespected
<1>1. Init => EntryInvariant
  BY TournamentAssumption, FS_EmptySet
     DEF Init, EntryInvariant, PlacesRespected, OneJoins, CopyIsCurrent, DebitsAhead, Handlers,
         Joining
<1>2. TypeOK /\ Kinds /\ EntryInvariant /\ [Next]_vars => EntryInvariant'
  BY EntryStep
<1>3. EntryInvariant => PlacesRespected
  BY DEF EntryInvariant
<1> QED BY <1>1, <1>2, <1>3, TypeCorrect, PTL DEF Spec

-----------------------------------------------------------------------------
(* Who acts on what.  A step of a call moves that call and no other, and a  *)
(* call that once was stale stays so.                                       *)
LEMMA StaleStays == ASSUME TypeOK, [Next]_vars, ~stale' PROVE ~stale
BY DEF TypeOK, Next, vars, PlayOn, EndOn, CloseOn, Finalize, CancelOn, Note, CheckIfJoinable,
       DebitJoinFee, IncrementEnteredUserCount, HandleFullTournament, StoreGameTable,
       RetrieveGameTable, DeleteGameTable, StoreGameResult, GetTournamentById, AcquireLock,
       CompareCounts, CreditPrizes, MarkAsCompleted, StartClose, ExtendTournament,
       DoCloseTournament, CheckIfCancelable, WriteCanceled, FindTransactions, RefundJoinFees, Fail

(* A play request is moved by its own steps alone, and so is a cancellation. *)
LEMMA WhoMoves ==
  ASSUME TypeOK, Kinds, [Next]_vars, NEW x \in Handlers, pc'[x] # pc[x]
  PROVE  /\ x \in Plays => PlayOn(x) \/ Fail(x)
         /\ x \in Cancels => CancelOn(x) \/ Fail(x)
<1>. USE TournamentAssumption DEF TypeOK, Kinds, Finalizers, Goto, Joining
<1>1. PICK h \in Handlers : PlayOn(h) \/ EndOn(h) \/ CloseOn(h) \/ Finalize(h) \/ CancelOn(h)
                              \/ Fail(h)
  BY DEF Next, vars
<1>2. CASE PlayOn(h)
  <2>1. h \in Plays /\ \A g \in Handlers \ {h} : pc'[g] = pc[g]
    BY <1>2 DEF PlayOn, CheckIfJoinable, DebitJoinFee, IncrementEnteredUserCount,
       HandleFullTournament, RepeatTournament, StoreGameTable
  <2>. QED BY <1>2, <2>1
<1>3. CASE EndOn(h)
  <2>1. h \in Ends /\ \A g \in Handlers \ {h} : pc'[g] = pc[g]
    BY <1>3 DEF EndOn, RetrieveGameTable, DeleteGameTable, StoreGameResult, GetTournamentById,
       AcquireLock
  <2>. QED BY <1>3, <2>1
<1>4. CASE CloseOn(h)
  <2>1. h \in Closes /\ \A g \in Handlers \ {h} : pc'[g] = pc[g]
    BY <1>4 DEF CloseOn, StartClose, ExtendTournament, DoCloseTournament
  <2>. QED BY <1>4, <2>1
<1>5. CASE Finalize(h)
  <2>1. h \in Finalizers /\ \A g \in Handlers \ {h} : pc'[g] = pc[g]
    BY <1>5 DEF Finalize, CompareCounts, CreditPrizes, MarkAsCompleted
  <2>. QED BY <1>5, <2>1
<1>6. CASE CancelOn(h)
  <2>1. h \in Cancels /\ \A g \in Handlers \ {h} : pc'[g] = pc[g]
    BY <1>6 DEF CancelOn, CheckIfCancelable, WriteCanceled, FindTransactions, RefundJoinFees
  <2>. QED BY <1>6, <2>1
<1>7. CASE Fail(h)
  <2>1. \A g \in Handlers \ {h} : pc'[g] = pc[g]
    BY <1>7 DEF Fail
  <2>. QED BY <1>7, <2>1
<1>. QED BY <1>1, <1>2, <1>3, <1>4, <1>5, <1>6, <1>7

(* The job closes only a tournament it has read as live.                    *)
ClosesLive == \A c \in Closes : pc[c] = "close" => copy[c].status = "live"

LEMMA ClosesLiveStep ==
  ASSUME TypeOK, Kinds, ClosesLive, [Next]_vars
  PROVE  ClosesLive'
<1>. USE TournamentAssumption DEF ClosesLive, TypeOK, Kinds, Handlers, Finalizers, Goto, Joining
<1>1. ASSUME NEW h \in Handlers, PlayOn(h) PROVE ClosesLive'
  BY <1>1 DEF PlayOn, CheckIfJoinable, DebitJoinFee, IncrementEnteredUserCount,
     HandleFullTournament, RepeatTournament, StoreGameTable, Read, Forget
<1>2. ASSUME NEW h \in Handlers, EndOn(h) PROVE ClosesLive'
  BY <1>2 DEF EndOn, RetrieveGameTable, DeleteGameTable, StoreGameResult, GetTournamentById,
     AcquireLock, Read
<1>3. ASSUME NEW h \in Handlers, CloseOn(h) PROVE ClosesLive'
  BY <1>3 DEF CloseOn, StartClose, ExtendTournament, DoCloseTournament, Read, Current, Forget
<1>4. ASSUME NEW h \in Handlers, Finalize(h) PROVE ClosesLive'
  BY <1>4 DEF Finalize, CompareCounts, CreditPrizes, MarkAsCompleted, Forget
<1>5. ASSUME NEW h \in Handlers, CancelOn(h) PROVE ClosesLive'
  BY <1>5 DEF CancelOn, CheckIfCancelable, WriteCanceled, FindTransactions, RefundJoinFees
<1>6. ASSUME NEW h \in Handlers, Fail(h) PROVE ClosesLive'
  BY <1>6 DEF Fail, Forget
<1>7. CASE UNCHANGED vars
  BY <1>7 DEF vars
<1>. QED BY <1>1, <1>2, <1>3, <1>4, <1>5, <1>6, <1>7 DEF Next

(* As long as no call has acted on a stale copy, one finalization is at     *)
(* work at most, on a full or closed tournament, and one that has paid and  *)
(* not broken off leaves the tournament completed.                          *)
PaysAlone ==
  /\ \A g, h \in Finalizers : pc[g] \in Finalizing /\ pc[h] \in Finalizing => g = h
  /\ \A h \in Finalizers : pc[h] \in Finalizing =>
       copy[h].status = status /\ status \in {"full", "closed"}
  /\ \A g \in paid : \/ pc[g] \in {"complete", "broken"}
                     \/ pc[g] = "done" /\ status = "completed"

(* What keeps it: calls that are not finalizing go on elsewhere.            *)
LEMMA PaidElsewhere ==
  ASSUME TypeOK, PaysAlone, UNCHANGED <<status, paid>>,
         \A h \in Finalizers :
           \/ pc'[h] = pc[h] /\ copy'[h] = copy[h]
           \/ /\ pc[h] \notin {"complete", "broken", "done"}
              /\ pc'[h] \notin Finalizing
           \/ pc'[h] = "broken"
  PROVE  PaysAlone'
BY DEF TypeOK, PaysAlone, Finalizing

(* A status that is written while the tournament was live or closed, with   *)
(* nobody finalizing: nobody has paid either, or broke off.                 *)
LEMMA PaidBefore ==
  ASSUME TypeOK, PaysAlone, UNCHANGED <<paid>>,
         status \in {"live", "closed"},
         \A h \in Finalizers : pc[h] \notin Finalizing,
         \A h \in Finalizers : \/ pc'[h] = pc[h]
                               \/ pc[h] = "close" /\ pc'[h] = "compare"
  PROVE  PaysAlone'
BY DEF TypeOK, PaysAlone, Finalizing

LEMMA PaysAloneStep ==
  ASSUME TypeOK, Kinds, ClosesLive, PaysAlone, [Next]_vars, ~stale'
  PROVE  PaysAlone'
<1>. USE TournamentAssumption DEF TypeOK, Handlers, Finalizers
<1>a. \A h \in Finalizers : status = "live" => pc[h] \notin Finalizing
  BY DEF PaysAlone
<1>1. ASSUME NEW p \in Handlers, PlayOn(p) PROVE PaysAlone'
  <2>1. p \in Plays
    BY <1>1 DEF PlayOn, CheckIfJoinable, DebitJoinFee, IncrementEnteredUserCount,
       HandleFullTournament, StoreGameTable, Kinds, Joining
  <2>2. \A h \in Finalizers : pc'[h] = pc[h] /\ copy'[h] = copy[h]
    BY <1>1, <2>1 DEF PlayOn, CheckIfJoinable, DebitJoinFee, IncrementEnteredUserCount,
       HandleFullTournament, RepeatTournament, StoreGameTable, Goto, Read, Forget
  <2>3. paid' = paid
    BY <1>1 DEF PlayOn, CheckIfJoinable, DebitJoinFee, IncrementEnteredUserCount,
       HandleFullTournament, StoreGameTable, money
  <2>4. CASE status' = status
    BY <2>2, <2>3, <2>4, PaidElsewhere
  <2>5. CASE status' # status
    <3>1. status = "live"
      BY <1>1, <2>5 DEF PlayOn, CheckIfJoinable, DebitJoinFee, IncrementEnteredUserCount,
         HandleFullTournament, StoreGameTable, tournament, Note
    <3>. QED BY <1>a, <2>2, <2>3, <3>1, PaidBefore
  <2>. QED BY <2>4, <2>5
<1>2. ASSUME NEW e \in Handlers, EndOn(e) PROVE PaysAlone'
  <2>1. UNCHANGED <<status, paid>>
    BY <1>2 DEF EndOn, RetrieveGameTable, DeleteGameTable, StoreGameResult, GetTournamentById,
       AcquireLock, tournament, money
  <2>2. /\ pc[e] \notin {"complete", "broken", "done"} /\ pc'[e] \notin Finalizing
        /\ \A h \in Finalizers \ {e} : pc'[h] = pc[h] /\ copy'[h] = copy[h]
    BY <1>2 DEF EndOn, RetrieveGameTable, DeleteGameTable, StoreGameResult, GetTournamentById,
       AcquireLock, Goto, Read, Finalizing
  <2>. QED BY <2>1, <2>2, PaidElsewhere
<1>3. ASSUME NEW c \in Handlers, CloseOn(c) PROVE PaysAlone'
  <2>1. CASE StartClose(c) \/ ExtendTournament(c)
    <3>1. UNCHANGED <<status, paid>>
      BY <2>1 DEF StartClose, ExtendTournament, tournament, money
    <3>2. /\ pc[c] \notin {"complete", "broken", "done"} /\ pc'[c] \notin Finalizing
          /\ \A h \in Finalizers \ {c} : pc'[h] = pc[h] /\ copy'[h] = copy[h]
      BY <2>1 DEF StartClose, ExtendTournament, Goto, Read, Forget, Finalizing
    <3>. QED BY <3>1, <3>2, PaidElsewhere
  <2>2. CASE DoCloseTournament(c)
    <3>1. /\ status = "live" /\ paid' = paid /\ pc[c] = "close" /\ pc'[c] = "compare"
          /\ \A h \in Finalizers \ {c} : pc'[h] = pc[h]
      BY <2>2 DEF DoCloseTournament, money, Goto, Note, Changed, ClosesLive, Kinds
    <3>. QED BY <1>a, <3>1, PaidBefore
  <2>. QED BY <1>3, <2>1, <2>2 DEF CloseOn
<1>4. ASSUME NEW h \in Handlers, CompareCounts(h) PROVE PaysAlone'
  <2>1. /\ UNCHANGED <<status, paid>> /\ pc[h] = "compare" /\ h \in Finalizers
        /\ \A g \in Finalizers \ {h} : pc'[g] = pc[g] /\ copy'[g] = copy[g]
    BY <1>4 DEF CompareCounts, tournament, money, Goto, Forget, Kinds
  <2>2. CASE Goto(h, "done")
    BY <2>1, <2>2, PaidElsewhere DEF Goto, Finalizing
  <2>3. CASE Goto(h, "prize") /\ ReadyToFinalize(h) /\ copy' = copy
    <3>1. /\ pc'[h] = "prize" /\ copy[h].status = status /\ status \in {"full", "closed"}
          /\ \A g \in Finalizers : pc[g] \notin Finalizing
      BY <1>4, <2>3 DEF CompareCounts, Note, Changed, ReadyToFinalize, Goto
    <3>. QED BY <2>1, <2>3, <3>1 DEF PaysAlone, Finalizing
  <2>. QED BY <1>4, <2>2, <2>3 DEF CompareCounts
<1>5. ASSUME NEW h \in Handlers, CreditPrizes(h) PROVE PaysAlone'
  <2>1. /\ status' = status /\ paid' = paid \union {h} /\ pc[h] = "prize" /\ copy' = copy
        /\ pc'[h] = "complete" /\ h \in Finalizers
        /\ \A g \in Finalizers \ {h} : pc'[g] = pc[g]
    BY <1>5 DEF CreditPrizes, tournament, Goto, Kinds
  <2>. QED BY <2>1 DEF PaysAlone, Finalizing
<1>6. ASSUME NEW h \in Handlers, MarkAsCompleted(h) PROVE PaysAlone'
  <2>1. /\ status' = "completed" /\ paid' = paid /\ pc[h] = "complete" /\ pc'[h] = "done"
        /\ h \in Finalizers /\ \A g \in Finalizers \ {h} : pc'[g] = pc[g]
    BY <1>6 DEF MarkAsCompleted, money, Goto, Kinds
  <2>2. \A g \in Finalizers : pc'[g] \notin Finalizing
    BY <2>1 DEF PaysAlone, Finalizing
  <2>. QED BY <2>1, <2>2 DEF PaysAlone, Finalizing
<1>7. ASSUME NEW x \in Handlers, CancelOn(x) PROVE PaysAlone'
  <2>1. /\ paid' = paid /\ copy' = copy
        /\ \A h \in Finalizers : pc'[h] = pc[h]
    BY <1>7 DEF CancelOn, CheckIfCancelable, WriteCanceled, FindTransactions, RefundJoinFees,
       money, Goto, Kinds
  <2>2. CASE status' = status
    BY <2>1, <2>2, PaidElsewhere
  <2>3. CASE status' # status
    <3>1. status \in {"live", "closed"} /\ \A h \in Finalizers : pc[h] \notin Finalizing
      BY <1>7, <2>3 DEF CancelOn, CheckIfCancelable, WriteCanceled, FindTransactions,
         RefundJoinFees, tournament, Note
    <3>. QED BY <2>1, <3>1, PaidBefore
  <2>. QED BY <2>2, <2>3
<1>8. ASSUME NEW h \in Handlers, Fail(h) PROVE PaysAlone'
  <2>1. /\ UNCHANGED <<status, paid>> /\ pc'[h] = "broken"
        /\ \A g \in Finalizers \ {h} : pc'[g] = pc[g] /\ copy'[g] = copy[g]
    BY <1>8 DEF Fail, tournament, money, Goto, Forget
  <2>. QED BY <2>1, PaidElsewhere
<1>9. CASE UNCHANGED vars
  BY <1>9, PaidElsewhere DEF vars
<1>. QED BY <1>1, <1>2, <1>3, <1>4, <1>5, <1>6, <1>7, <1>8, <1>9 DEF Next, Finalize

LEMMA PaysAloneAlways == Spec => [](ClosesLive /\ (stale \/ PaysAlone))
<1>1. Init => ClosesLive /\ PaysAlone
  BY DEF Init, ClosesLive, PaysAlone, Finalizing, Handlers, Finalizers
<1>2. /\ TypeOK /\ Kinds /\ ClosesLive /\ (stale \/ PaysAlone) /\ [Next]_vars
      => (ClosesLive /\ (stale \/ PaysAlone))'
  BY ClosesLiveStep, PaysAloneStep, StaleStays
<1>. QED BY <1>1, <1>2, TypeCorrect, PTL DEF Spec

-----------------------------------------------------------------------------
(* A call that has ended does not move again, and only CreditPrizes pays.   *)
LEMMA EndedStays ==
  ASSUME TypeOK, [Next]_vars, NEW h \in Handlers, pc[h] \in {"done", "broken"}
  PROVE  pc'[h] = pc[h]
BY DEF TypeOK, Next, vars, PlayOn, EndOn, CloseOn, Finalize, CancelOn, CheckIfJoinable, Goto,
       DebitJoinFee, IncrementEnteredUserCount, HandleFullTournament, RepeatTournament,
       StoreGameTable, RetrieveGameTable, DeleteGameTable, StoreGameResult, GetTournamentById,
       AcquireLock, CompareCounts, CreditPrizes, MarkAsCompleted, StartClose, ExtendTournament,
       DoCloseTournament, CheckIfCancelable, WriteCanceled, FindTransactions, RefundJoinFees,
       Fail, AtWork, Joining, Finalizing

LEMMA OnlyCreditPrizesPays ==
  ASSUME [Next]_vars, paid' # paid
  PROVE  \E h \in Handlers : CreditPrizes(h)
BY DEF Next, vars, money, PlayOn, EndOn, CloseOn, Finalize, CancelOn, CheckIfJoinable,
       DebitJoinFee, IncrementEnteredUserCount, HandleFullTournament, StoreGameTable,
       RetrieveGameTable, DeleteGameTable, StoreGameResult, GetTournamentById, AcquireLock,
       CompareCounts, MarkAsCompleted, StartClose, ExtendTournament, DoCloseTournament,
       CheckIfCancelable, WriteCanceled, FindTransactions, RefundJoinFees, Fail

LEMMA PaidHalfwayStays ==
  ASSUME TypeOK, Kinds, [Next]_vars, PaidHalfway PROVE PaidHalfway'
<1>1. paid \subseteq paid'
  BY OnlyCreditPrizesPays DEF CreditPrizes
<1>. QED BY <1>1, EndedStays DEF PaidHalfway, TypeOK, Handlers

OnePays == \A g, h \in paid : g = h

(* The prizes are paid once, however many games end at the same time and    *)
(* whatever the job, the cancellation and the last entries do meanwhile.    *)
THEOREM PrizesArePaidOnce == Spec => []PrizesPaidOnce
<1>. DEFINE Inv == stale \/ PaidHalfway \/ OnePays
<1>1. Init => Inv
  BY DEF Init, OnePays
<1>2. TypeOK /\ Kinds /\ (stale \/ PaysAlone) /\ Inv /\ [Next]_vars => Inv'
  <2>. SUFFICES ASSUME TypeOK, Kinds, PaysAlone, PaidHalfway \/ OnePays, [Next]_vars, ~stale'
                PROVE  PaidHalfway' \/ OnePays'
    BY StaleStays
  <2>1. CASE PaidHalfway
    BY <2>1, PaidHalfwayStays
  <2>2. CASE OnePays /\ paid' = paid
    BY <2>2 DEF OnePays
  <2>3. CASE ~PaidHalfway /\ paid' # paid
    <3>1. PICK h \in Handlers : CreditPrizes(h)
      BY <2>3, OnlyCreditPrizesPays
    <3>2. pc[h] = "prize" /\ paid' = paid \union {h} /\ h \in Finalizers
      BY <3>1 DEF CreditPrizes, Kinds
    <3>3. paid = {}
      BY <2>3, <3>2 DEF PaysAlone, PaidHalfway, Finalizing, TypeOK
    <3>. QED BY <3>2, <3>3 DEF OnePays
  <2>. QED BY <2>1, <2>2, <2>3
<1>3. Inv => PrizesPaidOnce
  <2>1. CASE OnePays
    <3>1. CASE paid = {}
      BY <3>1, FS_EmptySet DEF PrizesPaidOnce
    <3>2. CASE paid # {}
      <4>1. PICK h : paid = {h}
        BY <2>1, <3>2 DEF OnePays
      <4>. QED BY <4>1, FS_Singleton DEF PrizesPaidOnce
    <3>. QED BY <3>1, <3>2
  <2>. QED BY <2>1 DEF PrizesPaidOnce
<1>. QED BY <1>1, <1>2, <1>3, TypeCorrect, PaysAloneAlways, PTL DEF Spec

-----------------------------------------------------------------------------
(* As long as no call has acted on a stale copy, one cancellation writes at *)
(* most, it stays canceled, and it finds no prizes.                         *)
Canceling == {"find", "refund", "done"}

CancelsAlone ==
  /\ \A x \in Cancels : pc[x] \in Canceling => status = "canceled"
  /\ \A x, y \in Cancels : pc[x] \in Canceling /\ pc[y] \in Canceling => x = y
  /\ status = "canceled" => paid = {} \/ PaidHalfway

(* What it refunds: every entry counted, once.                              *)
RefundsFollow ==
  /\ (\A x \in Cancels : pc[x] # "done") => \A p \in Plays : refunds[p] = 0
  /\ \A x \in Cancels : pc[x] = "refund" =>
       \A p \in Plays : found[x][p] <= 1 /\ (Counted(p) => found[x][p] = 1)
  /\ \A x \in Cancels : pc[x] = "done" =>
       \A p \in Plays : refunds[p] <= 1 /\ (Counted(p) => refunds[p] = 1)

(* Nobody but a cancellation writes canceled, and once it is written nobody *)
(* overwrites it without acting on a stale copy.                            *)
LEMMA CanceledStays ==
  ASSUME TypeOK, Kinds, ClosesLive, PaysAlone, [Next]_vars, ~stale'
  PROVE  /\ status = "canceled" => status' = "canceled"
         /\ status' = "canceled" /\ status # "canceled" =>
              \E x \in Cancels : WriteCanceled(x)
<1>. USE DEF TypeOK
<1>1. ASSUME NEW h \in Handlers, WriteCanceled(h) PROVE status # "canceled" /\ h \in Cancels
  BY <1>1 DEF WriteCanceled, Note, Kinds
<1>2. ASSUME NEW h \in Handlers, MarkAsCompleted(h)
      PROVE  status # "canceled" /\ status' # "canceled"
  BY <1>2 DEF MarkAsCompleted, PaysAlone, Kinds, Finalizing
<1>3. ASSUME NEW h \in Handlers, DoCloseTournament(h)
      PROVE  status # "canceled" /\ status' # "canceled"
  BY <1>3 DEF DoCloseTournament, Note, Changed, ClosesLive, Kinds
<1>4. ASSUME NEW h \in Handlers, HandleFullTournament(h)
      PROVE  status # "canceled" /\ status' # "canceled"
  BY <1>4 DEF HandleFullTournament, Note
<1>5. \/ status' = status
      \/ \E h \in Handlers : \/ WriteCanceled(h) \/ MarkAsCompleted(h)
                              \/ DoCloseTournament(h) \/ HandleFullTournament(h)
  BY DEF Next, vars, tournament, PlayOn, EndOn, CloseOn, Finalize, CancelOn, CheckIfJoinable,
         DebitJoinFee, IncrementEnteredUserCount, StoreGameTable,
         RetrieveGameTable, DeleteGameTable, StoreGameResult, GetTournamentById, AcquireLock,
         CompareCounts, CreditPrizes, StartClose, ExtendTournament,
         CheckIfCancelable, FindTransactions, RefundJoinFees, Fail
<1>. QED BY <1>1, <1>2, <1>3, <1>4, <1>5

LEMMA CancelsAloneStep ==
  ASSUME TypeOK, Kinds, ClosesLive, PaysAlone, CancelsAlone, [Next]_vars, ~stale'
  PROVE  CancelsAlone'
<1>. USE DEF TypeOK, Handlers
<1>1. ASSUME NEW x \in Cancels, WriteCanceled(x) PROVE CancelsAlone'
  <2>1. /\ status' = "canceled" /\ paid' = paid /\ pc[x] = "cancel"
        /\ status \in {"live", "closed"} /\ \A h \in Finalizers : pc[h] \notin Finalizing
        /\ \A y \in Cancels \ {x} : pc'[y] = pc[y]
    BY <1>1 DEF WriteCanceled, money, Note, Goto
  <2>2. \A y \in Cancels : pc[y] \notin Canceling
    BY <2>1 DEF CancelsAlone
  <2>3. paid = {} \/ PaidHalfway
    BY <2>1 DEF PaysAlone, PaidHalfway, Finalizing
  <2>. QED BY <2>1, <2>2, <2>3, PaidHalfwayStays DEF CancelsAlone, Canceling
<1>2. CASE \A x \in Cancels : ~WriteCanceled(x)
  <2>1. \A x \in Cancels : pc'[x] \in Canceling => pc[x] \in Canceling
    <3>1. ASSUME NEW x \in Cancels, pc'[x] # pc[x], pc'[x] \in Canceling
          PROVE  pc[x] \in Canceling
      <4>1. CancelOn(x) \/ Fail(x)
        BY <3>1, WhoMoves
      <4>2. FindTransactions(x) \/ RefundJoinFees(x)
        BY <1>2, <3>1, <4>1 DEF CancelOn, CheckIfCancelable, Fail, Goto, Canceling
      <4>. QED BY <4>2 DEF FindTransactions, RefundJoinFees, Canceling
    <3>. QED BY <3>1
  <2>2. status = "canceled" => status' = "canceled"
    BY CanceledStays
  <2>3. status' = "canceled" => status = "canceled"
    BY <1>2, CanceledStays
  <2>4. status = "canceled" => paid' = paid
    <3>1. ASSUME NEW h \in Handlers, CreditPrizes(h) PROVE status # "canceled"
      BY <3>1 DEF CreditPrizes, PaysAlone, Kinds, Finalizing
    <3>. QED BY <3>1, OnlyCreditPrizesPays
  <2>. QED BY <2>1, <2>2, <2>3, <2>4, PaidHalfwayStays DEF CancelsAlone
<1>. QED BY <1>1, <1>2

(* A play request is counted while the tournament is live, or acts on a     *)
(* stale copy.                                                              *)
LEMMA CountedWhileLive ==
  ASSUME TypeOK, Kinds, [Next]_vars, ~stale', NEW p \in Plays, ~Counted(p), Counted(p)'
  PROVE  status = "live"
<1>. USE DEF TypeOK, Handlers
<1>1. CASE pc'[p] = pc[p]
  <2>1. debits' # debits
    BY <1>1 DEF Counted
  <2>2. PICK q \in Handlers : DebitJoinFee(q) /\ debits' = debits \union {q}
    BY <2>1
       DEF Next, vars, money, PlayOn, EndOn, CloseOn, Finalize, CancelOn, CheckIfJoinable,
           DebitJoinFee, IncrementEnteredUserCount, HandleFullTournament, StoreGameTable,
           RetrieveGameTable, DeleteGameTable, StoreGameResult, GetTournamentById,
           AcquireLock, CompareCounts, CreditPrizes, MarkAsCompleted, StartClose,
           ExtendTournament, DoCloseTournament, CheckIfCancelable, WriteCanceled,
           FindTransactions, RefundJoinFees, Fail
  <2>3. q = p
    BY <1>1, <2>2 DEF Counted
  <2>. QED BY <1>1, <2>2, <2>3 DEF DebitJoinFee, Counted
<1>2. CASE pc'[p] # pc[p]
  <2>1. PlayOn(p) \/ Fail(p)
    BY <1>2, WhoMoves
  <2>2. CASE IncrementEnteredUserCount(p)
    BY <2>2 DEF IncrementEnteredUserCount, Note
  <2>3. CASE CheckIfJoinable(p) \/ DebitJoinFee(p) \/ HandleFullTournament(p)
               \/ StoreGameTable(p) \/ Fail(p)
    BY <2>3 DEF CheckIfJoinable, DebitJoinFee, HandleFullTournament, RepeatTournament,
       StoreGameTable, Fail, Goto, Counted, money
  <2>. QED BY <2>1, <2>2, <2>3 DEF PlayOn
<1>. QED BY <1>1, <1>2

(* Every step keeps what a cancellation has found and refunded.             *)
LEMMA RefundsFollowStep ==
  ASSUME TypeOK, Kinds, PaysAlone, ClosesLive, CancelsAlone, RefundsFollow, [Next]_vars, ~stale'
  PROVE  RefundsFollow'
<1>. USE DEF TypeOK, Handlers
<1>1. ASSUME NEW x \in Cancels, FindTransactions(x) PROVE RefundsFollow'
  <2>1. /\ pc[x] = "find" /\ pc'[x] = "refund" /\ refunds' = refunds /\ debits' = debits
        /\ \A h \in Handlers \ {x} : pc'[h] = pc[h]
        /\ \A y \in Cancels \ {x} : found'[y] = found[y]
    BY <1>1 DEF FindTransactions, money, Goto
  <2>2. \A y \in Cancels : pc[y] # "done"
    BY <2>1 DEF CancelsAlone, Canceling
  <2>3. \A p \in Plays : refunds[p] = 0 /\ (Counted(p)' <=> Counted(p))
    BY <2>1, <2>2, TournamentAssumption DEF RefundsFollow, Counted
  <2>4. \A p \in Plays : found'[x][p] = IF p \in debits \union paid THEN 1 ELSE 0
    BY <1>1, <2>3 DEF FindTransactions, Payments
  <2>5. \A p \in Plays : found'[x][p] <= 1 /\ (Counted(p) => found'[x][p] = 1)
    BY <2>4 DEF Counted
  <2>6. \A y \in Cancels : pc'[y] # "done"
    BY <2>1, <2>2
  <2>. QED BY <2>1, <2>3, <2>5, <2>6 DEF RefundsFollow
<1>2. ASSUME NEW x \in Cancels, RefundJoinFees(x) PROVE RefundsFollow'
  <2>1. /\ pc[x] = "refund" /\ pc'[x] = "done" /\ debits' = debits /\ found' = found
        /\ \A h \in Handlers \ {x} : pc'[h] = pc[h]
    BY <1>2 DEF RefundJoinFees, Goto
  <2>2. \A y \in Cancels \ {x} : pc[y] \notin Canceling
    BY <2>1 DEF CancelsAlone, Canceling
  <2>3. \A p \in Plays : refunds[p] = 0 /\ (Counted(p)' <=> Counted(p))
    BY <2>1, <2>2, TournamentAssumption DEF RefundsFollow, Counted, Canceling
  <2>4. \A p \in Plays : refunds'[p] = found[x][p]
    BY <1>2, <2>3 DEF RefundJoinFees, Payments
  <2>5. \A p \in Plays : found[x][p] <= 1 /\ (Counted(p) => found[x][p] = 1)
    BY <2>1 DEF RefundsFollow
  <2>. QED BY <2>1, <2>2, <2>3, <2>4, <2>5 DEF RefundsFollow, Canceling
<1>3. CASE \A x \in Cancels : ~FindTransactions(x) /\ ~RefundJoinFees(x)
  <2>1. refunds' = refunds /\ found' = found
    BY <1>3
       DEF Next, vars, money, PlayOn, EndOn, CloseOn, Finalize, CancelOn, CheckIfJoinable,
           DebitJoinFee, IncrementEnteredUserCount, HandleFullTournament, StoreGameTable,
           RetrieveGameTable, DeleteGameTable, StoreGameResult, GetTournamentById, AcquireLock,
           CompareCounts, CreditPrizes, MarkAsCompleted, StartClose, ExtendTournament,
           DoCloseTournament, CheckIfCancelable, WriteCanceled, FindTransactions,
           RefundJoinFees, Fail, Kinds
  <2>2. ASSUME NEW x \in Cancels PROVE pc'[x] = pc[x] \/ pc'[x] \notin {"refund", "done"}
    <3>1. CASE pc'[x] # pc[x]
      BY <1>3, <3>1, WhoMoves DEF CancelOn, CheckIfCancelable, WriteCanceled, Fail, Goto
    <3>. QED BY <3>1
  <2>3. ASSUME NEW x \in Cancels PROVE pc[x] = "done" => pc'[x] = "done"
    BY EndedStays
  <2>4. ASSUME NEW p \in Plays, ~Counted(p), Counted(p)' PROVE status = "live"
    BY <2>4, CountedWhileLive
  <2>5. \A x \in Cancels : pc[x] \in {"refund", "done"} => status = "canceled"
    BY DEF CancelsAlone, Canceling
  <2>6. (\A x \in Cancels : pc'[x] # "done") => \A p \in Plays : refunds'[p] = 0
    BY <2>1, <2>3 DEF RefundsFollow
  <2>7. ASSUME NEW x \in Cancels, pc'[x] = "refund", NEW p \in Plays
        PROVE  found'[x][p] <= 1 /\ (Counted(p)' => found'[x][p] = 1)
    <3>1. pc[x] = "refund" /\ status = "canceled"
      BY <2>2, <2>5, <2>7
    <3>. QED BY <2>1, <2>4, <3>1 DEF RefundsFollow
  <2>8. ASSUME NEW x \in Cancels, pc'[x] = "done", NEW p \in Plays
        PROVE  refunds'[p] <= 1 /\ (Counted(p)' => refunds'[p] = 1)
    <3>1. pc[x] = "done" /\ status = "canceled"
      BY <2>2, <2>5, <2>8
    <3>. QED BY <2>1, <2>4, <3>1 DEF RefundsFollow
  <2>. QED BY <2>6, <2>7, <2>8 DEF RefundsFollow
<1>. QED BY <1>1, <1>2, <1>3

(* A cancellation refunds every entry exactly once and never one whose      *)
(* tournament paid prizes, unless a call acted on a stale copy or the       *)
(* payment of the prizes broke off halfway.                                 *)
THEOREM FeesAreRefundedOnce == Spec => []RefundedOnce
<1>. DEFINE Inv == stale \/ (CancelsAlone /\ RefundsFollow)
<1>1. Init => Inv
  BY DEF Init, CancelsAlone, RefundsFollow, Canceling, Handlers, Payments
<1>2. /\ TypeOK /\ Kinds /\ ClosesLive /\ (stale \/ PaysAlone) /\ Inv /\ [Next]_vars
      => Inv'
  BY StaleStays, CancelsAloneStep, RefundsFollowStep
<1>3. TypeOK /\ Inv => RefundedOnce
  <2>. SUFFICES ASSUME TypeOK, CancelsAlone, RefundsFollow, ~PaidHalfway, NEW p \in Plays
                PROVE  /\ refunds[p] <= 1
                       /\ refunds[p] > 0 => paid = {}
                       /\ Counted(p) /\ (\E x \in Cancels : pc[x] = "done") => refunds[p] = 1
    BY DEF RefundedOnce
  <2>1. CASE \E x \in Cancels : pc[x] = "done"
    BY <2>1 DEF RefundsFollow, CancelsAlone, Canceling
  <2>2. CASE \A x \in Cancels : pc[x] # "done"
    BY <2>2 DEF RefundsFollow
  <2>. QED BY <2>1, <2>2
<1>. QED BY <1>1, <1>2, <1>3, TypeCorrect, PaysAloneAlways, PTL DEF Spec

-----------------------------------------------------------------------------
(* What the number of entries says of the entries: the tables that are      *)
(* counted are no more than it says, they are paid for, and a game that     *)
(* ended is one of them.                                                    *)
Tables == {p \in Plays : Counted(p)}

EntriesAreGames ==
  /\ Cardinality(Tables) <= entered
  /\ \A p \in Plays : pc[p] \in {"count", "full", "table", "done"} => p \in debits
  /\ \A e \in Ends : e \in results \/ pc[e] \in {"delete", "store"} => pc[TableOf[e]] = "done"
  /\ IsFiniteSet(results)

LEMMA TablesAreFinite ==
  /\ IsFiniteSet(Tables) /\ Cardinality(Tables) \in Nat
  /\ \A S \in SUBSET Tables : Cardinality(S) <= Cardinality(Tables)
BY TournamentAssumption, FS_Subset, FS_CardinalityType DEF Tables

LEMMA EntriesUnchanged ==
  ASSUME TypeOK, EntriesAreGames, [Next]_vars, Kinds, UNCHANGED <<entered, debits, results>>,
         \A p \in Plays : \/ pc'[p] = pc[p]
                          \/ pc[p] \in {"full", "table"} /\ pc'[p] \in {"table", "done", "broken"}
                          \/ pc'[p] \notin {"count", "full", "table", "done"},
         \A e \in Ends : pc'[e] \in {"delete", "store"} =>
                            pc[e] \in {"delete", "store"} \/ pc[TableOf[e]] = "done"
  PROVE  EntriesAreGames'
<1>. USE TournamentAssumption DEF TypeOK, Handlers, Finalizers
<1>1. Tables' \subseteq Tables
  BY DEF Tables, Counted, EntriesAreGames
<1>2. Cardinality(Tables') <= Cardinality(Tables)
  BY <1>1, TablesAreFinite
<1>3. Cardinality(Tables') \in Nat
  BY <1>1, TablesAreFinite, FS_Subset, FS_CardinalityType
<1>4. Cardinality(Tables') <= entered'
  BY <1>2, <1>3, TablesAreFinite DEF EntriesAreGames
<1>5. \A p \in Plays : pc'[p] \in {"count", "full", "table", "done"} => p \in debits'
  BY DEF EntriesAreGames
<1>6. \A e \in Ends : e \in results' \/ pc'[e] \in {"delete", "store"}
        => pc'[TableOf[e]] = "done"
  BY EndedStays DEF EntriesAreGames
<1>. QED BY <1>4, <1>5, <1>6 DEF EntriesAreGames

LEMMA EntriesAreGamesStep ==
  ASSUME TypeOK, Kinds, EntriesAreGames, [Next]_vars
  PROVE  EntriesAreGames'
<1>. USE TournamentAssumption DEF TypeOK, Handlers, Finalizers
<1>1. ASSUME NEW p \in Handlers, PlayOn(p) PROVE EntriesAreGames'
  <2>1. p \in Plays /\ \A h \in Handlers \ {p} : pc'[h] = pc[h]
    BY <1>1 DEF PlayOn, CheckIfJoinable, DebitJoinFee, IncrementEnteredUserCount,
       HandleFullTournament, RepeatTournament, StoreGameTable, Kinds, Joining, Goto
  <2>2. results' = results
    BY <1>1 DEF PlayOn, CheckIfJoinable, DebitJoinFee, IncrementEnteredUserCount,
       HandleFullTournament, StoreGameTable
  <2>3. CASE CheckIfJoinable(p) \/ HandleFullTournament(p) \/ StoreGameTable(p)
    <3>1. UNCHANGED <<entered, debits>>
      BY <2>3 DEF CheckIfJoinable, HandleFullTournament, StoreGameTable, tournament, money
    <3>2. \/ pc[p] \in {"full", "table"} /\ pc'[p] \in {"table", "done", "broken"}
          \/ pc'[p] \notin {"count", "full", "table", "done"}
      BY <2>3 DEF CheckIfJoinable, HandleFullTournament, RepeatTournament, StoreGameTable, Goto
    <3>. QED BY <2>1, <2>2, <3>1, <3>2, EntriesUnchanged
  <2>4. CASE DebitJoinFee(p)
    <3>1. entered' = entered /\ pc[p] = "debit"
      BY <2>4 DEF DebitJoinFee, tournament
    <3>2. CASE pc'[p] = "refused" /\ debits' = debits
      BY <2>1, <2>2, <3>1, <3>2, EntriesUnchanged
    <3>3. CASE pc'[p] = "count" /\ debits' = debits \union {p}
      <4>1. Tables' = Tables
        BY <2>1, <3>1, <3>3 DEF Tables, Counted
      <4>. QED BY <2>1, <2>2, <3>1, <3>3, <4>1 DEF EntriesAreGames
    <3>. QED BY <2>4, <3>2, <3>3 DEF DebitJoinFee, Goto
  <2>5. CASE IncrementEnteredUserCount(p)
    <3>1. /\ entered' = entered + 1 /\ pc[p] = "count" /\ pc'[p] \in {"full", "table"}
          /\ debits' = debits
      BY <2>5 DEF IncrementEnteredUserCount, money, Goto
    <3>2. Tables' = Tables \union {p} /\ p \notin Tables
      BY <2>1, <3>1 DEF Tables, Counted, EntriesAreGames
    <3>3. Cardinality(Tables') = Cardinality(Tables) + 1
      BY <3>2, TablesAreFinite, FS_AddElement
    <3>4. Cardinality(Tables') <= entered'
      BY <3>1, <3>3, TablesAreFinite DEF EntriesAreGames
    <3>. QED BY <2>1, <2>2, <3>1, <3>4 DEF EntriesAreGames
  <2>. QED BY <1>1, <2>3, <2>4, <2>5 DEF PlayOn
<1>2. ASSUME NEW e \in Handlers, EndOn(e) PROVE EntriesAreGames'
  <2>1. /\ e \in Ends /\ UNCHANGED <<entered, debits>>
        /\ \A h \in Handlers \ {e} : pc'[h] = pc[h]
    BY <1>2 DEF EndOn, RetrieveGameTable, DeleteGameTable, StoreGameResult, GetTournamentById,
       AcquireLock, Kinds, tournament, money, Goto
  <2>2. CASE StoreGameResult(e)
    <3>1. results' = results \union {e} /\ pc[e] = "store" /\ pc'[e] = "reread"
      BY <2>2 DEF StoreGameResult, Goto
    <3>2. Tables' = Tables
      BY <2>1 DEF Tables, Counted
    <3>3. IsFiniteSet(results')
      BY <3>1, FS_AddElement DEF EntriesAreGames
    <3>. QED BY <2>1, <3>1, <3>2, <3>3 DEF EntriesAreGames
  <2>3. CASE RetrieveGameTable(e) \/ DeleteGameTable(e) \/ GetTournamentById(e) \/ AcquireLock(e)
    <3>1. results' = results
      BY <2>3 DEF RetrieveGameTable, DeleteGameTable, GetTournamentById, AcquireLock
    <3>2. pc'[e] \in {"delete", "store"} =>
            pc[e] \in {"delete", "store"} \/ pc[TableOf[e]] = "done"
      BY <2>3 DEF RetrieveGameTable, DeleteGameTable, GetTournamentById, AcquireLock, Goto
    <3>. QED BY <2>1, <3>1, <3>2, EntriesUnchanged
  <2>. QED BY <1>2, <2>2, <2>3 DEF EndOn
<1>3. ASSUME NEW h \in Handlers, CloseOn(h) \/ Finalize(h) \/ CancelOn(h) \/ Fail(h)
      PROVE  EntriesAreGames'
  <2>. USE <1>3 DEF CloseOn, StartClose, ExtendTournament, DoCloseTournament, Finalize,
             CompareCounts, CreditPrizes, MarkAsCompleted, CancelOn, CheckIfCancelable,
             WriteCanceled, FindTransactions, RefundJoinFees, Fail, Goto
  <2>1. UNCHANGED <<entered, debits, results>>
    BY DEF tournament, money
  <2>2. \A g \in Handlers : pc'[g] = pc[g] \/ g = h
    OBVIOUS
  <2>3. h \in Plays => pc'[h] = "broken"
    BY DEF Kinds
  <2>4. pc'[h] \notin {"delete", "store"}
    OBVIOUS
  <2>. QED BY ONLY <2>1, <2>2, <2>3, <2>4, EntriesUnchanged, TypeOK, Kinds, EntriesAreGames,
              [Next]_vars
<1>4. CASE UNCHANGED vars
  BY <1>4, EntriesUnchanged DEF vars
<1>. QED BY <1>1, <1>2, <1>3, <1>4 DEF Next

(* When as many results are stored as entries were counted, and no game     *)
(* ended twice, the games of all the entries have ended.                    *)
AllEnded == EndedTwice \/ \A p \in Plays : Counted(p) => Ended(p)

LEMMA CountsTell ==
  ASSUME TypeOK, EntriesAreGames, entered = Cardinality(results), ~EndedTwice
  PROVE  \A p \in Plays : Counted(p) => Ended(p)
<1>. DEFINE T == {TableOf[e] : e \in results}
            f == [e \in results |-> TableOf[e]]
<1>1. T \subseteq Tables
  BY TournamentAssumption DEF Tables, Counted, EntriesAreGames, TypeOK
<1>2. f \in Bijection(results, T)
  BY DEF EndedTwice, Bijection, Injection, Surjection, IsInjective
<1>3. Cardinality(T) = Cardinality(results) /\ IsFiniteSet(T)
  <2>1. ExistsBijection(results, T)
    BY <1>2 DEF ExistsBijection
  <2>. HIDE DEF T
  <2>. QED BY <2>1, FS_Bijection DEF EntriesAreGames
<1>4. Cardinality(Tables) <= Cardinality(T) /\ Cardinality(T) \in Nat
  BY <1>3, FS_CardinalityType DEF EntriesAreGames
<1>5. T = Tables
  <2>. HIDE DEF T
  <2>1. Cardinality(T) <= Cardinality(Tables)
    BY <1>1, TablesAreFinite
  <2>2. Cardinality(T) = Cardinality(Tables)
    BY <1>4, <2>1, TablesAreFinite
  <2>. QED BY <1>1, <2>2, TablesAreFinite, FS_Subset
<1>. QED BY <1>5 DEF Tables, Ended

(* A finalization is at work only when all the games have ended: the        *)
(* entries it counted are those of a tournament that takes no more.         *)
EndsFirst == \A h \in Finalizers : pc[h] \in Finalizing => AllEnded

LEMMA ResultsStay == ASSUME [Next]_vars PROVE results \subseteq results'
BY DEF Next, vars, PlayOn, EndOn, CloseOn, Finalize, CancelOn, CheckIfJoinable,
       DebitJoinFee, IncrementEnteredUserCount, HandleFullTournament, StoreGameTable,
       RetrieveGameTable, DeleteGameTable, StoreGameResult, GetTournamentById, AcquireLock,
       CompareCounts, CreditPrizes, MarkAsCompleted, StartClose, ExtendTournament,
       DoCloseTournament, CheckIfCancelable, WriteCanceled, FindTransactions,
       RefundJoinFees, Fail

LEMMA FinalizingBegins ==
  ASSUME TypeOK, [Next]_vars, NEW h \in Finalizers, pc[h] \notin Finalizing, pc'[h] \in Finalizing
  PROVE  CompareCounts(h) /\ pc'[h] = "prize"
BY DEF TypeOK, Handlers, Finalizing, Next, vars, PlayOn, EndOn, CloseOn, Finalize,
       CancelOn, CheckIfJoinable, DebitJoinFee, IncrementEnteredUserCount,
       HandleFullTournament, RepeatTournament, StoreGameTable, RetrieveGameTable,
       DeleteGameTable, StoreGameResult, GetTournamentById, AcquireLock, CompareCounts,
       CreditPrizes, MarkAsCompleted, StartClose, ExtendTournament, DoCloseTournament,
       CheckIfCancelable, WriteCanceled, FindTransactions, RefundJoinFees, Fail, Goto

LEMMA EndsFirstStep ==
  ASSUME TypeOK, Kinds, PaysAlone, EntriesAreGames, EndsFirst, [Next]_vars, ~stale'
  PROVE  EndsFirst'
<1>. USE DEF TypeOK
<1>1. ASSUME AllEnded, status # "live" PROVE AllEnded'
  BY <1>1, ResultsStay, CountedWhileLive DEF AllEnded, EndedTwice, Ended
<1>2. ASSUME NEW h \in Finalizers, pc'[h] \in Finalizing PROVE AllEnded'
  <2>1. CASE pc[h] \in Finalizing
    BY <1>1, <2>1 DEF EndsFirst, PaysAlone
  <2>2. CASE pc[h] \notin Finalizing
    <3>1. CompareCounts(h) /\ pc'[h] = "prize"
      BY <1>2, <2>2, FinalizingBegins
    <3>2. ReadyToFinalize(h) /\ copy[h].entered = Cardinality(results)
      BY <3>1 DEF CompareCounts, Goto, Handlers
    <3>3. ~Changed(h) /\ status # "live"
      BY <3>1, <3>2 DEF CompareCounts, Note, ReadyToFinalize, Changed
    <3>4. AllEnded
      BY <3>2, <3>3, CountsTell DEF Changed, AllEnded
    <3>. QED BY <1>1, <3>3, <3>4
  <2>. QED BY <2>1, <2>2
<1>. QED BY <1>2 DEF EndsFirst

(* No prize is paid before the games of all the entries have ended, unless  *)
(* a call acted on a stale copy or a game ended twice.                      *)
THEOREM NobodyMissesThePrizes == Spec => NobodyIsLeftOut
<1>. DEFINE Inv == EntriesAreGames /\ (stale \/ EndsFirst)
<1>1. Init => Inv
  <2>1. Init => Tables = {}
    BY DEF Init, Tables, Counted
  <2>2. ASSUME Init PROVE EntriesAreGames
    <3>1. Cardinality(Tables) = 0 /\ IsFiniteSet(results) /\ entered = 0
      BY <2>1, <2>2, FS_EmptySet DEF Init
    <3>2. \A h \in Handlers : pc[h] = "idle"
      BY <2>2 DEF Init
    <3>3. results = {}
      BY <2>2 DEF Init
    <3>. QED BY <3>1, <3>2, <3>3, TournamentAssumption DEF EntriesAreGames, Handlers, Finalizers
  <2>3. Init => EndsFirst
    BY DEF Init, EndsFirst, Finalizing, Handlers
  <2>. QED BY <2>2, <2>3
<1>2. /\ TypeOK /\ Kinds /\ (stale \/ PaysAlone) /\ Inv /\ [Next]_vars
      => Inv'
  BY EntriesAreGamesStep, EndsFirstStep, StaleStays
<1>3. /\ TypeOK /\ Kinds /\ Inv /\ [Next]_vars
      => [(paid' # paid) => (stale \/ EndedTwice \/ \A p \in Plays : Counted(p) => Ended(p))]_vars
  <2>. SUFFICES ASSUME Kinds, EndsFirst, [Next]_vars, paid' # paid PROVE AllEnded
    BY DEF AllEnded
  <2>1. PICK h \in Handlers : CreditPrizes(h)
    BY OnlyCreditPrizesPays
  <2>. QED BY <2>1 DEF CreditPrizes, Kinds, EndsFirst, Finalizing
<1>. QED BY <1>1, <1>2, <1>3, TypeCorrect, PaysAloneAlways, PTL DEF Spec, NobodyIsLeftOut
=============================================================================
