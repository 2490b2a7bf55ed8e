----------------------------- MODULE WalletBatch -----------------------------
(***************************************************************************)
(* The calls of the wallet that book more than one request, that book for  *)
(* many players at once, or that look at something before they book: join  *)
(* fees and winnings of the games, the bonus of a new player and its       *)
(* expiry, conversions, refunds by administrators, and the prizes and      *)
(* refunds of tournaments.  Two calls at a time interleave, and the        *)
(* service can stop in between.                                            *)
(*                                                                         *)
(* slips names players to whom something happened that the code lets       *)
(* through: their balance was set from an older one, a request was booked  *)
(* beside its double, or the service stopped before a call was through.    *)
(* Module Wallet looks at one request more closely.                        *)
(***************************************************************************)
EXTENDS WalletArithmetic, Sequences, FiniteSetsExt, SequencesExt

CONSTANTS
  Users,
  Opening,         \* user -> wallet, with Before booked already
  Before,          \* transactions at the start: join fees, and a bonus that has expired
  Fees,            \* game -> what it takes to join, and how much of it may be bonus
  Prizes,          \* user -> prize in the tournament
  Reward,          \* what a conversion adds
  SignupBonus,     \* the wallet of a new player
  MaxCalls         \* bound: calls

VARIABLES balance,
          book,      \* the transactions in the order of their saving
          jobs,      \* calls under way
          lapsed,    \* user -> bonus that has expired
          started,   \* calls so far
          slips

vars == <<balance, book, jobs, lapsed, started, slips>>

JobIds == 1..2                       \* bound: calls under way
Nothing == [p \in Purses |-> 0]
NoJob == [at |-> "none", rest |-> <<>>, seen |-> Nothing, adds |-> <<>>, purse |-> "main"]
Only(p, amount) == [q \in Purses |-> IF q = p THEN amount ELSE 0]

Request(u, type, g, ref, credit, fee) ==
  [user |-> u, type |-> type, game |-> g, ref |-> ref, credit |-> credit, fee |-> fee, amount |-> Total(fee)]

Transaction(r, parts) ==
  [user |-> r.user, type |-> r.type, ref |-> r.ref, credit |-> r.credit, parts |-> parts, due |-> FALSE, expired |-> FALSE]

Init ==
  /\ balance = Opening /\ book = Before /\ slips = {} /\ started = 0
  /\ jobs = [j \in JobIds |-> NoJob]
  /\ lapsed = [u \in Users |-> 0]

Slip(what, who) == slips' = slips \union {<<what, u>> : u \in who}

Begin(j, job) ==
  /\ jobs[j] = NoJob /\ (\A i \in JobIds : i < j => jobs[i] # NoJob) /\ started < MaxCalls
  /\ started' = started + 1
  /\ jobs' = [jobs EXCEPT ![j] = job]
  /\ UNCHANGED <<balance, book, lapsed, slips>>

BeginRequests(j, rs) == Begin(j, [NoJob EXCEPT !.at = "ready", !.rest = rs])
End(j) == jobs' = [jobs EXCEPT ![j] = NoJob]
-----------------------------------------------------------------------------
(* The tables of Skill Patti and Rummy name the split that a check found    *)
(* for the wallet; the others leave it to the debit.                        *)
BonusPart(g) == Least(Fees[g].amount, Fees[g].bonus)

DebitJoinFee(j, u, g, ref) ==
  LET fee == [p \in Purses |-> CASE p = "bonus" -> BonusPart(g)
                                 [] p = "main" -> Fees[g].amount - BonusPart(g)
                                 [] OTHER -> 0]
  IN  BeginRequests(j, <<Request(u, "joinFee", g, ref, FALSE, fee)>>)

DebitAfterCheck(j, u, g, ref) ==
  BeginRequests(j, <<Request(u, "joinFee", g, ref, FALSE,
                             CheckedSplit(balance[u], Fees[g].amount, BonusPart(g)))>>)

CreditWinning(j, u, g, ref, amount) ==
  BeginRequests(j, <<Request(u, "winning", g, ref, TRUE, Only("win", amount))>>)

(* What a new player has won already counts against the bonus. *)
SignupPart(w) ==
  [p \in Purses |->
     CASE p = "main" -> IF w["win"] <= SignupBonus["main"] THEN SignupBonus["main"] - w["win"] ELSE 0
       [] p = "win" -> SignupBonus["win"]
       [] p = "bonus" ->
            IF w["win"] <= SignupBonus["main"] THEN SignupBonus["bonus"]
            ELSE SignupBonus["bonus"] - Least(SignupBonus["bonus"], w["win"] - SignupBonus["main"])]

CreditSignupBonus(j, u) ==
  LET part == SignupPart(balance[u])
  IN  /\ Total(part) > 0
      /\ BeginRequests(j, <<Request(u, "signupBonus", "none", "none", TRUE, part)>>)

(* Two bookings, one after the other. *)
ConvertToMain(j, u, order, amount) ==
  BeginRequests(j, <<Request(u, "withdrawal", "none", order, FALSE, Only("win", amount)),
                     Request(u, "deposit", "none", order, TRUE, Only("main", amount + Reward))>>)

AdminRefundExists(ref) == \E i \in DOMAIN book : book[i].type = "adminRefund" /\ book[i].ref = ref

(* It looks for an earlier refund, of whomever; the booking itself does not, *)
(* and the administrator's answer does not wait for it.                      *)
AdminRefund(j, u, ref, p, amount) ==
  /\ ~AdminRefundExists(ref)
  /\ BeginRequests(j, <<Request(u, "adminRefund", "none", ref, TRUE, Only(p, amount))>>)

(* Player after player: a request that is refused ends the call. *)
RefundLudoTournamentJoinFee(j, order) ==
  BeginRequests(j, [i \in DOMAIN order |->
    Request(order[i], "ludoTournamentRefund", "ludo", "cup", TRUE, Only("main", Fees["ludo"].amount))])
-----------------------------------------------------------------------------
(* #updateWallet: the look, the setting of all three purses, the saving.    *)
Refused(w, r) ==
  \/ NotEnoughBalance(w, r)
  \/ ~SkipsDoubleCheck(r) /\ \E i \in DOMAIN book : SameTransaction(book[i], r)

Look(j) ==
  LET r == Head(jobs[j].rest)
      w == balance[r.user]
  IN  /\ jobs[j].at = "ready"
      /\ IF Refused(w, r) THEN End(j) ELSE jobs' = [jobs EXCEPT ![j].at = "looked", ![j].seen = w]
      /\ UNCHANGED <<balance, book, lapsed, started, slips>>

SetBalances(j) ==
  LET r == Head(jobs[j].rest)
  IN  /\ jobs[j].at = "looked"
      /\ balance' = [balance EXCEPT ![r.user] = UpdatedBalances(jobs[j].seen, r)]
      /\ jobs' = [jobs EXCEPT ![j].at = "set"]
      /\ Slip("set from an older balance", IF balance[r.user] # jobs[j].seen THEN {r.user} ELSE {})
      /\ UNCHANGED <<book, lapsed, started>>

Doubled(r) ==
  \/ r.type = "adminRefund" /\ AdminRefundExists(r.ref)
  \/ ~SkipsDoubleCheck(r) /\ \E i \in DOMAIN book : SameTransaction(book[i], r)

SaveTransaction(j) ==
  LET r == Head(jobs[j].rest)
      left == Tail(jobs[j].rest)
  IN  /\ jobs[j].at = "set"
      /\ book' = Append(book, Transaction(r, BreakDown(jobs[j].seen, r)))
      /\ IF left = <<>> THEN End(j)
         ELSE jobs' = [jobs EXCEPT ![j] = [NoJob EXCEPT !.at = "ready", !.rest = left]]
      /\ Slip("booked beside its double", IF Doubled(r) THEN {r.user} ELSE {})
      /\ UNCHANGED <<balance, lapsed, started>>
-----------------------------------------------------------------------------
(* Prizes and refunds for many: rest holds the transactions to insert, adds *)
(* what each player gets, and only that purse is set.                       *)
BeginBatch(j, rs, purse, adds) ==
  Begin(j, [NoJob EXCEPT !.at = "batch", !.rest = rs, !.purse = purse, !.adds = adds])

CreditPrizes(j, type, prizes) ==
  LET winners == SetToSeq(DOMAIN prizes)
  IN  BeginBatch(j, [i \in DOMAIN winners |->
                       Request(winners[i], type, "ludo", "cup", TRUE, Only("win", prizes[winners[i]]))],
                 "win", prizes)

CreditLudoTournamentPrize(j) == CreditPrizes(j, "ludoTournamentPrize", Prizes)

(* Players with several prizes get their sum. *)
CreditLudoMegaTournamentPrizes(j, lists) ==
  LET total(u) == FoldSeq(LAMBDA x, sum : sum + (IF x.user = u THEN x.amount ELSE 0), 0, lists)
      users == {lists[i].user : i \in DOMAIN lists}
  IN  BeginBatch(j, [i \in DOMAIN lists |->
                       Request(lists[i].user, "ludoTournamentPrize", "ludo", "mega", TRUE, Only("win", lists[i].amount))],
                 "win", [u \in users |-> total(u)])

(* Every transaction of the tournament is taken for a join fee, and the     *)
(* first one tells the fee.                                                 *)
JoinFees == SelectSeq(book, LAMBDA e : e.ref = "mega")
RefundTournamentJoinFees(j) ==
  LET fee == Total(JoinFees[1].parts)
      times(u) == Cardinality({i \in DOMAIN JoinFees : JoinFees[i].user = u})
  IN  /\ JoinFees # <<>>
      /\ BeginBatch(j, [i \in DOMAIN JoinFees |->
                          Request(JoinFees[i].user, "adminRefund", "ludo", "mega", TRUE, Only("main", fee))],
                    "main", [u \in {JoinFees[i].user : i \in DOMAIN JoinFees} |-> fee * times(u)])

ReadWallets(j) ==
  /\ jobs[j].at = "batch"
  /\ jobs' = [jobs EXCEPT ![j].at = "writing",
                          ![j].seen = [u \in DOMAIN jobs[j].adds |-> balance[u][jobs[j].purse]]]
  /\ UNCHANGED <<balance, book, lapsed, started, slips>>

(* The prizes of a cup are set as they add up, the other sums to paisa.     *)
StoredSum(j, sum) == IF Head(jobs[j].rest).ref = "cup" THEN sum ELSE ToFixed2(sum)

BulkWrite(j) ==
  LET p == jobs[j].purse
      adds == jobs[j].adds
  IN  /\ jobs[j].at \in {"writing", "inserted"}
      /\ balance' = [u \in Users |-> IF u \in DOMAIN adds
                                     THEN [balance[u] EXCEPT ![p] = StoredSum(j, jobs[j].seen[u] + adds[u])]
                                     ELSE balance[u]]
      /\ IF jobs[j].at = "inserted" THEN End(j) ELSE jobs' = [jobs EXCEPT ![j].at = "updated"]
      /\ Slip("set from an older balance", {u \in DOMAIN adds : balance[u][p] # jobs[j].seen[u]})
      /\ UNCHANGED <<book, lapsed, started>>

InsertMany(j) ==
  /\ jobs[j].at \in {"writing", "updated"}
  /\ book' = book \o [i \in DOMAIN jobs[j].rest |-> Transaction(jobs[j].rest[i], jobs[j].rest[i].fee)]
  /\ IF jobs[j].at = "updated" THEN End(j) ELSE jobs' = [jobs EXCEPT ![j].at = "inserted"]
  /\ UNCHANGED <<balance, lapsed, started, slips>>
-----------------------------------------------------------------------------
(* A bonus expires if it is due and no transaction of the player has        *)
(* expired before.                                                          *)
ExpiredBonusTransactions(u) ==
  IF \E i \in DOMAIN book : book[i].user = u /\ book[i].expired THEN <<>>
  ELSE SelectSeq(book, LAMBDA e : e.user = u /\ e.type = "signupBonus" /\ e.due)

ExpiredBonus(j, u) ==
  /\ ExpiredBonusTransactions(u) # <<>>
  /\ Begin(j, [NoJob EXCEPT !.at = "expiring", !.rest = ExpiredBonusTransactions(u)])

ReadBonus(j) ==
  /\ jobs[j].at = "expiring"
  /\ jobs' = [jobs EXCEPT ![j].at = "expired", ![j].seen = balance[Head(jobs[j].rest).user]]
  /\ UNCHANGED <<balance, book, lapsed, started, slips>>

ActualDeduction(bonus, e) == Least(bonus, e.parts["bonus"])

(* The purse is set and all transactions of the type are marked, in either  *)
(* order; no transaction is written for it.                                 *)
EndExpiry(j) ==
  LET left == Tail(jobs[j].rest)
  IN  IF left = <<>> THEN End(j)
      ELSE jobs' = [jobs EXCEPT ![j] = [NoJob EXCEPT !.at = "expiring", !.rest = left]]

ExpiredBefore(j, u) ==
  \/ jobs[j].at = "expired" /\ \E i \in DOMAIN book : book[i].user = u /\ book[i].expired
  \/ \E i \in JobIds \ {j} : jobs[i].at \in {"lapsed", "marked"} /\ Head(jobs[i].rest).user = u

SetBonus(j) ==
  LET e == Head(jobs[j].rest)
      bonus == jobs[j].seen["bonus"]
  IN  /\ jobs[j].at \in {"expired", "marked"}
      /\ balance' = [balance EXCEPT ![e.user]["bonus"] = bonus - ActualDeduction(bonus, e)]
      /\ lapsed' = [lapsed EXCEPT ![e.user] = @ + ActualDeduction(bonus, e)]
      /\ IF jobs[j].at = "marked" THEN EndExpiry(j) ELSE jobs' = [jobs EXCEPT ![j].at = "lapsed"]
      /\ Slip("set from an older balance",
              IF balance[e.user]["bonus"] # bonus \/ ExpiredBefore(j, e.user) THEN {e.user} ELSE {})
      /\ UNCHANGED <<book, started>>

MarkExpired(j) ==
  LET e == Head(jobs[j].rest)
  IN  /\ jobs[j].at \in {"expired", "lapsed"}
      /\ book' = [i \in DOMAIN book |->
                    IF book[i].user = e.user /\ book[i].type = e.type THEN [book[i] EXCEPT !.expired = TRUE] ELSE book[i]]
      /\ IF jobs[j].at = "lapsed" THEN EndExpiry(j) ELSE jobs' = [jobs EXCEPT ![j].at = "marked"]
      /\ UNCHANGED <<balance, lapsed, started, slips>>
-----------------------------------------------------------------------------
Concerned(j) == {jobs[j].rest[i].user : i \in DOMAIN jobs[j].rest}

Crash ==
  /\ jobs' = [j \in JobIds |-> NoJob]
  /\ Slip("cut off", UNION {Concerned(j) : j \in JobIds})
  /\ UNCHANGED <<balance, book, lapsed, started>>

(* Only a tournament that has not paid prizes is canceled. *)
PrizesBooked ==
  \/ \E i \in DOMAIN book : book[i].ref = "mega" /\ book[i].type = "ludoTournamentPrize"
  \/ \E j \in JobIds : jobs[j].at \in {"batch", "writing", "updated"} /\ jobs[j].purse = "win"

Call(j) ==
  \/ \E u \in Users :
       \/ \E g \in {"ludo", "aviator", "snakeAndLadders"} : DebitJoinFee(j, u, g, "t1")
       \/ \E g \in {"skillpatti", "rummyempire"} : DebitAfterCheck(j, u, g, "t1")
       \/ \E g \in {"ludo", "rummyempire"} : CreditWinning(j, u, g, "t1", Fees["ludo"].amount)
       \/ CreditSignupBonus(j, u)
       \/ ConvertToMain(j, u, "o1", 2 * PAISA)
       \/ \E p \in Purses : AdminRefund(j, u, "o2", p, 3 * PAISA)
       \/ ExpiredBonus(j, u)
  \/ RefundLudoTournamentJoinFee(j, SetToSeq(Users))
  \/ CreditLudoTournamentPrize(j)
  \/ \E u, v \in Users : CreditLudoMegaTournamentPrizes(j, <<[user |-> u, amount |-> PAISA], [user |-> v, amount |-> 2 * PAISA]>>)
  \/ ~PrizesBooked /\ RefundTournamentJoinFees(j)

Next ==
  \/ \E j \in JobIds : Call(j) \/ Look(j) \/ SetBalances(j) \/ SaveTransaction(j)
                       \/ ReadWallets(j) \/ BulkWrite(j) \/ InsertMany(j)
                       \/ ReadBonus(j) \/ SetBonus(j) \/ MarkExpired(j)
  \/ Crash

Spec == Init /\ [][Next]_vars
-----------------------------------------------------------------------------
Slipped(u) == \E s \in slips : s[2] = u
Busy(u) == \E j \in JobIds : u \in Concerned(j)
AtRest(u) == ~Slipped(u) /\ ~Busy(u)
Booked(u, p) ==
  LET mine == {i \in DOMAIN book : book[i].user = u}
  IN  MapThenSumSet(LAMBDA i : IF book[i].credit THEN book[i].parts[p] ELSE -book[i].parts[p], mine)
At(u, type, ref) == {i \in DOMAIN book : book[i].user = u /\ book[i].type = type /\ book[i].ref = ref}

TypeOK ==
  /\ balance \in [Users -> Wallets]
  /\ \A i \in DOMAIN book : book[i].user \in Users /\ book[i].parts \in Wallets
  /\ lapsed \in [Users -> Nat] /\ started \in 0..MaxCalls

(* What the purses of a player hold is what was booked, less the bonus that *)
(* has expired.                                                             *)
BookExplainsBalance ==
  \A u \in Users : AtRest(u) =>
    \A p \in Purses :
      balance[u][p] = Booked(u, p) - (IF p = "bonus" THEN lapsed[u] ELSE 0)

(* A bonus is taken back once, as far as it is still there.                 *)
BonusLapsesOnce ==
  \A u \in Users : AtRest(u) =>
    /\ lapsed[u] <= MapThenSumSet(LAMBDA i : IF book[i].user = u /\ book[i].expired THEN book[i].parts["bonus"] ELSE 0, DOMAIN book)
    /\ balance[u]["bonus"] >= 0

(* A conversion is withdrawn and deposited or neither, a refund by hand is  *)
(* made once, and a tournament's refund reaches everybody once.             *)
CallsAreWhole ==
  /\ \A u \in Users : AtRest(u) =>
       /\ Cardinality(At(u, "withdrawal", "o1")) = Cardinality(At(u, "deposit", "o1"))
       /\ Cardinality(At(u, "withdrawal", "o1")) <= 1
       /\ Cardinality(At(u, "ludoTournamentRefund", "cup")) <= 1
  /\ (\A u \in Users : AtRest(u)) =>
       \A u, v \in Users : At(u, "ludoTournamentRefund", "cup") # {} => At(v, "ludoTournamentRefund", "cup") # {}
  /\ slips = {} => Cardinality(UNION {At(u, "adminRefund", "o2") : u \in Users}) <= 1
=============================================================================
