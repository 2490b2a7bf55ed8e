-------------------------------- MODULE Wallet --------------------------------
(***************************************************************************)
(* The wallet service: #updateWallet as the four database operations it    *)
(* is, with other calls running between any two of them.  Nothing in the   *)
(* service locks a wallet and every message handler runs as soon as its    *)
(* message arrives.  What a prize does besides (convertToProIfEligible) is  *)
(* left out: it changes neither balances nor transactions.                 *)
(***************************************************************************)
EXTENDS WalletRequests

CONSTANT MaxCrashes     \* bound on the restarts of the service

ASSUME CrashAssumption == MaxCrashes \in Nat

VARIABLES wallet,       \* user documents: wallet
          transactions, \* transaction documents
          earning,      \* user documents: referral.earning
          pc,           \* where each call is
          snapshot,     \* the wallet each call has read
          crashes,
          answered,     \* history: same transactions answered when a call began
          raced         \* history: players with two calls at work at once

vars == <<wallet, transactions, earning, pc, snapshot, crashes, answered, raced>>

InFlight == {"check", "apply", "save", "earn"}
Ended == {"done", "refused", "lost", "torn", "unearned"}
States == {"idle"} \union InFlight \union Ended

UserOf(c) == Req[c].user
Working(c) == pc[c] \in InFlight

TypeOK ==
  /\ wallet \in [Users -> Wallets]
  /\ transactions \in SUBSET EntryType
  /\ earning \in [Users -> Nat]
  /\ pc \in [Calls -> States]
  /\ snapshot \in [Calls -> Wallets]
  /\ crashes \in 0..MaxCrashes
  /\ answered \in [Calls -> SUBSET Calls]
  /\ raced \in SUBSET Users

Nothing == [p \in Purses |-> 0]

Init ==
  /\ wallet = Opening
  /\ transactions = {}
  /\ earning = [u \in Users |-> 0]
  /\ pc = [c \in Calls |-> "idle"]
  /\ snapshot = [c \in Calls |-> Nothing]
  /\ crashes = 0
  /\ answered = [c \in Calls |-> {}]
  /\ raced = {}

Goto(c, s) == pc' = [pc EXCEPT ![c] = s]
Forget(c) == snapshot' = [snapshot EXCEPT ![c] = Nothing]

(* userModel.findById: the balances everything below is computed from.      *)
ReadWallet(c) ==
  /\ pc[c] = "idle"
  /\ snapshot' = [snapshot EXCEPT ![c] = wallet[UserOf(c)]]
  /\ Goto(c, IF SkipsDoubleCheck(Req[c]) THEN "apply" ELSE "check")
  /\ answered' = [answered EXCEPT ![c] =
       {d \in Calls : pc[d] = "done" /\ SameTransaction(Req[d], Req[c])}]
  /\ raced' = IF \E d \in Calls : Working(d) /\ UserOf(d) = UserOf(c)
                THEN raced \union {UserOf(c)} ELSE raced
  /\ UNCHANGED <<wallet, transactions, earning, crashes>>

(* transactionModel.findOne with the fields of the request.                 *)
CheckTransaction(c) ==
  /\ pc[c] = "check"
  /\ \/ /\ AlreadyExists(c, transactions)
        /\ Goto(c, "refused")
        /\ Forget(c)
     \/ /\ ~AlreadyExists(c, transactions)
        /\ Goto(c, "apply")
        /\ UNCHANGED snapshot
  /\ UNCHANGED <<wallet, transactions, earning, crashes, answered, raced>>

RefuseBalance(c) ==
  /\ pc[c] = "apply"
  /\ NotEnoughBalance(snapshot[c], Req[c])
  /\ Goto(c, "refused")
  /\ Forget(c)
  /\ UNCHANGED <<wallet, transactions, earning, crashes, answered, raced>>

(* Mutant: nobody looks at the balance before it is set.                    *)
SetBalancesUnchecked(c) ==
  /\ pc[c] = "apply"
  /\ wallet' = [wallet EXCEPT ![UserOf(c)] = UpdatedBalances(snapshot[c], Req[c])]
  /\ Goto(c, "save")
  /\ UNCHANGED <<transactions, earning, snapshot, crashes, answered, raced>>

(* findByIdAndUpdate with $set: the three balances as they were computed.   *)
SetBalances(c) ==
  /\ pc[c] = "apply"
  /\ ~NotEnoughBalance(snapshot[c], Req[c])
  /\ wallet' = [wallet EXCEPT ![UserOf(c)] = UpdatedBalances(snapshot[c], Req[c])]
  /\ Goto(c, "save")
  /\ UNCHANGED <<transactions, earning, snapshot, crashes, answered, raced>>

(* Mutant: the transaction records the portions that were asked for.        *)
ReceiptOfRequest(c) == Entry(c, Req[c].fee)

Receipt(c) == Entry(c, BreakDown(snapshot[c], Req[c]))

SaveTransaction(c) ==
  /\ pc[c] = "save"
  /\ transactions' = transactions \union {Receipt(c)}
  /\ Goto(c, IF Req[c].type = "referral" THEN "earn" ELSE "done")
  /\ Forget(c)
  /\ UNCHANGED <<wallet, earning, crashes, answered, raced>>

(* Big(amount).round(2) *)
Earned(c) == ToFixed2(Req[c].amount)

(* creditReferralBonus, after #updateWallet: $inc referral.earning.         *)
AddEarning(c) ==
  /\ pc[c] = "earn"
  /\ earning' = [earning EXCEPT ![UserOf(c)] = @ + Earned(c)]
  /\ Goto(c, "done")
  /\ UNCHANGED <<wallet, transactions, snapshot, crashes, answered, raced>>

AfterCrash(s) ==
  IF s \in {"check", "apply"} THEN "lost"
  ELSE IF s = "save" THEN "torn"
  ELSE IF s = "earn" THEN "unearned"
  ELSE s

(* The process dies: what it had sent to the database stays.                *)
Crash ==
  /\ crashes < MaxCrashes
  /\ \E c \in Calls : Working(c)
  /\ pc' = [c \in Calls |-> AfterCrash(pc[c])]
  /\ crashes' = crashes + 1
  /\ UNCHANGED <<wallet, transactions, earning, snapshot, answered, raced>>

Next ==
  \/ \E c \in Calls : \/ ReadWallet(c) \/ CheckTransaction(c) \/ RefuseBalance(c)
                      \/ SetBalances(c) \/ SaveTransaction(c) \/ AddEarning(c)
  \/ Crash

Spec == Init /\ [][Next]_vars

-----------------------------------------------------------------------------
(* The book as #updateWallet means it: the saved transactions and those of  *)
(* the calls that have set the balances but not saved yet.                  *)
Booked == transactions \union {Receipt(c) : c \in {d \in Calls : pc[d] \in {"save", "torn"}}}

Book == INSTANCE AccountBook WITH balance <- wallet, book <- Booked

(* The balances of a player are the opening ones plus what the transactions *)
(* say, counting the one a restart kept from being saved, as long as no two *)
(* calls of that player were at work at once: money is lost or made only    *)
(* where findById and findByIdAndUpdate of two calls interleave, never by a *)
(* refusal or by another player's call.                                     *)
LedgerMatchesBalance == \A u \in Users \ raced : Explained(u, wallet[u], Booked)

(* A request repeated after its first call was answered is refused, unless  *)
(* the code exempts it from the double transaction check.                   *)
RetryAfterAnswerRefused ==
  \A c \in Calls :
    (answered[c] # {} /\ ~SkipsDoubleCheck(Req[c])) =>
      pc[c] \notin {"apply", "save", "earn", "done", "torn", "unearned"}

TakesBack(r) == r.type = "adminRefund" /\ ~r.credit
WithinMeans(w, u) ==
  /\ w["win"] >= 0
  /\ \/ \E c \in Calls : UserOf(c) = u /\ TakesBack(Req[c])
     \/ w["main"] >= 0 /\ w["bonus"] >= 0

(* However the debits of one player interleave, none of them overdraws the  *)
(* winning purse, and only an administrator who takes money back overdraws  *)
(* another one.                                                             *)
NeverOverdrawn == \A u \in Users : WithinMeans(wallet[u], u)

Filed(c) == \E e \in transactions : e.call = c

(* The referral bonuses of a player whose $inc has been made.               *)
Credited(u) ==
  {c \in Calls : /\ UserOf(c) = u /\ Req[c].type = "referral"
                 /\ Filed(c) /\ pc[c] \notin {"earn", "unearned"}}

(* The earning shown to a player who referred others is the sum of the      *)
(* referral transactions, each rounded to paise, even when two friends      *)
(* deposit at the same time: only a restart between the transaction and the *)
(* $inc separates them.                                                     *)
EarningMatchesReferrals ==
  \A u \in Users : earning[u] = SumFunction([c \in Credited(u) |-> Earned(c)])

Undisturbed == raced = {} /\ crashes = 0

(* While no two calls of one player are at work together and the service    *)
(* does not restart, #updateWallet is the book: every step of the four      *)
(* database operations is a step of it or changes nothing in it.            *)
BookIsImplemented == Book!Init /\ [][Undisturbed' => [Book!Next]_(Book!vars)]_vars

(* 'Transaction already exists' (mongoose-wallet.reposiotry.ts:853): no two *)
(* transactions are the same, except those exempt from the check.           *)
NoDoubleTransaction ==
  \A e, f \in transactions :
    (e.call # f.call /\ SameTransaction(Req[e.call], Req[f.call]))
      => SkipsDoubleCheck(Req[e.call])

(* What is left of the wallet's promises when requests interleave and the   *)
(* service dies.                                                            *)
WalletStaysSound == LedgerMatchesBalance /\ NeverOverdrawn /\ EarningMatchesReferrals
=============================================================================
