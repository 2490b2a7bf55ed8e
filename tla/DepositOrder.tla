----------------------------- MODULE DepositOrder -----------------------------
(***************************************************************************)
(* Deposits: createDepositOrder and getDepositOrderStatus of the payment    *)
(* service.  The client polls an order and the gateway reports it through   *)
(* its webhook; both run the same handler, at any time and at the same      *)
(* time.  The handler writes the final status first and pays afterwards,    *)
(* and what it does between two awaits is an action of its own.             *)
(*                                                                         *)
(* A wallet call is its double transaction check and its booking; how the   *)
(* balances come about is the business of module Wallet.                    *)
(***************************************************************************)
EXTENDS Naturals, FiniteSets

CONSTANTS Orders,       \* deposit orders
          Invited,      \* the orders of players whom a friend has invited
          Checks,       \* calls of getDepositOrderStatus
          Webhooks,     \* those of them that the gateway makes
          OrderOf,      \* the order each check is about
          MaxFailures   \* bound on the calls that throw or die halfway

ASSUME DepositAssumption ==
  /\ Invited \subseteq Orders
  /\ Webhooks \subseteq Checks
  /\ OrderOf \in [Checks -> Orders]
  /\ MaxFailures \in Nat

VARIABLES gateway,      \* the order at Cashfree or Juspay
          status,       \* payment document: status; "none" before it is created
          deposits,     \* deposit transactions, by the check that booked them
          referrals,    \* referral transactions, by the check that booked them
          pc,           \* where each check is
          answer,       \* updatedStatus of each check
          failures,
          raced         \* history: orders with two checks at work at once

vars == <<gateway, status, deposits, referrals, pc, answer, failures, raced>>

Final == {"success", "failed"}
AtWork == {"ask", "update", "refer", "lookup", "credit"}
Ended == {"done", "refused", "failed", "broken"}

TypeOK ==
  /\ gateway \in [Orders -> {"none", "ACTIVE", "PAID", "EXPIRED"}]
  /\ status \in [Orders -> {"none", "pending"} \union Final]
  /\ deposits \in SUBSET Checks
  /\ referrals \in SUBSET Checks
  /\ pc \in [Checks -> {"idle"} \union AtWork \union Ended]
  /\ answer \in [Checks -> {"pending"} \union Final]
  /\ failures \in 0..MaxFailures
  /\ raced \in SUBSET Orders

Init ==
  /\ gateway = [o \in Orders |-> "none"]
  /\ status = [o \in Orders |-> "none"]
  /\ deposits = {}
  /\ referrals = {}
  /\ pc = [c \in Checks |-> "idle"]
  /\ answer = [c \in Checks |-> "pending"]
  /\ failures = 0
  /\ raced = {}

Goto(c, s) == pc' = [pc EXCEPT ![c] = s]

(* createDepositOrder: the order is made at the gateway, then stored.       *)
CreateAtGateway(o) ==
  /\ gateway[o] = "none"
  /\ gateway' = [gateway EXCEPT ![o] = "ACTIVE"]
  /\ UNCHANGED <<status, deposits, referrals, pc, answer, failures, raced>>

CreateDepositOrder(o) ==
  /\ gateway[o] # "none"
  /\ status[o] = "none"
  /\ status' = [status EXCEPT ![o] = "pending"]
  /\ UNCHANGED <<gateway, deposits, referrals, pc, answer, failures, raced>>

(* The player gets the payment session with the response, so only a stored  *)
(* order is paid; any order can lapse.                                      *)
Pay(o) ==
  /\ gateway[o] = "ACTIVE"
  /\ status[o] # "none"
  /\ gateway' = [gateway EXCEPT ![o] = "PAID"]
  /\ UNCHANGED <<status, deposits, referrals, pc, answer, failures, raced>>

Lapse(o) ==
  /\ gateway[o] = "ACTIVE"
  /\ gateway' = [gateway EXCEPT ![o] = "EXPIRED"]
  /\ UNCHANGED <<status, deposits, referrals, pc, answer, failures, raced>>

(* #getOrder and isFinalized.  A webhook comes when the gateway has decided. *)
GetOrder(c) ==
  LET o == OrderOf[c]
  IN  /\ pc[c] = "idle"
      /\ c \in Webhooks => gateway[o] \in {"PAID", "EXPIRED"}
      /\ \/ status[o] = "none" /\ Goto(c, "refused") /\ UNCHANGED raced
         \/ status[o] \in Final /\ Goto(c, "done") /\ UNCHANGED raced
         \/ /\ status[o] = "pending"
            /\ Goto(c, "ask")
            /\ raced' = IF \E d \in Checks : pc[d] \in AtWork /\ OrderOf[d] = o
                          THEN raced \union {o} ELSE raced
      /\ UNCHANGED <<gateway, status, deposits, referrals, answer, failures>>

(* Mutant: the gateway's word is taken over.                                *)
InterpretVerbatim(orderStatus) == orderStatus

(* Mutant: an order that has not failed is a success.                       *)
InterpretOpen(orderStatus) == IF orderStatus = "EXPIRED" THEN "failed" ELSE "success"

Interpret(orderStatus) ==
  CASE orderStatus = "ACTIVE" -> "pending"
    [] orderStatus = "PAID" -> "success"
    [] OTHER -> "failed"

(* Mutant: the status is written even when it is still pending.             *)
AskGatewayAndUpdate(c) ==
  /\ pc[c] = "ask"
  /\ answer' = [answer EXCEPT ![c] = Interpret(gateway[OrderOf[c]])]
  /\ Goto(c, "update")
  /\ UNCHANGED <<gateway, status, deposits, referrals, failures, raced>>

(* An answer equal to the status that was read ends the check.              *)
AskGateway(c) ==
  LET updatedStatus == Interpret(gateway[OrderOf[c]])
  IN  /\ pc[c] = "ask"
      /\ answer' = [answer EXCEPT ![c] = updatedStatus]
      /\ Goto(c, IF updatedStatus = "pending" THEN "done" ELSE "update")
      /\ UNCHANGED <<gateway, status, deposits, referrals, failures, raced>>

(* Mutant: the handler returns after the update.                            *)
UpdateOrderAndReturn(c) ==
  /\ pc[c] = "update"
  /\ status' = [status EXCEPT ![OrderOf[c]] = answer[c]]
  /\ Goto(c, "done")
  /\ UNCHANGED <<gateway, deposits, referrals, answer, failures, raced>>

(* updateOrder: findOneAndUpdate by orderId alone, before any payment.      *)
UpdateOrder(c) ==
  /\ pc[c] = "update"
  /\ status' = [status EXCEPT ![OrderOf[c]] = answer[c]]
  /\ Goto(c, IF answer[c] # "success" THEN "done"
             ELSE IF OrderOf[c] \in Invited THEN "refer" ELSE "lookup")
  /\ UNCHANGED <<gateway, deposits, referrals, answer, failures, raced>>

(* #creditReferralBonus: the wallet does not look for an earlier one.       *)
CreditReferralBonus(c) ==
  /\ pc[c] = "refer"
  /\ referrals' = referrals \union {c}
  /\ Goto(c, "lookup")
  /\ UNCHANGED <<gateway, status, deposits, answer, failures, raced>>

Deposited(o) == {c \in deposits : OrderOf[c] = o}

(* Mutant: the check forgets to compare the order.                          *)
LookUpAnyDeposit(c) ==
  /\ pc[c] = "lookup"
  /\ Goto(c, IF deposits # {} THEN "refused" ELSE "credit")
  /\ UNCHANGED <<gateway, status, deposits, referrals, answer, failures, raced>>

(* creditDepositToWallet: 'Transaction already exists' ends the handler.    *)
LookUpDeposit(c) ==
  /\ pc[c] = "lookup"
  /\ Goto(c, IF Deposited(OrderOf[c]) # {} THEN "refused" ELSE "credit")
  /\ UNCHANGED <<gateway, status, deposits, referrals, answer, failures, raced>>

CreditDeposit(c) ==
  /\ pc[c] = "credit"
  /\ deposits' = deposits \union {c}
  /\ Goto(c, "done")
  /\ UNCHANGED <<gateway, status, referrals, answer, failures, raced>>

(* A call throws (gateway, database, user not found) or the process dies.   *)
Fail(c) ==
  /\ failures < MaxFailures
  /\ pc[c] \in AtWork
  /\ Goto(c, IF pc[c] \in {"ask", "update"} THEN "failed" ELSE "broken")
  /\ failures' = failures + 1
  /\ UNCHANGED <<gateway, status, deposits, referrals, answer, raced>>

Handle(c) == GetOrder(c) \/ AskGateway(c) \/ UpdateOrder(c) \/ CreditReferralBonus(c)
             \/ LookUpDeposit(c) \/ CreditDeposit(c)

Next ==
  \/ \E o \in Orders : CreateAtGateway(o) \/ CreateDepositOrder(o) \/ Pay(o) \/ Lapse(o)
  \/ \E c \in Checks : Handle(c) \/ Fail(c)

Spec == Init /\ [][Next]_vars

(* Handlers that have begun go on, and the gateway delivers its webhooks.   *)
Fairness ==
  /\ \A c \in Checks : WF_vars(Handle(c) /\ pc[c] # "idle")
  /\ \A c \in Webhooks : WF_vars(GetOrder(c))

FairSpec == Spec /\ Fairness

-----------------------------------------------------------------------------
At(o, places) == \E c \in Checks : OrderOf[c] = o /\ pc[c] \in places

(* Money enters a wallet only for an order the gateway was paid for and     *)
(* that is stored as a success, whichever check booked it and however many  *)
(* checks read the order before.                                            *)
CreditsArePaidFor ==
  \A c \in deposits \union referrals :
    gateway[OrderOf[c]] = "PAID" /\ status[OrderOf[c]] = "success"

(* An order stored as a success is credited, or a check is on the way to    *)
(* crediting it, or the check that should have done so stopped after it had *)
(* written the status: nobody repairs it then, as every later check finds   *)
(* the order final.                                                         *)
SuccessIsCredited ==
  \A o \in Orders :
    status[o] = "success" => \/ Deposited(o) # {}
                             \/ At(o, {"refer", "lookup", "credit"})
                             \/ At(o, {"broken"})

(* A final status stays: however late a check writes, it writes what the    *)
(* order already has.                                                       *)
FinalStatusStays ==
  [][\A o \in Orders : status[o] \in Final => status'[o] = status[o]]_vars

Settled(o) == ~At(o, AtWork \union {"broken"}) /\ o \notin raced

(* The friend and the player are paid for the same deposits: one referral   *)
(* bonus for each credited deposit of an invited player, unless two checks  *)
(* of the order overlapped or one stopped halfway.                          *)
ReferralsMatchDeposits ==
  \A o \in Orders :
    Settled(o) =>
      /\ Cardinality(Deposited(o)) <= 1
      /\ Cardinality({c \in referrals : OrderOf[c] = o})
           = IF o \in Invited THEN Cardinality(Deposited(o)) ELSE 0

AllReportsFailed(o) == \A c \in Webhooks : OrderOf[c] = o => pc[c] = "failed"

(* A paid order is credited in the end, unless every report of the gateway  *)
(* failed before it had written the status, or a check stopped after it     *)
(* had: then nobody credits it any more.                                    *)
PaidIsCredited ==
  \A o \in Orders :
    gateway[o] = "PAID" ~> Deposited(o) # {} \/ At(o, {"broken"}) \/ AllReportsFailed(o)

(* What has been paid is credited, and each deposit has brought its         *)
(* referral bonus.                                                          *)
DepositIsSettled == []ReferralsMatchDeposits /\ PaidIsCredited
=============================================================================
