------------------------------ MODULE PayoutOrder ------------------------------
(***************************************************************************)
(* The life of one payout order: createPayoutOrder, the webhooks of the     *)
(* gateway, and the staff who approve or reject an order under review.      *)
(* Each handler reads the order once and works on that copy; it pays first  *)
(* and writes the status last, the other way round than a deposit.          *)
(*                                                                         *)
(* The limits on a payout decide only whether DebitPayout happens, and the  *)
(* approval of the payout account matters only to later orders; neither is  *)
(* part of this module.  A wallet call is its double transaction check and  *)
(* its booking.                                                             *)
(***************************************************************************)
EXTENDS Naturals, FiniteSets

CONSTANTS Creator,      \* the call of createPayoutOrder
          Webhooks,     \* reports of the gateway: webhookJuspay, webhookCashfree
          Approvals,    \* calls of manuallyApproveWithdrawal
          Rejections,   \* calls of manuallyRejectWithdrawal
          Cashback,     \* tax deduction and tax cashback are switched on
          MaxFailures   \* bound on the calls that throw or die halfway

Staff == Approvals \union Rejections
Handlers == {Creator} \union Webhooks \union Staff

ASSUME PayoutAssumption ==
  /\ Cashback \in BOOLEAN
  /\ MaxFailures \in Nat
  /\ Creator \notin Webhooks \union Staff
  /\ Webhooks \cap Staff = {}
  /\ Approvals \cap Rejections = {}

VARIABLES debited,      \* the withdrawal transaction exists
          status,       \* payment document: status; "none" before it is created
          taxRecord,    \* payment document: taxdeduction is set
          transfer,     \* the transfer at the gateway
          refunds,      \* refund transactions, by the handler that booked them
          rewards,      \* tax reward transactions, by the handler that booked them
          pc,           \* where each handler is
          answer,       \* the status each handler is going to write
          failures,
          late,         \* history: the handlers that began after a refund, after a reward
          crossed       \* history: an approval and a rejection both found manualReview

vars == <<debited, status, taxRecord, transfer, refunds, rewards, pc, answer, failures,
          late, crossed>>

Final == {"success", "refund"}
AtWork == {"record", "transfer", "ask", "checkRefund", "deleteTds", "lookupRefund",
           "creditRefund", "lookupReward", "creditReward", "write"}
Ended == {"done", "barred", "refused", "broken"}

TypeOK ==
  /\ debited \in BOOLEAN
  /\ status \in {"none", "pending", "manualReview"} \union Final
  /\ taxRecord \in BOOLEAN
  /\ transfer \in {"none", "pending", "paid", "returned"}
  /\ refunds \in SUBSET Handlers
  /\ rewards \in SUBSET Handlers
  /\ pc \in [Handlers -> {"idle"} \union AtWork \union Ended]
  /\ answer \in [Handlers -> {"pending"} \union Final]
  /\ failures \in 0..MaxFailures
  /\ late \in [{"refund", "success"} -> SUBSET Handlers]
  /\ crossed \in BOOLEAN

Init ==
  /\ debited = FALSE
  /\ status = "none"
  /\ taxRecord = FALSE
  /\ transfer = "none"
  /\ refunds = {}
  /\ rewards = {}
  /\ pc = [h \in Handlers |-> "idle"]
  /\ answer = [h \in Handlers |-> "pending"]
  /\ failures = 0
  /\ late = [s \in {"refund", "success"} |-> {}]
  /\ crossed = FALSE

Goto(h, s) == pc' = [pc EXCEPT ![h] = s]
Order == <<debited, status, taxRecord>>
Booked == <<refunds, rewards>>
History == <<late, crossed>>

(* createPayoutOrder: the winning purse is debited before the order exists. *)
DebitPayout ==
  /\ pc[Creator] = "idle"
  /\ \/ Goto(Creator, "barred") /\ UNCHANGED debited
     \/ Goto(Creator, "record") /\ debited' = TRUE
  /\ UNCHANGED <<status, taxRecord, transfer, Booked, answer, failures, History>>

(* The order is stored under review, and the call ends, or as pending, and  *)
(* the transfer follows.                                                    *)
CreatePayoutOrder ==
  /\ pc[Creator] = "record"
  /\ \/ status' = "manualReview" /\ Goto(Creator, "done")
     \/ status' = "pending" /\ Goto(Creator, "transfer")
  /\ taxRecord' = TRUE
  /\ UNCHANGED <<debited, transfer, Booked, answer, failures, History>>

(* initiateTransfer names the transfer after the order, so the gateway      *)
(* makes one transfer however often it is asked.                            *)
InitiateTransfer(h) ==
  /\ pc[h] = "transfer"
  /\ transfer' = IF transfer = "none" THEN "pending" ELSE transfer
  /\ Goto(h, "ask")
  /\ UNCHANGED <<Order, Booked, answer, failures, History>>

SettleTransfer ==
  /\ transfer = "pending"
  /\ transfer' \in {"paid", "returned"}
  /\ UNCHANGED <<Order, Booked, pc, answer, failures, History>>

BookedFor(s) == IF s = "refund" THEN refunds ELSE rewards
NoteLate(h) == late' = [s \in {"refund", "success"} |->
                          IF BookedFor(s) # {} THEN late[s] \union {h} ELSE late[s]]

(* webhookJuspay and webhookCashfree: getOrder, and isFinalized on the copy. *)
ReadForWebhook(h) ==
  /\ h \in Webhooks
  /\ pc[h] = "idle"
  /\ transfer \in {"paid", "returned"}
  /\ Goto(h, IF status \in Final THEN "done" ELSE "ask")
  /\ NoteLate(h)
  /\ UNCHANGED <<Order, transfer, Booked, answer, failures, crossed>>

(* Some of them found the order under review and have not written its status. *)
Unfinished(staff) == \E s \in staff : pc[s] \notin {"idle", "barred", "done"}

(* manuallyApproveWithdrawal and manuallyRejectWithdrawal: getOrder and the *)
(* check that the order is under review.                                    *)
ReadForApproval(h) ==
  /\ h \in Approvals
  /\ pc[h] = "idle"
  /\ status # "none"
  /\ Goto(h, IF status = "manualReview" THEN "transfer" ELSE "barred")
  /\ crossed' = (crossed \/ (status = "manualReview" /\ Unfinished(Rejections)))
  /\ NoteLate(h)
  /\ UNCHANGED <<Order, transfer, Booked, answer, failures>>

(* Mutant: any order can be rejected.                                       *)
ReadForRejectionOfAny(h) ==
  /\ h \in Rejections
  /\ pc[h] = "idle"
  /\ status # "none"
  /\ Goto(h, "checkRefund")
  /\ answer' = [answer EXCEPT ![h] = "refund"]
  /\ crossed' = (crossed \/ (status = "manualReview" /\ Unfinished(Approvals)))
  /\ NoteLate(h)
  /\ UNCHANGED <<Order, transfer, Booked, failures>>

ReadForRejection(h) ==
  /\ h \in Rejections
  /\ pc[h] = "idle"
  /\ status # "none"
  /\ Goto(h, IF status = "manualReview" THEN "checkRefund" ELSE "barred")
  /\ answer' = [answer EXCEPT ![h] = "refund"]
  /\ crossed' = (crossed \/ (status = "manualReview" /\ Unfinished(Approvals)))
  /\ NoteLate(h)
  /\ UNCHANGED <<Order, transfer, Booked, failures>>

(* Mutant: the gateway's word is taken over.                                *)
InterpretVerbatim(transferStatus) == transferStatus

(* Mutant: whatever is not a success may still become one.                  *)
InterpretPatiently(transferStatus) == IF transferStatus = "paid" THEN "success" ELSE "pending"

(* #interpretPayoutStatus: whatever is neither pending nor a success is to  *)
(* be refunded.                                                             *)
Interpret(transferStatus) ==
  CASE transferStatus = "pending" -> "pending"
    [] transferStatus = "paid" -> "success"
    [] OTHER -> "refund"

(* Mutant: the status is written and the refund forgotten.                  *)
AskGatewayAndWrite(h) ==
  LET updatedStatus == Interpret(transfer)
  IN  /\ pc[h] = "ask"
      /\ answer' = [answer EXCEPT ![h] = updatedStatus]
      /\ Goto(h, IF updatedStatus = "success" /\ Cashback THEN "lookupReward" ELSE "write")
      /\ UNCHANGED <<Order, transfer, Booked, failures, History>>

(* getPayoutStatusFromGateway, and where #updatePayoutOrderStatus goes with *)
(* the answer.                                                              *)
AskGateway(h) ==
  LET updatedStatus == Interpret(transfer)
  IN  /\ pc[h] = "ask"
      /\ answer' = [answer EXCEPT ![h] = updatedStatus]
      /\ Goto(h, CASE updatedStatus = "refund" -> "checkRefund"
                   [] updatedStatus = "success" /\ Cashback -> "lookupReward"
                   [] OTHER -> "write")
      /\ UNCHANGED <<Order, transfer, Booked, failures, History>>

(* #initiatePayoutRefund: checkRefundExists, deleteTdsRecord and the wallet *)
(* with its double transaction check.                                       *)
CheckRefundExists(h) ==
  /\ pc[h] = "checkRefund"
  /\ Goto(h, IF status = "refund" THEN "refused" ELSE "deleteTds")
  /\ UNCHANGED <<Order, transfer, Booked, answer, failures, History>>

DeleteTdsRecord(h) ==
  /\ pc[h] = "deleteTds"
  /\ taxRecord' = FALSE
  /\ Goto(h, "lookupRefund")
  /\ UNCHANGED <<debited, status, transfer, Booked, answer, failures, History>>

(* Mutant: the refund is exempt from the double transaction check.          *)
LookUpNoRefund(h) ==
  /\ pc[h] = "lookupRefund"
  /\ Goto(h, "creditRefund")
  /\ UNCHANGED <<Order, transfer, Booked, answer, failures, History>>

LookUpRefund(h) ==
  /\ pc[h] = "lookupRefund"
  /\ Goto(h, IF refunds # {} THEN "refused" ELSE "creditRefund")
  /\ UNCHANGED <<Order, transfer, Booked, answer, failures, History>>

CreditPayoutRefund(h) ==
  /\ pc[h] = "creditRefund"
  /\ refunds' = refunds \union {h}
  /\ Goto(h, "write")
  /\ UNCHANGED <<Order, transfer, rewards, answer, failures, History>>

(* creditTaxRewardToWallet.                                                 *)
LookUpReward(h) ==
  /\ pc[h] = "lookupReward"
  /\ Goto(h, IF rewards # {} THEN "refused" ELSE "creditReward")
  /\ UNCHANGED <<Order, transfer, Booked, answer, failures, History>>

CreditTaxReward(h) ==
  /\ pc[h] = "creditReward"
  /\ rewards' = rewards \union {h}
  /\ Goto(h, "write")
  /\ UNCHANGED <<Order, transfer, refunds, answer, failures, History>>

(* updatePayoutOrder: findOneAndUpdate by orderId, whatever the status is.  *)
WriteStatus(h) ==
  /\ pc[h] = "write"
  /\ status' = answer[h]
  /\ Goto(h, "done")
  /\ UNCHANGED <<debited, taxRecord, transfer, Booked, answer, failures, History>>

Fail(h) ==
  /\ failures < MaxFailures
  /\ pc[h] \in AtWork
  /\ Goto(h, "broken")
  /\ failures' = failures + 1
  /\ UNCHANGED <<Order, transfer, Booked, answer, History>>

GoOn(h) ==
  \/ h = Creator /\ CreatePayoutOrder
  \/ InitiateTransfer(h) \/ AskGateway(h)
  \/ CheckRefundExists(h) \/ DeleteTdsRecord(h) \/ LookUpRefund(h) \/ CreditPayoutRefund(h)
  \/ LookUpReward(h) \/ CreditTaxReward(h)
  \/ WriteStatus(h)

Next ==
  \/ DebitPayout
  \/ SettleTransfer
  \/ \E h \in Handlers :
       GoOn(h) \/ ReadForWebhook(h) \/ ReadForApproval(h) \/ ReadForRejection(h) \/ Fail(h)

Spec == Init /\ [][Next]_vars

(* Handlers that have begun go on, and the gateway delivers its webhooks.   *)
Fairness ==
  \A h \in Handlers : WF_vars(GoOn(h)) /\ WF_vars(ReadForWebhook(h))

FairSpec == Spec /\ Fairness

-----------------------------------------------------------------------------
(* A final status is never ahead of the money: an order is stored as        *)
(* refunded only with its refund booked and, where the tax is given back,   *)
(* as a success only with the reward booked, in whatever order the handlers *)
(* write.                                                                   *)
StatusFollowsMoney ==
  /\ status = "refund" => refunds # {}
  /\ status = "success" /\ Cashback => rewards # {}

(* A handler that began after the refund was booked books no second one,    *)
(* and the same for the reward, even where the first handler broke off      *)
(* before it wrote the status and the order still looks open.               *)
LatecomersBookNothing ==
  \A s \in {"refund", "success"} : late[s] \cap BookedFor(s) = {}

(* The money goes to the bank account or back to the wallet, not to both,   *)
(* unless an approval and a rejection found the order under review while    *)
(* the other one had not finished.                                          *)
PaidOrRefunded == refunds # {} /\ ~crossed => transfer \notin {"pending", "paid"}

(* The money taken from the wallet has an order that accounts for it, or    *)
(* the call that took it is still at work, or it broke off in between.      *)
DebitHasAnOrder ==
  debited => status # "none" \/ pc[Creator] \in {"record", "broken"}

(* The tax record goes away with the refund: without it there is a refund,  *)
(* or a handler is about to book one or broke off.                          *)
TaxRecordFollowsRefund ==
  status # "none" =>
    /\ refunds # {} => ~taxRecord
    /\ ~taxRecord => \/ refunds # {}
                     \/ \E h \in Handlers : pc[h] \in {"lookupRefund", "creditRefund", "broken"}

(* A late answer may take an order back to pending, but never turns a       *)
(* success into a refund or a refund into a success, unless staff crossed.  *)
OutcomeNeverFlips ==
  [][(status \in Final /\ ~crossed) => (status' = status \/ status' = "pending")]_vars

(* A returned transfer is refunded in the end although handlers fail: the   *)
(* status is written last, so the next webhook finds the order open.        *)
ReturnedIsRefunded == transfer = "returned" ~> refunds # {}

(* What the debit of the winning purse is owed: an order and its tax        *)
(* record, and then one outcome that stands, a refund if the money returns. *)
OrderIsSettled ==
  []DebitHasAnOrder /\ []TaxRecordFollowsRefund /\ OutcomeNeverFlips /\ ReturnedIsRefunded

(* 'Order is not in manual review status' (payout.use-cases.ts:733,765): an *)
(* order that was rejected is not transferred, nor the other way round.     *)
NotBothApprovedAndRejected == ~(refunds \cap Rejections # {} /\ transfer # "none")
=============================================================================
