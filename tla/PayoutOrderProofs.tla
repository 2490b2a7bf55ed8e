--------------------------- MODULE PayoutOrderProofs ---------------------------
(***************************************************************************)
(* One payout order, for any number of webhooks, approvals, rejections and *)
(* failures.                                                               *)
(***************************************************************************)
EXTENDS PayoutOrder, TLAPS

USE PayoutAssumption

(* Every handler keeps the order and what is booked for it in their types.  *)
THEOREM TypeCorrect == Spec => []TypeOK
<1> USE DEF TypeOK, Final, AtWork, Ended, Handlers, Staff
<1>1. ASSUME Init PROVE TypeOK
  <2>1. debited \in BOOLEAN /\ taxRecord \in BOOLEAN /\ crossed \in BOOLEAN
    BY <1>1 DEF Init
  <2>2. refunds \in SUBSET Handlers /\ rewards \in SUBSET Handlers /\ failures \in 0..MaxFailures
    BY <1>1 DEF Init
  <2>3. pc \in [Handlers -> {"idle"} \union AtWork \union Ended]
    BY <1>1 DEF Init
  <2>4. answer \in [Handlers -> {"pending"} \union Final]
    BY <1>1 DEF Init
  <2>5. late \in [{"refund", "success"} -> SUBSET Handlers]
    BY <1>1 DEF Init
  <2> QED BY <2>1, <2>2, <2>3, <2>4, <2>5, <1>1 DEF Init
<1>2. ASSUME TypeOK, [Next]_vars PROVE TypeOK'
  <2> USE <1>2 DEF Order, Booked, History, Goto
  <2>1. CASE DebitPayout
    BY <2>1 DEF DebitPayout
  <2>2. CASE SettleTransfer
    BY <2>2 DEF SettleTransfer
  <2>3. CASE CreatePayoutOrder
    BY <2>3 DEF CreatePayoutOrder
  <2>4. ASSUME NEW h \in Handlers, InitiateTransfer(h) PROVE TypeOK'
    BY <2>4 DEF InitiateTransfer
  <2>5. ASSUME NEW h \in Handlers, AskGateway(h) PROVE TypeOK'
    <3>1. Interpret(transfer) \in {"pending", "success", "refund"}
      BY DEF Interpret
    <3>2. pc' \in [Handlers -> {"idle"} \union AtWork \union Ended]
      <4>1. CASE Interpret(transfer) = "refund"
        BY <4>1, <2>5 DEF AskGateway
      <4>2. CASE Interpret(transfer) # "refund" /\ Interpret(transfer) = "success" /\ Cashback
        BY <4>2, <2>5 DEF AskGateway
      <4>3. CASE Interpret(transfer) # "refund" /\ ~(Interpret(transfer) = "success" /\ Cashback)
        BY <4>3, <2>5 DEF AskGateway
      <4> QED BY <4>1, <4>2, <4>3
    <3> QED BY <2>5, <3>1, <3>2 DEF AskGateway
  <2>6. ASSUME NEW h \in Handlers,
               CheckRefundExists(h) \/ DeleteTdsRecord(h) \/ LookUpRefund(h) \/ LookUpReward(h)
        PROVE  TypeOK'
    BY <2>6 DEF CheckRefundExists, DeleteTdsRecord, LookUpRefund, LookUpReward
  <2>7. ASSUME NEW h \in Handlers, CreditPayoutRefund(h) \/ CreditTaxReward(h) PROVE TypeOK'
    BY <2>7 DEF CreditPayoutRefund, CreditTaxReward
  <2>8. ASSUME NEW h \in Handlers, WriteStatus(h) PROVE TypeOK'
    BY <2>8 DEF WriteStatus
  <2>9. ASSUME NEW h \in Handlers, ReadForWebhook(h) PROVE TypeOK'
    BY <2>9 DEF ReadForWebhook, NoteLate, BookedFor
  <2>10. ASSUME NEW h \in Handlers, ReadForApproval(h) PROVE TypeOK'
    BY <2>10 DEF ReadForApproval, NoteLate, BookedFor
  <2>11. ASSUME NEW h \in Handlers, ReadForRejection(h) PROVE TypeOK'
    BY <2>11 DEF ReadForRejection, NoteLate, BookedFor
  <2>12. ASSUME NEW h \in Handlers, Fail(h) PROVE TypeOK'
    BY <2>12 DEF Fail
  <2>13. CASE UNCHANGED vars
    BY <2>13 DEF vars
  <2> QED BY <2>1, <2>2, <2>3, <2>4, <2>5, <2>6, <2>7, <2>8, <2>9, <2>10, <2>11, <2>12, <2>13
       DEF Next, GoOn
<1> QED BY <1>1, <1>2, PTL DEF Spec

-----------------------------------------------------------------------------
RefundStages == {"checkRefund", "deleteTds", "lookupRefund", "creditRefund"}
RewardStages == {"lookupReward", "creditReward"}

(* A handler on the way to a refund will write "refund", one on the way to  *)
(* a reward "success", and whoever is about to write a final status has     *)
(* found, or made, the booking that goes with it.                           *)
AnswersFit ==
  \A h \in Handlers :
    /\ pc[h] \in RefundStages => answer[h] = "refund"
    /\ pc[h] \in RewardStages => answer[h] = "success"
    /\ pc[h] = "write" => (answer[h] = "refund" => refunds # {})
    /\ pc[h] = "write" => (answer[h] = "success" /\ Cashback => rewards # {})

(* A handler books only what it has looked for since it began.              *)
LateAreWarned ==
  /\ \A s \in {"refund", "success"} : late[s] # {} => BookedFor(s) # {}
  /\ \A h \in Handlers :
       /\ pc[h] = "idle" => h \notin refunds \union rewards
       /\ pc[h] = "creditRefund" => h \notin late["refund"]
       /\ pc[h] = "creditReward" => h \notin late["success"]

Payments == AnswersFit /\ StatusFollowsMoney /\ LateAreWarned /\ LatecomersBookNothing

(* A step that books nothing, writes no status and sends nobody to a stage  *)
(* where money moves keeps Payments.                                        *)
LEMMA QuietStep ==
  ASSUME Payments, UNCHANGED <<status, refunds, rewards, late, answer>>,
         \A h \in Handlers :
           \/ pc'[h] = pc[h]
           \/ pc'[h] \in {"record", "transfer", "ask", "done", "barred", "refused", "broken"}
           \/ pc[h] \in RefundStages /\ pc'[h] \in RefundStages
              /\ (pc'[h] = "creditRefund" => refunds = {})
           \/ pc[h] \in RewardStages /\ pc'[h] = "creditReward" /\ rewards = {}
  PROVE  Payments'
BY DEF Payments, AnswersFit, StatusFollowsMoney, LateAreWarned, LatecomersBookNothing,
       BookedFor, RefundStages, RewardStages

LEMMA PaymentsStep == ASSUME TypeOK, Payments, [Next]_vars PROVE Payments'
<1> USE DEF Order, Booked, History, Goto
<1>t. pc \in [Handlers -> {"idle"} \union AtWork \union Ended]
      /\ answer \in [Handlers -> {"pending"} \union Final]
      /\ late \in [{"refund", "success"} -> SUBSET Handlers]
  BY DEF TypeOK
<1>1. CASE DebitPayout
  BY <1>1, <1>t, QuietStep DEF DebitPayout
<1>2. CASE SettleTransfer
  BY <1>2, QuietStep DEF SettleTransfer
<1>3. CASE CreatePayoutOrder
  <2>1. \A h \in Handlers : pc'[h] = pc[h] \/ pc'[h] \in {"transfer", "done"}
    BY <1>3, <1>t DEF CreatePayoutOrder
  <2>2. status' \notin Final /\ UNCHANGED <<refunds, rewards, late, answer>>
    BY <1>3 DEF CreatePayoutOrder, Final
  <2> QED BY <2>1, <2>2 DEF Payments, AnswersFit, StatusFollowsMoney, LateAreWarned,
                            LatecomersBookNothing, BookedFor, RefundStages, RewardStages, Final
<1>4. ASSUME NEW h \in Handlers, InitiateTransfer(h) PROVE Payments'
  BY <1>4, <1>t, QuietStep DEF InitiateTransfer
<1>5. ASSUME NEW h \in Handlers, AskGateway(h) PROVE Payments'
  <2> DEFINE u == Interpret(transfer)
  <2>1. UNCHANGED <<status, refunds, rewards, late>> /\ answer' = [answer EXCEPT ![h] = u]
    BY <1>5 DEF AskGateway
  <2>2. u \in {"pending", "success", "refund"}
    BY DEF Interpret
  <2>3. \A g \in Handlers : g # h => pc'[g] = pc[g] /\ answer'[g] = answer[g]
    BY <1>5, <1>t, <2>1 DEF AskGateway
  <2>4. /\ u = "refund" => pc'[h] = "checkRefund"
        /\ u = "success" /\ Cashback => pc'[h] = "lookupReward"
        /\ u = "pending" \/ (u = "success" /\ ~Cashback) => pc'[h] = "write"
    <3>1. CASE u = "refund"
      BY <3>1, <1>5, <1>t DEF AskGateway
    <3>2. CASE u = "success" /\ Cashback
      BY <3>2, <1>5, <1>t DEF AskGateway
    <3>3. CASE u = "pending" \/ (u = "success" /\ ~Cashback)
      BY <3>3, <1>5, <1>t DEF AskGateway
    <3> QED BY <3>1, <3>2, <3>3, <2>2
  <2>5. answer'[h] = u
    BY <2>1, <1>t
  <2>6. AnswersFit'
    BY <2>1, <2>2, <2>3, <2>4, <2>5 DEF Payments, AnswersFit, RefundStages, RewardStages
  <2>7. LateAreWarned'
    BY <2>1, <2>2, <2>3, <2>4 DEF Payments, LateAreWarned, BookedFor
  <2> QED BY <2>1, <2>6, <2>7 DEF Payments, StatusFollowsMoney, LatecomersBookNothing, BookedFor
<1>6. ASSUME NEW h \in Handlers,
             CheckRefundExists(h) \/ DeleteTdsRecord(h) \/ LookUpRefund(h) \/ LookUpReward(h)
      PROVE  Payments'
  BY <1>6, <1>t, QuietStep
  DEF CheckRefundExists, DeleteTdsRecord, LookUpRefund, LookUpReward, RefundStages, RewardStages
<1>7. ASSUME NEW h \in Handlers, CreditPayoutRefund(h) \/ CreditTaxReward(h) PROVE Payments'
  <2>1. \A g \in Handlers : g # h => pc'[g] = pc[g]
    BY <1>7, <1>t DEF CreditPayoutRefund, CreditTaxReward
  <2>2. pc'[h] = "write" /\ UNCHANGED <<status, late, answer>>
    BY <1>7, <1>t DEF CreditPayoutRefund, CreditTaxReward
  <2>3. \/ /\ pc[h] = "creditRefund" /\ answer[h] = "refund" /\ h \notin late["refund"]
           /\ refunds' = refunds \union {h} /\ rewards' = rewards
        \/ /\ pc[h] = "creditReward" /\ answer[h] = "success" /\ h \notin late["success"]
           /\ rewards' = rewards \union {h} /\ refunds' = refunds
    BY <1>7 DEF CreditPayoutRefund, CreditTaxReward, Payments, AnswersFit, LateAreWarned,
                RefundStages, RewardStages
  <2>4. AnswersFit'
    BY <2>1, <2>2, <2>3 DEF Payments, AnswersFit, RefundStages, RewardStages
  <2>5. LateAreWarned'
    BY <2>1, <2>2, <2>3 DEF Payments, LateAreWarned, BookedFor
  <2> QED BY <2>2, <2>3, <2>4, <2>5
       DEF Payments, StatusFollowsMoney, LatecomersBookNothing, BookedFor
<1>8. ASSUME NEW h \in Handlers, WriteStatus(h) PROVE Payments'
  <2>1. \A g \in Handlers : pc'[g] = pc[g] \/ pc'[g] = "done"
    BY <1>8, <1>t DEF WriteStatus
  <2>2. UNCHANGED <<refunds, rewards, late, answer>> /\ status' = answer[h]
    BY <1>8 DEF WriteStatus
  <2>3. StatusFollowsMoney'
    BY <2>2, <1>8 DEF WriteStatus, Payments, AnswersFit, StatusFollowsMoney
  <2>4. AnswersFit'
    BY <2>1, <2>2 DEF Payments, AnswersFit, RefundStages, RewardStages
  <2>5. LateAreWarned'
    BY <2>1, <2>2 DEF Payments, LateAreWarned, BookedFor
  <2> QED BY <2>2, <2>3, <2>4, <2>5 DEF Payments, LatecomersBookNothing, BookedFor
<1>9. ASSUME NEW h \in Handlers,
             ReadForWebhook(h) \/ ReadForApproval(h) \/ ReadForRejection(h)
      PROVE  Payments'
  <2>1. UNCHANGED <<status, refunds, rewards>> /\ pc[h] = "idle" /\ NoteLate(h)
    BY <1>9 DEF ReadForWebhook, ReadForApproval, ReadForRejection
  <2>2. \A g \in Handlers : g # h => pc'[g] = pc[g] /\ answer'[g] = answer[g]
    BY <1>9, <1>t DEF ReadForWebhook, ReadForApproval, ReadForRejection
  <2>3. pc'[h] \in {"done", "ask", "transfer", "barred", "checkRefund"}
        /\ (pc'[h] = "checkRefund" => answer'[h] = "refund")
    BY <1>9, <1>t DEF ReadForWebhook, ReadForApproval, ReadForRejection
  <2>4. \A s \in {"refund", "success"} :
          /\ late'[s] \subseteq late[s] \union {h}
          /\ BookedFor(s) = {} => late'[s] = late[s]
    <3>1. late' = [s \in {"refund", "success"} |->
                     IF BookedFor(s) # {} THEN late[s] \union {h} ELSE late[s]]
      BY <2>1 DEF NoteLate
    <3> QED BY <3>1
  <2>5. AnswersFit'
    BY <2>1, <2>2, <2>3 DEF Payments, AnswersFit, RefundStages, RewardStages
  <2>6. LateAreWarned'
    BY <2>1, <2>2, <2>3, <2>4 DEF Payments, LateAreWarned, BookedFor
  <2>7. LatecomersBookNothing'
    BY <2>1, <2>4 DEF Payments, LatecomersBookNothing, LateAreWarned, BookedFor
  <2> QED BY <2>1, <2>5, <2>6, <2>7 DEF Payments, StatusFollowsMoney
<1>10. ASSUME NEW h \in Handlers, Fail(h) PROVE Payments'
  BY <1>10, <1>t, QuietStep DEF Fail
<1>11. CASE UNCHANGED vars
  BY <1>11, QuietStep DEF vars
<1> QED BY <1>1, <1>2, <1>3, <1>4, <1>5, <1>6, <1>7, <1>8, <1>9, <1>10, <1>11 DEF Next, GoOn

LEMMA InitPayments == Init => Payments
BY DEF Init, Payments, AnswersFit, StatusFollowsMoney, LateAreWarned, LatecomersBookNothing,
       BookedFor, RefundStages, RewardStages

(* However the handlers of an order interleave and wherever they break off, *)
(* a refunded order has its refund and a successful one its tax reward.     *)
THEOREM FinalStatusHasItsMoney == Spec => []StatusFollowsMoney
<1>1. Payments => StatusFollowsMoney
  BY DEF Payments
<1> QED BY <1>1, InitPayments, PaymentsStep, TypeCorrect, PTL DEF Spec

(* No repeated webhook and no second click books a refund or a reward that  *)
(* was booked before it began.                                              *)
THEOREM NothingIsBookedAgain == Spec => []LatecomersBookNothing
<1>1. Payments => LatecomersBookNothing
  BY DEF Payments
<1> QED BY <1>1, InitPayments, PaymentsStep, TypeCorrect, PTL DEF Spec

-----------------------------------------------------------------------------
(* Somebody of S found the order under review and went on.                  *)
Passed(S) == \E s \in S : pc[s] \notin {"idle", "barred"}

(* The review comes after the call that created the order; a staff member   *)
(* who is done has ended it, and no transfer exists before an approval has  *)
(* gone past it.                                                            *)
ReviewIsExclusive ==
  /\ status = "manualReview" => /\ pc[Creator] = "done"
                                /\ \A s \in Staff : pc[s] # "done"
                                /\ transfer # "none" => Unfinished(Approvals)
  /\ Passed(Staff) => pc[Creator] = "done"
  /\ transfer # "none" => pc[Creator] \notin {"idle", "record", "barred"}
  /\ \A h \in Handlers : pc[h] = "transfer" => h \in Approvals \union {Creator}

(* Without a crossing, a rejection that went past the check has the order   *)
(* for itself, and anybody else refunds only what the gateway returned.     *)
RefundIsJustified ==
  /\ ~crossed /\ Passed(Rejections) =>
       transfer = "none" /\ \A h \in Handlers : pc[h] # "transfer"
  /\ \A h \in Handlers : pc[h] = "ask" => transfer # "none"
  /\ \A h \in Handlers \ Rejections :
       pc[h] \in RefundStages \/ h \in refunds => transfer = "returned"
  /\ \A h \in Rejections : h \in refunds => pc[h] \notin {"idle", "barred"}

Outcome == ReviewIsExclusive /\ RefundIsJustified

(* A handler that goes on without asking for a transfer or writing a status *)
(* keeps Outcome.                                                           *)
LEMMA GoingOnStep ==
  ASSUME Outcome, UNCHANGED <<status, transfer, crossed>>, refunds \subseteq refunds',
         \A h \in refunds' \ refunds : pc[h] = "creditRefund",
         \A h \in Handlers :
           \/ pc'[h] = pc[h]
           \/ /\ pc[h] \notin {"idle", "barred", "done"}
              /\ pc'[h] \notin {"idle", "barred", "done", "transfer", "ask", "record"}
              /\ pc'[h] \in RefundStages =>
                   pc[h] \in RefundStages \/ h \in Rejections \/ transfer = "returned"
  PROVE  Outcome'
<1> USE DEF Handlers, Staff
<1>1. ReviewIsExclusive'
  BY DEF Outcome, ReviewIsExclusive, Passed, Unfinished
<1>2. RefundIsJustified'
  BY DEF Outcome, RefundIsJustified, Passed, RefundStages
<1> QED BY <1>1, <1>2 DEF Outcome

LEMMA OutcomeStep == ASSUME TypeOK, Outcome, [Next]_vars PROVE Outcome'
<1> USE DEF Order, Booked, History, Goto
<1>t. pc \in [Handlers -> {"idle"} \union AtWork \union Ended]
      /\ Creator \in Handlers /\ Staff \subseteq Handlers /\ Webhooks \subseteq Handlers
      /\ Approvals \subseteq Staff /\ Rejections \subseteq Staff /\ Creator \notin Staff
  BY DEF TypeOK, Handlers, Staff
<1>1. CASE DebitPayout
  <2>1. ~Passed(Staff) /\ transfer = "none" /\ status # "manualReview"
    BY <1>1 DEF DebitPayout, Outcome, ReviewIsExclusive
  <2>2. \A h \in Handlers : pc'[h] = pc[h] \/ (h = Creator /\ pc'[h] \in {"barred", "record"})
    BY <1>1, <1>t DEF DebitPayout
  <2>3. UNCHANGED <<status, transfer, refunds, crossed>>
    BY <1>1 DEF DebitPayout
  <2>4. ReviewIsExclusive'
    BY <2>1, <2>2, <2>3, <1>t DEF Outcome, ReviewIsExclusive, Passed
  <2>5. RefundIsJustified'
    BY <2>1, <2>2, <2>3, <1>t DEF Outcome, RefundIsJustified, Passed, RefundStages
  <2> QED BY <2>4, <2>5 DEF Outcome
<1>2. CASE SettleTransfer
  BY <1>2 DEF SettleTransfer, Outcome, ReviewIsExclusive, RefundIsJustified, Passed, Unfinished
<1>3. CASE CreatePayoutOrder
  <2>1. ~Passed(Staff) /\ transfer = "none"
    BY <1>3 DEF CreatePayoutOrder, Outcome, ReviewIsExclusive
  <2>2. \A h \in Handlers : h # Creator => pc'[h] = pc[h]
    BY <1>3, <1>t DEF CreatePayoutOrder
  <2>3. /\ pc'[Creator] \in {"done", "transfer"}
        /\ status' = "manualReview" => pc'[Creator] = "done"
        /\ UNCHANGED <<transfer, refunds, crossed>>
    BY <1>3, <1>t DEF CreatePayoutOrder
  <2>4. ReviewIsExclusive'
    BY <2>1, <2>2, <2>3, <1>t DEF Outcome, ReviewIsExclusive, Passed
  <2>5. RefundIsJustified'
    BY <2>1, <2>2, <2>3, <1>t DEF Outcome, RefundIsJustified, Passed, RefundStages
  <2> QED BY <2>4, <2>5 DEF Outcome
<1>4. ASSUME NEW h \in Handlers, InitiateTransfer(h) PROVE Outcome'
  <2>1. \A g \in Handlers : g # h => pc'[g] = pc[g]
    BY <1>4, <1>t DEF InitiateTransfer
  <2>2. pc[h] = "transfer" /\ pc'[h] = "ask" /\ h \in Approvals \union {Creator}
    BY <1>4, <1>t DEF InitiateTransfer, Outcome, ReviewIsExclusive
  <2>3. transfer' # "none" /\ (transfer # "none" => transfer' = transfer)
        /\ UNCHANGED <<status, refunds, crossed>>
    BY <1>4 DEF InitiateTransfer
  <2>4. crossed \/ ~Passed(Rejections)
    BY <2>2 DEF Outcome, RefundIsJustified
  <2>5. ReviewIsExclusive'
    <3>1. Passed(Staff)' => Passed(Staff)
      BY <2>1, <2>2, <1>t DEF Passed
    <3>2. status' = "manualReview" => h \in Approvals
      BY <2>2, <2>3 DEF Outcome, ReviewIsExclusive
    <3>3. h \in Approvals => Unfinished(Approvals)'
      BY <2>2 DEF Unfinished
    <3> QED BY <2>1, <2>2, <2>3, <3>1, <3>2, <3>3, <1>t DEF Outcome, ReviewIsExclusive, Passed
  <2>6. RefundIsJustified'
    <3>1. ~Passed(Rejections)' \/ crossed'
      BY <2>1, <2>2, <2>3, <2>4, <1>t DEF Passed, Staff
    <3> QED BY <2>1, <2>2, <2>3, <3>1, <1>t DEF Outcome, RefundIsJustified, RefundStages
  <2> QED BY <2>5, <2>6 DEF Outcome
<1>5. ASSUME NEW h \in Handlers, AskGateway(h) PROVE Outcome'
  <2>1. \A g \in Handlers : g # h => pc'[g] = pc[g]
    BY <1>5, <1>t DEF AskGateway
  <2>2. pc[h] = "ask" /\ UNCHANGED <<status, transfer, crossed, refunds>>
    BY <1>5 DEF AskGateway
  <2>3. transfer \in {"pending", "paid", "returned"}
    BY <2>2 DEF TypeOK, Outcome, RefundIsJustified
  <2>4. pc'[h] \in {"checkRefund", "lookupReward", "write"}
        /\ (pc'[h] = "checkRefund" => transfer = "returned")
    <3>1. CASE transfer = "returned"
      BY <3>1, <1>5, <1>t DEF AskGateway, Interpret
    <3>2. CASE transfer = "paid"
      BY <3>2, <1>5, <1>t DEF AskGateway, Interpret
    <3>3. CASE transfer = "pending"
      BY <3>3, <1>5, <1>t DEF AskGateway, Interpret
    <3> QED BY <2>3, <3>1, <3>2, <3>3
  <2> QED BY <2>1, <2>2, <2>4, GoingOnStep DEF RefundStages
<1>6. ASSUME NEW h \in Handlers,
             \/ CheckRefundExists(h) \/ DeleteTdsRecord(h) \/ LookUpRefund(h)
             \/ CreditPayoutRefund(h) \/ LookUpReward(h) \/ CreditTaxReward(h)
      PROVE  Outcome'
  <2>1. UNCHANGED <<status, transfer, crossed>> /\ refunds \subseteq refunds'
        /\ \A g \in refunds' \ refunds : pc[g] = "creditRefund"
    BY <1>6 DEF CheckRefundExists, DeleteTdsRecord, LookUpRefund, CreditPayoutRefund,
                LookUpReward, CreditTaxReward
  <2>2. \A g \in Handlers : g # h => pc'[g] = pc[g]
    BY <1>6, <1>t DEF CheckRefundExists, DeleteTdsRecord, LookUpRefund, CreditPayoutRefund,
                      LookUpReward, CreditTaxReward
  <2>3. \/ /\ pc[h] \in RefundStages
           /\ pc'[h] \in RefundStages \union {"refused", "write"}
        \/ /\ pc[h] \in {"lookupReward", "creditReward"}
           /\ pc'[h] \in {"refused", "creditReward", "write"}
    BY <1>6, <1>t DEF CheckRefundExists, DeleteTdsRecord, LookUpRefund, CreditPayoutRefund,
                      LookUpReward, CreditTaxReward, RefundStages
  <2> QED BY <2>1, <2>2, <2>3, GoingOnStep DEF RefundStages
<1>7. ASSUME NEW h \in Handlers, WriteStatus(h) PROVE Outcome'
  <2>1. status' # "manualReview" /\ UNCHANGED <<transfer, crossed, refunds>>
    BY <1>7 DEF WriteStatus, TypeOK, Final
  <2>2. \A g \in Handlers : pc'[g] = pc[g] \/ (g = h /\ pc[g] = "write" /\ pc'[g] = "done")
    BY <1>7, <1>t DEF WriteStatus
  <2>3. ReviewIsExclusive'
    BY <2>1, <2>2, <1>t DEF Outcome, ReviewIsExclusive, Passed
  <2>4. RefundIsJustified'
    BY <2>1, <2>2, <1>t DEF Outcome, RefundIsJustified, Passed, RefundStages
  <2> QED BY <2>3, <2>4 DEF Outcome
<1>8. ASSUME NEW h \in Handlers, ReadForWebhook(h) PROVE Outcome'
  <2>1. h \in Webhooks /\ h \notin Staff \union {Creator} /\ transfer # "none"
    BY <1>8, <1>t DEF ReadForWebhook
  <2>2. \A g \in Handlers : pc'[g] = pc[g] \/ (g = h /\ pc'[g] \in {"done", "ask"})
    BY <1>8, <1>t DEF ReadForWebhook
  <2>3. UNCHANGED <<status, transfer, crossed, refunds>>
    BY <1>8 DEF ReadForWebhook
  <2>4. ReviewIsExclusive'
    BY <2>1, <2>2, <2>3, <1>t DEF Outcome, ReviewIsExclusive, Passed, Unfinished
  <2>5. RefundIsJustified'
    BY <2>1, <2>2, <2>3, <1>t DEF Outcome, RefundIsJustified, Passed, RefundStages
  <2> QED BY <2>4, <2>5 DEF Outcome
<1>9. ASSUME NEW h \in Handlers, ReadForApproval(h) PROVE Outcome'
  <2>1. h \in Approvals /\ h \in Staff /\ h # Creator /\ h \notin Rejections /\ pc[h] = "idle"
    BY <1>9, <1>t DEF ReadForApproval
  <2>2. UNCHANGED <<status, transfer, refunds>>
    BY <1>9 DEF ReadForApproval
  <2>3. \A g \in Handlers : g # h => pc'[g] = pc[g]
    BY <1>9, <1>t DEF ReadForApproval
  <2>4. CASE status # "manualReview"
    <3>1. pc'[h] = "barred" /\ crossed' = crossed
      BY <2>4, <1>9, <1>t DEF ReadForApproval, TypeOK
    <3>2. ReviewIsExclusive'
      BY <2>1, <2>2, <2>3, <2>4, <3>1, <1>t DEF Outcome, ReviewIsExclusive, Passed
    <3>3. RefundIsJustified'
      BY <2>1, <2>2, <2>3, <3>1, <1>t DEF Outcome, RefundIsJustified, Passed, RefundStages
    <3> QED BY <3>2, <3>3 DEF Outcome
  <2>5. CASE status = "manualReview"
    <3>1. pc'[h] = "transfer" /\ (crossed' \/ ~Unfinished(Rejections)) /\ (crossed => crossed')
      BY <2>5, <1>9, <1>t DEF ReadForApproval
    <3>2. crossed' \/ ~Passed(Rejections)
      BY <3>1, <2>5, <1>t DEF Outcome, ReviewIsExclusive, Passed, Unfinished
    <3>3. ReviewIsExclusive'
      <4>1. Unfinished(Approvals)'
        BY <2>1, <3>1 DEF Unfinished
      <4> QED BY <2>1, <2>2, <2>3, <2>5, <3>1, <4>1, <1>t DEF Outcome, ReviewIsExclusive
    <3>4. RefundIsJustified'
      <4>1. crossed' \/ ~Passed(Rejections)'
        BY <3>2, <2>1, <2>3, <1>t DEF Passed
      <4> QED BY <2>1, <2>2, <2>3, <3>1, <4>1, <1>t DEF Outcome, RefundIsJustified, RefundStages
    <3> QED BY <3>3, <3>4 DEF Outcome
  <2> QED BY <2>4, <2>5
<1>10. ASSUME NEW h \in Handlers, ReadForRejection(h) PROVE Outcome'
  <2>1. h \in Rejections /\ h \in Staff /\ h # Creator /\ h \notin Approvals /\ pc[h] = "idle"
    BY <1>10, <1>t DEF ReadForRejection
  <2>2. UNCHANGED <<status, transfer, refunds>>
    BY <1>10 DEF ReadForRejection
  <2>3. \A g \in Handlers : g # h => pc'[g] = pc[g]
    BY <1>10, <1>t DEF ReadForRejection
  <2>a. h \notin refunds
    BY <2>1 DEF Outcome, RefundIsJustified
  <2>b. Unfinished(Approvals)' <=> Unfinished(Approvals)
    BY <2>1, <2>3, <1>t DEF Unfinished
  <2>4. CASE status # "manualReview"
    <3>1. pc'[h] = "barred" /\ crossed' = crossed
      BY <2>4, <1>10, <1>t DEF ReadForRejection, TypeOK
    <3>2. ReviewIsExclusive'
      BY <2>1, <2>2, <2>3, <2>4, <3>1, <1>t DEF Outcome, ReviewIsExclusive, Passed
    <3>3. RefundIsJustified'
      BY <2>1, <2>2, <2>3, <2>a, <3>1, <1>t DEF Outcome, RefundIsJustified, Passed, RefundStages
    <3> QED BY <3>2, <3>3 DEF Outcome
  <2>5. CASE status = "manualReview"
    <3>1. pc'[h] = "checkRefund" /\ (crossed' \/ ~Unfinished(Approvals)) /\ (crossed => crossed')
      BY <2>5, <1>10, <1>t DEF ReadForRejection
    <3>2. ReviewIsExclusive'
      BY <2>1, <2>2, <2>3, <2>5, <2>b, <3>1, <1>t DEF Outcome, ReviewIsExclusive
    <3>3. crossed' \/ (transfer = "none" /\ \A g \in Handlers : pc'[g] # "transfer")
      <4>1. ~Unfinished(Approvals) => transfer = "none"
        BY <2>5 DEF Outcome, ReviewIsExclusive
      <4>2. ~Unfinished(Approvals) => \A g \in Handlers : pc[g] # "transfer"
        BY <2>5 DEF Outcome, ReviewIsExclusive, Unfinished
      <4> QED BY <4>1, <4>2, <2>3, <3>1
    <3>4. RefundIsJustified'
      BY <2>1, <2>2, <2>3, <2>a, <3>1, <3>3, <1>t DEF Outcome, RefundIsJustified, RefundStages
    <3> QED BY <3>2, <3>4 DEF Outcome
  <2> QED BY <2>4, <2>5
<1>11. ASSUME NEW h \in Handlers, Fail(h) PROVE Outcome'
  <2>1. \A g \in Handlers : pc'[g] = pc[g]
          \/ (pc[g] \notin {"idle", "barred", "done"} /\ pc'[g] = "broken")
    BY <1>11, <1>t DEF Fail, AtWork
  <2>2. UNCHANGED <<status, transfer, crossed, refunds>>
    BY <1>11 DEF Fail
  <2> QED BY <2>1, <2>2, GoingOnStep DEF RefundStages
<1>12. CASE UNCHANGED vars
  BY <1>12, GoingOnStep DEF vars
<1> QED BY <1>1, <1>2, <1>3, <1>4, <1>5, <1>6, <1>7, <1>8, <1>9, <1>10, <1>11, <1>12
     DEF Next, GoOn

(* For any number of webhooks, approvals, rejections and failures the money *)
(* goes one way only, as long as no approval and no rejection crossed: a    *)
(* refund never stands beside a transfer that was paid or still may be.     *)
THEOREM MoneyGoesOneWay == Spec => []PaidOrRefunded
<1>1. Init => Outcome
  BY DEF Init, Outcome, ReviewIsExclusive, RefundIsJustified, Passed, Unfinished, RefundStages,
         Handlers, Staff
<1>2. TypeOK /\ Outcome => PaidOrRefunded
  BY DEF TypeOK, Outcome, RefundIsJustified, Passed, PaidOrRefunded
<1> QED BY <1>1, <1>2, OutcomeStep, TypeCorrect, PTL DEF Spec

-----------------------------------------------------------------------------
LEMMA DebitStep == ASSUME TypeOK, DebitHasAnOrder, [Next]_vars PROVE DebitHasAnOrder'
<1> USE DEF Order, Goto
<1>t. pc \in [Handlers -> {"idle"} \union AtWork \union Ended] /\ Creator \in Handlers
      /\ Creator \notin Webhooks \union Staff
  BY DEF TypeOK, Handlers, Staff
<1>1. CASE DebitPayout
  BY <1>1, <1>t DEF DebitPayout, DebitHasAnOrder
<1>2. CASE CreatePayoutOrder
  BY <1>2 DEF CreatePayoutOrder, DebitHasAnOrder
<1>3. ASSUME NEW h \in Handlers, WriteStatus(h) PROVE DebitHasAnOrder'
  BY <1>3 DEF WriteStatus, DebitHasAnOrder, TypeOK, Final
<1>4. ASSUME NEW h \in Handlers, NEW stage, Goto(h, stage), UNCHANGED <<status, debited>>,
             stage = "broken" \/ pc[h] \notin {"record", "broken"}
      PROVE  DebitHasAnOrder'
  BY <1>4, <1>t DEF DebitHasAnOrder
<1>5. ASSUME NEW h \in Handlers, GoOn(h), ~CreatePayoutOrder, ~WriteStatus(h) PROVE DebitHasAnOrder'
  <2>1. /\ UNCHANGED <<status, debited>> /\ pc[h] \notin {"record", "broken"}
        /\ \E stage : Goto(h, stage)
    BY <1>5 DEF GoOn, InitiateTransfer, AskGateway, CheckRefundExists, DeleteTdsRecord,
       LookUpRefund, CreditPayoutRefund, LookUpReward, CreditTaxReward
  <2> QED BY <1>4, <2>1
<1>6. ASSUME NEW h \in Handlers,
             ReadForWebhook(h) \/ ReadForApproval(h) \/ ReadForRejection(h) \/ Fail(h)
      PROVE  DebitHasAnOrder'
  <2>1. /\ UNCHANGED <<status, debited>>
        /\ \E stage : Goto(h, stage) /\ (stage = "broken" \/ pc[h] \notin {"record", "broken"})
    BY <1>6 DEF ReadForWebhook, ReadForApproval, ReadForRejection, Fail
  <2> QED BY <1>4, <2>1
<1>7. CASE SettleTransfer \/ UNCHANGED vars
  BY <1>7 DEF SettleTransfer, vars, DebitHasAnOrder
<1> QED BY <1>1, <1>2, <1>3, <1>5, <1>6, <1>7 DEF Next, GoOn

(* Money taken from the wallet always has an order to account for it,       *)
(* except while the call that took it is at work or after it broke off.     *)
THEOREM EveryDebitHasItsOrder == Spec => []DebitHasAnOrder
<1>1. Init => DebitHasAnOrder
  BY DEF Init, DebitHasAnOrder
<1> QED BY <1>1, DebitStep, TypeCorrect, PTL DEF Spec

-----------------------------------------------------------------------------
(* Before the order is stored only the call that creates it has moved; and  *)
(* whoever has come past the deletion of the tax record finds it deleted.   *)
TaxStages == {"lookupRefund", "creditRefund"}

Untouched ==
  /\ transfer = "none" /\ refunds = {}
  /\ \A h \in Handlers \ {Creator} : pc[h] = "idle"
  /\ pc[Creator] \in {"idle", "record", "barred", "broken"}

TaxInvariant ==
  /\ status = "none" => Untouched
  /\ pc[Creator] \in {"idle", "record"} => status = "none"
  /\ refunds # {} \/ (\E h \in Handlers : pc[h] \in TaxStages) => ~taxRecord
  /\ TaxRecordFollowsRefund

LEMMA TaxStep == ASSUME TypeOK, TaxInvariant, [Next]_vars PROVE TaxInvariant'
<1> USE DEF Order, Booked, Goto
<1>t. pc \in [Handlers -> {"idle"} \union AtWork \union Ended] /\ Creator \in Handlers
      /\ Creator \notin Webhooks \union Staff
  BY DEF TypeOK, Handlers, Staff
<1>1. CASE DebitPayout
  <2>1. /\ UNCHANGED <<status, taxRecord, transfer, refunds>> /\ status = "none"
        /\ pc'[Creator] \in {"barred", "record"} /\ \A h \in Handlers \ {Creator} : pc'[h] = pc[h]
    BY <1>1, <1>t DEF DebitPayout, TaxInvariant
  <2> QED BY <2>1, <1>t DEF TaxInvariant, Untouched, TaxStages, TaxRecordFollowsRefund
<1>2. CASE CreatePayoutOrder
  <2>1. /\ status = "none" /\ refunds' = {} /\ status' \in {"manualReview", "pending"} /\ taxRecord'
        /\ pc'[Creator] \in {"done", "transfer"} /\ \A h \in Handlers \ {Creator} : pc'[h] = "idle"
    BY <1>2, <1>t DEF CreatePayoutOrder, TaxInvariant, Untouched
  <2> QED BY <2>1 DEF TaxInvariant, TaxStages, TaxRecordFollowsRefund
<1>3. CASE SettleTransfer \/ UNCHANGED vars
  BY <1>3 DEF SettleTransfer, vars, TaxInvariant, Untouched, TaxStages, TaxRecordFollowsRefund
<1>4. ASSUME NEW h \in Handlers, NEW stage, Goto(h, stage), status # "none", status' # "none",
             pc[h] \notin {"record", "broken"}, stage \notin {"idle", "record"},
             UNCHANGED refunds, taxRecord' = taxRecord \/ (~taxRecord' /\ stage = "lookupRefund"),
             stage \in TaxStages => ~taxRecord',
             h = Creator => pc[h] # "idle",
             pc[h] \in TaxStages => stage \in TaxStages \union {"broken"} \/ refunds # {}
      PROVE  TaxInvariant'
  <2>1. pc'[h] = stage /\ \A g \in Handlers \ {h} : pc'[g] = pc[g]
    BY <1>4, <1>t
  <2>2. pc'[Creator] \notin {"idle", "record"}
    BY <1>4, <1>t, <2>1 DEF TaxInvariant
  <2>3. refunds # {} \/ (\E g \in Handlers : pc'[g] \in TaxStages) => ~taxRecord'
    BY <1>4, <2>1 DEF TaxInvariant
  <2>4. ~taxRecord' => \/ refunds # {}
                       \/ \E g \in Handlers : pc'[g] \in TaxStages \union {"broken"}
    BY <1>4, <2>1 DEF TaxInvariant, TaxRecordFollowsRefund, TaxStages
  <2> QED BY <1>4, <2>2, <2>3, <2>4 DEF TaxInvariant, TaxRecordFollowsRefund, TaxStages
<1>5. ASSUME NEW h \in Handlers, pc[h] \in AtWork \ {"record"}
      PROVE  status # "none" /\ (h = Creator => pc[h] # "idle")
  BY <1>5 DEF TaxInvariant, Untouched, AtWork
<1>6. ASSUME NEW h \in Handlers,
             InitiateTransfer(h) \/ CheckRefundExists(h) \/ LookUpReward(h) \/ CreditTaxReward(h)
             \/ WriteStatus(h)
      PROVE  TaxInvariant'
  <2>1. PICK stage \in {"ask", "refused", "deleteTds", "creditReward", "write", "done"} :
          Goto(h, stage)
    BY <1>6 DEF InitiateTransfer, CheckRefundExists, LookUpReward, CreditTaxReward, WriteStatus
  <2>2. pc[h] \in {"transfer", "checkRefund", "lookupReward", "creditReward", "write"}
        /\ UNCHANGED <<refunds, taxRecord>>
    BY <1>6 DEF InitiateTransfer, CheckRefundExists, LookUpReward, CreditTaxReward, WriteStatus
  <2>3. status # "none"
    BY <1>5, <2>2 DEF AtWork
  <2>4. status' # "none"
    BY <1>6, <2>3 DEF InitiateTransfer, CheckRefundExists, LookUpReward, CreditTaxReward,
       WriteStatus, TypeOK, Final
  <2> QED BY <1>4, <2>1, <2>2, <2>3, <2>4 DEF TaxStages
<1>7. ASSUME NEW h \in Handlers, AskGateway(h) PROVE TaxInvariant'
  <2>1. pc[h] = "ask" /\ UNCHANGED <<status, refunds, taxRecord>>
    BY <1>7 DEF AskGateway
  <2>2. \E stage \in {"checkRefund", "lookupReward", "write"} : Goto(h, stage)
    <3>1. CASE Interpret(transfer) = "refund"
      BY <3>1, <1>7 DEF AskGateway
    <3>2. CASE Interpret(transfer) # "refund" /\ Interpret(transfer) = "success" /\ Cashback
      BY <3>2, <1>7 DEF AskGateway
    <3>3. CASE Interpret(transfer) # "refund" /\ ~(Interpret(transfer) = "success" /\ Cashback)
      BY <3>3, <1>7 DEF AskGateway
    <3> QED BY <3>1, <3>2, <3>3
  <2>3. status # "none"
    BY <1>5, <2>1 DEF AtWork
  <2> QED BY <1>4, <2>1, <2>2, <2>3 DEF TaxStages
<1>8. ASSUME NEW h \in Handlers, DeleteTdsRecord(h) \/ LookUpRefund(h) PROVE TaxInvariant'
  <2>1. pc[h] \in {"deleteTds", "lookupRefund"} /\ UNCHANGED <<status, refunds>>
    BY <1>8 DEF DeleteTdsRecord, LookUpRefund
  <2>2. status # "none"
    BY <1>5, <2>1 DEF AtWork
  <2>3. CASE DeleteTdsRecord(h)
    BY <1>4, <2>1, <2>2, <2>3 DEF DeleteTdsRecord, TaxStages
  <2>4. CASE LookUpRefund(h)
    <3>1. ~taxRecord /\ taxRecord' = taxRecord
      BY <2>4 DEF LookUpRefund, TaxInvariant, TaxStages
    <3>2. CASE refunds # {}
      <4>1. Goto(h, "refused")
        BY <2>4, <3>2 DEF LookUpRefund
      <4>2. pc'[Creator] \notin {"idle", "record"}
        BY <2>1, <2>2, <4>1, <1>t DEF TaxInvariant
      <4> QED BY <2>1, <2>2, <3>1, <3>2, <4>2 DEF TaxInvariant, TaxRecordFollowsRefund
    <3>3. CASE refunds = {}
      <4>1. Goto(h, "creditRefund")
        BY <2>4, <3>3 DEF LookUpRefund
      <4> QED BY <1>4, <2>1, <2>2, <3>1, <4>1 DEF TaxStages
    <3> QED BY <3>2, <3>3
  <2> QED BY <1>8, <2>3, <2>4
<1>9. ASSUME NEW h \in Handlers, CreditPayoutRefund(h) PROVE TaxInvariant'
  <2>1. pc[h] = "creditRefund" /\ refunds' # {} /\ UNCHANGED <<status, taxRecord>>
    BY <1>9 DEF CreditPayoutRefund
  <2>2. status # "none" /\ ~taxRecord
    BY <1>5, <2>1 DEF AtWork, TaxInvariant, TaxStages
  <2>3. pc'[Creator] \notin {"idle", "record"}
    BY <1>9, <2>1, <2>2, <1>t DEF CreditPayoutRefund, TaxInvariant
  <2> QED BY <2>1, <2>2, <2>3 DEF TaxInvariant, TaxRecordFollowsRefund
<1>10. ASSUME NEW h \in Handlers, ReadForWebhook(h) \/ ReadForApproval(h) \/ ReadForRejection(h)
       PROVE  TaxInvariant'
  <2>1. h # Creator /\ pc[h] = "idle" /\ UNCHANGED <<status, refunds, taxRecord>>
    BY <1>10, <1>t DEF ReadForWebhook, ReadForApproval, ReadForRejection, Staff
  <2>2. status # "none"
    BY <1>10 DEF ReadForWebhook, ReadForApproval, ReadForRejection, TaxInvariant, Untouched
  <2>3. \E stage \in {"done", "ask", "transfer", "barred", "checkRefund"} : Goto(h, stage)
    BY <1>10 DEF ReadForWebhook, ReadForApproval, ReadForRejection
  <2> QED BY <1>4, <2>1, <2>2, <2>3 DEF TaxStages
<1>11. ASSUME NEW h \in Handlers, Fail(h) PROVE TaxInvariant'
  <2>1. Goto(h, "broken") /\ pc[h] \in AtWork /\ UNCHANGED <<status, refunds, taxRecord, transfer>>
    BY <1>11 DEF Fail
  <2>2. CASE pc[h] # "record"
    <3>1. status # "none" /\ (h = Creator => pc[h] # "idle")
      BY <1>5, <2>1, <2>2
    <3> QED BY <1>4, <2>1, <2>2, <3>1 DEF TaxStages, AtWork
  <2>3. CASE pc[h] = "record"
    <3>1. pc'[h] = "broken" /\ \A g \in Handlers \ {h} : pc'[g] = pc[g]
      BY <2>1, <1>t
    <3> QED BY <2>1, <2>3, <3>1, <1>t
            DEF TaxInvariant, Untouched, TaxStages, TaxRecordFollowsRefund
  <2> QED BY <2>2, <2>3
<1> QED BY <1>1, <1>2, <1>3, <1>6, <1>7, <1>8, <1>9, <1>10, <1>11 DEF Next, GoOn

(* The tax record of a payout is kept until its refund, and not after it:   *)
(* for any number of handlers, wherever they break off.                     *)
THEOREM TaxRecordGoesWithTheRefund == Spec => []TaxRecordFollowsRefund
<1>1. Init => TaxInvariant
  BY DEF Init, TaxInvariant, Untouched, TaxStages, TaxRecordFollowsRefund, Handlers
<1>2. TaxInvariant => TaxRecordFollowsRefund
  BY DEF TaxInvariant
<1> QED BY <1>1, <1>2, TaxStep, TypeCorrect, PTL DEF Spec

-----------------------------------------------------------------------------
(* Who is about to write a success, and a success that was written, have    *)
(* seen the transfer paid, which it stays.                                  *)
SuccessIsPaid ==
  /\ status = "success" => transfer = "paid"
  /\ \A h \in Handlers :
       pc[h] \in RewardStages \/ (pc[h] = "write" /\ answer[h] = "success") => transfer = "paid"

LEMMA SuccessStep == ASSUME TypeOK, Payments, SuccessIsPaid, [Next]_vars PROVE SuccessIsPaid'
<1> USE DEF Order, Booked, Goto
<1>t. pc \in [Handlers -> {"idle"} \union AtWork \union Ended]
      /\ answer \in [Handlers -> {"pending"} \union Final]
  BY DEF TypeOK
<1>1. CASE DebitPayout \/ UNCHANGED vars
  BY <1>1, <1>t DEF DebitPayout, vars, SuccessIsPaid, RewardStages
<1>2. CASE CreatePayoutOrder
  BY <1>2, <1>t DEF CreatePayoutOrder, SuccessIsPaid, RewardStages
<1>3. CASE SettleTransfer
  BY <1>3 DEF SettleTransfer, SuccessIsPaid
<1>4. ASSUME NEW h \in Handlers, InitiateTransfer(h) PROVE SuccessIsPaid'
  BY <1>4, <1>t DEF InitiateTransfer, SuccessIsPaid, RewardStages
<1>5. ASSUME NEW h \in Handlers, AskGateway(h) PROVE SuccessIsPaid'
  <2>1. UNCHANGED <<status, transfer>> /\ answer'[h] = Interpret(transfer)
        /\ \A g \in Handlers \ {h} : pc'[g] = pc[g] /\ answer'[g] = answer[g]
    BY <1>5, <1>t DEF AskGateway
  <2>2. CASE Interpret(transfer) = "refund"
    <3>1. pc'[h] = "checkRefund"
      BY <1>5, <1>t, <2>2 DEF AskGateway
    <3> QED BY <2>1, <3>1 DEF SuccessIsPaid, RewardStages
  <2>3. CASE Interpret(transfer) # "refund" /\ Interpret(transfer) # "success"
    <3>1. pc'[h] = "write"
      BY <1>5, <1>t, <2>3 DEF AskGateway
    <3> QED BY <2>1, <2>3, <3>1 DEF SuccessIsPaid, RewardStages
  <2>4. CASE Interpret(transfer) = "success"
    <3>1. transfer = "paid"
      BY <2>4 DEF Interpret
    <3> QED BY <2>1, <3>1 DEF SuccessIsPaid
  <2> QED BY <2>2, <2>3, <2>4
<1>6. ASSUME NEW h \in Handlers,
             \/ CheckRefundExists(h) \/ DeleteTdsRecord(h) \/ LookUpRefund(h)
             \/ LookUpReward(h) \/ CreditTaxReward(h) \/ Fail(h)
      PROVE  SuccessIsPaid'
  BY <1>6, <1>t DEF CheckRefundExists, DeleteTdsRecord, LookUpRefund, LookUpReward,
     CreditTaxReward, Fail, SuccessIsPaid, RewardStages
<1>7. ASSUME NEW h \in Handlers, CreditPayoutRefund(h) PROVE SuccessIsPaid'
  <2>1. answer[h] = "refund"
    BY <1>7 DEF CreditPayoutRefund, Payments, AnswersFit, RefundStages
  <2> QED BY <1>7, <1>t, <2>1 DEF CreditPayoutRefund, SuccessIsPaid, RewardStages
<1>8. ASSUME NEW h \in Handlers, WriteStatus(h) PROVE SuccessIsPaid'
  BY <1>8, <1>t DEF WriteStatus, SuccessIsPaid, RewardStages
<1>9. ASSUME NEW h \in Handlers, ReadForWebhook(h) \/ ReadForApproval(h) PROVE SuccessIsPaid'
  BY <1>9, <1>t DEF ReadForWebhook, ReadForApproval, SuccessIsPaid, RewardStages
<1>10. ASSUME NEW h \in Handlers, ReadForRejection(h) PROVE SuccessIsPaid'
  BY <1>10, <1>t DEF ReadForRejection, SuccessIsPaid, RewardStages
<1> QED BY <1>1, <1>2, <1>3, <1>4, <1>5, <1>6, <1>7, <1>8, <1>9, <1>10 DEF Next, GoOn

(* No step turns a success into a refund or a refund into a success, unless *)
(* an approval and a rejection crossed: a handler that is late may only     *)
(* take the order back to pending.                                          *)
THEOREM OutcomesStand == Spec => OutcomeNeverFlips
<1>1. Init => SuccessIsPaid /\ Outcome /\ TaxInvariant
  BY DEF Init, TaxInvariant, Untouched, TaxStages, TaxRecordFollowsRefund, SuccessIsPaid,
     RewardStages, Outcome, ReviewIsExclusive, RefundIsJustified, Passed, Unfinished,
     RefundStages, Handlers, Staff
<1>2. TypeOK /\ Outcome => PaidOrRefunded
  BY DEF TypeOK, Outcome, RefundIsJustified, Passed, PaidOrRefunded
<1>3. TypeOK /\ Payments /\ PaidOrRefunded /\ SuccessIsPaid /\ TaxInvariant /\ [Next]_vars
        => [(status \in Final /\ ~crossed) => (status' = status \/ status' = "pending")]_vars
  <2> SUFFICES ASSUME TypeOK, Payments, PaidOrRefunded, SuccessIsPaid, TaxInvariant, Next,
                      status \in Final, ~crossed
               PROVE  status' = status \/ status' = "pending"
    OBVIOUS
  <2>1. CASE CreatePayoutOrder
    BY <2>1 DEF CreatePayoutOrder, TaxInvariant, Final
  <2>2. ASSUME NEW h \in Handlers, WriteStatus(h) PROVE status' = status \/ status' = "pending"
    <3>1. status' = answer[h] /\ pc[h] = "write" /\ answer[h] \in {"pending", "success", "refund"}
      BY <2>2 DEF WriteStatus, TypeOK, Final
    <3>2. ASSUME answer[h] = "refund", status = "success" PROVE FALSE
      <4>1. refunds # {} /\ transfer = "paid"
        BY <3>1, <3>2 DEF Payments, AnswersFit, SuccessIsPaid
      <4> QED BY <4>1 DEF PaidOrRefunded
    <3>3. ASSUME answer[h] = "success", status = "refund" PROVE FALSE
      <4>1. refunds # {} /\ transfer = "paid"
        BY <3>1, <3>3 DEF Payments, StatusFollowsMoney, SuccessIsPaid
      <4> QED BY <4>1 DEF PaidOrRefunded
    <3> QED BY <3>1, <3>2, <3>3 DEF Final
  <2>3. CASE status' = status
    BY <2>3
  <2>4. CreatePayoutOrder \/ (\E h \in Handlers : WriteStatus(h)) \/ status' = status
    BY DEF Next, GoOn, DebitPayout, SettleTransfer, InitiateTransfer, AskGateway,
       CheckRefundExists, DeleteTdsRecord, LookUpRefund, CreditPayoutRefund, LookUpReward,
       CreditTaxReward, ReadForWebhook, ReadForApproval, ReadForRejection, Fail, Order
  <2> QED BY <2>1, <2>2, <2>3, <2>4
<1> QED BY <1>1, <1>2, <1>3, InitPayments, PaymentsStep, OutcomeStep, SuccessStep, TaxStep,
         TypeCorrect, PTL
       DEF Spec, OutcomeNeverFlips
=============================================================================
