-------------------------- MODULE DepositOrderProofs --------------------------
(***************************************************************************)
(* Deposits, for any number of orders and checks: nothing is credited that *)
(* was not paid for, a final status stays, and a success without its       *)
(* credit is always the work of a check that stopped halfway.              *)
(***************************************************************************)
EXTENDS DepositOrder, FiniteSetTheorems, TLAPS

USE DepositAssumption

(* Every handler keeps the orders, transactions and checks in their types.  *)
THEOREM TypeCorrect == Spec => []TypeOK
<1> USE DEF TypeOK, Final, AtWork, Ended
<1>1. Init => TypeOK
  BY DEF Init
<1>2. ASSUME TypeOK, [Next]_vars PROVE TypeOK'
  <2> USE <1>2
  <2>1. ASSUME NEW o \in Orders,
               CreateAtGateway(o) \/ CreateDepositOrder(o) \/ Pay(o) \/ Lapse(o)
        PROVE  TypeOK'
    BY <2>1 DEF CreateAtGateway, CreateDepositOrder, Pay, Lapse
  <2>2. ASSUME NEW c \in Checks, GetOrder(c) PROVE TypeOK'
    BY <2>2 DEF GetOrder, Goto
  <2>3. ASSUME NEW c \in Checks, AskGateway(c) PROVE TypeOK'
    <3>1. Interpret(gateway[OrderOf[c]]) \in {"pending", "success", "failed"}
      BY DEF Interpret
    <3> QED BY <2>3, <3>1 DEF AskGateway, Goto
  <2>4. ASSUME NEW c \in Checks, UpdateOrder(c) PROVE TypeOK'
    BY <2>4 DEF UpdateOrder, Goto
  <2>5. ASSUME NEW c \in Checks, CreditReferralBonus(c) PROVE TypeOK'
    BY <2>5 DEF CreditReferralBonus, Goto
  <2>6. ASSUME NEW c \in Checks, LookUpDeposit(c) \/ CreditDeposit(c) PROVE TypeOK'
    BY <2>6 DEF LookUpDeposit, CreditDeposit, Goto
  <2>7. ASSUME NEW c \in Checks, Fail(c) PROVE TypeOK'
    BY <2>7 DEF Fail, Goto
  <2>8. CASE UNCHANGED vars
    BY <2>8 DEF vars
  <2> QED BY <2>1, <2>2, <2>3, <2>4, <2>5, <2>6, <2>7, <2>8 DEF Next, Handle
<1> QED BY <1>1, <1>2, PTL DEF Spec

-----------------------------------------------------------------------------
(* What is known of an order only ever repeats what its gateway decided:    *)
(* the answers the checks carry, the status they store and the payments     *)
(* they book afterwards.                                                    *)
Decided(s, g) == (s = "success" => g = "PAID") /\ (s = "failed" => g = "EXPIRED")

AnswersAreDecided == \A c \in Checks : Decided(answer[c], gateway[OrderOf[c]])
StatusesAreDecided ==
  \A o \in Orders : Decided(status[o], gateway[o]) /\ (status[o] # "none" => gateway[o] # "none")
AskersFoundAnOrder == \A c \in Checks : pc[c] = "ask" => status[OrderOf[c]] # "none"
UpdatesAreFinal == \A c \in Checks : pc[c] = "update" => answer[c] \in Final
PayersSucceeded ==
  \A c \in Checks :
    pc[c] \in {"refer", "lookup", "credit", "broken"} => status[OrderOf[c]] = "success"
BookedSucceeded == \A c \in deposits \union referrals : status[OrderOf[c]] = "success"

Consistent ==
  /\ AnswersAreDecided /\ StatusesAreDecided /\ AskersFoundAnOrder
  /\ UpdatesAreFinal /\ PayersSucceeded /\ BookedSucceeded

(* A step that touches no order, answer or transaction keeps Consistent, as *)
(* long as no check starts to update or to pay.                             *)
LEMMA QuietStep ==
  ASSUME Consistent, UNCHANGED <<gateway, status, deposits, referrals, answer>>,
         \A c \in Checks : \/ pc'[c] = pc[c]
                           \/ pc'[c] \in {"refused", "done", "failed"}
                           \/ pc'[c] = "ask" /\ status[OrderOf[c]] # "none"
                           \/ pc'[c] \in {"credit", "broken"} /\ pc[c] \in {"refer", "lookup", "credit"}
  PROVE  Consistent'
BY DEF Consistent, AnswersAreDecided, StatusesAreDecided, UpdatesAreFinal, AskersFoundAnOrder,
       PayersSucceeded, BookedSucceeded, Decided

LEMMA ConsistentStep ==
  ASSUME TypeOK, Consistent, [Next]_vars
  PROVE  Consistent'
<1> USE DEF TypeOK, Final
<1>1. ASSUME NEW o \in Orders,
             CreateAtGateway(o) \/ CreateDepositOrder(o) \/ Pay(o) \/ Lapse(o)
      PROVE  Consistent'
  <2>1. UNCHANGED <<deposits, referrals, pc, answer>>
    BY <1>1 DEF CreateAtGateway, CreateDepositOrder, Pay, Lapse
  <2>2. \A p \in Orders : gateway[p] \in {"PAID", "EXPIRED"} => gateway'[p] = gateway[p]
    BY <1>1 DEF CreateAtGateway, CreateDepositOrder, Pay, Lapse
  <2>3. \A p \in Orders : status'[p] = status[p] \/ (status[p] = "none" /\ status'[p] = "pending")
    BY <1>1 DEF CreateAtGateway, CreateDepositOrder, Pay, Lapse
  <2>4. \A p \in Orders : /\ gateway[p] # "none" => gateway'[p] # "none"
                          /\ status'[p] # "none" => status[p] # "none" \/ gateway'[p] # "none"
    BY <1>1 DEF CreateAtGateway, CreateDepositOrder, Pay, Lapse
  <2> QED BY <2>1, <2>2, <2>3, <2>4
       DEF Consistent, AnswersAreDecided, StatusesAreDecided, UpdatesAreFinal, AskersFoundAnOrder,
           PayersSucceeded, BookedSucceeded, Decided
<1>2. ASSUME NEW c \in Checks, GetOrder(c) PROVE Consistent'
  <2>1. \A d \in Checks : \/ pc'[d] = pc[d]
                          \/ pc'[d] \in {"refused", "done"}
                          \/ pc'[d] = "ask" /\ status[OrderOf[d]] # "none"
    BY <1>2 DEF GetOrder, Goto
  <2> QED BY <2>1, <1>2, QuietStep DEF GetOrder
<1>3. ASSUME NEW c \in Checks, AskGateway(c) PROVE Consistent'
  <2> DEFINE u == Interpret(gateway[OrderOf[c]])
  <2>1. u \in {"pending"} \union Final /\ Decided(u, gateway[OrderOf[c]])
    <3>1. gateway[OrderOf[c]] \in {"ACTIVE", "PAID", "EXPIRED"}
      BY <1>3 DEF AskGateway, Consistent, AskersFoundAnOrder, StatusesAreDecided
    <3> QED BY <3>1 DEF Interpret, Decided
  <2>2. answer' = [answer EXCEPT ![c] = u] /\ UNCHANGED <<gateway, status, deposits, referrals>>
    BY <1>3 DEF AskGateway
  <2>3. \A d \in Checks : d # c => pc'[d] = pc[d] /\ answer'[d] = answer[d]
    BY <1>3 DEF AskGateway, Goto
  <2>4. answer'[c] = u /\ (pc'[c] = "update" => u # "pending") /\ pc'[c] \in {"done", "update"}
    BY <1>3 DEF AskGateway, Goto
  <2> QED BY <2>1, <2>2, <2>3, <2>4
       DEF Consistent, AnswersAreDecided, StatusesAreDecided, UpdatesAreFinal, AskersFoundAnOrder,
           PayersSucceeded, BookedSucceeded
<1>4. ASSUME NEW c \in Checks, UpdateOrder(c) PROVE Consistent'
  <2>1. answer[c] \in Final /\ Decided(answer[c], gateway[OrderOf[c]])
    BY <1>4 DEF UpdateOrder, Consistent, UpdatesAreFinal, AnswersAreDecided
  <2>2. status' = [status EXCEPT ![OrderOf[c]] = answer[c]]
        /\ UNCHANGED <<gateway, deposits, referrals, answer>>
    BY <1>4 DEF UpdateOrder
  <2>3. \A o \in Orders : status[o] = "success" => status'[o] = "success"
    BY <2>1, <2>2 DEF Consistent, StatusesAreDecided, Decided
  <2>4. \A d \in Checks : d # c => pc'[d] = pc[d]
    BY <1>4 DEF UpdateOrder, Goto
  <2>5. pc'[c] \in {"refer", "lookup", "done"} /\ (pc'[c] # "done" => answer[c] = "success")
    BY <1>4 DEF UpdateOrder, Goto
  <2> QED BY <2>1, <2>2, <2>3, <2>4, <2>5
       DEF Consistent, AnswersAreDecided, StatusesAreDecided, UpdatesAreFinal, AskersFoundAnOrder,
           PayersSucceeded, BookedSucceeded, Decided
<1>5. ASSUME NEW c \in Checks, CreditReferralBonus(c) PROVE Consistent'
  <2>1. \A d \in Checks : d # c => pc'[d] = pc[d]
    BY <1>5 DEF CreditReferralBonus, Goto
  <2> QED BY <2>1, <1>5
       DEF CreditReferralBonus, Goto, Consistent, AnswersAreDecided, StatusesAreDecided,
           UpdatesAreFinal, AskersFoundAnOrder, PayersSucceeded, BookedSucceeded
<1>6. ASSUME NEW c \in Checks, LookUpDeposit(c) PROVE Consistent'
  <2>1. \A d \in Checks : \/ pc'[d] = pc[d]
                          \/ pc'[d] = "refused"
                          \/ pc'[d] = "credit" /\ pc[d] = "lookup"
    BY <1>6 DEF LookUpDeposit, Goto
  <2> QED BY <2>1, <1>6, QuietStep DEF LookUpDeposit
<1>7. ASSUME NEW c \in Checks, CreditDeposit(c) PROVE Consistent'
  <2>1. \A d \in Checks : d # c => pc'[d] = pc[d]
    BY <1>7 DEF CreditDeposit, Goto
  <2> QED BY <2>1, <1>7
       DEF CreditDeposit, Goto, Consistent, AnswersAreDecided, StatusesAreDecided,
           UpdatesAreFinal, AskersFoundAnOrder, PayersSucceeded, BookedSucceeded
<1>8. ASSUME NEW c \in Checks, Fail(c) PROVE Consistent'
  <2>1. \A d \in Checks :
          pc'[d] = pc[d] \/ pc'[d] = "failed"
          \/ (pc[d] \in {"refer", "lookup", "credit"} /\ pc'[d] = "broken")
    BY <1>8 DEF Fail, Goto, AtWork
  <2> QED BY <2>1, <1>8, QuietStep DEF Fail
<1>9. CASE UNCHANGED vars
  BY <1>9, QuietStep DEF vars
<1> QED BY <1>1, <1>2, <1>3, <1>4, <1>5, <1>6, <1>7, <1>8, <1>9 DEF Next, Handle

LEMMA InitConsistent == Init => Consistent
BY DEF Init, Consistent, AnswersAreDecided, StatusesAreDecided, UpdatesAreFinal, AskersFoundAnOrder,
       PayersSucceeded, BookedSucceeded, Decided, Final

(* Whatever the checks read and whenever they write, every credited deposit *)
(* and every referral bonus belongs to an order the gateway was paid for.   *)
THEOREM NothingCreditedUnpaid == Spec => []CreditsArePaidFor
<1>1. TypeOK /\ Consistent => CreditsArePaidFor
  BY DEF TypeOK, Consistent, BookedSucceeded, StatusesAreDecided, Decided, CreditsArePaidFor
<1> QED BY <1>1, InitConsistent, ConsistentStep, TypeCorrect, PTL DEF Spec

(* A late check never overwrites a final status with another one.           *)
THEOREM FinalStatusesStay == Spec => FinalStatusStays
<1> DEFINE Stay == \A o \in Orders : status[o] \in Final => status'[o] = status[o]
<1>1. TypeOK /\ Consistent /\ [Next]_vars => [Stay]_vars
  <2> SUFFICES ASSUME TypeOK, Consistent, Next PROVE Stay
    OBVIOUS
  <2>1. CASE \E c \in Checks : UpdateOrder(c)
    <3>1. PICK c \in Checks : UpdateOrder(c)
      BY <2>1
    <3>2. answer[c] \in Final /\ Decided(answer[c], gateway[OrderOf[c]])
      BY <3>1 DEF UpdateOrder, Consistent, UpdatesAreFinal, AnswersAreDecided
    <3>3. status' = [status EXCEPT ![OrderOf[c]] = answer[c]]
      BY <3>1 DEF UpdateOrder
    <3> QED BY <3>2, <3>3 DEF TypeOK, Consistent, StatusesAreDecided, Decided, Final
  <2>2. CASE ~\E c \in Checks : UpdateOrder(c)
    BY <2>2 DEF Next, Handle, CreateAtGateway, CreateDepositOrder, Pay, Lapse, GetOrder,
                AskGateway, CreditReferralBonus, LookUpDeposit, CreditDeposit, Fail, TypeOK, Final
  <2> QED BY <2>1, <2>2
<1> QED BY <1>1, InitConsistent, ConsistentStep, TypeCorrect, PTL DEF Spec, FinalStatusStays

-----------------------------------------------------------------------------
(* A check that is paying leaves its place only with the deposit booked or  *)
(* by breaking off.                                                         *)
LEMMA SuccessStep ==
  ASSUME TypeOK, SuccessIsCredited, Next
  PROVE  SuccessIsCredited'
<1> USE DEF TypeOK
<1> DEFINE Paying == {"refer", "lookup", "credit", "broken"}
           Covered(o) == Deposited(o) # {} \/ \E c \in Checks : OrderOf[c] = o /\ pc[c] \in Paying
<1>a. SuccessIsCredited <=> \A o \in Orders : status[o] = "success" => Covered(o)
  BY DEF SuccessIsCredited, At
<1>b. SuccessIsCredited' <=> \A o \in Orders : status'[o] = "success" => Covered(o)'
  BY DEF SuccessIsCredited, At
<1>c. ASSUME deposits \subseteq deposits', UNCHANGED status,
             \A c \in Checks : pc[c] \in Paying => pc'[c] \in Paying \/ Deposited(OrderOf[c])' # {}
      PROVE  SuccessIsCredited'
  <2> SUFFICES ASSUME NEW o \in Orders, status[o] = "success" PROVE Covered(o)'
    BY <1>b, <1>c
  <2>1. Covered(o)
    BY <1>a
  <2>2. CASE Deposited(o) # {}
    BY <2>2, <1>c DEF Deposited
  <2>3. CASE \E c \in Checks : OrderOf[c] = o /\ pc[c] \in Paying
    BY <2>3, <1>c
  <2> QED BY <2>1, <2>2, <2>3
<1>1. ASSUME NEW o \in Orders, CreateAtGateway(o) \/ Pay(o) \/ Lapse(o) PROVE SuccessIsCredited'
  BY <1>1, <1>c DEF CreateAtGateway, Pay, Lapse
<1>2. ASSUME NEW o \in Orders, CreateDepositOrder(o) PROVE SuccessIsCredited'
  BY <1>2 DEF CreateDepositOrder, SuccessIsCredited, At, Deposited
<1>3. ASSUME NEW c \in Checks, GetOrder(c) \/ AskGateway(c) PROVE SuccessIsCredited'
  <2>1. \A d \in Checks : pc[d] \in Paying => pc'[d] = pc[d]
    BY <1>3 DEF GetOrder, AskGateway, Goto
  <2> QED BY <2>1, <1>3, <1>c DEF GetOrder, AskGateway
<1>4. ASSUME NEW c \in Checks, UpdateOrder(c) PROVE SuccessIsCredited'
  <2> SUFFICES ASSUME NEW o \in Orders, status'[o] = "success" PROVE Covered(o)'
    BY <1>b
  <2>1. \A d \in Checks : pc[d] \in Paying => pc'[d] = pc[d]
    BY <1>4 DEF UpdateOrder, Goto
  <2>2. CASE o = OrderOf[c]
    <3>1. answer[c] = "success"
      BY <2>2, <1>4 DEF UpdateOrder
    <3>2. pc'[c] \in Paying
      BY <3>1, <1>4 DEF UpdateOrder, Goto
    <3> QED BY <3>2, <2>2
  <2>3. CASE o # OrderOf[c]
    <3>1. status[o] = "success"
      BY <2>3, <1>4 DEF UpdateOrder
    <3>2. Covered(o)
      BY <3>1, <1>a
    <3> QED BY <3>2, <2>1, <1>4 DEF UpdateOrder, Deposited
  <2> QED BY <2>2, <2>3
<1>5. ASSUME NEW c \in Checks, CreditReferralBonus(c) PROVE SuccessIsCredited'
  <2>1. \A d \in Checks : pc[d] \in Paying => pc'[d] \in Paying
    BY <1>5 DEF CreditReferralBonus, Goto
  <2> QED BY <2>1, <1>5, <1>c DEF CreditReferralBonus
<1>6. ASSUME NEW c \in Checks, LookUpDeposit(c) PROVE SuccessIsCredited'
  <2>1. \A d \in Checks :
          pc[d] \in Paying => pc'[d] \in Paying \/ (d = c /\ Deposited(OrderOf[c]) # {})
    BY <1>6 DEF LookUpDeposit, Goto
  <2> QED BY <2>1, <1>6, <1>c DEF LookUpDeposit, Deposited
<1>7. ASSUME NEW c \in Checks, CreditDeposit(c) PROVE SuccessIsCredited'
  <2>1. \A d \in Checks : pc[d] \in Paying => pc'[d] = pc[d] \/ d = c
    BY <1>7 DEF CreditDeposit, Goto
  <2>2. Deposited(OrderOf[c])' # {}
    BY <1>7 DEF CreditDeposit, Deposited
  <2> QED BY <2>1, <2>2, <1>7, <1>c DEF CreditDeposit
<1>8. ASSUME NEW c \in Checks, Fail(c) PROVE SuccessIsCredited'
  <2>1. \A d \in Checks : pc[d] \in Paying => pc'[d] \in Paying
    BY <1>8 DEF Fail, Goto, AtWork
  <2> QED BY <2>1, <1>8, <1>c DEF Fail
<1> QED BY <1>1, <1>2, <1>3, <1>4, <1>5, <1>6, <1>7, <1>8 DEF Next, Handle

(* A paid order that is stored as a success is credited, on the way to it,  *)
(* or left by a check that stopped: overlapping checks never drop it.       *)
THEOREM SuccessLeadsToCredit == Spec => []SuccessIsCredited
<1>1. Init => SuccessIsCredited
  BY DEF Init, SuccessIsCredited
<1>2. SuccessIsCredited /\ UNCHANGED vars => SuccessIsCredited'
  BY DEF vars, SuccessIsCredited, At, Deposited
<1>3. TypeOK /\ SuccessIsCredited /\ [Next]_vars => SuccessIsCredited'
  BY <1>2, SuccessStep
<1> QED BY <1>1, <1>3, TypeCorrect, PTL DEF Spec
-----------------------------------------------------------------------------
(* While the checks of an order do not overlap and none breaks off, the one *)
(* at work is the only one that books: its referral bonus first, then its   *)
(* deposit, and after it every check finds the order final.                 *)
Referred(o) == {c \in referrals : OrderOf[c] = o}
Due(o, c) == IF o \in Invited THEN {c} ELSE {}

OneAtWork(o) ==
  \A c, d \in Checks :
    OrderOf[c] = o /\ OrderOf[d] = o /\ pc[c] \in AtWork /\ pc[d] \in AtWork => c = d

Clean(o) == Deposited(o) = {} /\ Referred(o) = {}
Paired(o) == \E c \in Checks : Deposited(o) = {c} /\ Referred(o) = Due(o, c)

InStep(o, c) ==
  /\ pc[c] \in {"ask", "update", "refer"} => Clean(o)
  /\ pc[c] = "refer" => o \in Invited
  /\ pc[c] \in {"lookup", "credit"} => Deposited(o) = {} /\ Referred(o) = Due(o, c)

BookedOnce(o) ==
  o \notin raced =>
    /\ OneAtWork(o)
    /\ ~At(o, {"broken"}) =>
         /\ \A c \in Checks : OrderOf[c] = o => InStep(o, c)
         /\ ~At(o, AtWork) => Clean(o) \/ Paired(o)

EachBookedOnce == \A o \in Orders : BookedOnce(o)

(* A step that leaves the checks and the transactions of an order alone     *)
(* leaves its bookings in order.                                            *)
LEMMA OtherOrders ==
  ASSUME NEW o \in Orders, BookedOnce(o), raced \subseteq raced',
         Deposited(o)' = Deposited(o), Referred(o)' = Referred(o),
         \A c \in Checks : OrderOf[c] = o => pc'[c] = pc[c]
  PROVE  BookedOnce(o)'
<1>1. \A c \in Checks : OrderOf[c] = o => InStep(o, c)' = InStep(o, c)
  BY DEF InStep, Clean, Due
<1>2. Clean(o)' = Clean(o) /\ Paired(o)' = Paired(o)
  BY DEF Clean, Paired, Due
<1>3. At(o, {"broken"})' = At(o, {"broken"}) /\ At(o, AtWork)' = At(o, AtWork)
  BY DEF At, AtWork
<1>4. OneAtWork(o)' = OneAtWork(o)
  BY DEF OneAtWork, AtWork
<1> QED BY <1>1, <1>2, <1>3, <1>4 DEF BookedOnce

(* What one check does to its own order, when it was the only one at work.  *)
LEMMA OneCheckMoves ==
  ASSUME TypeOK, NEW c \in Checks, BookedOnce(OrderOf[c]), raced' = raced,
         pc[c] \in AtWork, pc'[c] # "broken",
         \A d \in Checks \ {c} : pc'[d] = pc[d],
         InStep(OrderOf[c], c) => InStep(OrderOf[c], c)',
         InStep(OrderOf[c], c) /\ pc'[c] \notin AtWork
           => Clean(OrderOf[c])' \/ Paired(OrderOf[c])'
  PROVE  BookedOnce(OrderOf[c])'
<1> DEFINE o == OrderOf[c]
<1> SUFFICES ASSUME o \notin raced PROVE BookedOnce(o)'
  BY DEF BookedOnce
<1>1. \A d \in Checks \ {c} : OrderOf[d] = o => pc'[d] = pc[d] /\ pc'[d] \notin AtWork
  BY DEF BookedOnce, OneAtWork, AtWork
<1>2. OneAtWork(o)'
  BY <1>1 DEF OneAtWork, AtWork
<1>3. ASSUME ~At(o, {"broken"})'
      PROVE  /\ \A d \in Checks : OrderOf[d] = o => InStep(o, d)'
             /\ ~At(o, AtWork)' => Clean(o)' \/ Paired(o)'
  <2>1. ~At(o, {"broken"})
    BY <1>1, <1>3 DEF At, AtWork
  <2>2. InStep(o, c)
    BY <2>1 DEF BookedOnce
  <2>3. \A d \in Checks \ {c} : OrderOf[d] = o => InStep(o, d)'
    BY <1>1 DEF InStep, AtWork
  <2>4. ~At(o, AtWork)' => pc'[c] \notin AtWork
    BY DEF At, AtWork
  <2> QED BY <2>2, <2>3, <2>4
<1> QED BY <1>2, <1>3 DEF BookedOnce, AtWork

LEMMA BookedOnceStep ==
  ASSUME TypeOK, Consistent, EachBookedOnce, [Next]_vars
  PROVE  EachBookedOnce'
<1> USE DEF TypeOK
<1>a. ASSUME NEW o \in Orders, raced \subseteq raced',
             UNCHANGED <<deposits, referrals>>,
             \A c \in Checks : OrderOf[c] = o => pc'[c] = pc[c]
      PROVE  BookedOnce(o)'
  <2>1. Deposited(o)' = Deposited(o) /\ Referred(o)' = Referred(o)
    BY <1>a DEF Deposited, Referred
  <2> QED BY <1>a, <2>1, OtherOrders DEF EachBookedOnce
<1>1. ASSUME NEW o \in Orders,
             CreateAtGateway(o) \/ CreateDepositOrder(o) \/ Pay(o) \/ Lapse(o)
      PROVE  EachBookedOnce'
  BY <1>1, <1>a DEF CreateAtGateway, CreateDepositOrder, Pay, Lapse, EachBookedOnce
<1>2. CASE UNCHANGED vars
  BY <1>2, <1>a DEF vars, EachBookedOnce
<1>3. ASSUME NEW c \in Checks, GetOrder(c) PROVE EachBookedOnce'
  <2> DEFINE o == OrderOf[c]
  <2>0. /\ UNCHANGED <<deposits, referrals>> /\ raced \subseteq raced' /\ pc[c] = "idle"
        /\ \A d \in Checks \ {c} : pc'[d] = pc[d]
    BY <1>3 DEF GetOrder, Goto
  <2>1. \A p \in Orders \ {o} : BookedOnce(p)'
    BY <2>0, <1>a
  <2>2. Clean(o)' = Clean(o) /\ Paired(o)' = Paired(o)
    BY <2>0 DEF Clean, Paired, Deposited, Referred
  <2>3. CASE pc'[c] \in {"refused", "done"}
    <3>1. raced' = raced
      BY <1>3, <2>3 DEF GetOrder, Goto
    <3>2. OneAtWork(o) => OneAtWork(o)'
      BY <2>0, <2>3 DEF OneAtWork, AtWork
    <3>3. (At(o, {"broken"}) => At(o, {"broken"})') /\ (At(o, AtWork) => At(o, AtWork)')
      BY <2>0 DEF At, AtWork
    <3>4. \A d \in Checks : OrderOf[d] = o /\ InStep(o, d) => InStep(o, d)'
      BY <2>0, <2>3, <2>2 DEF InStep, Deposited, Referred
    <3>5. BookedOnce(o)
      BY DEF EachBookedOnce
    <3>6. BookedOnce(o)'
      BY <3>1, <3>2, <3>3, <3>4, <3>5, <2>2 DEF BookedOnce
    <3> QED BY <2>1, <3>6 DEF EachBookedOnce
  <2>4. CASE pc'[c] = "ask" /\ o \notin raced'
    <3>1. status[o] = "pending" /\ o \notin raced
          /\ \A d \in Checks : OrderOf[d] = o => pc[d] \notin AtWork
      BY <1>3, <2>4, <2>0 DEF GetOrder, Goto
    <3>2. Clean(o)
      BY <3>1 DEF Consistent, BookedSucceeded, Clean, Deposited, Referred
    <3>3. \A d \in Checks \ {c} : OrderOf[d] = o => pc'[d] = pc[d] /\ pc'[d] \notin AtWork
      BY <3>1, <2>0
    <3>4. OneAtWork(o)'
      BY <3>3 DEF OneAtWork, AtWork
    <3>5. \A d \in Checks : OrderOf[d] = o => InStep(o, d)'
      BY <3>2, <3>3, <2>2, <2>4 DEF InStep, AtWork
    <3>6. BookedOnce(o)'
      BY <3>2, <3>4, <3>5, <2>2 DEF BookedOnce
    <3> QED BY <2>1, <3>6 DEF EachBookedOnce
  <2>5. CASE o \in raced'
    BY <2>1, <2>5 DEF EachBookedOnce, BookedOnce
  <2> QED BY <1>3, <2>3, <2>4, <2>5 DEF GetOrder, Goto
<1>4. ASSUME NEW c \in Checks,
             \/ AskGateway(c) \/ UpdateOrder(c) \/ CreditReferralBonus(c)
             \/ LookUpDeposit(c) \/ CreditDeposit(c) \/ Fail(c)
      PROVE  EachBookedOnce'
  <2> DEFINE o == OrderOf[c]
  <2>0. /\ raced' = raced /\ pc[c] \in AtWork
        /\ \A d \in Checks \ {c} : pc'[d] = pc[d]
    BY <1>4 DEF AskGateway, UpdateOrder, CreditReferralBonus, LookUpDeposit, CreditDeposit, Fail,
       Goto, AtWork
  <2>1. \A p \in Orders \ {o} : BookedOnce(p)'
    <3>1. deposits' \in {deposits, deposits \union {c}}
          /\ referrals' \in {referrals, referrals \union {c}}
      BY <1>4 DEF AskGateway, UpdateOrder, CreditReferralBonus, LookUpDeposit, CreditDeposit, Fail
    <3>2. \A p \in Orders \ {o} : Deposited(p)' = Deposited(p) /\ Referred(p)' = Referred(p)
      BY <3>1 DEF Deposited, Referred
    <3> QED BY <3>2, <2>0, OtherOrders DEF EachBookedOnce
  <2>2. BookedOnce(o)
    BY DEF EachBookedOnce
  <2>3. ASSUME /\ pc'[c] # "broken"
               /\ InStep(o, c) => InStep(o, c)'
               /\ InStep(o, c) /\ pc'[c] \notin AtWork => Clean(o)' \/ Paired(o)'
        PROVE  EachBookedOnce'
    <3>1. BookedOnce(o)'
      BY <2>0, <2>2, <2>3, OneCheckMoves
    <3> QED BY <2>1, <3>1 DEF EachBookedOnce
  <2>4. ASSUME UNCHANGED <<deposits, referrals>>
        PROVE  Clean(o)' = Clean(o) /\ Deposited(o)' = Deposited(o) /\ Referred(o)' = Referred(o)
    BY <2>4 DEF Clean, Deposited, Referred
  <2>5. CASE AskGateway(c) \/ UpdateOrder(c)
    <3>1. pc[c] \in {"ask", "update"} /\ UNCHANGED <<deposits, referrals>>
          /\ pc'[c] \in {"done", "update", "refer", "lookup"}
          /\ (pc'[c] = "refer" => o \in Invited) /\ (pc'[c] = "lookup" => o \notin Invited)
      BY <2>5 DEF AskGateway, UpdateOrder, Goto
    <3>2. InStep(o, c) => Clean(o) /\ Clean(o)'
      BY <3>1, <2>4 DEF InStep
    <3>3. InStep(o, c) => InStep(o, c)'
      BY <3>1, <3>2 DEF InStep, Clean, Due
    <3> QED BY <3>1, <3>2, <3>3, <2>3
  <2>6. CASE CreditReferralBonus(c)
    <3>1. /\ pc[c] = "refer" /\ pc'[c] = "lookup" /\ deposits' = deposits
          /\ referrals' = referrals \union {c}
      BY <2>6 DEF CreditReferralBonus, Goto
    <3>2. InStep(o, c) => InStep(o, c)'
      BY <3>1 DEF InStep, Clean, Due, Deposited, Referred
    <3> QED BY <3>1, <3>2, <2>3 DEF AtWork
  <2>7. CASE LookUpDeposit(c)
    <3>1. pc[c] = "lookup" /\ UNCHANGED <<deposits, referrals>>
          /\ (Deposited(o) = {} => pc'[c] = "credit") /\ pc'[c] \in {"credit", "refused"}
      BY <2>7 DEF LookUpDeposit, Goto
    <3>2. InStep(o, c) => InStep(o, c)' /\ pc'[c] = "credit"
      BY <3>1, <2>4 DEF InStep, Due
    <3> QED BY <3>1, <3>2, <2>3 DEF AtWork
  <2>8. CASE CreditDeposit(c)
    <3>1. /\ pc[c] = "credit" /\ pc'[c] = "done" /\ referrals' = referrals
          /\ deposits' = deposits \union {c}
      BY <2>8 DEF CreditDeposit, Goto
    <3>2. InStep(o, c) => Paired(o)'
      BY <3>1 DEF InStep, Paired, Due, Deposited, Referred
    <3>3. InStep(o, c)'
      BY <3>1 DEF InStep
    <3> QED BY <3>1, <3>2, <3>3, <2>3
  <2>9. CASE Fail(c)
    <3>1. UNCHANGED <<deposits, referrals>>
          /\ (pc'[c] = "broken" \/ (pc'[c] = "failed" /\ pc[c] \in {"ask", "update"}))
      BY <2>9 DEF Fail, Goto
    <3>2. CASE pc'[c] = "broken"
      <4>1. OneAtWork(o) => OneAtWork(o)'
        BY <2>0, <3>2 DEF OneAtWork, AtWork
      <4>2. At(o, {"broken"})'
        BY <3>2 DEF At
      <4>3. BookedOnce(o)'
        BY <2>0, <2>2, <4>1, <4>2 DEF BookedOnce
      <4> QED BY <2>1, <4>3 DEF EachBookedOnce
    <3>3. CASE pc'[c] = "failed"
      <4>1. InStep(o, c) => Clean(o)'
        BY <3>1, <3>3, <2>4 DEF InStep
      <4>2. InStep(o, c)'
        BY <3>3 DEF InStep
      <4> QED BY <3>3, <4>1, <4>2, <2>3
    <3> QED BY <3>1, <3>2, <3>3
  <2> QED BY <1>4, <2>5, <2>6, <2>7, <2>8, <2>9
<1> QED BY <1>1, <1>2, <1>3, <1>4 DEF Next, Handle

(* One referral bonus for each credited deposit of an invited player: an    *)
(* order whose checks did not overlap or break off is paid in full or not   *)
(* at all, and never twice.                                                 *)
THEOREM ReferralsAreMatched == Spec => []ReferralsMatchDeposits
<1>1. Init => EachBookedOnce
  BY DEF Init, EachBookedOnce, BookedOnce, OneAtWork, InStep, Clean, Deposited, Referred, At,
     AtWork
<1>2. ASSUME TypeOK, EachBookedOnce PROVE ReferralsMatchDeposits
  <2> SUFFICES ASSUME NEW o \in Orders, Settled(o)
               PROVE  /\ Cardinality(Deposited(o)) <= 1
                      /\ Cardinality(Referred(o))
                           = IF o \in Invited THEN Cardinality(Deposited(o)) ELSE 0
    BY DEF ReferralsMatchDeposits, Referred
  <2>1. Clean(o) \/ Paired(o)
    BY <1>2 DEF EachBookedOnce, BookedOnce, Settled, At
  <2>2. Cardinality({}) = 0 /\ \A c : Cardinality({c}) = 1
    BY FS_EmptySet, FS_Singleton
  <2> QED BY <2>1, <2>2 DEF Clean, Paired, Due
<1> QED BY <1>1, <1>2, BookedOnceStep, InitConsistent, ConsistentStep, TypeCorrect, PTL DEF Spec
=============================================================================
