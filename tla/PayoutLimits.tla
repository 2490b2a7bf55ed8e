---------------------------- MODULE PayoutLimits ----------------------------
(***************************************************************************)
(* What stands between a player and the money: the limits, the payout      *)
(* account and the name it is in, the tax of the financial year, and the   *)
(* beneficiary at the gateway.  Requests of one player interleave at every *)
(* query, and beside them the player deposits, payouts are settled and the *)
(* staff decides.  Module PayoutOrder has the life of one order.           *)
(*                                                                         *)
(* slips names what the code lets through when two requests cross, or when *)
(* a payout that went before is not settled, or was taken back.            *)
(***************************************************************************)
EXTENDS Integers, Sequences, FiniteSetsExt, SequencesExt

CONSTANTS
  Request,             \* the calls in their order, each [amount, account]
  NameAtBank,          \* account -> how the holder's name compares with the player's
  Opening,             \* the winning purse
  Deposits,            \* amounts the player deposits, in this order
  Limits,              \* [min, max, kyc, perDay, lifetime, taxFree]
  IsKycVerified, IsPlayStoreUser, NameVerification, TaxDeduction,
  Charges,             \* for the verification of an account
  TaxRate,             \* per cent
  AtOnce, LastDay      \* bounds: call -> calls under way when it begins, days

VARIABLES win, orders, accounts, beneficiary, transfers, deposits, now, day, calls, slips

Calls == DOMAIN Request
vars == <<win, orders, accounts, beneficiary, transfers, deposits, now, day, calls, slips>>

NoRecord == [from |-> 0, to |-> 0, base |-> 0, counted |-> {}]
NoCall == [at |-> "idle", known |-> FALSE, review |-> FALSE, earlier |-> 0, record |-> NoRecord]

Init ==
  /\ win = Opening /\ orders = <<>> /\ deposits = <<>> /\ transfers = {} /\ slips = {}
  /\ accounts = [a \in DOMAIN NameAtBank |-> "new"] /\ beneficiary = "none"
  /\ now = 0 /\ day = 1
  /\ calls = [c \in Calls |-> NoCall]

Slip(what, happened) == slips' = IF happened THEN slips \union {what} ELSE slips
Goto(c, s) == calls' = [calls EXCEPT ![c].at = s]
Limit(c, allowed, s) == Goto(c, IF allowed THEN s ELSE "refused")
Between(stages, c) == \E d \in Calls \ {c} : calls[d].at \in stages
Taxing == {"sumPayouts", "sumDeposits", "create"}
UnderWay == {c \in Calls : calls[c].at \notin {"idle", "refused", "review", "done"}}
Passed == {"account", "validate", "debit", "lastRecord"} \union Taxing
Sum(f) == FoldSeq(+, 0, f)
Purse == <<win, orders>>
Bank == <<accounts, beneficiary, transfers>>
Times == <<deposits, now, day>>
-----------------------------------------------------------------------------
(* #validatePayoutLimit: what needs the player's document only.             *)
CheckLimits(c) ==
  LET amount == Request[c].amount
  IN  /\ calls[c].at = "idle" /\ (\A d \in Calls : d < c => calls[d].at # "idle")
      /\ Cardinality(UnderWay) < AtOnce[c]
      /\ Limit(c, /\ win >= amount
                  /\ amount \in Limits.min..Limits.max
                  /\ IsKycVerified \/ amount <= Limits.kyc, "count")
      /\ UNCHANGED <<Purse, Bank, Times, slips>>

(* Only payouts that have succeeded count.                                  *)
Today(statuses) == {i \in DOMAIN orders : orders[i].day = day /\ orders[i].status \in statuses}

CheckDailyCount(c) ==
  /\ calls[c].at = "count"
  /\ Limit(c, Cardinality(Today({"success"})) < Limits.perDay,
           IF IsPlayStoreUser THEN "lifetime" ELSE "account")
  /\ Slip("counted early", Today({"pending", "manualReview"}) # {} \/ Between(Passed \union {"lifetime"}, c))
  /\ UNCHANGED <<Purse, Bank, Times>>

(* Every payout counts here, one that was taken back as well.               *)
CheckLifetime(c) ==
  /\ calls[c].at = "lifetime"
  /\ Limit(c, Sum([i \in DOMAIN orders |-> orders[i].settled]) + Request[c].amount <= Limits.lifetime, "account")
  /\ Slip("summed early", Between(Passed, c))
  /\ UNCHANGED <<Purse, Bank, Times>>

OverKycLimit(c) == IsKycVerified /\ Request[c].amount > Limits.kyc

(* checkIfPayoutAccountAlreadyValidated, and the comparison of the name on  *)
(* file, which an approval by the staff makes unnecessary.                  *)
LookAtAccount(c) ==
  LET account == accounts[Request[c].account]
      match == IF OverKycLimit(c) /\ account # "approved" THEN NameAtBank[Request[c].account] ELSE "MATCHED"
  IN  /\ calls[c].at = "account"
      /\ calls' = [calls EXCEPT ![c].known = account # "new",
                                ![c].review = account # "new" /\ match = "PARTIAL_MATCH",
                                ![c].at = CASE account = "new" -> "validate"
                                            [] match = "NOT_MATCHED" -> "refused"
                                            [] OTHER -> "debit"]
      /\ UNCHANGED <<Purse, Bank, Times, slips>>

(* #validatePayoutAccount, #validateAccountNameIfExceedsKycLimit and        *)
(* savePayoutAccount; a second document of an account is never read.        *)
ValidateAccount(c) ==
  LET a == Request[c].account
      match == IF NameVerification /\ OverKycLimit(c) THEN NameAtBank[a] ELSE "MATCHED"
  IN  /\ calls[c].at = "validate"
      /\ calls' = [calls EXCEPT ![c].review = match = "PARTIAL_MATCH",
                                ![c].at = IF match = "NOT_MATCHED" THEN "refused" ELSE "debit"]
      /\ accounts' = IF match = "NOT_MATCHED" \/ accounts[a] # "new" THEN accounts
                     ELSE [accounts EXCEPT ![a] = "saved"]
      /\ UNCHANGED <<Purse, beneficiary, transfers, Times, slips>>

DebitFromWinWallet(c) ==
  LET amount == Request[c].amount
  IN  /\ calls[c].at = "debit"
      /\ Limit(c, win >= amount, "lastRecord")
      /\ win' = IF win >= amount THEN win - amount ELSE win
      /\ UNCHANGED <<orders, Bank, Times, slips>>
-----------------------------------------------------------------------------
Deducted(i) == orders[i].taxed /\ orders[i].record.base > 0
DeductedOrders == {i \in DOMAIN orders : Deducted(i)}

(* calculateTransactionDate begins where the last payout's record ends, or  *)
(* where it began if nothing was deducted; without a record, with the year. *)
ReadLastTdsRecord(c) ==
  LET last == Len(orders)
      found == last > 0 /\ orders[last].taxed
      from == CASE ~found -> 0
                [] Deducted(last) -> orders[last].record.to
                [] OTHER -> orders[last].record.from
  IN  /\ calls[c].at = "lastRecord"
      /\ calls' = [calls EXCEPT ![c].record.from = from,
                                ![c].at = IF found /\ ~Deducted(last) THEN "sumPayouts" ELSE "sumDeposits"]
      /\ Slip("taxed twice", Between(Taxing, c) \/ (last > 0 /\ ~found /\ DeductedOrders # {}))
      /\ UNCHANGED <<Purse, Bank, Times>>

SumPayouts(c) ==
  LET inRange(o) == o.taxed /\ o.record.base = 0 /\ o.record.from >= calls[c].record.from
  IN  /\ calls[c].at = "sumPayouts"
      /\ calls' = [calls EXCEPT ![c].at = "sumDeposits",
                                ![c].earlier = Sum([i \in DOMAIN orders |->
                                                      IF inRange(orders[i]) THEN orders[i].settled ELSE 0])]
      /\ UNCHANGED <<Purse, Bank, Times, slips>>

(* calculateTdsAmount: what is taxed of a payout above the tax free limit.  *)
TaxBase(amount, earlier, deposited) ==
  LET net == amount + earlier - deposited
  IN  IF amount > Limits.taxFree /\ net > 0 THEN Min({net, amount}) ELSE 0

(* A deposit is dated when it is ordered and counts once it is paid.        *)
SumDeposits(c) ==
  LET from == calls[c].record.from
      counted == {i \in DOMAIN deposits : deposits[i].paid /\ deposits[i].at >= from}
      deposited == MapThenSumSet(LAMBDA i : deposits[i].amount, counted)
  IN  /\ calls[c].at = "sumDeposits"
      /\ calls' = [calls EXCEPT
           ![c].at = "create",
           ![c].record = [from |-> from, to |-> now + 1, counted |-> counted,
                          base |-> TaxBase(Request[c].amount, calls[c].earlier, deposited)]]
      /\ now' = now + 1
      /\ UNCHANGED <<Purse, Bank, deposits, day, slips>>

Tax(record) == (record.base * TaxRate) \div 100

CreateOrder(c) ==
  LET amount == Request[c].amount
      record == calls[c].record
      charges == IF calls[c].known THEN 0 ELSE Charges
  IN  /\ calls[c].at = "create"
      /\ orders' = Append(orders,
           [call |-> c, amount |-> amount, charges |-> charges, day |-> day,
            settled |-> amount - (IF TaxDeduction THEN Tax(record) ELSE 0) - charges,
            status |-> IF calls[c].review THEN "manualReview" ELSE "pending",
            taxed |-> TRUE, record |-> record])
      /\ Goto(c, IF calls[c].review THEN "review" ELSE "remove")
      /\ UNCHANGED <<win, Bank, Times, slips>>
-----------------------------------------------------------------------------
(* initiateTransfer of Cashfree: the player's one beneficiary is removed    *)
(* and added again, and the transfer names only the player.                 *)
RemoveBeneficiary(c) ==
  /\ calls[c].at = "remove"
  /\ beneficiary' = "none"
  /\ Goto(c, "add")
  /\ Slip("beneficiary changed", Between({"add", "transfer"}, c))
  /\ UNCHANGED <<Purse, accounts, transfers, Times>>

(* Nobody looks whether it was added.                                       *)
AddBeneficiary(c) ==
  /\ calls[c].at = "add"
  /\ beneficiary' \in IF beneficiary = "none" THEN {Request[c].account} ELSE {beneficiary, Request[c].account}
  /\ Goto(c, "transfer")
  /\ UNCHANGED <<Purse, accounts, transfers, Times, slips>>

RequestTransfer(c) ==
  /\ calls[c].at = "transfer"
  /\ transfers' = IF beneficiary = "none" THEN transfers ELSE transfers \union {[call |-> c, to |-> beneficiary]}
  /\ Goto(c, "done")
  /\ UNCHANGED <<Purse, accounts, beneficiary, Times, slips>>

Order(c) == CHOOSE i \in DOMAIN orders : orders[i].call = c
Open(c) == \E i \in DOMAIN orders : orders[i].call = c /\ orders[i].status \in {"pending", "manualReview"}

(* #initiatePayoutRefund: the record of the tax is taken back, on which a   *)
(* later one may build, and the charges are kept.                           *)
TakeBack(i, settled) ==
  /\ win' = win + orders[i].amount - orders[i].charges
  /\ orders' = [orders EXCEPT ![i].status = "refund", ![i].taxed = FALSE, ![i].settled = settled]
  /\ Slip("left out", Deducted(i) /\ (i < Len(orders) \/ \E c \in Calls : calls[c].at \in Taxing))

Settle(c) ==
  /\ Open(c)
  /\ \E t \in transfers : t.call = c
  /\ LET i == Order(c)
     IN  \/ orders' = [orders EXCEPT ![i].status = "success"] /\ UNCHANGED <<win, slips>>
         \/ TakeBack(i, orders[i].amount)
  /\ UNCHANGED <<Bank, Times, calls>>

Approve(c) ==
  /\ calls[c].at = "review"
  /\ accounts' = [accounts EXCEPT ![Request[c].account] = "approved"]
  /\ Goto(c, "remove")
  /\ UNCHANGED <<Purse, beneficiary, transfers, Times, slips>>

Reject(c) ==
  /\ calls[c].at = "review"
  /\ TakeBack(Order(c), orders[Order(c)].settled)
  /\ Goto(c, "done")
  /\ UNCHANGED <<Bank, Times>>

OrderDeposit ==
  /\ Len(deposits) < Len(Deposits)
  /\ now' = now + 1
  /\ deposits' = Append(deposits, [amount |-> Deposits[Len(deposits) + 1], at |-> now', paid |-> FALSE])
  /\ UNCHANGED <<Purse, Bank, day, calls, slips>>

(* What is paid after a tax has been reckoned past it is never counted.     *)
PayDeposit(i) ==
  /\ ~deposits[i].paid
  /\ deposits' = [deposits EXCEPT ![i].paid = TRUE]
  /\ Slip("left out", (\E j \in DeductedOrders : orders[j].record.to > deposits[i].at)
                       \/ (\E c \in Calls : calls[c].at = "create" /\ calls[c].record.to > deposits[i].at))
  /\ UNCHANGED <<Purse, Bank, now, day, calls>>

NextDay ==
  /\ day < LastDay
  /\ day' = day + 1
  /\ UNCHANGED <<Purse, Bank, deposits, now, calls, slips>>

Next ==
  \/ \E c \in Calls :
       \/ CheckLimits(c) \/ CheckDailyCount(c) \/ CheckLifetime(c)
       \/ LookAtAccount(c) \/ ValidateAccount(c) \/ DebitFromWinWallet(c)
       \/ ReadLastTdsRecord(c) \/ SumPayouts(c) \/ SumDeposits(c) \/ CreateOrder(c)
       \/ RemoveBeneficiary(c) \/ AddBeneficiary(c) \/ RequestTransfer(c)
       \/ Settle(c) \/ Approve(c) \/ Reject(c)
  \/ OrderDeposit \/ (\E i \in DOMAIN deposits : PayDeposit(i)) \/ NextDay

Spec == Init /\ [][Next]_vars
-----------------------------------------------------------------------------
TypeOK ==
  /\ win \in 0..Opening /\ now \in Nat /\ day \in 1..LastDay
  /\ accounts \in [DOMAIN NameAtBank -> {"new", "saved", "approved"}]
  /\ beneficiary \in {"none"} \union DOMAIN NameAtBank
  /\ \A i \in DOMAIN orders : orders[i].settled <= orders[i].amount /\ orders[i].call \in Calls
  /\ \A t \in transfers : t.call \in Calls /\ t.to \in DOMAIN NameAtBank
  /\ slips \subseteq {"counted early", "summed early", "taxed twice", "beneficiary changed", "left out"}

Kept(slip, statement) == slip \in slips \/ statement

(* Nobody gets more payouts in a day, or more money from the version of the *)
(* play store, than its limit, unless requests crossed or an earlier payout *)
(* of the day was not settled yet.                                          *)
LimitsHold ==
  /\ Kept("counted early", \A d \in 1..LastDay :
       Cardinality({i \in DOMAIN orders : orders[i].day = d /\ orders[i].status = "success"}) <= Limits.perDay)
  /\ IsPlayStoreUser => Kept("summed early",
       Sum([i \in DOMAIN orders |-> IF orders[i].status = "refund" THEN 0 ELSE orders[i].settled]) <= Limits.lifetime)

(* A transfer reaches the account that was asked for unless two transfers   *)
(* crossed; and when names are verified no large amount reaches an account  *)
(* in another name, nor without the staff's approval one in a similar name. *)
TransfersReachTheirOwner ==
  \A t \in transfers :
    Kept("beneficiary changed",
      /\ t.to = Request[t.call].account
      /\ NameVerification /\ OverKycLimit(t.call) =>
           \/ NameAtBank[t.to] = "MATCHED"
           \/ NameAtBank[t.to] = "PARTIAL_MATCH" /\ accounts[t.to] = "approved")

(* A deposit that was paid lowers the tax of one payout, never of two,      *)
(* unless requests crossed or the last payout was taken back; and it does   *)
(* lower one unless it was paid after the tax had been reckoned, or counted *)
(* for a payout that was taken back after the next one.                     *)
DepositsCountOnce ==
  /\ \A j \in DOMAIN orders, i \in DOMAIN deposits : i \in orders[j].record.counted => deposits[i].paid
  /\ Kept("taxed twice", \A i, j \in DeductedOrders :
       i # j => orders[i].record.counted \cap orders[j].record.counted = {})
  /\ {"taxed twice", "left out"} \cap slips = {} =>
       \A i \in DOMAIN deposits, j \in DeductedOrders :
         /\ deposits[i].paid
         /\ deposits[i].at < orders[j].record.to
         => \E k \in DeductedOrders : i \in orders[k].record.counted

(* The winning purse lacks what is on its way and what was paid out, and    *)
(* the charges of what came back.                                           *)
PurseIsExplained ==
  LET onTheWay == {c \in Calls : calls[c].at \in {"lastRecord"} \union Taxing}
      cost(o) == IF o.status = "refund" THEN o.charges ELSE o.amount
  IN  win = Opening - Sum([i \in DOMAIN orders |-> cost(orders[i])])
                    - MapThenSumSet(LAMBDA c : Request[c].amount, onTheWay)
=============================================================================
