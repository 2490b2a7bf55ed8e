--------------------------- MODULE WalletArithmetic ---------------------------
(***************************************************************************)
(* How one wallet request is split over the three purses of a player:      *)
(* #calculateAndUpdateBalances of the wallet repository.                   *)
(*                                                                         *)
(* Money is a whole number of units, PAISA of them to 0.01 rupee, so that  *)
(* the places where Big.js rounds (toFixed(2), round(3)) are visible.  A   *)
(* request carries "fee": the three products amount * portion, which Big   *)
(* computes exactly.                                                       *)
(***************************************************************************)
EXTENDS Integers

PAISA == 40             \* 0.01 rupee; one unit is 0.00025 rupee
TOLERANCE == 2          \* 0.0005 rupee: below it round(3) gives 0

Purses == {"main", "win", "bonus"}
Wallets == [Purses -> Int]

Types == {"deposit", "withdrawal", "winning", "ludoTournamentPrize", "joinFee", "referral",
          "signupBonus", "adminRefund", "ludoTournamentJoinFee", "slGameJoinFee",
          "eplGameJoinFee", "coupon", "ludoTournamentRefund", "withdrawalRefund", "tdsReward"}
Games == {"none", "ludo", "skillpatti", "aviator", "rummyempire", "snakeAndLadders"}

Least(a, b) == IF a < b THEN a ELSE b
Total(w) == w["main"] + w["win"] + w["bonus"]
Sign(r) == IF r.credit THEN 1 ELSE -1

(* Big.toFixed(2): half away from zero, to a whole number of paise. *)
ToFixed2(x) ==
  LET nearest(y) == ((y + PAISA \div 2) \div PAISA) * PAISA
  IN  IF x >= 0 THEN nearest(x) ELSE -nearest(-x)

DeductionFromBonus(w, r) ==
  IF r.credit THEN r.fee["bonus"] ELSE Least(w["bonus"], r.fee["bonus"])

AmountAfterBonus(w, r) == r.amount + Sign(r) * DeductionFromBonus(w, r)

(* Mutant: the main purse pays its portion, as the winning purse does.      *)
DeductionFromMainByPortion(w, r) == Least(w["main"], r.fee["main"])

DeductionFromMain(w, r) ==
  IF r.credit \/ r.type = "withdrawal"
    THEN r.fee["main"]
    ELSE Least(w["main"], AmountAfterBonus(w, r))

DeductionFromWinning(w, r) ==
  IF r.credit THEN r.fee["win"] ELSE AmountAfterBonus(w, r) - DeductionFromMain(w, r)

Deductions(w, r) ==
  IF r.type = "adminRefund"
    THEN r.fee
    ELSE [p \in Purses |-> IF p = "main" THEN DeductionFromMain(w, r)
                        ELSE IF p = "win" THEN DeductionFromWinning(w, r)
                        ELSE DeductionFromBonus(w, r)]

(* The shortage of the winning purse that the code forgives as rounding. *)
RoundsToZero(shortage) == shortage < TOLERANCE

NotEnoughBalance(w, r) ==
  /\ ~r.credit
  /\ w["win"] < Deductions(w, r)["win"]
  /\ ~RoundsToZero(Deductions(w, r)["win"] - w["win"])

(* What is taken from (or put into) each purse once the request is accepted *)
(* and what the transaction records as its breakDown; the minus sign an      *)
(* administrator's debit carries there is left to Sign.                     *)
BreakDown(w, r) ==
  LET d == Deductions(w, r)
  IN  [p \in Purses |-> IF p = "win" /\ ~r.credit /\ w["win"] < d["win"]
                          THEN w["win"] ELSE d[p]]

UpdatedBalances(w, r) ==
  [p \in Purses |-> ToFixed2(w[p] + Sign(r) * BreakDown(w, r)[p])]

(* The split a balance check promises before a game: checkSpWalletBalance     *)
(* returns it, checkLudoWalletBalance and its S&L and EPL twins only answer   *)
(* whether it exists.                                                         *)
CheckedSplit(w, amount, bonusFee) ==
  LET bonus == Least(w["bonus"], bonusFee)
      main  == Least(w["main"], amount - bonus)
  IN  [p \in Purses |-> CASE p = "bonus" -> bonus
                           [] p = "main"  -> main
                           [] p = "win"   -> amount - bonus - main]

CheckPasses(w, amount, bonusFee) ==
  LET fee == CheckedSplit(w, amount, bonusFee)["win"]
  IN  ~(fee > 0 /\ w["win"] < fee)

(* #shouldSkipDoubleTransactionCheck, without the mega tournament's join fee, *)
(* which no request of this model makes.                                      *)
SkipsDoubleCheck(r) ==
  \/ r.game = "skillpatti" /\ r.type \in {"joinFee", "winning"}
  \/ r.type \in {"referral", "adminRefund"}
  \/ r.game \in {"aviator", "rummyempire"}

(* The fields the double transaction check compares; ref stands for orderId, *)
(* tableId, tournamentId and entryNo together.                               *)
SameTransaction(r, s) == r.user = s.user /\ r.type = s.type /\ r.ref = s.ref
=============================================================================
