------------------------------ MODULE AccountBook ------------------------------
(***************************************************************************)
(* What the wallet promises a caller who sends one request at a time: a    *)
(* request is either refused, or its amount is moved and the transaction   *)
(* is written in one indivisible step, and a repeated transaction is       *)
(* refused.  It is #updateWallet with nothing happening in between.        *)
(***************************************************************************)
EXTENDS WalletRequests

VARIABLES balance,      \* user document: wallet
          book          \* transaction collection: the calls booked, with their breakDown

vars == <<balance, book>>

TypeOK ==
  /\ balance \in [Users -> Wallets]
  /\ book \in SUBSET EntryType

Init ==
  /\ balance = Opening
  /\ book = {}

Apply(c) ==
  LET r == Req[c]
      w == balance[r.user]
  IN  /\ \A e \in book : e.call # c
      /\ SkipsDoubleCheck(r) \/ ~AlreadyExists(c, book)
      /\ ~NotEnoughBalance(w, r)
      /\ balance' = [balance EXCEPT ![r.user] = UpdatedBalances(w, r)]
      /\ book' = book \union {Entry(c, BreakDown(w, r))}

Next == \E c \in Calls : Apply(c)

Spec == Init /\ [][Next]_vars

-----------------------------------------------------------------------------
(* The purses of a player differ from the opening balance plus everything   *)
(* booked by at most half a paisa for each booking: toFixed(2) neither      *)
(* makes nor loses money beyond rounding, and nothing but booked requests   *)
(* changes a wallet.                                                        *)
BookExplainsBalance == \A u \in Users : Explained(u, balance[u], book)

(* A debit takes its amount: the three parts of its breakDown add up to it, *)
(* short of it only by the remainder the code forgives as rounding.         *)
DebitsTakeTheirAmount ==
  \A e \in book :
    ~Req[e.call].credit =>
      /\ Total(e.breakDown) <= Req[e.call].amount
      /\ Req[e.call].amount - Total(e.breakDown) < TOLERANCE

(* The check before a game and the debit after it agree: a join fee that    *)
(* the balance check accepts for a wallet is not refused by the debit on    *)
(* the same wallet, and it is taken from the purses the check named.        *)
CheckAgreesWithDebit ==
  \A c \in Calls :
    LET r == Req[c]
        w == balance[r.user]
    IN  r.type = "joinFee" /\ ~r.credit /\ CheckPasses(w, r.amount, r.fee["bonus"]) =>
          /\ ~NotEnoughBalance(w, r)
          /\ BreakDown(w, r) = CheckedSplit(w, r.amount, r.fee["bonus"])
=============================================================================
