---------------------------- MODULE WalletRequests ----------------------------
(* The requests sent to the wallet and the wallets they find.               *)
EXTENDS WalletArithmetic, Functions, FiniteSets

CONSTANTS Users,        \* players
          Calls,        \* invocations of #updateWallet
          Refs,         \* order ids, table ids, tournament entries
          Req,          \* the WalletTransactionDto each call carries
          Opening       \* the wallets at the start

Requests == [user : Users, type : Types, game : Games, ref : Refs,
             amount : Nat, fee : [Purses -> Nat], credit : BOOLEAN]

(* Payouts and conversions debit the winning purse alone, and the portions  *)
(* of every caller sum to one.                                              *)
ASSUME RequestAssumption ==
  /\ Req \in [Calls -> Requests]
  /\ \A c \in Calls : /\ Req[c].type = "withdrawal" => Req[c].fee["main"] = 0
                      /\ Total(Req[c].fee) = Req[c].amount

ASSUME OpeningAssumption ==
  Opening \in [Users -> [Purses -> Nat]]

(* Mutant: the transaction leaves the bonus out.                            *)
EntryWithoutBonus(c, b) == [call |-> c, breakDown |-> [p \in {"main", "win"} |-> b[p]]]

(* One document of the transaction collection.                              *)
Entry(c, b) == [call |-> c, breakDown |-> b]
EntryType == [call : Calls, breakDown : Wallets]

(* Mutant: the check looks for the request itself, not for its order.       *)
AlreadyExistsById(c, transactions) == \E e \in transactions : e.call = c

(* #updateWallet's findOne, over a set of transactions.                     *)
AlreadyExists(c, transactions) ==
  \E e \in transactions : SameTransaction(Req[e.call], Req[c])

-----------------------------------------------------------------------------
(* What a set of transactions says of one player's wallet.                  *)
EntriesOf(u, book) == {e \in book : Req[e.call].user = u}

Posted(u, p, book) ==
  SumFunction([e \in EntriesOf(u, book) |-> Sign(Req[e.call]) * e.breakDown[p]])

Distance(a, b) == IF a >= b THEN a - b ELSE b - a

(* Each purse is the opening one and everything booked, give or take half a *)
(* paisa for each booking.                                                  *)
Explained(u, w, book) ==
  \A p \in Purses :
    Distance(w[p], Opening[u][p] + Posted(u, p, book))
      <= (PAISA \div 2) * Cardinality(EntriesOf(u, book))
=============================================================================
