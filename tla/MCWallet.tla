------------------------------- MODULE MCWallet -------------------------------
(***************************************************************************)
(* Ann's deposit is reported twice while she joins a table that she      *)
(* cannot afford before; Bob is credited two referral bonuses at once.     *)
(***************************************************************************)
EXTENDS Wallet

Fee(m, w, b) == [p \in Purses |-> CASE p = "main" -> m [] p = "win" -> w [] p = "bonus" -> b]

Debit(u, t, g, ref, m, w, b) ==
  [user |-> u, type |-> t, game |-> g, ref |-> ref,
   amount |-> m + w + b, fee |-> Fee(m, w, b), credit |-> FALSE]

Credit(u, t, g, ref, m, w, b) == [Debit(u, t, g, ref, m, w, b) EXCEPT !.credit = TRUE]

MCUsers == {"ann", "bob"}
MCRefs == {"none", "t1", "o1"}
FiveCalls == 1..5
MCReq == [c \in Calls |->
  << Credit("ann", "deposit", "none", "o1", 130, 0, 0),
     Credit("ann", "deposit", "none", "o1", 130, 0, 0),
     Debit("ann", "joinFee", "ludo", "t1", 600, 0, 25),
     Credit("bob", "referral", "none", "none", 75, 0, 0),
     Credit("bob", "referral", "none", "none", 75, 0, 0) >>[c]]

MCOpening == [u \in MCUsers |-> IF u = "ann" THEN Fee(400, 160, 40) ELSE Fee(200, 20, 80)]
=============================================================================
