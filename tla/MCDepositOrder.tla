---------------------------- MODULE MCDepositOrder ----------------------------
(* An order of an invited player, polled once and reported twice by the     *)
(* gateway, beside an order of another player that is polled and reported   *)
(* once.                                                                    *)
EXTENDS DepositOrder

MCOrders == {"o1", "o2"}
MCChecks == {"poll1", "hook1", "hook2", "hook3"}
MCInvited == {"o1"}
MCWebhooks == {"hook1", "hook2", "hook3"}
MCOrderOf == [c \in MCChecks |-> IF c = "hook3" THEN "o2" ELSE "o1"]
=============================================================================
