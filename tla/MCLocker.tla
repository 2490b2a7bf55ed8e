-------------------------------- MODULE MCLocker --------------------------------
(* Three requests on one table and one player.                              *)
EXTENDS Locker, TLC

CONSTANTS r1, r2, r3, table, user1

MCRequests == {r1, r2, r3}
MCKeys == {table, user1}

(* Two requests of one player lock the table and the player with            *)
(* LockerService; a request to join another game locks the player with the  *)
(* older lock.                                                              *)
Mixed == (r1 :> {table, user1}) @@ (r2 :> {table, user1}) @@ (r3 :> {user1})
NewOnes == {r1, r2}
OldOnes == {r3}

(* Three joins of one player, all with the older lock.                      *)
OneKey == [r \in MCRequests |-> {user1}]
None == {}
=============================================================================
