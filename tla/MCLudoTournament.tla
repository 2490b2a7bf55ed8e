---------------------------- MODULE MCLudoTournament ----------------------------
(***************************************************************************)
(* One, three or four players are registered for a tournament of four      *)
(* places that needs two, and two more want the last place.                 *)
(***************************************************************************)
EXTENDS LudoTournament

MCUsers == {"ann", "bob", "cid", "dan", "eve"}
OneThreeOrFour == {{"ann"}, {"ann", "bob", "cid"}, {"ann", "bob", "cid", "dan"}}
OneLeaver == {"ann"}
MCJoins == {"joinDan", "joinEve"}
MCUserOf == [j \in Joins |-> IF j = "joinDan" THEN "dan" ELSE "eve"]
OneStart == {"start1"}
OneCancel == {"cancel1"}
OneEnd == {"end1"}
OneRoundEnd == {"roundEnd1"}

(* Latecomers and calls that break off are followed until the first game    *)
(* ends; rounds are followed without them.                                  *)
Apart ==
  \/ \A e \in Enders : pc[e] = "idle"
  \/ (\A j \in Joins : pc[j] = "idle") /\ ~SomeCallBrokeOff
=============================================================================
