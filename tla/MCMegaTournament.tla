--------------------------- MODULE MCMegaTournament ---------------------------
(* A tournament with two places, for Ann and Bob; the end of Ann's first    *)
(* game is called twice where the instance says so.                         *)
EXTENDS MegaTournament

MCUsers == {"ann", "bob"}
TwoPlays == {"ann1", "bob1"}
ThreePlays == {"ann1", "ann2", "bob1"}
MCUserOf == [p \in Plays |-> IF p = "bob1" THEN "bob" ELSE "ann"]

FourEnds == {"endAnn1", "leaveAnn1", "endAnn2", "endBob1"}
TwoEnds == {"endAnn1", "endBob1"}
MCTableOf == [e \in Ends |-> CASE e = "endAnn2" -> "ann2"
                               [] e = "endBob1" -> "bob1"
                               [] OTHER -> "ann1"]

OneClose == {"close1"}
TwoCloses == {"close1", "close2"}
OneCancel == {"cancel1"}
Nobody == {}
=============================================================================
