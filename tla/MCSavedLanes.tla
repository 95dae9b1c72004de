---------------------------- MODULE MCSavedLanes ----------------------------
(* SavedLanes with two lanes, each with a CID of its own.                  *)
EXTENDS SavedLanes

MCCidOf == [l \in Lanes |-> IF l = "l1" THEN "c1" ELSE "c2"]

\* The empty configuration, and one with a lane.
MCGiven == {<<>>, <<"c1">>}
=============================================================================
