---------------------------- MODULE MCLaneWork -----------------------------
(* LaneWork with three lanes to persist, two of which share a CID.  The    *)
(* storage hands back what was stored.                                     *)
EXTENDS LaneWork

MCCidOf == [l \in Lanes |-> IF l = "l3" THEN "c2" ELSE "c1"]

\* The empty configuration, and one with a lane.
MCGiven == {<<>>, <<"c1">>}
=============================================================================
