----------------------------- MODULE MCRouting -----------------------------
(* Routing below a leader: a is its child and b the child of a.  A request *)
(* may name a method below the name of its node, as in o://a/get.          *)
EXTENDS Routing, TLC

CONSTANTS a, b

MCParent    == (a :> Leader) @@ (b :> a)
MCTools     == [n \in Nodes |-> IF n = Leader THEN {} ELSE {"get"}]
MCAddresses == {Path[b], <<a>>, <<a, "get">>}
=============================================================================
