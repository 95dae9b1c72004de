----------------------------- MODULE MCNetwork -----------------------------
(* Network on small instances: three nodes in a line and two calls.        *)
EXTENDS Network, TLC

CONSTANTS a, b, r, c1, c2

Plan(from, to, by) == [from |-> from, to |-> to, by |-> by]

\* Two calls share a dial; two nodes dial each other; r forwards c1.
Sharing    == (c1 :> Plan(a, b, None)) @@ (c2 :> Plan(a, b, None))
Crossing   == (c1 :> Plan(a, b, None)) @@ (c2 :> Plan(b, a, None))
Forwarding == (c1 :> Plan(a, r, c2)) @@ (c2 :> Plan(r, b, None))

MCPlans == {Sharing, Crossing, Forwarding}

\* The leader r has the child a, and a has the child b.
MCParent    == (a :> r) @@ (b :> a)
MCTools     == [n \in Nodes |-> IF n = r THEN {} ELSE {"get"}]
MCAddresses == {<<r, a>>, <<r, a, b>>, <<a>>, <<b>>, <<r, a, b, "get">>}

MCChildren == {<<r, a>>}
MCPatterns == {<<r, "**">>, <<r, "*">>, <<b, "*">>}

\* b is visited before c, which only a has for a child.
MCOffspring == (r :> <<a, b>>) @@ (a :> <<"c">>) @@ (b :> <<>>) @@ ("c" :> <<>>)
=============================================================================
