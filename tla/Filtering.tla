----------------------------- MODULE Filtering ------------------------------
(* Array.prototype.filter(), with the condition given as a set.            *)
EXTENDS Naturals, Sequences

\* The elements of s that are members of S, in their order.
Filter(s, S) ==
  LET kept[i \in 0..Len(s)] ==
        IF i = 0 THEN <<>>
        ELSE IF s[i] \in S THEN Append(kept[i - 1], s[i]) ELSE kept[i - 1]
  IN  kept[Len(s)]
=============================================================================
