------------------------------- MODULE Indexing -------------------------------
(***************************************************************************)
(* How a network of nodes is indexed (o-tool: index(), index_network):     *)
(* every node stores documents about itself in o://vector-store and then   *)
(* asks its children, one after the other, to do the same.  A node marks   *)
(* itself as indexed before it stores anything, and calls may overlap:     *)
(* every start of the network and every replayed lane may ask again.       *)
(*                                                                         *)
(* The children of a node are constant: those that join or leave while the *)
(* network is indexed are not modelled.                                    *)
(***************************************************************************)
EXTENDS Naturals, Sequences, FiniteSets

CONSTANTS
    Nodes,     \* the nodes of the network
    Root,      \* the node that is asked from outside: the leader
    Offspring, \* the children of each node, in the order they are visited
    Slots,     \* bound: overlapping calls of one node
    MaxFails   \* bound: failures of the vector store and of calls

VARIABLES
    indexed,  \* the flag of each node
    stored,   \* how often each node stored its documents
    call,     \* the calls of index_network that run
    ended,    \* what the calls from outside came to
    fails     \* failures so far

vars == <<indexed, stored, call, ended, fails>>

Idle == [at |-> "idle", left |-> <<>>, from |-> <<>>]

TypeOK ==
    /\ indexed \in [Nodes -> BOOLEAN]
    /\ stored \in [Nodes -> 0..Cardinality(Slots) + 1]
    /\ \A n \in Nodes, k \in Slots :
          /\ call[n][k].at \in {"idle", "storing", "visiting", "waiting"}
          /\ call[n][k].from \in {<<>>} \cup Nodes \X Slots
    /\ ended \subseteq {"complete", "failed"}
    /\ fails \in 0..MaxFails

Init == /\ indexed = [n \in Nodes |-> FALSE]
        /\ stored = [n \in Nodes |-> 0]
        /\ call = [n \in Nodes |-> [k \in Slots |-> Idle]]
        /\ ended = {}
        /\ fails = 0

-----------------------------------------------------------------------------

Set(n, k, c) == [call EXCEPT ![n][k] = c]

\* A mutant: a node that is marked is through with its whole subtree.
VisitOnce(n, from) ==
    [at |-> IF indexed[n] THEN "visiting" ELSE "storing",
     left |-> IF indexed[n] THEN <<>> ELSE Offspring[n], from |-> from]

\* index() of a call that starts: a node that is marked has nothing to store.
\* Then getChildren().
Visit(n, from) ==
    [at |-> IF indexed[n] THEN "visiting" ELSE "storing",
     left |-> Offspring[n], from |-> from]

\* The mark is set before anything is awaited.
Mark(n) == [indexed EXCEPT ![n] = TRUE]

\* The answer of a call reaches whoever made it: a call of the parent goes on
\* with the next child, also when the answer is an error.
Answered(calls, from) ==
    IF from = <<>> THEN calls
    ELSE [calls EXCEPT ![from[1]][from[2]].at = "visiting"]

-----------------------------------------------------------------------------

\* Somebody asks the root to index the network.
Ask(k) ==
    /\ call[Root][k] = Idle
    /\ call' = Set(Root, k, Visit(Root, <<>>))
    /\ indexed' = Mark(Root)
    /\ UNCHANGED <<stored, ended, fails>>

\* The documents of the node are stored: one of each method and its summary.
Stored(n, k) ==
    /\ call[n][k].at = "storing"
    /\ stored' = [stored EXCEPT ![n] = @ + 1]
    /\ call' = [call EXCEPT ![n][k].at = "visiting"]
    /\ UNCHANGED <<indexed, ended, fails>>

\* Storing fails on the way; the call rejects, and no child is asked.
StoringFails(n, k) ==
    /\ call[n][k].at = "storing"
    /\ fails < MaxFails
    /\ fails' = fails + 1
    /\ call' = Answered(Set(n, k, Idle), call[n][k].from)
    /\ ended' = IF call[n][k].from = <<>> THEN ended \cup {"failed"} ELSE ended
    /\ UNCHANGED <<indexed, stored>>

\* The next child is asked.
VisitChild(n, k) ==
    /\ call[n][k].at = "visiting" /\ call[n][k].left # <<>>
    /\ LET c == Head(call[n][k].left) IN
       \E j \in Slots :
          /\ call[c][j] = Idle
          /\ call' = [call EXCEPT ![n][k].at = "waiting", ![n][k].left = Tail(@),
                                  ![c][j] = Visit(c, <<n, k>>)]
          /\ indexed' = Mark(c)
    /\ UNCHANGED <<stored, ended, fails>>

\* The child cannot be reached; the error is logged.
ChildUnreachable(n, k) ==
    /\ call[n][k].at = "visiting" /\ call[n][k].left # <<>>
    /\ fails < MaxFails
    /\ fails' = fails + 1
    /\ call' = [call EXCEPT ![n][k].left = Tail(@)]
    /\ UNCHANGED <<indexed, stored, ended>>

\* Every child was asked.
Ends(n, k) ==
    /\ call[n][k].at = "visiting" /\ call[n][k].left = <<>>
    /\ call' = Answered(Set(n, k, Idle), call[n][k].from)
    /\ ended' = IF call[n][k].from = <<>> THEN ended \cup {"complete"} ELSE ended
    /\ UNCHANGED <<indexed, stored, fails>>

Next == \/ \E k \in Slots : Ask(k)
        \/ \E n \in Nodes, k \in Slots :
              \/ Stored(n, k) \/ StoringFails(n, k)
              \/ VisitChild(n, k) \/ ChildUnreachable(n, k) \/ Ends(n, k)

Spec == Init /\ [][Next]_vars

-----------------------------------------------------------------------------

\* However many calls overlap, a node stores its documents once: the mark is
\* set in the turn that finds it missing.  And a call that ends well has
\* reached every node, also the ones another call marked and has not visited
\* yet, unless something failed.
CompleteMeansAll ==
    /\ \A n \in Nodes : stored[n] <= 1
    /\ "complete" \in ended /\ fails = 0 => \A n \in Nodes : indexed[n]
=============================================================================
