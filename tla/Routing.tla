------------------------------ MODULE Routing -------------------------------
(***************************************************************************)
(* Routing of a request through the tree of nodes: the chain of resolvers  *)
(* of a node turns the address of a request into the node to dial next,    *)
(* from the children it knows, from the registry (at the leader), or by    *)
(* handing the request up to the leader.                                   *)
(*                                                                         *)
(* An address is the sequence of its names; the name of a node is the node *)
(* itself and no two nodes have the same one.  A node that is dialed is    *)
(* named by its life, for a restart gives it another peer: children and    *)
(* registry may know a life that is over.  The addresses given have no     *)
(* transports, so that none is taken for one of another network.           *)
(***************************************************************************)
EXTENDS Naturals, Sequences, SequencesExt, Filtering

CONSTANTS
  Nodes, Leader,
  Parent,     \* [Nodes \ {Leader} -> Nodes]
  Tools,      \* [Nodes -> set of names]: the methods of each node
  Addresses,  \* the addresses that requests ask for
  Requests,
  MaxLives    \* bound: starts of each node

VARIABLES
  up,        \* the nodes that run
  life,      \* how often each node was started
  children,  \* children[p][n]: the life of child n that p dials, 0: not a child
  registry,  \* commits, the last one first
  req        \* the requests

vars == <<up, life, children, registry, req>>

Others == Nodes \ {Leader}

\* A commit: which life of which node is in the registry.
Entry == [node : Nodes, life : 0..MaxLives]

\* A request: what was asked, the address it has now, where it is or is sent
\* to, whether its payload is to be run there, and where it was before.
NoRequest == [status |-> "idle", asked |-> <<>>, address |-> <<>>, at |-> Leader,
              life |-> 1, unwrapped |-> FALSE, been |-> {}]

Init ==
  /\ up = {Leader} /\ life = [n \in Nodes |-> IF n = Leader THEN 1 ELSE 0]
  /\ children = [p \in Nodes |-> [n \in Nodes |-> 0]]
  /\ registry = <<>>
  /\ req = [r \in Requests |-> NoRequest]

Status == {"idle", "sent", "searching", "done", "failed", "circling"}

TypeOK ==
  /\ up \subseteq Nodes /\ life \in [Nodes -> 0..MaxLives]
  /\ children \in [Nodes -> [Nodes -> 0..MaxLives]]
  /\ \A i \in DOMAIN registry : registry[i] \in Entry
  /\ \A r \in Requests : /\ req[r].status \in Status /\ req[r].at \in Nodes
                         /\ req[r].life \in 0..MaxLives /\ req[r].unwrapped \in BOOLEAN

-----------------------------------------------------------------------------
(* Addresses.                                                              *)

\* The address of a node: its name below the address of its parent.
Path[n \in Nodes] == IF n = Leader THEN <<Leader>> ELSE Append(Path[Parent[n]], n)

\* Mutant: looked for by the name of the node.
BelowName(address, n) == IsStrictPrefix(<<n>>, address)

Below(address, n) == IsStrictPrefix(Path[n], address)

\* What is left of an address below a node; all of it elsewhere.
Remaining(address, n) ==
  IF Below(address, n) THEN SubSeq(address, Len(Path[n]) + 1, Len(address)) ELSE address

\* oAddress.next(): down one name, or back to the leader.
NextAddress(n, address) ==
  IF Below(address, n) THEN Append(Path[n], Head(Remaining(address, n)))
  ELSE IF address = Path[n] THEN address ELSE <<Leader>>

-----------------------------------------------------------------------------
(* The tree.                                                               *)

Start(n) ==
  /\ n \in Others \ up /\ Parent[n] \in up /\ life[n] < MaxLives
  /\ up' = up \cup {n}
  /\ life' = [life EXCEPT ![n] = @ + 1]
  /\ UNCHANGED <<children, registry, req>>

\* _tool_child_register of the parent: addChild() replaces the entry.
ChildRegister(n) ==
  /\ n \in Others \cap up /\ Parent[n] \in up
  /\ children[Parent[n]][n] # life[n]
  /\ children' = [children EXCEPT ![Parent[n]][n] = life[n]]
  /\ UNCHANGED <<up, life, registry, req>>

\* _tool_commit: an entry per peer, found again by the time of its commit.
Commit(n) ==
  LET entry == [node |-> n, life |-> life[n]] IN
  /\ n \in Others \cap up
  /\ ~Contains(registry, entry)
  /\ registry' = <<entry>> \o registry
  /\ UNCHANGED <<up, life, children, req>>

\* A process ends, with what it knows and with the requests it has.
Crash(n) ==
  /\ n \in Others \cap up
  /\ up' = up \ {n}
  /\ children' = [children EXCEPT ![n] = [m \in Nodes |-> 0]]
  /\ UNCHANGED <<life, registry, req>>

\* removeChild(), told or noticed at any time.
RemoveChild(p, n) ==
  /\ children[p][n] # 0 /\ (n \notin up \/ children[p][n] # life[n])
  /\ children' = [children EXCEPT ![p][n] = 0]
  /\ UNCHANGED <<up, life, registry, req>>

\* _tool_remove of a peer that is gone.
RemoveEntry(i) ==
  LET entry == registry[i] IN
  /\ entry.node \notin up \/ entry.life # life[entry.node]
  /\ registry' = RemoveAt(registry, i)
  /\ UNCHANGED <<up, life, children, req>>

-----------------------------------------------------------------------------
(* Requests.                                                               *)

Fails(r)   == req' = [req EXCEPT ![r].status = "failed"]
Done(r, n) == req' = [req EXCEPT ![r].status = "done", ![r].at = n]

\* Mutant: any node on the way is taken for the destination.
OnTheWay(n, address) == n \in ToSet(address)

\* isDestinationAddress(): the names agree.
IsDestination(n, address) == n = Last(address)

\* prepareRequest(): the request asks for the address found.
Prepared(r, address) == [req[r] EXCEPT !.address = address]

\* The request goes to a life of n.  A request that comes back to where it was
\* with the same address goes round and round; it is followed no further.
Forward(r, from, n, lifeOfN, address) ==
  LET been == req[r].been \cup {<<from, req[r].address>>} IN
  req' = [req EXCEPT ![r] =
            [Prepared(r, address) EXCEPT
               !.status = IF <<n, address>> \in been THEN "circling" ELSE "sent",
               !.at = n, !.life = lifeOfN, !.been = been,
               !.unwrapped = req[r].been # {} /\ IsDestination(n, address)]]

\* oMethodResolver: the name that comes next is a method of the node.
IsMethod(n, address) == Last(NextAddress(n, address)) \in Tools[n]

\* getChild()
IsChild(p, n) == n \in Nodes /\ children[p][n] # 0

\* oLeaderResolverFallback
Fallback == [kind |-> "hop", node |-> Leader, life |-> 1]

\* The chain: oMethodResolver, whose answer at the leader the next resolver
\* refuses; oNodeResolver; and the fallback, or the search at the leader.
Resolved(n, address) ==
  LET child == Head(Remaining(address, n)) IN
  IF IsMethod(n, address) THEN [kind |-> IF n = Leader THEN "notFound" ELSE "own"]
  ELSE IF n # Leader /\ ~Below(address, n) THEN Fallback
  ELSE IF IsChild(n, child) THEN [kind |-> "hop", node |-> child, life |-> children[n][child]]
  ELSE [kind |-> IF Head(address) = Leader THEN "notFound" ELSE "search"]

\* route(): what becomes of request r with this address at node n.
Route(r, n, address) ==
  LET route == Resolved(n, address) IN
  CASE route.kind = "hop"      -> Forward(r, n, route.node, route.life, address)
    [] route.kind = "own"      -> Done(r, n)
    [] route.kind = "notFound" -> Fails(r)
    [] route.kind = "search"   -> req' = [req EXCEPT ![r].status = "searching", ![r].at = n]

\* use() of an address at node n.  An address that ends with the name of the
\* node is itself.  Its own method it dials, and cannot.  What is sent first is
\* always to be routed.
Use(r, n, address) ==
  /\ n \in up /\ req[r] = NoRequest
  /\ LET route == Resolved(n, address)
         asked == [NoRequest EXCEPT !.asked = address, !.address = address, !.at = n]
     IN  req' = [req EXCEPT ![r] =
           IF Last(address) = n THEN [asked EXCEPT !.status = "done"]
           ELSE IF route.kind = "hop"
             THEN [asked EXCEPT !.status = "sent", !.at = route.node, !.life = route.life,
                                !.been = {<<n, address>>}]
           ELSE [asked EXCEPT !.status = IF route.kind = "search" THEN "searching"
                                         ELSE "failed"]]
  /\ UNCHANGED <<up, life, children, registry>>

\* dialAndTransmit(): the life that is dialed still runs.
Reaches(r) == req[r].at \in up /\ req[r].life = life[req[r].at]

\* _tool_route: the address or the name of the node.
RouteToSelf(n, address) == address \in {Path[n], <<n>>}

\* The request arrives: the node runs it, if it is for the node, or hands it on.
Arrive(r) ==
  LET n == req[r].at
      address == req[r].address
  IN  /\ req[r].status = "sent"
      /\ IF ~Reaches(r) THEN Fails(r)
         ELSE IF req[r].unwrapped \/ RouteToSelf(n, address) THEN Done(r, n)
         ELSE Route(r, n, address)
      /\ UNCHANGED <<up, life, children, registry>>

\* _tool_search: by address, or by the name the address begins with.
Found(address) ==
  Filter(registry, {e \in Entry : Path[e.node] = address \/ e.node = Head(address)})

\* The rest of the address goes below the address found, unless it is there.
FoundAddress(entry, address) ==
  IF IsSuffix(Tail(address), Path[entry.node]) THEN Path[entry.node]
  ELSE Path[entry.node] \o Tail(address)

\* resolveNextHopTransports(): the life of the first node on the way, if it is
\* a child of the leader, or else the node that was found.
NextHop(entry, target) ==
  LET first == Last(NextAddress(Leader, target)) IN
  IF IsChild(Leader, first) THEN [node |-> first, life |-> children[Leader][first]]
  ELSE entry

\* oSearchResolver, answered by the registry or not: the newest entry is taken.
Searched(r, answered) ==
  LET found == Found(req[r].address)
      target == FoundAddress(Head(found), req[r].address)
      hop == NextHop(Head(found), target)
  IN  /\ req[r].status = "searching"
      /\ IF ~answered \/ found = <<>> THEN Fails(r)
         ELSE Forward(r, Leader, hop.node, hop.life, target)
      /\ UNCHANGED <<up, life, children, registry>>

-----------------------------------------------------------------------------
Next ==
  \/ \E n \in Nodes : Start(n) \/ ChildRegister(n) \/ Commit(n) \/ Crash(n)
  \/ \E p, n \in Nodes : RemoveChild(p, n)
  \/ \E i \in DOMAIN registry : RemoveEntry(i)
  \/ \E r \in Requests :
       \/ \E n \in Nodes, address \in Addresses : Use(r, n, address)
       \/ Arrive(r)
       \/ \E answered \in BOOLEAN : Searched(r, answered)

Spec == Init /\ [][Next]_vars

-----------------------------------------------------------------------------
(* Properties.                                                             *)

\* What runs a request is the node whose address, or the end of whose address,
\* it asked for, or the node that has the method its address ends with - over any number of
\* hops, restarts, and entries of nodes that are gone.
AnsweredByItsOwner == \A r \in Requests :
  LET n == req[r].at IN
  req[r].status = "done" =>
    \/ IsSuffix(req[r].asked, Path[n])
    \/ \E tool \in Tools[n] : req[r].asked = Append(Path[n], tool)

\* No request comes back to a node with an address it was there with before:
\* handed up and handed down again, it would go round until it times out.
NoCircles == \A r \in Requests : req[r].status # "circling"
=============================================================================
