------------------------------ MODULE Network -------------------------------
(***************************************************************************)
(* What nodes do for one another, as one system: calls (Messaging),        *)
(* routing (Routing), the hierarchy with its news (Hierarchy), indexing    *)
(* (Indexing), named locks (Locks) and the end of a process (Shutdown).  A *)
(* behaviour is one of one part, chosen at the start; the other parts stay *)
(* in an initial state.                                                    *)
(***************************************************************************)
EXTENDS Messaging, Locks, Sequences, FiniteSets

CONSTANTS
  Leader, Parent, Tools, Addresses, Requests,  \* see Routing
  Children, Patterns, Subscriptions,           \* see Hierarchy
  MaxLives,                                    \* see Routing and Hierarchy
  IndexNodes, Root, Offspring, Slots, MaxFails, \* see Indexing
  Resources                                    \* see Shutdown

VARIABLES
  part,
  routeUp, routeLife, routeChildren, registry, route,
  life, links, children, registering, subscribed, told,
  indexed, indexStored, indexCall, ended, indexFails,
  process, resource, timer, outcome

routingVars   == <<routeUp, routeLife, routeChildren, registry, route>>
hierarchyVars == <<life, links, children, registering, subscribed, told>>
indexingVars  == <<indexed, indexStored, indexCall, ended, indexFails>>
shutdownVars  == <<process, resource, timer, outcome>>

\* Whoever has a set with the root in it that holds the children of its
\* members has every node of the network.
Closed(S) == \A n \in S : \A i \in DOMAIN Offspring[n] : Offspring[n][i] \in S

\* Following the parents ends at the leader; no method is called like a node.
ASSUME NetworkAssumption ==
  /\ MaxLives \in Nat \ {0} /\ MaxFails \in Nat
  /\ IsFiniteSet(Nodes) /\ Leader \in Nodes /\ Parent \in [Nodes \ {Leader} -> Nodes]
  /\ \E depth \in [Nodes -> 0..Cardinality(Nodes)] :
        \A n \in Nodes \ {Leader} : depth[Parent[n]] < depth[n]
  /\ \A n, m \in Nodes : m \notin Tools[n]
  /\ Root \in IndexNodes /\ Offspring \in [IndexNodes -> Seq(IndexNodes)]
  /\ \A S \in SUBSET IndexNodes : Root \in S /\ Closed(S) => S = IndexNodes

-----------------------------------------------------------------------------
(* The parts.                                                              *)

Routes == INSTANCE Routing WITH
  up <- routeUp, life <- routeLife, children <- routeChildren, req <- route

Family == INSTANCE Hierarchy WITH open <- links

Index == INSTANCE Indexing WITH
  Nodes <- IndexNodes, stored <- indexStored, call <- indexCall, fails <- indexFails

Ending == INSTANCE Shutdown

\* A request asks for a node, by the end of its address, or for a method of a
\* node by its whole address.
ASSUME AddressesAssumption == \A address \in Addresses :
  \/ /\ address \in Seq(Nodes) \ {<<>>}
     /\ \E n \in Nodes : Routes!IsSuffix(address, Routes!Path[n])
  \/ \E n \in Nodes : \E tool \in Tools[n] : address = Append(Routes!Path[n], tool)

-----------------------------------------------------------------------------

\* A part that stays where it is needs one of its initial states only.
PartsInit ==
  /\ part \in {"messaging", "routing", "hierarchy", "indexing", "locks", "shutdown"}
  /\ Init /\ (part # "messaging" => plan = CHOOSE p \in Plans : TRUE)
  /\ Routes!Init /\ Family!Init /\ Index!Init /\ Ending!Init
  /\ LocksInit /\ (part # "locks" => \A p \in Callers : at[p][2] = CHOOSE n \in Names : TRUE)

PartsNext ==
  /\ UNCHANGED part
  /\ \/ /\ part = "messaging" /\ Next
        /\ UNCHANGED <<routingVars, hierarchyVars, indexingVars, locksVars, shutdownVars>>
     \/ /\ part = "routing" /\ Routes!Next
        /\ UNCHANGED <<vars, hierarchyVars, indexingVars, locksVars, shutdownVars>>
     \/ /\ part = "hierarchy" /\ Family!Next
        /\ UNCHANGED <<vars, routingVars, indexingVars, locksVars, shutdownVars>>
     \/ /\ part = "indexing" /\ Index!Next
        /\ UNCHANGED <<vars, routingVars, hierarchyVars, locksVars, shutdownVars>>
     \/ /\ part = "locks" /\ LocksNext
        /\ UNCHANGED <<vars, routingVars, hierarchyVars, indexingVars, shutdownVars>>
     \/ /\ part = "shutdown" /\ Ending!Next
        /\ UNCHANGED <<vars, routingVars, hierarchyVars, indexingVars, locksVars>>

\* The fairness of Messaging and of Shutdown.
PartsSpec ==
  /\ PartsInit
  /\ [][PartsNext]_<<part, vars, routingVars, hierarchyVars, indexingVars, locksVars,
                     shutdownVars>>
  /\ \A c \in Calls : /\ WF_vars(part = "messaging" /\ Caller(c))
                      /\ WF_vars(part = "messaging" /\ Callee(c))
  /\ \A n, m \in Nodes : WF_vars(part = "messaging" /\ Dial(n, m))
  /\ WF_shutdownVars(part = "shutdown" /\ Ending!TimerFires)
  /\ WF_shutdownVars(part = "shutdown" /\ Ending!CleanupEnds)
  /\ WF_shutdownVars(part = "shutdown" /\ Ending!Exit)

-----------------------------------------------------------------------------
(* The properties, each stated in its module.                              *)

\* A request that is executed is executed by the node it was for.
AnsweredByItsOwner == Routes!AnsweredByItsOwner

\* No request goes round in circles.
NoCircles == Routes!NoCircles

\* Nobody keeps the news that a child left which is connected.
LeftIsTrue == Family!LeftIsTrue

\* An indexing that ends well has reached every node.
CompleteMeansAll == Index!CompleteMeansAll

\* A signal ends the process.
SignalEnds == Ending!SignalEnds
=============================================================================
