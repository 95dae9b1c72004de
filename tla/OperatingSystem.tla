--------------------------- MODULE OperatingSystem ---------------------------
(***************************************************************************)
(* An OlaneOS object: it starts the leaders and the nodes of its           *)
(* configuration and the services below the root leader, replays saved     *)
(* lanes, and from then on sends every request through an entry node,      *)
(* chosen round robin.  It may be stopped, restarted and given nodes.      *)
(*                                                                         *)
(* A node is the number it was created with; whether it runs is all that   *)
(* is kept of it.  Lane replay is in SavedLanes, the life of one node in   *)
(* NodeLifecycle.  One caller at a time starts, stops or restarts the OS;  *)
(* requests come at any time.                                              *)
(***************************************************************************)
EXTENDS Integers, Sequences, FiniteSets, SequencesExt

CONSTANTS
  Leaders, Workers,   \* how many of each kind the configuration names
  MaxNodes            \* bound: nodes ever created

None == 0
NaN  == -1   \* what a remainder by zero leaves in roundRobinIndex

VARIABLES
  status,    \* of the OS
  phase,     \* what start() is doing; "idle" when nobody is in it
  left,      \* nodes or replays left in this phase
  leaders, nodes,    \* the arrays, in order
  rootLeader,
  roundRobinIndex,
  created,   \* nodes created so far
  up,        \* nodes that run
  services,  \* the node whose children the services are
  early,     \* an entry node was asked for when there was none
  answered   \* how start() ended: "none", "returned" or "threw"

vars == <<status, phase, left, leaders, nodes, rootLeader, roundRobinIndex,
          created, up, services, early, answered>>

TypeOK ==
  /\ status \in {"none", "starting", "running", "stopping", "stopped"}
  /\ phase \in {"idle", "leaders", "nodes", "services", "plans", "stopping"}
  /\ left \in Nat /\ created \in 0..MaxNodes
  /\ ToSet(leaders) \cup ToSet(nodes) \cup up \subseteq 1..created
  /\ rootLeader \in 0..created /\ services \in 0..created
  /\ roundRobinIndex \in {NaN} \cup Nat
  /\ early \in BOOLEAN
  /\ answered \in {"none", "returned", "threw"}

Init ==
  /\ status = "none" /\ phase = "idle" /\ left = 0
  /\ leaders = <<>> /\ nodes = <<>> /\ rootLeader = None
  /\ roundRobinIndex = 0
  /\ created = 0 /\ up = {} /\ services = None
  /\ early = FALSE /\ answered = "none"

-----------------------------------------------------------------------------
(* The entry node.                                                         *)

\* nodes[roundRobinIndex].
EntryNode == IF roundRobinIndex \in 0..(Len(nodes) - 1)
               THEN nodes[roundRobinIndex + 1] ELSE None

\* Mutant: the index is left to grow.
NextIndexUnbounded == roundRobinIndex + 1

\* entryNode() leaves the index at the next node, if it is a number at all.
NextIndex == IF roundRobinIndex = NaN \/ nodes = <<>> THEN NaN
             ELSE (roundRobinIndex + 1) % Len(nodes)

\* Where a second entryNode() after it leaves the index.
NextButOne == (NextIndex + 1) % Len(nodes)

Enter ==
  /\ roundRobinIndex' = NextIndex
  /\ early' = (early \/ nodes = <<>>)

\* use() asks for the entry node in any status.  The request itself is the
\* node's.
Use ==
  /\ Enter
  /\ UNCHANGED <<status, phase, left, leaders, nodes, rootLeader, created, up,
                 services, answered>>

-----------------------------------------------------------------------------
(* start().                                                                *)

Ends(how) == phase' = "idle" /\ left' = 0 /\ answered' = how

\* loadConfig(), which may throw, and startNodes() of the leaders.
Start(configRead) ==
  /\ phase = "idle" /\ status \in {"none", "stopped"}
  /\ created + Leaders + Workers <= MaxNodes
  /\ status' = "starting"
  /\ IF configRead /\ Leaders + Workers > 0
       THEN phase' = "leaders" /\ left' = Leaders /\ answered' = "none"
       ELSE Ends("threw")
  /\ UNCHANGED <<leaders, nodes, rootLeader, roundRobinIndex, created, up, services, early>>

\* A node's own start() does not throw: it may be left in an error state.
Created(runs) ==
  /\ created' = created + 1
  /\ up' = IF runs THEN up \cup {created'} ELSE up

\* One leader.  The first one there ever was stays the root leader.  Its
\* common tools are started under it.
StartLeader(runs, tools) ==
  /\ phase = "leaders" /\ left > 0
  /\ Created(runs)
  /\ rootLeader' = IF rootLeader = None THEN created' ELSE rootLeader
  /\ IF tools THEN leaders' = Append(leaders, created') /\ left' = left - 1
                   /\ UNCHANGED <<phase, answered>>
     ELSE Ends("threw") /\ UNCHANGED leaders
  /\ UNCHANGED <<status, nodes, roundRobinIndex, services, early>>

LeadersStarted ==
  /\ phase = "leaders" /\ left = 0
  /\ phase' = "nodes" /\ left' = Workers
  /\ UNCHANGED <<status, leaders, nodes, rootLeader, roundRobinIndex, created, up,
                 services, early, answered>>

\* One node, a child of the root leader; a relay, or a node with its lane
\* storage and registry tools.
StartNode(runs, tools) ==
  /\ phase = "nodes" /\ left > 0
  /\ Created(runs)
  /\ IF tools THEN nodes' = Append(nodes, created') /\ left' = left - 1
                   /\ UNCHANGED <<phase, answered>>
     ELSE Ends("threw") /\ UNCHANGED nodes
  /\ UNCHANGED <<status, leaders, rootLeader, roundRobinIndex, services, early>>

NodesStarted ==
  /\ phase = "nodes" /\ left = 0
  /\ phase' = "services"
  /\ UNCHANGED <<status, left, leaders, nodes, rootLeader, roundRobinIndex, created, up,
                 services, early, answered>>

\* initOSServices(): vector store, file system, world manager and agent
\* registry, if there is a root leader.  Then the saved configuration is
\* read and so are the lanes; both need the root leader to run, and their
\* errors are logged.
StartServices(ok, lanes) ==
  /\ phase = "services"
  /\ IF ok THEN phase' = "plans" /\ UNCHANGED answered /\ services' = rootLeader
                /\ left' = IF rootLeader \in up THEN lanes ELSE 0
     ELSE Ends("threw") /\ UNCHANGED services
  /\ UNCHANGED <<status, leaders, nodes, rootLeader, roundRobinIndex, created, up, early>>

\* runSavedPlans(): one lane.  It is sent to the address of one entry node
\* through the next; with no entry node it fails at once, and is logged.
ReplayLane ==
  /\ phase = "plans" /\ left > 0
  /\ left' = left - 1
  /\ IF EntryNode = None THEN Enter
     ELSE roundRobinIndex' = NextButOne /\ UNCHANGED early
  /\ UNCHANGED <<status, phase, leaders, nodes, rootLeader, created, up, services, answered>>

\* The OS runs, and is indexed in the background; then the answer is built
\* from the peer id of the root leader, which a stopped node has not.
Running ==
  /\ phase = "plans" /\ left = 0
  /\ status' = "running"
  /\ Ends(IF rootLeader = None \/ rootLeader \in up THEN "returned" ELSE "threw")
  /\ UNCHANGED <<leaders, nodes, rootLeader, roundRobinIndex, created, up, services, early>>

-----------------------------------------------------------------------------
(* stop(), restart() and addNode().                                        *)

\* Only the root leader is stopped.
Stop ==
  /\ phase = "idle" /\ status \in {"starting", "running"}
  /\ status' = "stopping" /\ phase' = "stopping"
  /\ UNCHANGED <<left, leaders, nodes, rootLeader, roundRobinIndex, created, up,
                 services, early, answered>>

Stopped ==
  /\ phase = "stopping"
  /\ phase' = "idle" /\ status' = "stopped"
  /\ up' = up \ {rootLeader}
  /\ roundRobinIndex' = 0 /\ early' = FALSE
  /\ UNCHANGED <<left, leaders, nodes, rootLeader, created, services, answered>>

\* addNode() makes the new node a child of two entry nodes, and starts the
\* first of them, which runs.  The new node is not started, nor one of the
\* nodes of the OS.
AddNode ==
  /\ status = "running" /\ nodes # <<>> /\ EntryNode # None
  /\ roundRobinIndex' = NextButOne
  /\ UNCHANGED <<status, phase, left, leaders, nodes, rootLeader, created, up,
                 services, early, answered>>

\* addLeader(), by hand, of a leader that runs or not.
AddLeader(runs) ==
  /\ phase = "idle" /\ created < MaxNodes
  /\ Created(runs)
  /\ leaders' = Append(leaders, created')
  /\ rootLeader' = IF rootLeader = None THEN created' ELSE rootLeader
  /\ UNCHANGED <<status, phase, left, nodes, roundRobinIndex, services, early, answered>>

-----------------------------------------------------------------------------
Next ==
  \/ Use \/ LeadersStarted \/ NodesStarted \/ ReplayLane \/ Running
  \/ Stop \/ Stopped \/ AddNode
  \/ \E ok \in BOOLEAN :
       \/ Start(ok) \/ AddLeader(ok)
       \/ \E tools \in BOOLEAN : StartLeader(ok, tools) \/ StartNode(ok, tools)
       \/ \E lanes \in 0..2 : StartServices(ok, lanes)

Spec == Init /\ [][Next]_vars

-----------------------------------------------------------------------------
(* Properties.                                                             *)

\* Once there are nodes an entry node is found, in every round, after nodes
\* were added and after a restart - unless somebody asked for one before the
\* first node was there, which turns the index into NaN until stop().
EntryNodeExists == nodes # <<>> /\ ~early => EntryNode # None
=============================================================================
