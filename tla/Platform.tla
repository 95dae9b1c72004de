------------------------------ MODULE Platform ------------------------------
(***************************************************************************)
(* What lives longer than a call, as one system: the life of a node,       *)
(* worlds, agents with their registry (Agents) and inbox (AgentInbox), the *)
(* monitor (Monitor), an OlaneOS object (OperatingSystem) and the          *)
(* processes that share an instance (OSInstances).  A behaviour is one of  *)
(* one part, chosen at the start; the other parts stay in an initial       *)
(* state.                                                                  *)
(***************************************************************************)
EXTENDS NodeLifecycle, Worlds

CONSTANTS
  Agents, Interval, TTL, Late, Latency, MaxLost,
  MaxAgentStarts, MaxRestarts,                      \* see Agents
  Messages, InboxBound,                             \* see AgentInbox
  Nodes, LibP2P, HealthPolls, LibP2PPolls,
  Timeout, Retention, MaxEntries,                   \* see Monitor
  Leaders, Workers, MaxNodes,                       \* see OperatingSystem
  Pids, MaxCalls                                    \* see OSInstances

\* An inbox with a bound of 0 would keep one message all the same.
ASSUME PlatformAssumption ==
  /\ {Interval, TTL} \subseteq Nat \ {0} /\ {Late, Latency} \subseteq Nat
  /\ Latency < Interval
  /\ {MaxLost, MaxAgentStarts, MaxRestarts} \subseteq Nat
  /\ InboxBound \in Nat \ {0}
  /\ IsFiniteSet(Nodes) /\ LibP2P \notin Nodes
  /\ Timeout \in Nat \ {0} /\ Retention \in Nat /\ MaxEntries \in Nat \ {0}
  /\ {Leaders, Workers, MaxNodes} \subseteq Nat
  /\ "none" \notin Pids /\ MaxCalls \in Nat

VARIABLES
  part,
  entries, calls, agentStarts, process, stage, timer, clock, lost, restarts,
  inbox, transit, arrived, sent, reply,
  registered, beats, series, poll,
  status, phase, left, leaders, nodes, rootLeader, roundRobinIndex, created, osUp,
  services, early, answered,
  instance, proc, seen, osCall, osCalls, index, overlap

agentVars    == <<entries, calls, agentStarts, process, stage, timer, clock, lost, restarts>>
inboxVars    == <<inbox, transit, arrived, sent, reply>>
monitorVars  == <<registered, beats, series, poll>>
osVars       == <<status, phase, left, leaders, nodes, rootLeader, roundRobinIndex,
                  created, osUp, services, early, answered>>
instanceVars == <<instance, proc, seen, osCall, osCalls, index, overlap>>

-----------------------------------------------------------------------------
(* The parts.                                                              *)

Registry == INSTANCE Agents WITH MaxStarts <- MaxAgentStarts, starts <- agentStarts

Inbox == INSTANCE AgentInbox

Metrics == INSTANCE Monitor

OS == INSTANCE OperatingSystem WITH up <- osUp

Instances == INSTANCE OSInstances WITH file <- instance, call <- osCall, calls <- osCalls

-----------------------------------------------------------------------------

PartsInit ==
  /\ part \in {"lifecycle", "agents", "inbox", "monitor", "os", "instances", "worlds"}
  /\ Init /\ Registry!Init /\ Inbox!Init /\ Metrics!Init /\ OS!Init
  /\ Instances!Init /\ WorldsInit

PartsNext ==
  /\ UNCHANGED part
  /\ \/ /\ part = "lifecycle" /\ Next
        /\ UNCHANGED <<agentVars, inboxVars, monitorVars, osVars, instanceVars, worldVars>>
     \/ /\ part = "agents" /\ Registry!Next
        /\ UNCHANGED <<vars, inboxVars, monitorVars, osVars, instanceVars, worldVars>>
     \/ /\ part = "inbox" /\ Inbox!Next
        /\ UNCHANGED <<vars, agentVars, monitorVars, osVars, instanceVars, worldVars>>
     \/ /\ part = "monitor" /\ Metrics!Next
        /\ UNCHANGED <<vars, agentVars, inboxVars, osVars, instanceVars, worldVars>>
     \/ /\ part = "os" /\ OS!Next
        /\ UNCHANGED <<vars, agentVars, inboxVars, monitorVars, instanceVars, worldVars>>
     \/ /\ part = "instances" /\ Instances!Next
        /\ UNCHANGED <<vars, agentVars, inboxVars, monitorVars, osVars, worldVars>>
     \/ /\ part = "worlds" /\ WorldsNext
        /\ UNCHANGED <<vars, agentVars, inboxVars, monitorVars, osVars, instanceVars>>

\* The fairness of NodeLifecycle, Agents and Monitor.
PartsSpec ==
  /\ PartsInit
  /\ [][PartsNext]_<<part, vars, agentVars, inboxVars, monitorVars, osVars, instanceVars,
                     worldVars>>
  /\ WF_vars(part = "lifecycle" /\ TeardownStep)
  /\ WF_agentVars(/\ part = "agents"
                  /\ \E c \in calls : Registry!CallHandled(c) \/ Registry!CallAnswered(c)
                                     \/ Registry!CallLost(c))
  /\ \A a \in Agents : WF_agentVars(part = "agents" /\ Registry!Heartbeat(a))
  /\ WF_agentVars(part = "agents" /\ Registry!Sweep)
  /\ WF_agentVars(part = "agents" /\ Registry!Tick)
  /\ WF_monitorVars(part = "monitor" /\ Metrics!Tick)
  /\ WF_monitorVars(part = "monitor" /\ Metrics!Cleanup)
  /\ \A p \in HealthPolls \cup LibP2PPolls :
       WF_monitorVars(part = "monitor" /\ Metrics!Poll(p) /\ poll[p].on)

-----------------------------------------------------------------------------
(* The properties, each stated in its module.                              *)

\* An agent whose heartbeats arrive is not listed as dead.
BeatsKeepAlive == Registry!BeatsKeepAlive

\* An agent that is down for good leaves the registry.
DeadAreForgotten == Registry!DeadAreForgotten

\* The inbox is the end of what arrived since the last drain.
InboxKeepsLatest == Inbox!InboxKeepsLatest

\* A node that left for good is no longer tracked in the end.
LeftAreForgotten == Metrics!LeftAreForgotten

\* An entry node is found once there are nodes.
EntryNodeExists == OS!EntryNodeExists

\* One process runs the instance, the one its file names.
OneInstance == Instances!OneInstance
=============================================================================
