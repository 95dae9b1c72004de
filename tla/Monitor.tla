------------------------------ MODULE Monitor -------------------------------
(***************************************************************************)
(* MonitorTool and its providers: heartbeats of the nodes, polls of the    *)
(* nodes in the registry that store what they answer, the clean-up of old  *)
(* entries, and which nodes are tracked, alive or stale.                   *)
(*                                                                         *)
(* Two pollers share the store: the health provider, whose entries go by   *)
(* the address of the node, and the libp2p provider, whose entries go by   *)
(* its own.  A poll asks one node after another and waits for each.  Time  *)
(* is in steps of a heartbeat's timeout; entries and beats carry ages.     *)
(***************************************************************************)
EXTENDS Naturals, Sequences, SequencesExt, Filtering

CONSTANTS
  Nodes,       \* addresses of nodes
  LibP2P,      \* the address of the libp2p provider
  HealthPolls, \* bound: polls of the health provider at a time
  LibP2PPolls, \* bound: polls of the libp2p provider at a time
  Timeout,     \* heartbeatTimeoutMs
  Retention,   \* how old an entry gets before it is cleaned up
  MaxEntries   \* maxEntriesPerNode

VARIABLES
  registered,  \* the nodes in the registry
  beats,       \* the age of each node's last heartbeat, if there was one
  series,      \* nodeMetrics: the entries stored under the addresses it has
  poll         \* the polls that are on, with the nodes still to ask

vars == <<registered, beats, series, poll>>

Polls   == HealthPolls \cup LibP2PPolls
Keys    == Nodes \cup {LibP2P}
NoBeat  == Timeout + 2
Entry   == [of : Nodes, age : 0..Retention + 1, load : {"errors", "busy", "fine"}]
NoPoll  == [on |-> FALSE, todo |-> {}]

TypeOK ==
  /\ registered \subseteq Nodes
  /\ beats \in [Nodes -> 0..NoBeat]
  /\ DOMAIN series \subseteq Keys
  /\ \A k \in DOMAIN series : Range(series[k]) \subseteq Entry /\ Len(series[k]) <= MaxEntries
  /\ poll \in [Polls -> [on : BOOLEAN, todo : SUBSET Nodes]]

Init ==
  /\ registered = {}
  /\ beats = [n \in Nodes |-> NoBeat]
  /\ series = <<>>
  /\ poll = [p \in Polls |-> NoPoll]

-----------------------------------------------------------------------------
(* Recording.                                                              *)

\* storeMetrics(): an address that is new gets a list; the new entry is dated
\* now, and pushes the oldest out.
Stored(k, n, load) ==
  LET entries == IF k \in DOMAIN series THEN series[k] ELSE <<>>
      more    == Append(entries, [of |-> n, age |-> 0, load |-> load])
  IN  (k :> IF Len(more) > MaxEntries THEN Tail(more) ELSE more) @@ series

RecordHeartbeat(n) ==
  /\ beats' = [beats EXCEPT ![n] = 0]
  /\ UNCHANGED <<registered, series, poll>>

Registry(nodes) ==
  /\ registered' = nodes
  /\ UNCHANGED <<beats, series, poll>>

\* find_all of the registry gives the nodes to ask; when it fails there is no
\* poll.  The interval fires whether the last poll is over or not.
PollStarts(p) ==
  /\ ~poll[p].on
  /\ poll' = [poll EXCEPT ![p] = [on |-> TRUE, todo |-> registered]]
  /\ UNCHANGED <<registered, beats, series>>

Asked(p, n) == poll[p].on /\ n \in poll[p].todo

\* get_metrics of a node is answered, or the node has no libp2p; other errors
\* are counted, and the poll goes on.
CollectNodeMetrics(p, n, load) ==
  /\ p \in HealthPolls /\ Asked(p, n)
  /\ poll' = [poll EXCEPT ![p].todo = @ \ {n}]
  /\ series' = Stored(n, n, load)
  /\ UNCHANGED <<registered, beats>>

CollectLibP2PMetrics(p, n) ==
  /\ p \in LibP2PPolls /\ Asked(p, n)
  /\ poll' = [poll EXCEPT ![p].todo = @ \ {n}]
  /\ series' = Stored(LibP2P, n, "fine")
  /\ UNCHANGED <<registered, beats>>

NodeFails(p, n) ==
  /\ Asked(p, n)
  /\ poll' = [poll EXCEPT ![p].todo = @ \ {n}]
  /\ UNCHANGED <<registered, beats, series>>

PollEnds(p) ==
  /\ poll[p].on /\ poll[p].todo = {}
  /\ poll' = [poll EXCEPT ![p] = NoPoll]
  /\ UNCHANGED <<registered, beats, series>>

\* Mutant: the latest entry is kept however old it is.
KeptButLast(entries) ==
  Filter(entries, {e \in Entry : e.age < Retention \/ e = Last(entries)})

Kept(entries) == Filter(entries, {e \in Entry : e.age < Retention})

\* cleanup(): an address with nothing left is deleted.
Cleanup ==
  /\ series' = [k \in {x \in DOMAIN series : Kept(series[x]) # <<>>} |-> Kept(series[k])]
  /\ UNCHANGED <<registered, beats, poll>>

Tick ==
  /\ beats' = [n \in Nodes |-> IF beats[n] <= Timeout THEN beats[n] + 1 ELSE beats[n]]
  /\ series' = [k \in DOMAIN series |-> [i \in DOMAIN series[k] |->
                  [series[k][i] EXCEPT !.age = IF @ <= Retention THEN @ + 1 ELSE @]]]
  /\ UNCHANGED <<registered, poll>>

-----------------------------------------------------------------------------
(* Views.                                                                  *)

Heard == {n \in Nodes : beats[n] # NoBeat}

IsNodeAlive(n) == n \in Heard /\ beats[n] < Timeout

StaleServices == {n \in Heard : beats[n] > Timeout}

AllTrackedNodes == DOMAIN series

-----------------------------------------------------------------------------
Poll(p) ==
  \/ PollStarts(p) \/ PollEnds(p)
  \/ \E n \in Nodes : \/ NodeFails(p, n) \/ CollectLibP2PMetrics(p, n)
                      \/ \E load \in {"errors", "busy", "fine"} : CollectNodeMetrics(p, n, load)

Next ==
  \/ \E n \in Nodes : RecordHeartbeat(n)
  \/ \E nodes \in SUBSET Nodes : Registry(nodes)
  \/ \E p \in Polls : Poll(p)
  \/ Cleanup \/ Tick

Spec == Init /\ [][Next]_vars

\* Time passes, the clean-up runs, and every request of a poll is answered or
\* fails.
Fairness ==
  /\ WF_vars(Tick) /\ WF_vars(Cleanup)
  /\ \A p \in Polls : WF_vars(Poll(p) /\ poll[p].on)

FairSpec == Spec /\ Fairness

-----------------------------------------------------------------------------
(* Properties.                                                             *)

\* A node that leaves the registry for good is no longer tracked in the end,
\* whatever polls were on their way to it.
LeftAreForgotten ==
  \A n \in Nodes : <>[](n \notin registered) => <>[](n \notin AllTrackedNodes)
=============================================================================
