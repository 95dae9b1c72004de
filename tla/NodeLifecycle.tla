---------------------------- MODULE NodeLifecycle ----------------------------
(***************************************************************************)
(* start() and stop() of a node: oCore's state machine with what oNode     *)
(* adds to initialize(), teardown() and resetState().                      *)
(*                                                                         *)
(* Both are asynchronous and are called by anybody at any time: by the     *)
(* program, by its signal handlers and, through the stop tool, by other    *)
(* nodes.  `state` is the only guard between them.  start() and stop()     *)
(* each have a program point: the await they are suspended at.             *)
(***************************************************************************)
EXTENDS Naturals

CONSTANTS
  LeaderHasTransports, \* config.leader, when set, carries transports
  MonitorEnabled,      \* MONITOR_ENABLED and MONITOR_ADDRESS are set
  TeardownMayThrow,    \* a subclass overrides teardown() with work that can fail
  MaxStarts            \* bound: calls of start() that get past its guard

ASSUME LifecycleAssumption ==
  /\ {LeaderHasTransports, MonitorEnabled, TeardownMayThrow} \subseteq BOOLEAN
  /\ MaxStarts \in Nat

VARIABLES
  state,      \* oCore.state
  errored,    \* oCore.errors is not empty
  starter,    \* where start() is
  stopper,    \* where stop() is
  managers,   \* connection, reconnection and registration manager, router, peerId
  p2pNode,    \* the p2pNode field refers to a libp2p node
  listening,  \* libp2p nodes created and never stopped
  heartbeat,  \* the monitor interval is set
  loop,       \* the reconnection manager runs its discovery loop
  orphans,    \* discovery loops of reconnection managers that were dropped
  starts      \* calls of start() so far

vars == <<state, errored, starter, stopper, managers, p2pNode, listening,
          heartbeat, loop, orphans, starts>>

parts  == <<managers, p2pNode, listening>>
loops  == <<loop, orphans>>

States       == {"STOPPED", "STARTING", "RUNNING", "STOPPING", "ERROR"}
TeardownAt   == {"unregistering", "closing"}
StarterPoint == {"idle", "validating", "creating", "initializing", "registering"} \cup TeardownAt
StopperPoint == {"idle"} \cup TeardownAt

TypeOK ==
  /\ state \in States
  /\ starter \in StarterPoint
  /\ stopper \in StopperPoint
  /\ listening \in 0..MaxStarts
  /\ orphans \in 0..MaxStarts
  /\ starts \in 0..MaxStarts
  /\ errored \in BOOLEAN /\ managers \in BOOLEAN /\ p2pNode \in BOOLEAN
  /\ heartbeat \in BOOLEAN /\ loop \in BOOLEAN

Init ==
  /\ state = "STOPPED"
  /\ starter = "idle" /\ stopper = "idle"
  /\ errored = FALSE /\ managers = FALSE /\ p2pNode = FALSE
  /\ heartbeat = FALSE /\ loop = FALSE
  /\ listening = 0 /\ orphans = 0 /\ starts = 0

\* What use() requires of the node.
IsRunning == state \in {"STARTING", "RUNNING", "STOPPING"}

-----------------------------------------------------------------------------
(* start().                                                                *)

\* Mutant: start() does not look at the state.
StartUnguarded == starts < MaxStarts

\* A start() of a node that is not STOPPED returns with a warning.
MayStart == state = "STOPPED" /\ starts < MaxStarts

Start ==
  /\ MayStart
  /\ state' = "STARTING"
  /\ starter' = "validating"
  /\ starts' = starts + 1
  /\ UNCHANGED <<errored, stopper, parts, heartbeat, loops>>

\* validate() is outside the try block: when it throws, start() rejects and
\* the state stays as it is.
Validated ==
  /\ starter = "validating"
  /\ starter' = IF LeaderHasTransports THEN "creating" ELSE "idle"
  /\ UNCHANGED <<state, errored, stopper, parts, heartbeat, loops, starts>>

NodeCreated ==
  /\ starter = "creating"
  /\ starter' = "initializing"
  /\ p2pNode' = TRUE
  /\ listening' = listening + 1
  /\ UNCHANGED <<state, errored, stopper, managers, heartbeat, loops, starts>>

Initialized ==
  /\ starter = "initializing"
  /\ starter' = "registering"
  /\ managers' = TRUE
  /\ UNCHANGED <<state, errored, stopper, p2pNode, listening, heartbeat, loops, starts>>

InitializeThrows ==
  /\ starter \in {"creating", "initializing"}
  /\ starter' = "unregistering"
  /\ errored' = TRUE
  /\ state' = "ERROR"
  /\ UNCHANGED <<stopper, parts, heartbeat, loops, starts>>

\* register() has returned or thrown: an error is logged and start() goes on.
RegisterEnded ==
  /\ starter = "registering"
  /\ starter' = "idle"
  /\ state' = "RUNNING"
  /\ heartbeat' = MonitorEnabled
  /\ UNCHANGED <<errored, stopper, parts, loops, starts>>

-----------------------------------------------------------------------------
(* stop(), and the teardown() that a failed start() shares with it.        *)

\* Mutant: stop() does not look at the state.
StopUnguarded == TRUE

\* Any other state makes stop() return with a warning.
MayStop == state = "RUNNING"

HeartbeatCleared == FALSE

Stop ==
  /\ MayStop
  /\ state' = "STOPPING"
  /\ stopper' = "unregistering"
  /\ heartbeat' = HeartbeatCleared
  /\ UNCHANGED <<errored, starter, parts, loops, starts>>

\* unregister() never throws and gives its notification two seconds.
UnregisterEnded ==
  /\ \/ starter = "unregistering" /\ starter' = "closing" /\ UNCHANGED stopper
     \/ stopper = "unregistering" /\ stopper' = "closing" /\ UNCHANGED starter
  /\ state' = "STOPPING"
  /\ UNCHANGED <<errored, parts, heartbeat, loops, starts>>

\* An override of teardown() fails before it calls super.teardown().
TeardownThrows ==
  /\ TeardownMayThrow
  /\ \/ starter = "unregistering" /\ starter' = "idle" /\ UNCHANGED stopper
     \/ stopper = "unregistering" /\ stopper' = "idle" /\ UNCHANGED starter
  /\ state' = "ERROR"
  /\ errored' = TRUE
  /\ UNCHANGED <<parts, heartbeat, loops, starts>>

\* resetState() drops the references.  A discovery loop that is running keeps
\* the reconnection manager it belongs to and goes on.
ResetState ==
  /\ errored' = FALSE
  /\ managers' = FALSE
  /\ p2pNode' = FALSE
  /\ heartbeat' = FALSE
  /\ loop' = FALSE
  /\ orphans' = IF loop THEN orphans + 1 ELSE orphans

\* A failed start() sets no state after its teardown().
StartFailed ==
  /\ starter = "closing" /\ starter' = "idle"
  /\ UNCHANGED <<state, stopper>>

\* Mutant: stop() leaves the state to teardown().
StoppedByTeardown ==
  /\ stopper = "closing" /\ stopper' = "idle"
  /\ UNCHANGED <<state, starter>>

Stopped ==
  /\ stopper = "closing" /\ stopper' = "idle"
  /\ state' = "STOPPED"
  /\ UNCHANGED starter

\* The rest of teardown(): super.teardown() has called resetState() before
\* oNode looks at p2pNode, so the libp2p node is not stopped.
TornDown ==
  /\ ResetState
  /\ StartFailed \/ Stopped
  /\ UNCHANGED <<listening, starts>>

-----------------------------------------------------------------------------
(* The discovery loop.                                                     *)

\* A parent:disconnected event starts the loop of the current manager.
ParentLost ==
  /\ managers /\ ~loop
  /\ loop' = TRUE
  /\ UNCHANGED <<state, errored, starter, stopper, parts, heartbeat, orphans, starts>>

\* A round succeeds only through the managers the node has at that moment,
\* whichever manager the loop belongs to.
LoopEnds ==
  /\ IsRunning /\ managers
  /\ \/ loop /\ loop' = FALSE /\ UNCHANGED orphans
     \/ orphans > 0 /\ orphans' = orphans - 1 /\ UNCHANGED loop
  /\ UNCHANGED <<state, errored, starter, stopper, parts, heartbeat, starts>>

-----------------------------------------------------------------------------
StartStep == Validated \/ NodeCreated \/ Initialized \/ InitializeThrows \/ RegisterEnded
TeardownStep == UnregisterEnded \/ TeardownThrows \/ TornDown

Next == Start \/ Stop \/ StartStep \/ TeardownStep \/ ParentLost \/ LoopEnds

Spec == Init /\ [][Next]_vars

\* teardown() waits for timers and local work only.  register() may wait for
\* the network for ever, so nothing is assumed of start().
FairSpec == Spec /\ WF_vars(TeardownStep)

-----------------------------------------------------------------------------
(* Properties that hold.                                                   *)

\* start() with the teardown() of its failure, and stop() with its own, never
\* interleave: each would undo the other's half-done work.
OneLifecycleActivity == starter = "idle" \/ stopper = "idle"

\* A RUNNING node has its managers and its libp2p node, and no error left
\* over, however often and whenever it was stopped and started.
RunningIsWhole == state = "RUNNING" => managers /\ p2pNode /\ ~errored

\* The monitor interval never outlives RUNNING: a tick in another state
\* would report a node that is half torn down.
HeartbeatOnlyWhileRunning == heartbeat => state = "RUNNING"

\* start() gets past its guard only when nothing of an earlier start() is
\* left in the node's fields, a failed one's included.
StartsFresh ==
  [][starts' # starts => ~managers /\ ~p2pNode /\ ~errored /\ ~loop]_vars

\* A stop() that got past its guard ends, with the node STOPPED or in ERROR.
StopEnds == (stopper # "idle") ~> (state \in {"STOPPED", "ERROR"})

-----------------------------------------------------------------------------
(* What the source says of the code and the code does not do.              *)

\* "Calls teardown() to clean up node resources and connections"
\* (o-core.ts:467): a stopped node leaves no libp2p node running, which would
\* go on accepting connections and streams, and no discovery loop, which
\* would go on dialling.
StoppedIsQuiet == state = "STOPPED" => listening = 0 /\ ~loop /\ orphans = 0
=============================================================================
