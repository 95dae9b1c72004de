---------------------------- MODULE Registration ----------------------------
(***************************************************************************)
(* How one non-leader node keeps its two registrations: as a child of its  *)
(* parent, and as an entry of the leader's registry.                       *)
(*                                                                         *)
(* The module composes oRegistrationManager (a four-state table per role), *)
(* oReconnectionManager (one `reconnecting` flag and an infinite discovery *)
(* loop) and the libp2p events that drive them.  JavaScript runs one       *)
(* callback at a time, so an action is what happens between two awaits;    *)
(* each activity that is suspended at an await is a member of Flows, and   *)
(* several of them share the table and the flag without any lock.          *)
(*                                                                         *)
(* oNode builds the reconnection manager with enabled = true and           *)
(* useLeaderFallback = true (o-node.ts:556-564); the other settings are    *)
(* not reachable through it and are left out, and so is stop().            *)
(***************************************************************************)
EXTENDS Naturals, FiniteSets

CONSTANTS
  Flows,               \* bound: asynchronous activities alive at one time
  ParentIsLeader,      \* config.parent is o://leader
  ParentHasTransports, \* config.parent carries transports at start
  HasLeader,           \* config.leader is set
  MaxFaults            \* bound: host crashes, link drops and failed calls

ASSUME ConfigAssumption ==
  /\ IsFiniteSet(Flows) /\ Flows # {}
  /\ {ParentIsLeader, ParentHasTransports, HasLeader} \subseteq BOOLEAN
  /\ ParentIsLeader => HasLeader
  /\ MaxFaults \in Nat

VARIABLES
  reg,          \* parentState and leaderState of oRegistrationManager
  reconnecting, \* oReconnectionManager.reconnecting
  nodeState,    \* oCore.state, from the end of initialize() on
  flows,        \* the suspended activities and the await each is at
  resolvable,   \* the parent's current peer id is known to peerIdToAddress
  up,           \* which remote hosts run
  link,         \* to which remote hosts a connection is open
  faults        \* faults spent so far

vars == <<reg, reconnecting, nodeState, flows, resolvable, up, link, faults>>
net  == <<up, link, faults>>

Role      == {"parent", "leader"}
RegState  == {"not_registered", "registering", "registered", "failed"}
NodeState == {"STARTING", "RUNNING"}

\* Who runs an activity: start(), a node:connected handler, the loop that a
\* lost parent starts, or the same loop entered from start() because the
\* parent has no transports yet.
Kind == {"none", "start", "connected", "loop", "startloop"}

\* The await an activity is suspended at.
At == {"idle", "begin", "query", "pcall", "pkeep", "ping", "lself",
       "lcall", "lkeep", "sleep"}

\* What a dropped connection did to a call in flight: nothing yet, an error
\* is on its way, or the reply is never going to come.  oNodeStream's
\* waitForResponse has no error path, so the third is a state of its own.
Fate == {"ok", "failing", "hung"}

Flow == [kind : Kind, at : At, fate : Fate]
Idle == [kind |-> "none", at |-> "idle", fate |-> "ok"]

LoopKinds == {"loop", "startloop"}
HostOf(r) == IF ParentIsLeader THEN "leader" ELSE r
Hosts     == {HostOf("parent")} \cup (IF HasLeader THEN {"leader"} ELSE {})

CallPoints  == {"query", "pcall", "ping", "lcall"}
CalleeOf(a) == IF a = "lcall" THEN "leader" ELSE HostOf("parent")

Awaits(f, h) == flows[f].at \in CallPoints /\ CalleeOf(flows[f].at) = h
Free         == {f \in Flows : flows[f].kind = "none"}
Hung         == {f \in Flows : flows[f].fate = "hung"}
EventLoops   == {f \in Flows : flows[f].kind = "loop"}
Loops        == {f \in Flows : flows[f].kind \in LoopKinds}
Attempts(r)  == {f \in Flows : flows[f].at \in
                   (IF r = "parent" THEN {"pcall", "pkeep"}
                                    ELSE {"lcall", "lkeep"})}

TypeOK ==
  /\ reg \in [Role -> RegState]
  /\ reconnecting \in BOOLEAN
  /\ nodeState \in NodeState
  /\ flows \in [Flows -> Flow]
  /\ resolvable \in BOOLEAN
  /\ up \in [Hosts -> BOOLEAN]
  /\ link \in [Hosts -> BOOLEAN]
  /\ faults \in 0..MaxFaults

\* start() has finished initialize(): listeners are attached, the table is
\* fresh, and register() is about to run.
Init ==
  /\ reg = [r \in Role |-> "not_registered"]
  /\ reconnecting = FALSE
  /\ nodeState = "STARTING"
  /\ \E f \in Flows :
       flows = [g \in Flows |->
                  IF g = f THEN [kind |-> "start", at |-> "begin", fate |-> "ok"]
                           ELSE Idle]
  /\ resolvable = (ParentHasTransports \/ ParentIsLeader)
  /\ up = [h \in Hosts |-> TRUE]
  /\ link \in [Hosts -> BOOLEAN]
  /\ faults = 0

-----------------------------------------------------------------------------
(* Moving an activity from one await to the next.                          *)

Goto(f, k, a) == flows' = [flows EXCEPT ![f] = [kind |-> k, at |-> a, fate |-> "ok"]]
Exit(f)       == flows' = [flows EXCEPT ![f] = Idle]

CanRegister(table, r) == table[r] \notin {"registering", "registered"}
FullyRegistered(table) == table["parent"] = "registered" /\ table["leader"] = "registered"
Reset(table, rs) == [r \in Role |-> IF r \in rs THEN "not_registered" ELSE table[r]]

\* Suspended at call a on behalf of role r, whose state has become registering.
Attempt(f, table, r, a) ==
  /\ reg' = [table EXCEPT ![r] = "registering"]
  /\ Goto(f, flows[f].kind, a)
  /\ UNCHANGED <<reconnecting, nodeState>>

\* Mutant: the loop ends with its first failed round.
RoundGivesUp(f, table) ==
  /\ reg' = table
  /\ Exit(f)
  /\ UNCHANGED <<reconnecting, nodeState>>

\* A discovery round that did not succeed sleeps for the backoff delay.
RoundFailed(f, table) ==
  /\ reg' = table
  /\ Goto(f, flows[f].kind, "sleep")
  /\ UNCHANGED <<reconnecting, nodeState>>

\* Mutant: the loop ends without isFullyRegistered().
EndUnverified(f, table) ==
  /\ reg' = table
  /\ reconnecting' = FALSE
  /\ Exit(f)
  /\ nodeState' = "RUNNING"

\* Mutant: the loop returns with the flag still up.
EndKeepsFlag(f, table) ==
  /\ reg' = table
  /\ IF FullyRegistered(table) THEN Exit(f) ELSE Goto(f, flows[f].kind, "sleep")
  /\ UNCHANGED <<reconnecting, nodeState>>

\* The end of a round: both registrations are verified before the loop ends.
EndOfRound(f, table) ==
  IF FullyRegistered(table)
  THEN /\ reg' = table
       /\ reconnecting' = FALSE
       /\ Exit(f)
       /\ nodeState' = IF flows[f].kind = "startloop" THEN "RUNNING" ELSE nodeState
  ELSE RoundFailed(f, table)

\* start() goes on to RUNNING whether or not register() threw.
StartFinished(f, table) ==
  /\ reg' = table
  /\ nodeState' = "RUNNING"
  /\ Exit(f)
  /\ UNCHANGED reconnecting

HandlerFinished(f, table) ==
  /\ reg' = table
  /\ Exit(f)
  /\ UNCHANGED <<reconnecting, nodeState>>

\* handleNodeConnected, second half: only a parent that is also the leader
\* is registered with after the leader.
ConnectedParent(f, table) ==
  IF ParentIsLeader /\ CanRegister(table, "parent")
  THEN Attempt(f, table, "parent", "pcall")
  ELSE HandlerFinished(f, table)

\* registerLeader() has returned to its caller.
AfterLeader(f, table) ==
  \/ flows[f].kind \in LoopKinds /\ EndOfRound(f, table)
  \/ flows[f].kind = "start"     /\ StartFinished(f, table)
  \/ flows[f].kind = "connected" /\ ConnectedParent(f, table)

\* The caller reaches registerLeader(), which returns at once without a
\* leader or when another activity is registering or has registered.
RegisterLeader(f, table) ==
  IF HasLeader /\ CanRegister(table, "leader")
  THEN Attempt(f, table, "leader", "lcall")
  ELSE AfterLeader(f, table)

\* registerParent() has returned to its caller.
AfterParent(f, table) ==
  \/ flows[f].kind = "connected" /\ HandlerFinished(f, table)
  \/ flows[f].kind = "start"     /\ RegisterLeader(f, table)
  \/ /\ flows[f].kind \in LoopKinds
     /\ IF ParentIsLeader
        THEN RegisterLeader(f, table)
        ELSE /\ reg' = table
             /\ Goto(f, flows[f].kind, "ping")
             /\ UNCHANGED <<reconnecting, nodeState>>

RegisterParent(f, table) ==
  IF CanRegister(table, "parent")
  THEN Attempt(f, table, "parent", "pcall")
  ELSE AfterParent(f, table)

\* The call that f is suspended at threw.  useSelf answers a failed
\* register_leader with an error response, so a node:connected handler goes
\* on to its second half.
Threw(f, table) ==
  \/ flows[f].kind \in LoopKinds /\ RoundFailed(f, table)
  \/ flows[f].kind = "start"     /\ StartFinished(f, table)
  \/ /\ flows[f].kind = "connected"
     /\ IF flows[f].at = "lcall" THEN ConnectedParent(f, table)
                                 ELSE HandlerFinished(f, table)

-----------------------------------------------------------------------------
(* The steps of the node's activities.                                     *)

\* register(), first half: a parent without transports (and not the leader)
\* turns start() into the discovery loop, which needs a leader.
StartRegistration(f) ==
  /\ flows[f].at = "begin"
  /\ IF ParentHasTransports \/ ParentIsLeader
     THEN RegisterParent(f, reg)
     ELSE IF ~CanRegister(reg, "parent")
          THEN AfterParent(f, reg)
          ELSE IF HasLeader
               THEN /\ reg' = Reset(reg, {"parent"})
                    /\ Goto(f, "startloop", "query")
                    /\ UNCHANGED <<reconnecting, nodeState>>
               ELSE StartFinished(f, [reg EXCEPT !["parent"] = "failed"])
  /\ UNCHANGED <<resolvable, net>>

Answered(f, a) ==
  /\ flows[f].at = a
  /\ flows[f].fate = "ok"
  /\ link[CalleeOf(a)]

\* ping of the leader, or identify of the parent, answered: both states are
\* reset and the parent registration starts in the same turn.
QueryAnswered(f) ==
  /\ Answered(f, "query")
  /\ RegisterParent(f, Reset(reg, Role))
  /\ UNCHANGED <<resolvable, net>>

ChildRegisterAnswered(f) ==
  /\ Answered(f, "pcall")
  /\ Goto(f, flows[f].kind, "pkeep")
  /\ UNCHANGED <<reg, reconnecting, nodeState, resolvable, net>>

\* setKeepAliveTag never throws; then addParent makes the parent's current
\* peer id resolvable, and the state becomes registered whatever happened
\* to it since the attempt began.
ParentRegistered(f) ==
  /\ flows[f].at = "pkeep"
  /\ AfterParent(f, [reg EXCEPT !["parent"] = "registered"])
  /\ resolvable' = TRUE
  /\ UNCHANGED net

\* useSelf has reached register_leader, on behalf of handleNodeConnected.
ReRegisterLeader(f) ==
  /\ flows[f].at = "lself"
  /\ RegisterLeader(f, reg)
  /\ UNCHANGED <<resolvable, net>>

PingAnswered(f) ==
  /\ Answered(f, "ping")
  /\ RegisterLeader(f, reg)
  /\ UNCHANGED <<resolvable, net>>

CommitAnswered(f) ==
  /\ Answered(f, "lcall")
  /\ Goto(f, flows[f].kind, "lkeep")
  /\ UNCHANGED <<reg, reconnecting, nodeState, resolvable, net>>

LeaderRegistered(f) ==
  /\ flows[f].at = "lkeep"
  /\ AfterLeader(f, [reg EXCEPT !["leader"] = "registered"])
  /\ UNCHANGED <<resolvable, net>>

\* Mutant: the catch block rethrows without recording the failure.
FailureUnrecorded(f) == reg

\* The catch block of the attempt f makes leaves "failed", whatever the state
\* has become meanwhile.
FailureRecorded(f) == [r \in Role |-> IF f \in Attempts(r) THEN "failed" ELSE reg[r]]

\* A call throws because its connection dropped, because a host is down, or
\* because the callee answered with an error (a fault).
CallFails(f) ==
  /\ flows[f].at \in CallPoints
  /\ flows[f].fate # "hung"
  /\ \/ (flows[f].fate = "failing" \/ \E h \in Hosts : ~up[h]) /\ UNCHANGED faults
     \/ faults < MaxFaults /\ faults' = faults + 1
  /\ Threw(f, FailureRecorded(f))
  /\ UNCHANGED <<resolvable, up, link>>

BackoffElapsed(f) ==
  /\ flows[f].at = "sleep"
  /\ Goto(f, flows[f].kind, "query")
  /\ UNCHANGED <<reg, reconnecting, nodeState, resolvable, net>>

-----------------------------------------------------------------------------
(* Connections, and the handlers their events run.                         *)

\* handleNodeConnected: ignored during start, and for a peer id that no
\* known address carries.  The leader's half comes first and goes through
\* useSelf, which looks at the leader state a second time.
HandleConnected(h) ==
  LET next == IF h = "leader" /\ CanRegister(reg, "leader") THEN "lself"
              ELSE IF h = HostOf("parent") /\ CanRegister(reg, "parent") THEN "pcall"
              ELSE "idle"
  IN  IF nodeState = "RUNNING" /\ (h = "leader" \/ resolvable) /\ next # "idle"
      THEN /\ \E f \in Free : Goto(f, "connected", next)
           /\ reg' = IF next = "pcall"
                     THEN [reg EXCEPT !["parent"] = "registering"] ELSE reg
      ELSE UNCHANGED <<reg, flows>>

\* A connection opens: dialled for a call, redialled by libp2p for a peer
\* tagged keep-alive, or opened by the other side.
LinkUp(h) ==
  /\ up[h] /\ ~link[h]
  /\ link' = [link EXCEPT ![h] = TRUE]
  /\ HandleConnected(h)
  /\ UNCHANGED <<reconnecting, nodeState, resolvable, up, faults>>

Dial(h) == (\E f \in Flows : Awaits(f, h) /\ flows[f].fate = "ok") /\ LinkUp(h)

\* The parent:disconnected events that handleParentDisconnected acts on.
ParentLost(h) == h = HostOf("parent") /\ resolvable /\ ~reconnecting

\* handleParentDisconnected, then handleLeaderDisconnected.  The first
\* ignores the event while reconnecting; without a leader its loop throws
\* before the first round and the flag stays set.
HandleDisconnected(h, fl) ==
  LET parentLost == ParentLost(h)
  IN  /\ reg' = Reset(reg, (IF parentLost THEN {"parent"} ELSE {})
                             \cup ({h} \cap {"leader"}))
      /\ reconnecting' = (reconnecting \/ parentLost)
      /\ IF parentLost /\ HasLeader
         THEN \E f \in Free :
                flows' = [fl EXCEPT ![f] =
                            [kind |-> "loop", at |-> "query", fate |-> "ok"]]
         ELSE flows' = fl

\* A lost connection decides the fate of each call to h in flight: one that
\* was not sent yet goes on, one that was being sent fails, and one that
\* waits for its reply waits forever.
Cut(h) == {f \in Flows : Awaits(f, h) /\ flows[f].fate = "ok"}

LinkLost(h) ==
  \E fate \in [Cut(h) -> Fate] :
    HandleDisconnected(h, [f \in Flows |->
      IF f \in Cut(h) THEN [flows[f] EXCEPT !.fate = fate[f]] ELSE flows[f]])

LinkDrops(h) ==
  /\ link[h] /\ faults < MaxFaults
  /\ LinkLost(h)
  /\ link' = [link EXCEPT ![h] = FALSE]
  /\ faults' = faults + 1
  /\ UNCHANGED <<nodeState, resolvable, up>>

HostCrashes(h) ==
  /\ up[h] /\ faults < MaxFaults
  /\ IF link[h] THEN LinkLost(h) ELSE UNCHANGED <<reg, reconnecting, flows>>
  /\ up' = [up EXCEPT ![h] = FALSE]
  /\ link' = [link EXCEPT ![h] = FALSE]
  /\ faults' = faults + 1
  /\ UNCHANGED <<nodeState, resolvable>>

\* A parent started without a seed comes back under a new peer id.
HostRestarts(h) ==
  /\ ~up[h]
  /\ up' = [up EXCEPT ![h] = TRUE]
  /\ \/ UNCHANGED resolvable
     \/ h = "parent" /\ resolvable' = FALSE
  /\ UNCHANGED <<reg, reconnecting, nodeState, flows, link, faults>>

-----------------------------------------------------------------------------
Step(f) ==
  \/ StartRegistration(f) \/ ReRegisterLeader(f) \/ BackoffElapsed(f)
  \/ QueryAnswered(f) \/ ChildRegisterAnswered(f) \/ ParentRegistered(f)
  \/ PingAnswered(f) \/ CommitAnswered(f) \/ LeaderRegistered(f)
  \/ CallFails(f)

Next ==
  \/ \E f \in Flows : Step(f)
  \/ \E h \in Hosts : LinkUp(h) \/ LinkDrops(h) \/ HostCrashes(h) \/ HostRestarts(h)

Spec == Init /\ [][Next]_vars

\* The event loop runs every callback and timer it is given, a dial to a
\* running host completes, and a crashed host is started again.  Nothing
\* else is promised: libp2p gives up redialling after 20 retries.
Fairness ==
  /\ \A f \in Flows : WF_vars(Step(f))
  /\ \A h \in Hosts : WF_vars(Dial(h)) /\ WF_vars(HostRestarts(h))

FairSpec == Spec /\ Fairness

-----------------------------------------------------------------------------
(* Properties that hold.                                                   *)

\* A role that is registering is being registered by some activity: no
\* interleaving of attempts, resets and failures leaves the state at
\* registering with nobody to end it, which canRegister* would never let
\* another attempt repair.
RegisteringIsOwned ==
  \A r \in Role : reg[r] = "registering" => Attempts(r) # {}

\* When the parent is known from the start and there is a leader, the
\* reconnecting flag is up exactly while one discovery loop runs, so an
\* ignored parent:disconnected is one that a loop stands for.
FlagMeansOneLoop ==
  (ParentHasTransports \/ ParentIsLeader) /\ HasLeader =>
    /\ reconnecting <=> EventLoops # {}
    /\ \A f, g \in EventLoops : f = g

\* With a leader, the parent state is never left at not_registered by an
\* activity that then ends: a start() that has not registered yet or a
\* discovery loop is there to register again.
ParentNeverAbandoned ==
  HasLeader /\ reg["parent"] = "not_registered" =>
    \E f \in Flows : flows[f].kind \in LoopKinds \/ flows[f].at = "begin"

\* The flag goes down only when both registrations stand, although other
\* activities may have made registerLeader return early with the leader
\* state at registering.
ReconnectedMeansRegistered ==
  [][reconnecting /\ ~reconnecting' => FullyRegistered(reg')]_vars

\* Once the faults are over, a started reconnection ends, unless one of the
\* calls waits for a reply that was lost with its connection.
ReconnectionEnds ==
  reconnecting ~> (~reconnecting \/ Hung # {})

-----------------------------------------------------------------------------
(* What the source says of the code and the code does not do.              *)

\* "Automatically attempts to reconnect to parent when connection is lost."
\* (o-reconnection.manager.ts:29), leaving aside lost replies.
LostParentIsReconnected ==
  [](reconnecting =>
       [](nodeState = "RUNNING" /\ ~link[HostOf("parent")] =>
            <>(link[HostOf("parent")] \/ Hung # {})))
=============================================================================
