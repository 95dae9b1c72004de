# TLA+ specifications of olane

olane is a TypeScript framework for networks of "nodes": long-running processes
or in-process objects that have an address (`o://leader/world/node`), expose
tools (`_tool_*` methods), and call each other over libp2p streams with
JSON-RPC messages. A node has a parent; one node of a network is the leader and
keeps a registry of all the others. On top of the nodes there are agents, lanes
(executions of an intent by an AI model), worlds, storage and an operating
system instance that starts and stops them.

This directory specifies the parts of that system whose correctness depends on
the order in which things happen. JavaScript runs one callback at a time, so
there are no data races inside a process, but everything that happens between
two `await`s of one activity is open to every other activity of the process, to
timers, and to the events of the network. That is the common thread of the
modules: an action is what the program does between two awaits, and the
properties say what must hold however such pieces interleave, fail and are
delayed.

Paths below are relative to `src/packages/`.

## 1. Reading guide

| module | models | checked by | proved in |
| --- | --- | --- | --- |
| `Registration` | a node's registration with its parent and its leader, and the reconnection to them | `Joining.cfg`, `RegistrationLostParent.cfg` | `RegistrationProofs` |
| `Network` | the composition of the next seven | `Network.cfg` | `NetworkProofs` |
| `Messaging` | calls between nodes: dials, connections, streams, request tables, forwarding | `Network.cfg` | `MessagingProofs` |
| `Routing` | the choice of the next hop, over a tree of nodes that restart | `Network.cfg`, `RoutingNested.cfg` | `NetworkProofs` |
| `Hierarchy` | the children of a node and the news its subscribers are told of them | `Network.cfg` | `NetworkProofs` |
| `Indexing` | `index_network`, which visits a tree of nodes | `Network.cfg` | `NetworkProofs` |
| `Locks`, `NamedMutex` | the lock manager, and what it promises | `Network.cfg` | `NetworkProofs` |
| `Shutdown` | the signal handlers of a process | `Network.cfg` | |
| `LaneWork` | the composition of the next three | `LaneWork.cfg` | `LaneWorkProofs` |
| `Lanes` | the lanes of one node, their storage and the startup configuration | `LaneWork.cfg`, `LanesRevived.cfg` | `LaneWorkProofs` |
| `SavedLanes` | lanes that outlive their node: os-config, its stores, replay by the next start | `LaneWork.cfg`, `SavedLanesDisk.cfg` | `LaneWorkProofs` |
| `Approvals` | tool calls that wait for an approval | `LaneWork.cfg` | `LaneWorkProofs` |
| `ServiceAccess` | the composition of the next five | `Services.cfg` | `ServiceAccessProofs` |
| `TokenManager` | the access token shared by the callers of `getToken()`, its refresh, its store | `Services.cfg`, `TokenRestored.cfg` | `TokenManagerProofs` |
| `OAuth` | the OAuth tool: verifiers, tokens, revocation | `Services.cfg` | `ServiceAccessProofs` |
| `Server` | the HTTP server: authentication, routes, validators, the answer | `Services.cfg`, `ServerStream.cfg` | `ServiceAccessProofs` |
| `Providers` | one call of a method of one of six model providers, streamed or not | `Services.cfg` | `ServiceAccessProofs` |
| `Intelligence` | the choice of provider, model and API key for a prompt | `Services.cfg` | `ServiceAccessProofs` |
| `Platform` | the composition of the next seven | `Platform.cfg` | `PlatformProofs` |
| `NodeLifecycle` | `start()`, `stop()`, `teardown()`, `resetState()` of a node | `Platform.cfg`, `LifecycleQuiet.cfg` | `PlatformProofs` |
| `Agents` | the agents' registry: heartbeats, sweep, crashes, restarts | `Platform.cfg` | `PlatformProofs` |
| `AgentInbox` | the bounded inbox of an agent | `Platform.cfg` | `PlatformProofs` |
| `Monitor` | heartbeats, polls and clean-up of the monitor | `Platform.cfg` | |
| `OperatingSystem` | one OlaneOS object: start, stop, restart, the entry node | `Platform.cfg` | `PlatformProofs` |
| `OSInstances` | the processes that share an instance by name, and its file | `Platform.cfg` | `PlatformProofs` |
| `Worlds` | the world manager, its instances and the file of each world | `Platform.cfg` | `PlatformProofs` |
| `Filtering` | `Array.prototype.filter()`, which several of them use | | `SequenceFacts` |

Each module contains its state, its actions, its specification, the properties
that hold and, at the end of some, a property that the documentation or a comment
claims and the code does not have. An operator that is preceded by "Mutant:" (or
"A mutant:") is not part of the specification: it is the faulty variant of the
definition that follows it, and shows which property notices the fault.
`PROJECT.json` lists the runs, the source lines behind every definition (`map`),
the faulty variants (`mutants`), the disagreements between comments and code
(`findings`), the hazards, and the theorems.

The modules whose name begins with `MC` give TLC its instances. Five of them
check what holds; four of these are small instances of a composition of several
parts that live together in the system (`Network`, `LaneWork`, `ServiceAccess`,
`Platform`), whose constants and assumptions are the ones the proofs use:

| run | module | parts | distinct states |
| --- | --- | --- | --- |
| joining | `MCJoining` | registration with a far parent, with the leader as parent, with a parent to be discovered | 579,000 |
| network | `MCNetwork` | messaging, routing, hierarchy, indexing, locks, shutdown | 200,000 |
| lane_work | `MCLaneWork` | lanes, saved lanes, approvals | 550,000 |
| services | `MCServices` | token with a store or without one, OAuth, server, providers, choice of provider | 507,000 |
| platform | `MCPlatform` | lifecycle, agents, inbox, monitor, OS, instances, worlds | 609,000 |

The variable `part` is chosen in the initial state and never changes: a behaviour
of such a module is a behaviour of one part, while the variables of the others
stay in one of their initial states. So the state space is the sum of those of
the parts, not their product, and a run says of each part what a run of that part
alone would. The lemmas `PartsAreKept` say the same of the proofs: the
specification that a run checks, `PartsSpec`, implies those of its parts, so every
theorem about a part holds of it. The parts do not interact in these modules;
where components interact, one module models both sides (a node and the network in
`Registration`, caller, forwarder and callee in `Messaging`, agents and their
registry in `Agents`, lanes and os-config in `SavedLanes`, manager, instance and
command line in `Worlds`). `CHECK_DEADLOCK FALSE` in every configuration: a part
whose work is done rests, and so does the system when its bounds are used up;
where resting would be wrong, a liveness property says so.

The other seven configurations check one property each that a comment or a
document claims and the code does not have, most of them of a module as it stands;
TLC ends them with a counterexample (section 11).

To check one run and the proofs of one module:

    tlc -config Joining.cfg MCJoining
    tlapm RegistrationProofs.tla

## 2. Inventory

What the system consists of, the state each part keeps, what it does, what is
hard about it, and what correct means for it.

### The node and its network

**Registration and reconnection** (`o-node/src/managers/o-registration.manager.ts`,
`o-reconnection.manager.ts`).
State: `parentState` and `leaderState`, each one of not_registered, registering,
registered, failed; the `reconnecting` flag. Operations: `registerParent`,
`registerLeader`, `resetParentState`, `resetLeaderState`, the handlers of
`node:connected`, `parent:disconnected` and `leader:disconnected`, the discovery
loop. Interactions: `child_register` on the parent and `commit` on the leader's
registry by messages, libp2p connection events, `node.state`. Hard: up to four
activities (start, a loop, handlers of connections to parent and leader) share the
table and the flag with two awaits inside each registration; connections drop
while a call is in flight; hosts restart under new peer ids. Correct: nothing is
left half-registered with nobody to finish it, a loop that ends has repaired both
registrations, a reconnection ends. **Modelled**, partly: `stop()` is in
`NodeLifecycle`, and settings of the reconnection manager that `oNode` does not
pass are left out.

**Hierarchy and notifications** (`o-node/src/o-node.hierarchy-manager.ts`,
`o-node.notification-manager.ts`, `o-node.tool.ts`, `o-core/src/core/lib/*`).
State: the list of children with their transports, subscriptions. Operations:
`child_register`, the libp2p connect and disconnect events, `on`, `off`. Hard: a
child has several connections and lives, and a connection of an old life closes
late. Correct: nobody is left with the news that a connected child left.
**Modelled**, partly: `start_child`, the lists of transports and connections that are
closing are not.

**Node lifecycle** (`o-core/src/core/o-core.ts`, `o-node/src/o-node.ts`).
State: `state` in STOPPED, STARTING, RUNNING, STOPPING, ERROR; the managers, the
libp2p node, the heartbeat interval. Operations: `start`, `stop`, `teardown`,
`resetState`. Interactions: builds and drops every other manager. Hard: start
and stop called during each other's awaits, failure in the middle of
initialization, activities of an earlier start that survive it. Correct: the two
never interleave, RUNNING means whole, stopped means nothing left behind, a stop
ends. **Modelled**, partly: the tool methods of `oNode` belong to the other parts.

**Graceful shutdown** (`o-core/src/core/graceful-shutdown.ts`): signal handlers
whose cleanup races a timer. Hard: a second signal, a resource that hangs.
Correct: the process exits. **Modelled.**

**Connections, streams and requests** (`o-node/src/connection/*`,
`o-node/src/lib/o-node-request-manager.ts`, `o-core/src/core/lib/o-request.manager.ts`).
State: wrappers of libp2p connections cached by connection id, pending dials by
address, request listeners of the wrappers, the table of pending requests, the
streams. Operations: `connect`, `answer`, `performDial`, `send`, `receiveStream`,
`sendResponse`, `listenForMessages`, `waitForResponse`, the close listener.
Interactions: libp2p's connections and streams; `execute` of the node, which may
forward the request to the next node. Hard: callers that share a dial and wrap
the connection one after the other, streams that share a wrapper and its
listener, two nodes that dial each other, a connection that closes at any await,
replies that never come. Correct: a request is executed once, its outcome is the
true one, the cache and the tables agree with what is open and under way, a call
ends. **Modelled**, partly: streamed chunks and abort signals are not.

**Connection heartbeat** (`o-node/src/managers/o-connection-heartbeat.manager.ts`).
A health-check cycle per target with a missed-ping counter. Nothing constructs
it: the call in `oNode.hookStartFinished` (`o-node.ts:459`) is commented out. Not
modelled.

**Routing and resolvers** (`o-node/src/router/*`, `o-core/src/router/*`, `o-tool/src/router/*`).
The resolver chain turns an address into the next hop through methods, children,
the leader's registry and the fallback to the leader. State: none of its own; it
reads the children and the registry, which know lives that are over. Correct: a
request is run by the node it was for, and comes nowhere twice. **Modelled**,
partly: addresses of other networks and the resolvers of gateways are not.

**Leader and its registry** (`o-leader/src/*`). State: registrations by address,
an index by protocol. Operations: `commit`, `search`, `remove`,
`find_available_parent`. **Modelled**, partly: commit, remove and search are in
`Routing`; the index by protocol and `find_available_parent` are not.

**Tool execution** (`o-tool/src/*`): dispatch of a request to a `_tool_` method and
`index_network`. Hard: the mark of an indexed node is set before its work is done.
**Modelled**, partly: indexing in `Indexing`, for children that neither join nor leave
meanwhile, the choice of the method in `Routing`; validation is sequential and per
call.

**Locks** (`o-node/src/utils/lock-manager.ts`). A lock per name; waiters share one
promise. Correct: a mutex per name until a teardown. **Modelled.**

**Limited client** (`o-client-limited`), **configuration** (`o-config`, utils of
`o-node`), **wire types** (`o-protocol`), **test support** (`o-test`): configurations of
the above, construction of libp2p options, type declarations, helpers of tests.
Not modelled: no state of their own.

### Access to other services

**Token manager** (`o-core/src/auth/*`). State: the current token, the shared
`refreshPromise`, the refresh timer, `storeLoaded`, `destroyed`, and the
provider's refresh token. Operations: `getToken` with or without force,
`refresh`, the timer, loading from and saving to the store, `destroy`. Hard:
callers, timer, store and destroy meet in the middle of a refresh; the server
rotates the refresh token with each use, and its answer may be lost. Correct: one refresh at a time, no
expired token returned, the provider presents the refresh token the server
accepts, the token is refreshed before it expires, a destroyed manager has no
timer, callers are answered. **Modelled.**

**OAuth tool** (`o-tool-registry/src/auth/oAuth.tool.ts`). State: configurations, and
one map of tokens and PKCE verifiers. Hard: refreshes, exchanges, revocations and
clearings that overlap. Correct: what a caller was told is gone does not come
back. **Modelled.**

**HTTP server** (`o-server/src/*`). State: the express application, the http server.
Hard: the order of routes and middleware. Correct: the node sees as `_auth` only
what was verified. **Modelled.**

**Intelligence tools** (`o-intelligence/src/*`). State: values in the secure storage;
six providers without state. Hard: prompts that ask humans and store what they
say beside a configure call; bodies cut anywhere, streams that take no more chunks.
Correct: a key goes to its provider, cuts do not matter. **Modelled.**

**Gateways, login, MCP bridge** (`o-gateway-*`, `o-login`, `o-mcp`): one request and
one answer, cryptography, questions to a human, an external SDK. Not modelled:
pure I/O and formatting.

### Agents and execution

**Lanes** (`o-lane/src/o-lane.ts`, `o-lane.mixin.ts`, `manager/o-lane.manager.ts`).
State: a lane's status (pending, preflight, running, postflight, completed,
failed, cancelled), its sequence of results, the manager's list, the sequences
stored under their content identifiers (CIDs). Operations: `execute`, `cancel`,
`replay`, `createLane`, `cancelLane`, `cleanLanes`. Hard: `cancel` arriving at any
await of `execute`, statuses assigned after it, failures of each call. Correct: a
lane ends in a final status, a cancelled one runs no further capability, the
cycle limit holds. **Modelled.**

**Saved lanes and the startup configuration** (`o-lane/src/storage/*`,
`o-storage/src/os-config-storage.tool.ts` and the storage providers). State: one
configuration per OS instance in a store. Hard: read, change and write around
awaits by several editors; files that are torn while they are written, and for good
when their writer ends; stores that answer in two shapes. Correct: what was
acknowledged is kept, and replayed once. **Modelled.** Other uses of the storage
providers are one read or write of one key.

**Approval and the execute capability** (`o-approval/src/o-approval.tool.ts`,
`o-lane/src/capabilities-execute/*`). State: the mode, a white and a black list, the
pending questions. Hard: humans that answer at once, or after three minutes.
Correct: what is on the blacklist does not run. **Modelled.** The other
capabilities and the prompts (`capabilities-*`, `prompt-loader.ts`) are texts,
answers of models and their parsing: `Lanes` models their outcome.

**Agents** (`o-agent/src/*`). State: an agent's inbox with its limit, the registry's
entries with last-seen times. Operations: `send`, `receive`, `drain`; `register`,
`heartbeat`, `list`, `deregister`, the sweep. Hard: a crash and a restart under
the same address while calls are on their way. Correct: who beats is listed, who
is dead is forgotten, the inbox keeps the latest. **Modelled.**

### Running the system

**Operating system instance** (`o-os/src/o-olane-os/o-os.ts`,
`lifecycle/os-lifecycle.ts`, `utils/config.ts`). State: leaders, nodes, the index of
the round robin; a file per instance. Hard: starts that fail in the middle, two
processes and one file. Correct: an entry node is found; one process runs an
instance, the one its file names. **Modelled.** The address book, the relay and
the memory harness are a file of names, a configuration and an external client.

**Worlds** (`o-os/src/worlds/*`, `tools/filesystem.tool.ts`). State: instances with
members and directories, one file per world, the allowed directories. Hard: three
writers of the file, which is torn while one of them writes; a watcher with one
timer; calls that end after a removal. Correct: acknowledged members are kept,
removed worlds stay removed. **Modelled**, partly: two starts of one world at once are
not, nor is a start while calls of the world's former instance are under way.

**Monitoring** (`o-monitor/src/*`). State: beats and series of metrics per node. Hard:
a poll that stores the answer of a node that has left. Correct: what left is
forgotten. **Modelled**, partly: the reports computed from these tables, the copied
fields of libp2p's statistics and the HTTP pages are not.

## 3. Plan

Done, in the order of importance: `Registration`, `NodeLifecycle`, `TokenManager`,
`Lanes`, `Messaging`, each with its proofs; `Routing` with the registry as routing
uses it; `Hierarchy`, `Indexing`, `Locks` with its abstract specification, `Shutdown`;
`SavedLanes`, `Approvals`; `OAuth`, `Server`, `Providers`, `Intelligence`; `Agents`,
`AgentInbox`, `Monitor`; `OperatingSystem`, `OSInstances`, `Worlds`; and the proof of
every invariant and every action property that a passing run checks.

To come:

1. `RequestContract`: the abstract specification of a call (sent, executed at
   most once, answered with its own outcome, or failed, or stranded), which
   `Messaging` implements under a refinement mapping from `stage` and `ran`. The
   refinement follows from the invariant that is proved already.
2. The registry's index by protocol and `find_available_parent`; composed with
   `Registration`'s commit call, so that "registered" can be related to an entry.
3. Chunks of streamed responses and abort signals in `Messaging`; two starts of one
   world at once in `Worlds`.
4. A proof that the attempts of one node do not overlap in runs without a
   disconnect.

## 4. Registration (run `joining`)

One non-leader node, its parent and its leader. The parent may be the leader
(`ParentIsLeader`), may be known only by name at start (`ParentHasTransports =
FALSE`), and the leader may be absent (`HasLeader = FALSE`).

State and code:

- `reg` is `parentState`/`leaderState` of `oRegistrationManager`; `reconnecting`
  the flag of `oReconnectionManager`; `nodeState` is `oCore.state`, of which the
  handlers only ask whether it is RUNNING.
- `flows` holds the activities that are suspended: `start()` in `register()`, a
  handler of `node:connected`, a discovery loop. Each has the await it is at:
  `query` (ping of the leader or identify of the parent), `pcall` and `lcall` (the
  messages `child_register` and `commit`), `pkeep` and `lkeep` (the keep-alive tag
  after the answer), `ping`, `lself` (useSelf), `sleep` (the backoff).
- `fate` is what a lost connection did to the call in flight. `waitForResponse`
  has no error path, so "the reply never comes" is a state, not a failure.
- `up`, `link`, `resolvable` and `faults` are the environment: running hosts, open
  connections, whether the parent's current peer id maps to its address, and the
  bound on crashes, drops and failed calls.

An action is one turn of the event loop. `RegisterParent`, `AfterLeader`,
`EndOfRound` and the other helpers follow the code through early returns up to
the next await; the action that uses them names the await the turn began at.

What holds:

- `RegisteringIsOwned`: "registering" always has an attempt behind it.
- `ParentNeverAbandoned`: "not_registered" always has somebody who will register.
- `ReconnectedMeansRegistered`: the flag goes down only with both registrations
  standing.
- `ReconnectionsEnd`: once the faults are spent, a reconnection ends, unless a
  call waits for a reply that was lost. It leaves out the third configuration, in
  which `start()` runs one discovery loop and a lost connection another: each
  finds the other's registration under way, resets it and tries again, for ever.
- proved only: `FlagMeansOneLoop`, with a leader and a parent known from the start
  the flag stands for exactly one loop.

The three parts are the configurations where one of them is hardest: a parent
with known transports that is not the leader; the leader as the parent, where
one lost connection resets both roles, so the end of a reconnection is the
question; a parent known by name only, where `start()` runs the loop beside the
loops of the events, so the owner of each registration is.

Observed in the model, and not the subject of a run: attempts run concurrently
after a reset, and an attempt then writes its outcome over a state that was reset
meanwhile; a lost reply leaves "registering" for ever; a leader connection that
drops without a restart of the leader is not repaired; without a leader the flag
stays up with no loop.

Bounds. Four activities: start, a loop and two handlers is the most that the two
roles can cause at once before one of them ends. Two faults (three where the
leader is the parent) suffice for a crash during the repair of a drop. The
handlers need a free activity; when none is free, the event is not taken, which
the fourth activity makes rare and which only removes behaviours; the fairness
therefore asks nothing of events.

Fairness. Every activity goes on when the callback it waits for is there
(the event loop runs what is queued, sleeps end), a dial to a running host
completes, a crashed host is started again. There is no fairness for unsolicited
connections: libp2p gives up redialling after its retries, and nothing makes the
other side dial.

## 5. What nodes do for one another (run `network`)

### Messaging

A call is `plan[c]`: who calls, who is called (the next hop), and the call that
forwards it from there, if any. `stage` is the await of the caller: dialling
(`getOrCreateP2pConnection`), wrapping (`createConnection`), opening (`newStream`),
writing (`lp.write`), waiting (`waitForResponse`); then ok, error (a response that
carries one) or failed. `inbound` and `ran` are the callee's: the stream in
`answer()`, tracked by the wrapper `heardBy`, and the execution of the request.
`ends` and `open` are libp2p's connections; each end sees a loss at its own time,
with `ConnectionCloses`, which closes the streams there and evicts the wrapper.
`cachedConnections`, `pendingDials`, `listeners` and `requests` are the fields of
the managers. A forwarding call starts when the request it serves is executed
(`MayStart`), skips the request table, as `dialAndTransmit` does, and its outcome is
that of the execution (`ForwardEnds`).

Taken as one turn: the settling of a dial and the `finally` that deletes its entry;
`answer()` up to the listener of `receiveStream()`, which is attached one microtask
later and before the first read can return. A response is not delivered before the
write of its request has returned. Among several cached connections to one peer
any may be reused (the code takes the first it cached). A stream is lost with its
connection, or refused at its opening.

What holds: `AtMostOnce` (a request is executed once), `TableIsOutstanding` (every
path of `send()` cleans up), `Truthful` (the outcome, also through a forwarder, which
returns the data of an error response as its result and depends on
`ResponseBuilder.build` to make an error of it again), `CallsEnd`; and, proved only,
`HeardOnce` (the listeners of shared wrappers) and `OpenStaysCached` (wrapping over
one another, crossing dials, closes).

Observed, and not the subject of a run: a call whose stream is lost while it waits
never ends, for `waitForResponse()` has neither timeout nor error path (the escape
in `CallsEnd`); a request whose execution throws stays in the callee's table, where
`activeRequests` counts it (`Threw`); and a connection that closes between dial and
caching stays in the cache, unused.

Bounds: two calls in three plans, which share a dial and a wrapper, cross each
other so that one wrapper serves both directions or two connections join the
nodes, or forward one another; two faults. A call dials at most once, so two
connections are all there can be. Fairness: the event loop runs what is queued, a
dial ends one way or the other, a stream that was opened reaches an end that is
open, and the execution of a tool ends; the closing of a connection is never
assumed.

### Routing

An address is its sequence of names. `children` is each node's list of children,
with the life (the peer) it would dial; `registry` is the leader's, newest first, an
entry per peer. `Resolved` is the chain of resolvers in its order:
`oMethodResolver`, `oNodeResolver` over the children, `oLeaderResolverFallback`, and
at the leader `oSearchResolver` (`Searched`, with the answer of the registry an await
away). `Use` is `use()` with the preparation of the request, `Arrive` is `route()` at the
next node. Nodes crash and start again with a new life at any moment, also while a
request is on its way.

`AnsweredByItsOwner`: a request that is run is run by the node its address names, or
whose method it names, over any number of hops and stale entries. `NoCircles`: no
request comes to a node with an address it was there with before; it holds of
addresses from the root and of single names, and fails for a method below a node
other than the leader (section 11). Bounds: a leader, its child and its
grandchild - the fewest with a node between two - two lives each, one request;
the addresses are all shapes of them (from the root, single names, a method).

### Hierarchy

`children` is the list of the hierarchy manager, an entry being an address and the
life that registered; `open` counts the connections to each life; `told` is the
last event each subscription was told of each child. `ConnectionOpens` and
`ConnectionCloses` are the libp2p events as the notification manager handles them,
`ChildRegister` is `_tool_child_register`. `LeftIsTrue`: a subscriber is not left with
"left" while the registered life is connected. Bounds: one child with two lives,
two connections each, one subscription, patterns that match and that do not. A
connection is open or closed: libp2p's "closing", which the filter for the last
connection does not count as open (`o-node.notification-manager.ts:137`), is left out.

### Indexing

`call[n][k]` is one overlapping call of `index_network` at node n: storing documents,
visiting its children one after the other, waiting for one. The flag is set
before the documents are stored. `CompleteMeansAll`: a call that ends well, without
failures, has reached every node, and no node stored its documents twice. Bounds: a
tree of four nodes, in which the root visits a node without children before one
that has a child; two overlapping calls, one failure. The children of a node do not
change, where the code asks for them after it stored its documents. Observed: a node whose
indexing failed keeps its mark and is never indexed again.

### Locks

`locked` stands for the three maps of `LockManager`, which change together. A
waiter awaits the holder's promise (`waiting`), is resumed by a microtask of its own
(`woken`) and looks again. `Exclusion` is the specification of `NamedMutex` under
the mapping `inside[n] = {p : at[p] = <<"inside", n>>}`: until a teardown, one caller
at a time works under a name. Bounds: three callers, two names: two waiters
that are woken together, and a name that must not be woken. Nothing in the source
takes a lock; only `clearAll` is called.

### Shutdown

`performCleanup()`: the first signal stops every resource at once and races the
cleanup with a timer. `SignalEnds`: the process exits whatever hangs, and without
a word about a timeout only when everything was stopped. Fairness: the timer
fires, turns run; a resource may never settle. Bounds: two resources.

## 6. Lanes and their surroundings (run `lane_work`)

### Lanes

A lane is its status, the await it is at (`at`), the capabilities it has run
(`cycles`), its intent, its result and whether it got a CID. `tracked` is
`oLaneManager.lanes`, `stored` the storage under the CIDs, `listed` the CIDs in the
startup configuration, `nodeUp` whether the node is RUNNING. `CreateLane` is
`createLane()` with its `cleanLanes()`; statuses are strings in the code, and the
comparison `status >= COMPLETED` holds of all but "cancelled", which `Stale` models
as it is. `Execute` to `Persisted` are the turns of `execute()`, `Replay*` those of
`replay()`; `Cancel`, `CancelLane` and `StopNode` come between any two.

A capability is its outcome: STOP, another step, or an error, which the loop
treats as a step. The CID is made of intent, caller and context; a node is its own
caller and passes an empty context, so the intent stands for it.

What holds: `LoopHonoursCancel` (a lane cancelled in its loop starts no further
capability) and `LaneEnds`; proved only, `EndedIsSettled` (every path ends in a final
status) and `ListedIsStored` (the configuration lists only what the storage can
replay). Observed, and not the subject of a run: an error in the loop ends as
"completed" (`o-lane.ts:227`), `MaxLanes` does not bound the lanes that run, since it
counts statuses that lanes reach only later.

Bounds: two lanes, two intents, two cycles, a limit of one lane: two lanes are the
fewest that meet in the list or under one CID, two cycles the fewest with a cancel
between them. Fairness: a call to another node (ping, model, storage,
configuration) is answered, one way or the other; nobody is assumed to create,
begin or cancel anything.

### SavedLanes

`config` is what the store holds for the instance under os-config, with its list
of CIDs; `lane[l]` is where each lane is between its storage and the acknowledgement
that its CID is listed, with the copy of the configuration that
`_tool_add_lane_to_config` works on; `edit` is the same of an update of the metadata, or
of a configuration that somebody saves with the public `save_config` (`SaveConfig`),
which replaces the one that is there. `Loaded` is `_tool_load_config`: a store that
fails, a file that does not parse, or a store whose answers have no field `value`,
gives a configuration without lanes. A put of the stores on disk is two steps:
`fs.writeFile` opens the file, which is empty from then on (`Opened`, `Torn`), and writes
it to the end (`Written`); two writes at once may leave a torn file, and so does a
process that ends between the two. `GetLanes` and `Replay` are `runSavedPlans()` of the
next start.

`ReplayedOnce`: no start replays a CID twice, whatever edits overlapped.
`AcknowledgedIsKept`: an acknowledged CID stays listed or, while the configuration is
written, is in what is written. The code has no protection against two edits that
overlap, so `excused` collects everything that may lose a lane, and the property says
that there is nothing else: overlapping edits, failed reads, writes that fail (the
caller is told of a success), a process that ends within a write, a metadata update
(which starts from an empty configuration, for it looks for a `success` that no
configuration has), a configuration that is saved over this one without the lane, a
deleted configuration, a store that is only in memory.

Bounds: three lanes of two CIDs, two starts, and saved configurations without lanes
and with one of the two: one that loses what was acknowledged and one that may not. The run uses a store that answers
with a record (`o://secure`); the default, `o://disk`, is the subject of
`saved_lanes_disk`.

### Approvals

`run[r]` is one execution of the execute capability: requesting (`requestApproval`),
asking (the human), saving (the lists), executing. `Verdict` is
`_tool_request_approval` up to the question, `HumanAnswers` the parsing of the answer,
which looks for "approve", "yes" and "allow" before "always" and "never", so that
"always allow" and "never allow" are both read as an approval of this one action
(`o-approval.tool.ts:183`). `NeverIsFinal`: a task that is on the blacklist when it is
asked for is not run, as long as the service can be asked; without a route to it
the capability runs the task. Bounds: two executions, two tasks.

## 7. Access to other services (run `services`)

### TokenManager

A token is its generation: the server issues 1, 2, ..., and with each a refresh
token that replaces the one before. `age` is the time since it was issued, in
ticks; `timer` the ticks left. `runs` are executions of
`executeRefreshWithRetry()`; `refreshPromise` refers to the one callers share. A
run is acquiring, sleeping for its backoff, or saving. `callers` are calls of
`getToken()`: loading from the store or waiting for a run; `got` is the last
token each was given. `destroyer` is where `destroy()` is. The server, the store
and the clock are external: a request fails or is answered, a read returns what
was stored when it was called, time passes in any step (`Tick`) and a timer may
be late. A request may also fail after the server has rotated the token, its
answer being lost or unreadable (`AnswerLost`); the provider then goes on presenting
a token that is of no use any more, and every later request fails. Whether there is
a store is part of the initial state (`HasStore`: what it holds is not `NoStore`) and
never changes.

With and without a store: `SingleFlight`, `DestroyedIsSilent` (no refresh timer is left
or set again; with a store, a save that ends after `destroy()` is the hard case), and
`CallersAnswered`, because the attempts are bounded and every wait ends. Without a
store: `MemoryIsUpToDate` (a token in use is going to be refreshed, and the provider
holds the refresh token the server will accept, unless the answer with it was lost:
`RefreshScheduled` and `ProviderKeepsLatest`) and `MemoryIsFresh` (no expired
token is returned and none refreshed too early: `StaysFresh`). The fairness says
that store, server and backoff timers answer one way or the other. It is assumed
of no timer-driven refresh.

Observed, and not the subject of a run: a retry that sleeps for its backoff survives
`destroy()` and sends another request (`o-token-manager.ts:202`, `259`); a refresh that
ends after `destroy()` puts a token back; with a store, a timer that fires during the save joins the ending run
and nothing is scheduled any more, and a caller can be given a token that expired
while it was being saved; a token that outlives the longest timeout (2^31 - 1 ms)
is refreshed without pause.

Bounds: two callers, two runs, four tokens, one retry, a lifetime of two ticks with a
buffer of one. A second run is what `SingleFlight` excludes; the third token is the first that is scheduled by a
timer-driven refresh; one retry distinguishes a failure from giving up.

### OAuth

`verifier` and `grants` are the two kinds of entries of `tokenStore`, `flow` the
configurations, `call` the methods that wait for the provider, with what they were
given. Tokens are numbered as they are issued. `RefreshToken` and `RevokeToken` begin
a call, `TokensArrive` and `RevocationConfirmed` are its turn after the answer, which
looks at the store of that moment. The answer to a refresh may carry no refresh token,
a new one, or the one it was asked with (`Answers`); the code stores what comes
(`oAuth.tool.ts:231`). `GoneStaysGone`: tokens whose revocation was acknowledged are not
stored again, and a service that was cleared has tokens only by a new exchange. A
refresh token that a refresh is under way with when its revocation is acknowledged
(`InUse`) is not counted as gone: the provider may have granted that refresh before, and
its answer brings the revoked token back. Other refreshes and exchanges that are under
way, and every later one, bring none back. Bounds: one service, three calls - a refresh, a revocation and an
exchange that overlap.

Observed: two authorization URLs of one service share one verifier, and an exchange
takes it out before its own request has succeeded (`oAuth.tool.ts:142`).

### Server

`Arrive` passes the middleware that `mode` stands for and then the first route that
matches (`RouteOf`); `Dispatch` is that route with its validators, `Used` the answer of
`node.use()`. `NodeSeesVerifiedAuth`: on every route and in every mode the node sees
as `_auth` only what the middleware verified of this request. `Start` and `Stop`
follow the http server that has the port and the one the instance knows. Bounds:
one request of every path, token, body and claim, two servers: requests do not
share state.

### Providers

The methods of the six providers follow one scheme; a handler is a record of what
it needs, whose key it uses, what it looks for in the answer and what it takes from
an event, one record per method in the code. A body is a sequence of lines, a line
two pieces, and the network may cut between any two. A chunk goes to the caller's
stream, which may be missing, closed or fail: `CoreUtils.sendResponse` logs that and
returns (`core.utils.ts:120`), so the generator goes on (`Send`, `lost`). The end mark
`[DONE]` ends the loop over the lines of one read only (`Reached`): later lines of that
read are dropped, those of a later read are not. `CutsDoNotMatter` is about bodies with
nothing to say after the mark (`EndIsLast`): whatever the cuts, the chunks are what the
complete lines say, in their order, up to the first that the stream did not take,
and the text is made of all of them. Bounds: two lines, the fewest with a cut inside
one after a complete one, or with a line after the mark.

Observed, and not the subject of a run: a stream that took no chunk, an error chunk
included, ends as a success; an error that the provider reports within the stream is
skipped like a comment, and the call succeeds (`anthropic-intelligence.tool.ts:297`);
Ollama's `pull_model` reads the progress of a pull to its end and reports success
whatever it says (`ollama-intelligence.tool.ts:580`); an unterminated last line is
dropped.

### Intelligence

`prompt[r]` goes through choosing, asking and saving a provider, reading the model,
reading, asking for and saving the key, and the call of the provider. `preference`,
`keys` and `model` are the values in the secure storage, which prompts and
`_tool_configure` (`Put`, one value after another) write. `KeyGoesToItsProvider`: no
interleaving sends a key to another provider. Bounds: two prompts, a known and an
unknown provider, a configure call of two values. Observed: the row of the table of
environment variables for Perplexity has the name of its variable, so that key is
never found.

## 8. What lives longer than a call (run `platform`)

### NodeLifecycle

`start()` and `stop()` are program points (`starter`, `stopper`), `state` is
`oCore.state`. `managers` and `p2pNode` are the fields that `initialize()` fills,
`listening` counts libp2p nodes that were created and not stopped, `loop` and
`orphans` are discovery loops of the present reconnection manager and of dropped
ones. `TearDown`'s two parts are `UnregisterEnded` and `TornDown`, whose
`ResetState` runs inside `super.teardown()`, as in the code. `TeardownMayThrow`
stands for a subclass whose `teardown()` fails.

What holds: `RunningIsWhole` and `StopEnds`, for which the only fairness is that of
`teardown()`, whose notification has a limit of two seconds; `register()` may wait for
ever, and nothing is assumed of it. Proved only: `OneLifecycleActivity`,
`HeartbeatOnlyWhileRunning`, `StartsFresh`. Observed, and not the subject of a run: a
stop during a start is ignored (`MayStop`), and a start that fails rests in STOPPING.
Bounds: `MaxStarts` 4; a second start already meets all that the first one left,
and counters only grow by one per start.

### Agents and AgentInbox

`entries` is the registry's table, an age the time since `lastHeartbeatAt`; `calls` are
the messages on their way and the answers on theirs back, which may arrive late or
be lost. The interval of an agent begins when the answer to its registration arrives
and is counted anew from each time it fires (`clock`); it fires up to `Late` after it is
due, and a heartbeat or an answer that takes longer than `Latency` counts as lost.
`Swept` is the sweep's verdict, by age and by `process.kill(pid, 0)`, with the strict
comparisons of the code.

`BeatsKeepAlive`: an agent that is up, and whose entry is of its process, is not listed
as dead while what was lost fits into the TTL: `Silence(n)`, the longest an entry goes
without a heartbeat when n in a row are lost, is the way of the answer that set the
timer, n + 1 late intervals and the way of the last heartbeat. With the numbers of the
code (30 s and 90 s) one lost heartbeat fits and two do not, although twice 30 s after
the one before leaves exactly 90 s: nothing is on time. `DeadAreForgotten`: who is down
for good leaves the registry, whatever calls were on their way. Fairness: calls end,
timers fire, the sweep runs, time passes. Bounds: an interval of 4 and a TTL of 12 (the
code's proportion), a timer and a call late by 1, so that `Silence(1)` is exactly the
TTL and `Silence(2)` is beyond it; two starts of an agent, one restart of the registry;
agents share no state but the table, where each has its own entry, so one agent is
enough. Observed: an agent that was swept while it is up does not register again, for
its heartbeats change nothing.

In `AgentInbox` the ring drops its oldest envelope at the bound. `InboxKeepsLatest`:
the inbox is the end of what arrived since the last drain. `ParseSubPath` is the
resolver of paths below the agent. Bounds: three messages, a bound of two.

### Monitor

`beats` and `series` carry ages; `poll` is a poll with the nodes it still has to ask,
and polls of both kinds overlap with departures and the clean-up. `series` has, like
the map of the code, a key for each address that something was stored under and not
cleaned up since. `LeftAreForgotten`: a node that leaves for good is no longer tracked
in the end, though a poll may store its answer after it left. Fairness: time passes,
the clean-up runs, the requests of a poll end. Bounds: one node, a poll of each
kind, a timeout of two, entries kept for one. Observed: the libp2p provider stores
what it asks of every node under its own address.

### OperatingSystem and OSInstances

`OperatingSystem`: `phase` and `left` are the place in `start()` (leaders, nodes,
services, plans), each step of which may fail; `roundRobinIndex` is NaN after a
remainder by zero. The replay of a lane and a node added by hand ask for the entry node
twice, as in the code. `EntryNodeExists`: once there are nodes an entry node is found, unless
somebody asked for one before the first was there. Bounds: one leader, two
workers, up to seven nodes: two starts and one by hand. Observed: `stop()` stops the
root leader only (`o-os.ts:550`), although the README of o-os says that it stops all
worker and leader nodes (`o-os/README.md:392`); after a restart the first leader
stays the root.

`OSInstances`: `proc` is each process, `seen` the copy of the file its `startOS` or its
index works on, `call` a call of `stopOS` or `statusOS` elsewhere. `OneInstance`: a
process that runs is the one its file names, so that a start finds it and ends
it - as long as nobody writes the file between another's reading and writing
(`overlap`), against which nothing protects. Bounds: two processes, two calls.

### Worlds

`worlds` is the manager's map with what each instance has in memory, `file` the file
of each world, `changed` the world the watcher's timer is for, `call` what each tool
call waits for. The manager writes the file from its configuration and the addresses
it read there before, the instance from its memory (`Serialised`, of a call that
awaits "config" or "addresses"), a command line from outside. What is written is
fixed then; `FileOpened` truncates the file, `FileWritten` ends the write, and two writes
that overlap may leave either or a torn file. A process may end in between, and a
write may fail (`WriteFails`). `RemoveWorld` stops the instance, `WorldLeaves` takes it
out of the map, `WorldFileRemoved` unlinks the file: other calls arrive at either
await. `SyncFromDisk`, `SyncStarts` and `SyncRegisters` are the watcher's look at a file,
which starts the world or registers the file's addresses one after the other.

`MembersAreKept`: an acknowledged member stays in the file, or in the write under way.
The exceptions are kept in `unwritten` until the next undisturbed write: one who was
welcomed as a member already, while the write of the call that brought it was still
to come or had failed (`world-manager.tool.ts:225` answers without writing), and everyone
in a file that two writes met in, that a write failed or a process ended in, or that a
removal unlinked after the world was started again. `RemovedIsGone`: no start, sync,
command line or write brings back a world whose removal was acknowledged, unless
another call of the world was under way, or it had been started again, when the file
went; one that was under way may write the file again, and the world is back with
the next start.

Bounds: one world (worlds share only the allowed directories and the timer), two
members, one directory, two overlapping calls, two starts of the manager. Not
modelled: two starts of one world at once, which leave two instances; a start of a
world while calls of its former instance wait for more than the end of its file; the
command line's reading of a file and writing it back is one step. Observed: one timer
serves all files, so a change of one world replaces that of another
(`world-manager.tool.ts:104`).

## 9. What is proved

Every invariant and every action property that a passing run checks is proved for
all values of the constants: any number of activities, faults, starts, callers,
retries, nodes and trees, lanes, agents, worlds, services, bodies of any length,
any bounds and lifetimes. What the theorems assume is the assumption that the
module of the constants states and TLC evaluates (`ConfigAssumption`,
`LifecycleAssumption`, `TokenAssumption`, `LanesAssumption`, `LaneWorkAssumption`,
`MessagingAssumption`, `NetworkAssumption`, `AddressesAssumption`,
`ChoiceAssumption`, `WorldsAssumption`, `PlatformAssumption`), and the hypotheses named
below with four theorems.

Each follows from an inductive invariant: it holds initially, every step keeps it,
it implies the property. The invariant of a part is named after it (`IndexingInv`,
`WorldsInv`, ...; `IInv` where a module has one only). The theorems
`NetworkCorrect`, `LaneWorkCorrect`, `ServiceAccessCorrect` and `PlatformCorrect`
state properties of parts of the specification that the run checks.

`RegistrationProofs`: `TypeCorrect`, `RegisteringOwned`, `FlagOwned`, `ParentKept`,
`ReconnectedRegistered`. The properties are not inductive alone: a step may only be
judged when it is known which awaits an activity of each kind can be at
(`Placed`). Since each turn ends in one of seven ways, the proof first shows that
(`Leaf`), then which tables a `Leaf` may start from (`OwnedByOthers`, `KeepsParent`),
so that each action is two short steps.

`MessagingProofs`: `TypeCorrect`, `ExecutedAtMostOnce`, `StreamsAreHeard`,
`OpenIsCached`, `TablesAreRight`, `OutcomesAreTrue`, for every plan of calls. The
invariant adds where a call can have a connection and a stream (`Placed`), which
is what shows that a new connection is nobody's yet; that no wrapper has two
listeners (`Listening`); that an unread request was not executed (`Executed`);
and that a response says what the execution came to (`Answering`). The steps of
one caller that keeps its connection are one lemma (`CallerMoves`).

`NetworkProofs`, over any tree of nodes:

- Locks, `LocksImplementMutex`: until a teardown whoever is inside holds the name
  and is alone; with it every step maps to a step of `NamedMutex` or to a stutter
  (waiting, waking and timeouts are stutters).
- Hierarchy, `SpecLeftIsTrue`: the list of children has one entry of each address
  (`OneEntryEach`), and a subscription that is on was told only of children that its
  pattern matches (`ToldMatches`).
- Indexing, `SpecCompleteMeansAll`. A node is "through" when a set of marked nodes
  has it in it and holds the children of its members (`Through`, stated without
  recursion); a call that has taken a child from its list waits for it, or the child
  is through (`NoneForgotten`), and each call that waits, waits for one other
  (`Waited`). `NetworkAssumption` says that nothing but
  all the nodes is such a set around the root.
- Routing, `SpecAnsweredByItsOwner`: a request for a node ends in the node's name all
  the way, and is unwrapped only at its target (`RunsNode`); a request for a method
  keeps its address, and no node takes it for its own (`RunsMethod`).
  `AddressesAssumption` says that requests ask for a node by an end of its address
  or for a method by its whole address.
- Routing, `SpecNoCircles`, for addresses that are `Whole`: single names, addresses from
  the root, and methods by their whole address. `Straight` says that a request by
  its whole address goes down from where it was handed to the leader, with
  every place it was at behind it (`ByPath`), and a request by a name up once
  (`ByName`). Of an address that is a proper part of another one the
  theorem says nothing, and it could not: such addresses do go round between two
  nodes, as those of `routing_nested` do (section 11).

`LaneWorkProofs`:

- Lanes, `TypeCorrect`, `EndsSettled`, `ListedStored`, `CancelHonoured`. `ListedIsStored`
  needs that a lane on its way to the configuration has been stored
  (`PersistingIsStored`), and that storing never empties a CID.
- Saved lanes, `SpecReplayedOnce`: no list names a CID twice, the stored one or any copy
  somebody works on (`ListsAreSets`), and what is queued was not replayed
  (`QueueIsAhead`). `SpecAcknowledgedIsKept`: without an excuse one lane or one edit at a
  time works on a copy, which is as good as the configuration, and a file is torn only
  while one of them writes it (`CopiesAreCurrent`).
  Hypothesis: the store answers with a value, which the default, the disk, does
  not; what happens with that one is `saved_lanes_disk`.
- Approvals, `SpecNeverIsFinal`: what was on the blacklist when it was asked for is still
  there, and the execution is refused without a question to anybody
  (`OutlawedIsRefused`).

`TokenManagerProofs`: `TypeCorrect`, `SingleFlightHolds`, `DestroyedSilent`,
`MemoryUpToDate`, `MemoryFresh`. `SingleFlight` needs to know that a run under way
is the one `refreshPromise` refers to until `destroy()` has cleared it
(`PromiseIsTheRun`), and `TypeOK` that a sleeping run has an attempt left and a
token being saved was issued (`RunsBounded`). The other two add that without a
store nobody loads or saves and the provider has heard of the last token, or an
answer was lost (`MemoryOnly`, `Heard`), that the shared promise belongs to a run
that is under way (`PromiseIsLive`), and that the timer does not fire before its
token is close to its expiry (`TimerFollows`). `MemoryFresh` has the hypothesis `Lifetime <= Buffer + MaxTimeout`: a
token that outlives the longest timeout of JavaScript is refreshed at once,
again and again.

`ServiceAccessProofs`:

- OAuth, `GoneForGood`: every stored or revoked token was issued (`Issued`), so that a
  new token is none that is gone, and one that comes back with the answer to a refresh
  is not gone because that refresh was under way; the second half, an action property, needs of it
  only the types: a refresh updates only what is there.
- Server, `SpecNodeSeesVerifiedAuth`: at every stage a request has the route of its path,
  and what the node sees was put there for a verified token (`Vouched`).
- Choice, `SpecKeyGoesToItsProvider`: the slots hold the keys of the providers they are
  named after (`KeysAreOwn`). Hypothesis: not both that Perplexity's key is in the
  environment and that "sonar" is the name of a provider, for the row of that
  variable has the name "sonar" and would hand its key to it.
- Providers, `SpecCutsDoNotMatter`, for bodies of any number of lines: what was read is a
  number of pieces, the buffer the pieces since the last end of a line (`CallInv`), and
  the chunks are those of the lines before, up to the first that was lost (`Told`). A
  send takes a beginning of the new chunks (`SendKeeps`), and where nothing follows
  the end mark the break drops nothing (`BreakDropsNothing`).

`PlatformProofs`:

- Lifecycle, `LifecycleTypeCorrect`, `LifecycleExclusive`, `RunningWhole`,
  `HeartbeatBounded`, `FreshStarts`. The invariant ties every program point to the
  state it allows (`Points`), to the fields (`Fields`) and to the counts of what was
  left behind (`Counts`).
- Worlds, `MembersKept`, `RemovedGone`. The file is written from memory, so the members
  must be known there (`KnownInMemory`, `PendingIsMember`); a file holds them while
  nobody writes it (`FileIsCurrent`), and a clean write is the only one and holds them
  (`WritersAreSound`); a file that is torn or gone names nobody, so that a start does
  not find members in it (`PartIsEmpty`); a manager that is down has no calls
  (`DownIsIdle`); and a removed world has no instance and no call that may write its
  file (`RemovedIsOver`).
- Agents, `SpecBeatsKeepAlive`: an entry is no older than the answer to the registration,
  the intervals of the heartbeats lost since, the time since the timer fired and one
  interval more while a heartbeat is on its way (`EntryIsFresh`); before that it is as
  old as the answer that is awaited (`EntryIsNew`). Heartbeats on their way set off when
  the timer fired last.
- Inbox, `SpecInboxKeepsLatest`: what the ring holds is the end of what arrived. A
  bound of zero is excluded (`PlatformAssumption`): the code would keep one message.
- OS, `SpecEntryNodeExists`: the index of the round robin stays a number, and one of the
  nodes, as long as nobody asks before the first node is there.
- Instances, `SpecOneInstance`: while nobody overlaps, who is about to write the file is
  alone with it, and nothing runs that the writing will not name (`TakesTurns`).

`SequenceFacts` has what the others need of sequences: what `Filter` and
`FlattenSeq` do with an appended element and with a concatenation, which are
defined by recursion over the length. The prover has no backend for induction
over an operator, but induction over a set is a theorem it can use: `Smallest` (a
non-empty set of numbers has a least element) and `EverySequence` (a set of
sequences that has the empty one and is closed under `Append` has all). The
models write `Filter` where the code says `filter()`, because the library's
`SelectSeq` is defined by a local recursion the prover does not expand.

## 10. What is only model-checked

Liveness: `ReconnectionsEnd`, `CallsEnd`, `SignalEnds`, `LaneEnds`,
`CallersAnswered`, `StopEnds`, `DeadAreForgotten`, `LeftAreForgotten`. The prover does
not reason about fairness and ENABLED. Everything else that a passing run checks
is proved. The properties that are violated are refuted by their runs.

## 11. Where the code and its documents disagree

Seven runs end with a counterexample to what the source claims of itself:

- `registration_lost_parent`: a parent lost while the loop commits to the leader is
  never reconnected, because `handleParentDisconnected` returns at the flag and the
  loop ends by it (`o-reconnection.manager.ts:148`).
- `lifecycle_quiet`: a stopped node leaves its libp2p node running. `super.teardown()`
  ends with the overridden `resetState()`, which clears `p2pNode`, so the `if
  (this.p2pNode)` that follows it (`o-node.ts:605`) is never true; a discovery loop
  that runs is dropped the same way and goes on.
- `token_restored`: a late answer of the store replaces a newer token and hands the
  provider a refresh token that was rotated away.
- `lanes_revived`: a cancel during the preflight, or before a replay, is overwritten
  and the lane runs its capabilities.
- `saved_lanes_disk`: with the configuration on disk, the default, a start replays
  none of the lanes that were persisted: the disk provider answers with the value
  itself, where os-config looks for a field `value`.
- `routing_nested`: a method below a node other than the leader (`o://a/get`) is
  handed down by the leader and up by the child, for ever.
- `server_stream`: the route of the streaming endpoint is behind one that matches its
  path, so it is never reached.

Others that the models show and no run is about are named as "observed" with
their modules.

## 12. What is not modelled

Payloads, addresses as text, formats, logging, and what section 2 names as not
modelled, for the reason given there: the connection heartbeat (nothing constructs
it), gateways, login and the MCP bridge (one request and one answer, cryptography,
external SDKs), prompts and the other capabilities (texts), the address book, relay
and memory harness, configuration, wire types and test support. Of the modelled
parts: `Registration` leaves out `stop()` and restarts of the node itself (they are in
`NodeLifecycle`, which in turn has no network) and settings of the reconnection
manager that `oNode` does not pass; `NodeLifecycle` abstracts `initialize()` to two
steps; `Messaging` leaves out the chunks of streamed responses, abort signals,
malformed messages, the stop of a node, and chains of more than one forwarder;
`Routing` leaves out addresses of other networks and the resolvers of gateways,
storage and models; the registry's index by protocol and `find_available_parent` are
left out; `TokenManager` leaves out `autoRefresh = false` (no timer at all) and tokens
that never expire (nothing to schedule);
`Lanes` leaves out capabilities that run lanes of their own, which the standard
dispatch does not reach; `Approvals` loses no reply of the service; `Providers` takes a
key for well formed or empty; `Hierarchy` leaves out connections that are closing;
`Indexing` leaves out children that join or leave while they are indexed; `Monitor`
leaves out the reports and the summary computed from its tables, the fields of
libp2p's statistics and its HTTP pages; `Worlds` leaves out two starts of one world at
once, a start while calls of the world's former instance wait for more than the end of
its file, and what the file system tool reads and writes. The
proofs are about the modules as they stand, with the same omissions.
