------------------------------- MODULE Agents -------------------------------
(***************************************************************************)
(* AgentRegistryNode (o://agents) and the AgentNodes that register with    *)
(* it: registration, heartbeats, deregistration, crashes of an agent's     *)
(* process, restarts under the same address, and the sweep.                *)
(*                                                                         *)
(* An entry holds its age, which stands for lastHeartbeatAt.  Timers fire  *)
(* late, and calls and answers take their time: a heartbeat, and the       *)
(* answer to a registration, no longer than Latency, or they count as      *)
(* lost; any other call may be on its way for ever so long.                *)
(***************************************************************************)
EXTENDS Naturals, FiniteSets

CONSTANTS
  Agents,      \* addresses of agents
  Interval,    \* HEARTBEAT_INTERVAL_MS
  TTL,         \* HEARTBEAT_TTL_MS, in the same unit
  Late,        \* bound: how late a timer fires
  Latency,     \* bound: how long a heartbeat or an answer is on its way
  MaxLost,     \* bound: lost heartbeats in a row that are counted
  MaxStarts,   \* bound: starts of one agent
  MaxRestarts  \* bound: restarts of the registry

VARIABLES
  entries,   \* the registry's table
  calls,     \* calls on their way to the registry, and answers on theirs back
  starts,    \* how often each agent was started: the pid of its last process
  process,   \* that process is alive
  stage,     \* where start() and stop() of each agent are
  timer,     \* heartbeatTimer is set
  clock,     \* time since it was set or fired last
  lost,      \* consecutive heartbeats that were lost
  restarts   \* restarts of the registry

vars == <<entries, calls, starts, process, stage, timer, clock, lost, restarts>>

Entry   == [pid : 1..MaxStarts, age : 0..2 * TTL + 1, live : BOOLEAN]
NoEntry == [pid |-> 0, age |-> 0, live |-> FALSE]
Call    == [method : {"register", "heartbeat", "deregister"}, from : Agents,
            pid : 1..MaxStarts, back : BOOLEAN, way : 0..Latency]

TypeOK ==
  /\ entries \in [Agents -> Entry \cup {NoEntry}]
  /\ calls \subseteq Call
  /\ starts \in [Agents -> 0..MaxStarts]
  /\ process \in [Agents -> BOOLEAN]
  /\ stage \in [Agents -> {"down", "registering", "up", "deregistering"}]
  /\ timer \in [Agents -> BOOLEAN]
  /\ clock \in [Agents -> 0..Interval + Late]
  /\ lost \in [Agents -> 0..MaxLost]
  /\ restarts \in 0..MaxRestarts

Init ==
  /\ entries = [a \in Agents |-> NoEntry]
  /\ calls = {}
  /\ starts = [a \in Agents |-> 0]
  /\ process = [a \in Agents |-> FALSE]
  /\ stage = [a \in Agents |-> "down"]
  /\ timer = [a \in Agents |-> FALSE]
  /\ clock = [a \in Agents |-> 0]
  /\ lost = [a \in Agents |-> 0]
  /\ restarts = 0

Known(a) == entries[a] # NoEntry

\* process.kill(pid, 0) succeeds.
IsPidAlive(a, pid) == process[a] /\ pid = starts[a]

ToRegistry(method, a, pid) ==
  [method |-> method, from |-> a, pid |-> pid, back |-> FALSE, way |-> 0]

-----------------------------------------------------------------------------
(* The agent.                                                              *)

\* start() in a new process: the node is up before it registers.
Start(a) ==
  /\ stage[a] = "down" /\ ~process[a] /\ starts[a] < MaxStarts
  /\ starts' = [starts EXCEPT ![a] = @ + 1]
  /\ process' = [process EXCEPT ![a] = TRUE]
  /\ stage' = [stage EXCEPT ![a] = "registering"]
  /\ calls' = calls \cup {ToRegistry("register", a, starts[a] + 1)}
  /\ lost' = [lost EXCEPT ![a] = 0]
  /\ UNCHANGED <<entries, timer, clock, restarts>>

\* The interval fires, and is counted from now.
Heartbeat(a) ==
  /\ timer[a] /\ clock[a] \geq Interval
  /\ clock' = [clock EXCEPT ![a] = 0]
  /\ calls' = calls \cup {ToRegistry("heartbeat", a, starts[a])}
  /\ UNCHANGED <<entries, starts, process, stage, timer, lost, restarts>>

\* stop() of an agent that is up: the timer is cleared before the call.
Stop(a) ==
  /\ stage[a] = "up"
  /\ stage' = [stage EXCEPT ![a] = "deregistering"]
  /\ timer' = [timer EXCEPT ![a] = FALSE]
  /\ clock' = [clock EXCEPT ![a] = 0]
  /\ calls' = calls \cup {ToRegistry("deregister", a, starts[a])}
  /\ UNCHANGED <<entries, starts, process, lost, restarts>>

\* The process ends, by itself after a stop() or by a crash.
ProcessEnds(a) ==
  /\ process[a]
  /\ process' = [process EXCEPT ![a] = FALSE]
  /\ stage' = [stage EXCEPT ![a] = "down"]
  /\ timer' = [timer EXCEPT ![a] = FALSE]
  /\ clock' = [clock EXCEPT ![a] = 0]
  /\ UNCHANGED <<entries, calls, starts, lost, restarts>>

\* A call of the agent's present process has ended, well or not: start() goes
\* on to set the interval, stop() to stop the node.
Ended(c) ==
  IF ~IsPidAlive(c.from, c.pid) THEN UNCHANGED <<stage, timer>>
  ELSE CASE c.method = "register" /\ stage[c.from] = "registering" ->
              /\ stage' = [stage EXCEPT ![c.from] = "up"]
              /\ timer' = [timer EXCEPT ![c.from] = TRUE]
         [] c.method = "deregister" /\ stage[c.from] = "deregistering" ->
              /\ stage' = [stage EXCEPT ![c.from] = "down"]
              /\ UNCHANGED timer
         [] OTHER -> UNCHANGED <<stage, timer>>

-----------------------------------------------------------------------------
(* The registry.                                                           *)

Registered(c)   == [pid |-> c.pid, age |-> 0, live |-> TRUE]

\* A heartbeat of an agent that is not registered changes nothing.
Beat(e) == IF e = NoEntry THEN e ELSE [e EXCEPT !.age = 0, !.live = TRUE]

Handled(c) ==
  CASE c.method = "register"   -> Registered(c)
    [] c.method = "heartbeat"  -> Beat(entries[c.from])
    [] c.method = "deregister" -> NoEntry

\* The call arrives.  A heartbeat's answer is of no use; the other calls are
\* awaited by their process.
CallHandled(c) ==
  LET current == IsPidAlive(c.from, c.pid) IN
  /\ c \in calls /\ ~c.back
  /\ entries' = [entries EXCEPT ![c.from] = Handled(c)]
  /\ calls' = (calls \ {c}) \cup
       {d \in {[c EXCEPT !.back = TRUE]} : c.method # "heartbeat" /\ current}
  /\ lost' = [lost EXCEPT ![c.from] = IF c.method # "deregister" /\ current THEN 0 ELSE @]
  /\ UNCHANGED <<starts, process, stage, timer, clock, restarts>>

\* The answer arrives.
CallAnswered(c) ==
  /\ c \in calls /\ c.back
  /\ calls' = calls \ {c}
  /\ Ended(c)
  /\ UNCHANGED <<entries, starts, process, clock, lost, restarts>>

\* The call or its answer is lost, or not waited for any longer.  An agent that
\* waited in vain for the answer to its registration is late with its first
\* heartbeat, as late as can be.
CallLost(c) ==
  /\ c \in calls
  /\ calls' = calls \ {c}
  /\ lost' = [lost EXCEPT ![c.from] =
       IF ~IsPidAlive(c.from, c.pid) THEN @
       ELSE IF c.method = "heartbeat" /\ @ < MaxLost THEN @ + 1
       ELSE IF c.method = "register" /\ c.back THEN MaxLost ELSE @]
  /\ Ended(c)
  /\ UNCHANGED <<entries, starts, process, clock, restarts>>

\* Mutant: an entry exactly one TTL old is dead.
DeadAtTTL(e, pidDead) == e.age >= TTL \/ pidDead

ShouldBeDead(e, pidDead) == e.age > TTL \/ pidDead

\* Mutant: only the death of the process makes an entry go.
RemovedIfPidDead(e, pidDead) == pidDead /\ e.age > TTL

Removed(e, pidDead) == e.age > 2 * TTL \/ (pidDead /\ e.age > TTL)

\* sweep(), by its interval or by the tool.
Swept(a) ==
  LET e       == entries[a]
      pidDead == ~IsPidAlive(a, e.pid)
  IN  IF ~Known(a) \/ Removed(e, pidDead) THEN NoEntry
      ELSE [e EXCEPT !.live = ~ShouldBeDead(e, pidDead)]

Sweep ==
  /\ entries' = [a \in Agents |-> Swept(a)]
  /\ UNCHANGED <<calls, starts, process, stage, timer, clock, lost, restarts>>

\* list({ live }).
Listed(live) == {a \in Agents : Known(a) /\ entries[a].live = live}

\* stop() clears the table; start() begins with none.
RegistryRestarts ==
  /\ restarts < MaxRestarts
  /\ restarts' = restarts + 1
  /\ entries' = [a \in Agents |-> NoEntry]
  /\ UNCHANGED <<calls, starts, process, stage, timer, clock, lost>>

\* Heartbeats, and answers to a registration, are waited for.
Timed(c) == c.method = "heartbeat" \/ (c.method = "register" /\ c.back)

\* Time passes, but not beyond what is due.
Tick ==
  /\ \A a \in Agents : timer[a] => clock[a] < Interval + Late
  /\ \A c \in calls : Timed(c) => c.way < Latency
  /\ clock' = [a \in Agents |-> IF timer[a] THEN clock[a] + 1 ELSE clock[a]]
  /\ calls' = {IF Timed(c) THEN [c EXCEPT !.way = @ + 1] ELSE c : c \in calls}
  /\ entries' = [a \in Agents |->
       IF Known(a) /\ entries[a].age \leq 2 * TTL
       THEN [entries[a] EXCEPT !.age = @ + 1] ELSE entries[a]]
  /\ UNCHANGED <<starts, process, stage, timer, lost, restarts>>

-----------------------------------------------------------------------------
Step(a) == Start(a) \/ Heartbeat(a) \/ Stop(a) \/ ProcessEnds(a)

Next ==
  \/ \E a \in Agents : Step(a)
  \/ \E c \in calls : CallHandled(c) \/ CallAnswered(c) \/ CallLost(c)
  \/ Sweep \/ RegistryRestarts \/ Tick

Spec == Init /\ [][Next]_vars

\* Calls end, timers fire, the sweep runs, time passes.
Fairness ==
  /\ WF_vars(\E c \in calls : CallHandled(c) \/ CallAnswered(c) \/ CallLost(c))
  /\ \A a \in Agents : WF_vars(Heartbeat(a))
  /\ WF_vars(Sweep)
  /\ WF_vars(Tick)

FairSpec == Spec /\ Fairness

-----------------------------------------------------------------------------
(* Properties.                                                             *)

\* The longest an entry goes without a heartbeat when n of them are lost: the
\* answer that set the timer, n + 1 intervals and the way of the last.
Silence(n) == Latency + (n + 1) * (Interval + Late) + Latency

\* An agent that is up and whose entry is of its process is not listed as dead
\* while the heartbeats it lost in a row fit into the TTL with everything that
\* is late.  One fits into the 90 s at 30 s each; two, which the numbers
\* suggest, do not, as every timer is a little late.
BeatsKeepAlive ==
  \A a \in Agents : stage[a] = "up" /\ Known(a) /\ entries[a].pid = starts[a]
                    /\ lost[a] < MaxLost /\ Silence(lost[a]) \leq TTL => a \in Listed(TRUE)

\* An agent that is down for good leaves the registry, whether it could
\* deregister or not and whatever calls of it were still on their way.
DeadAreForgotten == \A a \in Agents : <>[](stage[a] = "down") => <>[](~Known(a))
=============================================================================
