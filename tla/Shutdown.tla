------------------------------- MODULE Shutdown -------------------------------
(***************************************************************************)
(* Graceful shutdown (o-core/src/core/graceful-shutdown.ts): the signal    *)
(* handlers of a process and the cleanup that stops its resources.  The    *)
(* first signal starts every resource's stop() in one turn and races the   *)
(* cleanup against a timer; whichever ends first, the process exits.       *)
(***************************************************************************)
CONSTANT Resources  \* what the process stops: nodes, servers

VARIABLES
    process,   \* "running", "stopping" (isShuttingDown), "exited"
    resource,  \* where each resource's stop() is
    timer,     \* the timer of the race
    outcome    \* how the cleanup ended: "clean", "late" (onTimeout called)

vars == <<process, resource, timer, outcome>>

TypeOK == /\ process \in {"running", "stopping", "exited"}
          /\ resource \in [Resources -> {"up", "stopping", "settled"}]
          /\ timer \in {"off", "armed", "fired"}
          /\ outcome \in {"none", "clean", "late"}

Init == /\ process = "running"
        /\ resource = [r \in Resources |-> "up"]
        /\ timer = "off"
        /\ outcome = "none"

-----------------------------------------------------------------------------

\* createMultiResourceCleanup: stop() of every resource is called at once.
Cleanup == resource' = [r \in Resources |-> "stopping"]

\* A mutant: the timer is armed only after the cleanup.
PerformCleanupUntimed ==
    /\ process = "running"
    /\ process' = "stopping"
    /\ Cleanup
    /\ UNCHANGED <<timer, outcome>>

\* performCleanup(): SIGINT, SIGTERM, SIGUSR2, an uncaught exception that is
\* not a WebSocket close, an unhandled rejection.  Later ones are skipped.
PerformCleanup ==
    /\ process = "running"
    /\ process' = "stopping"
    /\ timer' = "armed"
    /\ Cleanup
    /\ UNCHANGED outcome

\* A resource's stop() returns or fails; both are settled.  It may never.
Settle(r) ==
    /\ process = "stopping"
    /\ resource[r] = "stopping"
    /\ resource' = [resource EXCEPT ![r] = "settled"]
    /\ UNCHANGED <<process, timer, outcome>>

\* The timer rejects the race unless the cleanup ended before.
TimerFires ==
    /\ process = "stopping" /\ timer = "armed" /\ outcome = "none"
    /\ timer' = "fired"
    /\ outcome' = "late"
    /\ UNCHANGED <<process, resource>>

\* Promise.allSettled: the cleanup ends when every stop() has.
CleanupEnds ==
    /\ process = "stopping" /\ outcome = "none"
    /\ \A r \in Resources : resource[r] = "settled"
    /\ outcome' = "clean"
    /\ UNCHANGED <<process, resource, timer>>

\* The finally block.
Exit ==
    /\ process = "stopping" /\ outcome # "none"
    /\ process' = "exited"
    /\ UNCHANGED <<resource, timer, outcome>>

Next == \/ PerformCleanup \/ TimerFires \/ CleanupEnds \/ Exit
        \/ \E r \in Resources : Settle(r)

Spec == Init /\ [][Next]_vars

\* Timers fire and turns run; a resource may hang in its stop().
FairSpec == Spec /\ WF_vars(TimerFires) /\ WF_vars(CleanupEnds) /\ WF_vars(Exit)

-----------------------------------------------------------------------------

\* A signal ends the process, whatever hangs in its stop(), and without a
\* word about a timeout only when everything was stopped.
SignalEnds ==
    /\ process = "stopping" ~> process = "exited"
    /\ [](outcome = "clean" => \A r \in Resources : resource[r] = "settled")
=============================================================================
