------------------------------- MODULE Lanes -------------------------------
(***************************************************************************)
(* The lanes of one node: oLane executes an intent (preflight, a loop of   *)
(* capabilities, postflight) or replays a stored one, oLaneManager keeps   *)
(* the list, the storage tool keeps the finished sequences under their     *)
(* content identifiers.                                                    *)
(*                                                                         *)
(* A lane is suspended at an await of execute() or replay(), and cancel(), *)
(* other lanes and the stop of the node come in between.  Its CID is made  *)
(* of intent, caller and context; a node is its own caller and passes an   *)
(* empty context, so the intent stands for the CID.                        *)
(***************************************************************************)
EXTENDS Naturals, FiniteSets

CONSTANTS
  LaneIds,   \* bound: lanes created
  Intents,   \* the intents, and so the CIDs
  MaxLanes,  \* config.maxLanes of the manager
  MaxCycles  \* MAX_CYCLES, which also bounds a stored sequence

ASSUME LanesAssumption ==
  /\ IsFiniteSet(LaneIds) /\ "none" \notin LaneIds
  /\ MaxLanes \in Nat \ {0} /\ MaxCycles \in Nat \ {0}

VARIABLES
  lanes,    \* the lanes: status, await, cycles, intent, result, cid
  tracked,  \* oLaneManager.lanes
  stored,   \* whose sequence the storage holds under a CID
  listed,   \* the CIDs in the startup configuration
  nodeUp    \* the node's state is RUNNING

vars == <<lanes, tracked, stored, listed, nodeUp>>

NoLane == "none"
Status == {"pending", "preflight", "running", "postflight", "completed", "failed", "cancelled"}

\* The await a lane is at; emittingLast sends the chunk of a STOP result.
At == {"none", "created", "refused", "pinging", "thinking", "emitting", "emittingLast",
       "sealing", "storing", "persisting", "loading", "replaying", "done"}

Lane == [status : Status, at : At, cycles : 0..MaxCycles, intent : Intents,
         result : {"none", "stopped", "error", "replayed"}, cid : BOOLEAN]

TypeOK ==
  /\ lanes \in [LaneIds -> Lane]
  /\ tracked \subseteq LaneIds
  /\ stored \in [Intents -> LaneIds \cup {NoLane}]
  /\ listed \subseteq Intents
  /\ nodeUp \in BOOLEAN

Init ==
  /\ lanes \in [LaneIds -> {[status |-> "pending", at |-> "none", cycles |-> 0,
                             intent |-> i, result |-> "none", cid |-> FALSE] : i \in Intents}]
  /\ tracked = {}
  /\ stored = [i \in Intents |-> NoLane]
  /\ listed = {}
  /\ nodeUp = TRUE

Ended(l)   == lanes[l].at = "done"
Looping(l) == lanes[l].at \in {"thinking", "emitting", "emittingLast"}
Active(s)  == {l \in s : lanes[l].status = "running"}

\* `status >= COMPLETED` compares strings: all but "cancelled" sort at or
\* after "completed".
Stale(s) == {l \in s : lanes[l].status # "cancelled"}

-----------------------------------------------------------------------------
(* The manager.                                                            *)

\* createLane() appends the lane before it looks at the limits.
CreateLane(l) ==
  LET all     == tracked \cup {l}
      refused == Cardinality(Active(all)) > MaxLanes
  IN  /\ lanes[l].at = "none"
      /\ lanes' = [lanes EXCEPT ![l].at = IF refused THEN "refused" ELSE "created"]
      /\ tracked' = IF ~refused /\ Cardinality(Stale(all)) > MaxLanes
                    THEN all \ Stale(all) ELSE all
      /\ UNCHANGED <<stored, listed, nodeUp>>

\* lane.cancel(), by whoever holds the lane.  The capabilities' own cancel()
\* does nothing.
Cancel(l) ==
  /\ lanes[l].at # "none"
  /\ lanes' = [lanes EXCEPT ![l].status = "cancelled"]
  /\ UNCHANGED <<tracked, stored, listed, nodeUp>>

CancelLane(l) ==
  /\ l \in tracked
  /\ lanes' = [lanes EXCEPT ![l].status = "cancelled"]
  /\ tracked' = tracked \ {l}
  /\ UNCHANGED <<stored, listed, nodeUp>>

\* The node stops: the manager's teardown() cancels every lane it tracks.
StopNode ==
  /\ nodeUp
  /\ nodeUp' = FALSE
  /\ lanes' = [l \in LaneIds |-> IF l \in tracked
                                 THEN [lanes[l] EXCEPT !.status = "cancelled"] ELSE lanes[l]]
  /\ UNCHANGED <<tracked, stored, listed>>

-----------------------------------------------------------------------------
(* execute().                                                              *)

Execute(l) ==
  /\ lanes[l].at = "created"
  /\ lanes' = [lanes EXCEPT ![l].at = "pinging", ![l].status = "preflight"]
  /\ UNCHANGED <<tracked, stored, listed, nodeUp>>

\* loop() begins: the lane is running, and its first capability starts.
PreflightAnswered(l) ==
  /\ lanes[l].at = "pinging"
  /\ lanes' = [lanes EXCEPT ![l].at = "thinking", ![l].status = "running", ![l].cycles = 1]
  /\ UNCHANGED <<tracked, stored, listed, nodeUp>>

\* execute() goes on to postflight() whether the loop returned or threw; the
\* status FAILED of a lane that threw is overwritten in the same turn.
Postflight(l, result) ==
  /\ lanes' = [lanes EXCEPT ![l].at = "sealing", ![l].status = "postflight",
                            ![l].result = result]
  /\ UNCHANGED <<tracked, stored, listed, nodeUp>>

PreflightFails(l) == lanes[l].at = "pinging" /\ Postflight(l, "error")

\* A capability that throws yields a result with an error, and the lane goes on.
CapabilityEnds(l, stop) ==
  /\ lanes[l].at = "thinking"
  /\ lanes' = [lanes EXCEPT ![l].at = IF stop THEN "emittingLast" ELSE "emitting"]
  /\ UNCHANGED <<tracked, stored, listed, nodeUp>>

\* Mutant: the loop looks at the count of cycles only.
GoesOnUncancelled(l) == lanes[l].cycles < MaxCycles

GoesOn(l) == lanes[l].cycles < MaxCycles /\ lanes[l].status = "running"

\* Mutant: the loop does not count its cycles.
EmittedUncounted(l) ==
  \/ lanes[l].at = "emittingLast" /\ Postflight(l, "stopped")
  \/ /\ lanes[l].at = "emitting"
     /\ IF GoesOn(l)
        THEN /\ lanes' = [lanes EXCEPT ![l].at = "thinking"]
             /\ UNCHANGED <<tracked, stored, listed, nodeUp>>
        ELSE Postflight(l, "none")

Emitted(l) ==
  \/ lanes[l].at = "emittingLast" /\ Postflight(l, "stopped")
  \/ /\ lanes[l].at = "emitting"
     /\ IF GoesOn(l)
        THEN /\ lanes' = [lanes EXCEPT ![l].at = "thinking", ![l].cycles = @ + 1]
             /\ UNCHANGED <<tracked, stored, listed, nodeUp>>
        ELSE Postflight(l, "none")

\* The stream that the chunk is written to is closed.
EmitFails(l) == lanes[l].at \in {"emitting", "emittingLast"} /\ Postflight(l, "none")

Finished(l, status) == lanes' = [lanes EXCEPT ![l].at = "done", ![l].status = status]

\* The CID is computed; a node that is no longer RUNNING stores nothing.
Sealed(l) ==
  /\ lanes[l].at = "sealing"
  /\ IF nodeUp THEN lanes' = [lanes EXCEPT ![l].at = "storing"]
               ELSE Finished(l, "completed")
  /\ UNCHANGED <<tracked, stored, listed, nodeUp>>

Put(l) == stored' = [stored EXCEPT ![lanes[l].intent] = l]

\* A lane with a result that asks for it goes on to the startup configuration.
Stored(l) ==
  /\ lanes[l].at = "storing"
  /\ Put(l)
  /\ \/ lanes' = [lanes EXCEPT ![l].cid = TRUE, ![l].at = "done", ![l].status = "completed"]
     \/ lanes' = [lanes EXCEPT ![l].cid = TRUE, ![l].at = "persisting"]
  /\ UNCHANGED <<tracked, listed, nodeUp>>

\* The call fails, before or after the storage has written the sequence.
StoreFails(l) ==
  /\ lanes[l].at = "storing"
  /\ Put(l) \/ UNCHANGED stored
  /\ Finished(l, "completed")
  /\ UNCHANGED <<tracked, listed, nodeUp>>

Persisted(l) ==
  /\ lanes[l].at = "persisting"
  /\ listed' = listed \cup {lanes[l].intent} \/ UNCHANGED listed
  /\ Finished(l, "completed")
  /\ UNCHANGED <<tracked, stored, nodeUp>>

-----------------------------------------------------------------------------
(* replay().                                                               *)

Replay(l) ==
  /\ lanes[l].at = "created"
  /\ lanes' = [lanes EXCEPT ![l].at = "loading", ![l].status = "running"]
  /\ UNCHANGED <<tracked, stored, listed, nodeUp>>

ReplayFinished(l) ==
  lanes' = [lanes EXCEPT ![l].at = "done", ![l].status = "completed", ![l].result = "replayed"]

\* The stored steps run one after the other, up to a STOP; those that are
\* only copied take no time.
ReplayGoesOn(l) ==
  /\ lanes[l].at \in {"loading", "replaying"}
  /\ lanes[l].at = "loading" => stored[lanes[l].intent] # NoLane
  /\ \/ ReplayFinished(l)
     \/ /\ lanes[l].cycles < MaxCycles
        /\ lanes' = [lanes EXCEPT ![l].at = "replaying", ![l].cycles = @ + 1]
  /\ UNCHANGED <<tracked, stored, listed, nodeUp>>

ReplayFails(l) ==
  /\ lanes[l].at = "loading"
  /\ Finished(l, "failed")
  /\ UNCHANGED <<tracked, stored, listed, nodeUp>>

-----------------------------------------------------------------------------
Step(l) ==
  \/ Execute(l) \/ PreflightAnswered(l) \/ PreflightFails(l)
  \/ (\E stop \in BOOLEAN : CapabilityEnds(l, stop)) \/ Emitted(l) \/ EmitFails(l)
  \/ Sealed(l) \/ Stored(l) \/ StoreFails(l) \/ Persisted(l)
  \/ Replay(l) \/ ReplayGoesOn(l) \/ ReplayFails(l)

Next ==
  \/ \E l \in LaneIds : CreateLane(l) \/ Cancel(l) \/ CancelLane(l) \/ Step(l)
  \/ StopNode

Spec == Init /\ [][Next]_vars

\* Calls to other nodes are answered, one way or the other.
FairSpec == Spec /\ \A l \in LaneIds : WF_vars(Step(l))

-----------------------------------------------------------------------------
(* Properties that hold.                                                   *)

\* A lane that is cancelled while it loops starts no further capability.
LoopHonoursCancel ==
  [][\A l \in LaneIds : Looping(l) /\ lanes[l].status = "cancelled"
       => lanes'[l].cycles = lanes[l].cycles]_vars

\* A lane that has ended, on whatever path, is not reported as under way.
EndedIsSettled ==
  \A l \in LaneIds : Ended(l) => lanes[l].status \in {"completed", "failed", "cancelled"}

\* The startup configuration lists only lanes that the storage can replay.
ListedIsStored == \A i \in listed : stored[i] # NoLane

\* A lane that was begun ends.
LaneEnds == \A l \in LaneIds : (lanes[l].at = "created") ~> Ended(l)

-----------------------------------------------------------------------------
(* What the source says of the code and the code does not do.              *)

\* "Cancel lane execution." (README.md:549): no capability starts after it.
CancelledStartsNothing ==
  [][\A l \in LaneIds : lanes[l].status = "cancelled"
       => lanes'[l].cycles = lanes[l].cycles]_vars
=============================================================================
