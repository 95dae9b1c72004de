--------------------------- MODULE LaneWorkProofs ----------------------------
(***************************************************************************)
(* Proofs about the parts of LaneWork: lanes, for any number of lanes and  *)
(* intents and any limits; saved lanes, for any lanes, CIDs and starts;    *)
(* approvals, for any executions and tasks.                                *)
(***************************************************************************)
EXTENDS LaneWork, Sequences, Functions, TLAPS

-----------------------------------------------------------------------------
(* Lanes.                                                                  *)

\* A lane that waits for the configuration has been stored.
PersistingIsStored ==
  \A l \in LaneIds : lanes[l].at = "persisting" => stored[lanes[l].intent] # NoLane

IInv == TypeOK /\ EndedIsSettled /\ ListedIsStored /\ PersistingIsStored

-----------------------------------------------------------------------------

\* The initial states satisfy the invariant.
LEMMA InitIInv == Init => IInv
<1> SUFFICES ASSUME Init PROVE IInv
  OBVIOUS
<1>1. nodeUp \in BOOLEAN
  BY Zenon DEF Init
<1> DEFINE Fresh == {[status |-> "pending", at |-> "none", cycles |-> 0, intent |-> i,
                     result |-> "none", cid |-> FALSE] : i \in Intents}
<1>2. \A after \in Fresh : after \in Lane /\ after.at = "none"
  <2>1. ASSUME NEW i \in Intents
        PROVE  [status |-> "pending", at |-> "none", cycles |-> 0, intent |-> i,
                result |-> "none", cid |-> FALSE] \in Lane
    <3>1. FALSE \in BOOLEAN /\ 0 \in 0..MaxCycles
      BY LanesAssumption
    <3> QED BY <3>1 DEF Lane, Status, At
  <2> QED BY <2>1
<1>3. lanes \in [LaneIds -> Fresh]
  BY DEF Init
<1> HIDE DEF Fresh
<1>4. lanes \in [LaneIds -> Lane] /\ \A l \in LaneIds : lanes[l].at = "none"
  BY <1>2, <1>3
<1> QED BY <1>1, <1>4 DEF Init, IInv, TypeOK, EndedIsSettled, Ended, ListedIsStored,
                          PersistingIsStored

\* What each step of a lane must show: the lane it leaves behind is well
\* typed, and the storage loses nothing.
LEMMA LaneChanges ==
  ASSUME IInv, NEW l \in LaneIds, NEW after \in Lane,
         lanes' = [lanes EXCEPT ![l] = after],
         after.at = "done" => after.status \in {"completed", "failed", "cancelled"},
         after.at = "persisting" => stored'[after.intent] # NoLane,
         stored' \in [Intents -> LaneIds \cup {NoLane}],
         \A i \in Intents : stored[i] # NoLane => stored'[i] # NoLane,
         listed' \subseteq Intents,
         \A i \in listed' : i \in listed \/ stored[i] # NoLane,
         tracked' \subseteq LaneIds, nodeUp' = nodeUp
  PROVE  IInv'
<1>1. TypeOK'
  BY DEF IInv, TypeOK
<1>2. \A k \in LaneIds : lanes'[k] = IF k = l THEN after ELSE lanes[k]
  BY DEF IInv, TypeOK
<1>3. EndedIsSettled'
  BY <1>2 DEF IInv, EndedIsSettled, Ended
<1>4. ListedIsStored'
  BY DEF IInv, TypeOK, ListedIsStored
<1>5. PersistingIsStored'
  BY <1>2 DEF IInv, TypeOK, Lane, PersistingIsStored
<1> QED BY <1>1, <1>3, <1>4, <1>5 DEF IInv

\* The fields of a lane that a step of it leaves alone.
LEMMA LaneType == ASSUME IInv, NEW l \in LaneIds PROVE lanes[l] \in Lane
BY DEF IInv, TypeOK

\* What a lane does after its loop keeps the invariant.
LEMMA PostflightIInv ==
  ASSUME IInv, NEW l \in LaneIds, NEW result \in {"none", "stopped", "error"},
         Postflight(l, result)
  PROVE  IInv'
<1> DEFINE after == [lanes[l] EXCEPT !.at = "sealing", !.status = "postflight", !.result = result]
<1>1. after \in Lane /\ after.at = "sealing"
  BY LaneType DEF Lane, At, Status
<1>2. lanes' = [lanes EXCEPT ![l] = after] /\ UNCHANGED <<tracked, stored, listed, nodeUp>>
  BY DEF Postflight
<1> HIDE DEF after
<1> QED BY <1>1, <1>2, LaneChanges DEF IInv, TypeOK

-----------------------------------------------------------------------------
\* A step that only moves a lane on, without touching the storage.
LEMMA MoveIInv ==
  ASSUME IInv, NEW l \in LaneIds, NEW after \in Lane,
         lanes' = [lanes EXCEPT ![l] = after],
         after.at = "done" => after.status \in {"completed", "failed", "cancelled"},
         after.at = "persisting" => stored[after.intent] # NoLane,
         tracked' \subseteq LaneIds, UNCHANGED <<stored, listed, nodeUp>>
  PROVE  IInv'
BY LaneChanges DEF IInv, TypeOK

\* So does cancelling a lane, whoever forgets it meanwhile.
LEMMA CancelIInv ==
  ASSUME IInv, NEW l \in LaneIds,
         lanes' = [lanes EXCEPT ![l].status = "cancelled"],
         tracked' \subseteq LaneIds, UNCHANGED <<stored, listed, nodeUp>>
  PROVE  IInv'
<1> DEFINE after == [lanes[l] EXCEPT !.status = "cancelled"]
<1>1. after \in Lane /\ after.status = "cancelled" /\ after.at = lanes[l].at
      /\ after.intent = lanes[l].intent
  BY LaneType DEF Lane, Status
<1>2. lanes' = [lanes EXCEPT ![l] = after]
  OBVIOUS
<1>3. after.at = "persisting" => stored[after.intent] # NoLane
  BY <1>1 DEF IInv, PersistingIsStored
<1> HIDE DEF after
<1> QED BY <1>1, <1>2, <1>3, MoveIInv

\* The manager's steps.
LEMMA ManagerIInv ==
  ASSUME IInv, NEW l \in LaneIds, CreateLane(l) \/ Cancel(l) \/ CancelLane(l)
  PROVE  IInv'
<1>1. CASE CreateLane(l)
  <2>1. PICK a \in {"refused", "created"} : lanes' = [lanes EXCEPT ![l].at = a]
    BY <1>1 DEF CreateLane
  <2>2. tracked' \subseteq LaneIds /\ UNCHANGED <<stored, listed, nodeUp>>
    BY <1>1 DEF CreateLane, IInv, TypeOK
  <2> DEFINE after == [lanes[l] EXCEPT !.at = a]
  <2>3. after \in Lane /\ after.at \in {"refused", "created"}
    BY LaneType DEF Lane, At
  <2>4. lanes' = [lanes EXCEPT ![l] = after]
    BY <2>1
  <2> HIDE DEF after
  <2> QED BY <2>2, <2>3, <2>4, MoveIInv
<1>2. CASE Cancel(l)
  BY <1>2, CancelIInv DEF Cancel, IInv, TypeOK
<1>3. CASE CancelLane(l)
  BY <1>3, CancelIInv DEF CancelLane, IInv, TypeOK
<1> QED BY <1>1, <1>2, <1>3

\* The node stops in the midst of anything.
LEMMA StopNodeIInv == ASSUME IInv, StopNode PROVE IInv'
<1>1. \A l \in LaneIds : /\ lanes'[l] \in Lane
                         /\ lanes'[l].at = lanes[l].at /\ lanes'[l].intent = lanes[l].intent
                         /\ lanes'[l].status \in {lanes[l].status, "cancelled"}
  BY LaneType DEF StopNode, Lane, Status
<1>2. lanes' \in [LaneIds -> Lane]
  BY <1>1 DEF StopNode
<1>3. nodeUp' \in BOOLEAN
  <2>1. nodeUp' = FALSE
    BY DEF StopNode
  <2> QED BY <2>1, Zenon
<1>4. UNCHANGED <<tracked, stored, listed>>
  BY DEF StopNode
<1> QED BY <1>1, <1>2, <1>3, <1>4
        DEF IInv, TypeOK, EndedIsSettled, Ended, ListedIsStored, PersistingIsStored

-----------------------------------------------------------------------------
\* The steps up to postflight().
LEMMA ExecuteIInv ==
  ASSUME IInv, NEW l \in LaneIds,
         \/ Execute(l) \/ PreflightAnswered(l) \/ PreflightFails(l)
         \/ (\E stop \in BOOLEAN : CapabilityEnds(l, stop)) \/ Emitted(l) \/ EmitFails(l)
  PROVE  IInv'
<1> USE LanesAssumption, LaneType
<1>1. CASE Execute(l)
  <2> DEFINE after == [lanes[l] EXCEPT !.at = "pinging", !.status = "preflight"]
  <2>1. after \in Lane /\ after.at = "pinging"
    BY DEF Lane, At, Status
  <2>2. lanes' = [lanes EXCEPT ![l] = after] /\ UNCHANGED <<tracked, stored, listed, nodeUp>>
    BY <1>1 DEF Execute
  <2> HIDE DEF after
  <2> QED BY <2>1, <2>2, MoveIInv DEF IInv, TypeOK
<1>2. CASE PreflightAnswered(l)
  <2> DEFINE after == [lanes[l] EXCEPT !.at = "thinking", !.status = "running", !.cycles = 1]
  <2>1. after \in Lane /\ after.at = "thinking"
    <3>1. 1 \in 0..MaxCycles
      OBVIOUS
    <3> QED BY <3>1 DEF Lane, At, Status
  <2>2. lanes' = [lanes EXCEPT ![l] = after] /\ UNCHANGED <<tracked, stored, listed, nodeUp>>
    BY <1>2 DEF PreflightAnswered
  <2> HIDE DEF after
  <2> QED BY <2>1, <2>2, MoveIInv DEF IInv, TypeOK
<1>3. CASE PreflightFails(l)
  BY <1>3, PostflightIInv DEF PreflightFails
<1>4. CASE \E stop \in BOOLEAN : CapabilityEnds(l, stop)
  <2>1. PICK a \in {"emitting", "emittingLast"} : lanes' = [lanes EXCEPT ![l].at = a]
    BY <1>4 DEF CapabilityEnds
  <2> DEFINE after == [lanes[l] EXCEPT !.at = a]
  <2>2. after \in Lane /\ after.at \in {"emitting", "emittingLast"}
    BY DEF Lane, At
  <2>3. lanes' = [lanes EXCEPT ![l] = after] /\ UNCHANGED <<tracked, stored, listed, nodeUp>>
    BY <1>4, <2>1 DEF CapabilityEnds
  <2> HIDE DEF after
  <2> QED BY <2>2, <2>3, MoveIInv DEF IInv, TypeOK
<1>5. CASE Emitted(l)
  <2>1. CASE Postflight(l, "stopped") \/ Postflight(l, "none")
    BY <2>1, PostflightIInv
  <2>2. CASE GoesOn(l) /\ lanes' = [lanes EXCEPT ![l].at = "thinking", ![l].cycles = @ + 1]
             /\ UNCHANGED <<tracked, stored, listed, nodeUp>>
    <3>1. PICK n \in 0..MaxCycles : n = lanes[l].cycles + 1
      BY <2>2 DEF GoesOn, Lane
    <3> DEFINE after == [lanes[l] EXCEPT !.at = "thinking", !.cycles = n]
    <3>2. after \in Lane /\ after.at = "thinking"
      BY DEF Lane, At
    <3>3. lanes' = [lanes EXCEPT ![l] = after]
      BY <2>2, <3>1
    <3> HIDE DEF after
    <3> QED BY <2>2, <3>2, <3>3, MoveIInv DEF IInv, TypeOK
  <2> QED BY <1>5, <2>1, <2>2 DEF Emitted
<1>6. CASE EmitFails(l)
  BY <1>6, PostflightIInv DEF EmitFails
<1> QED BY <1>1, <1>2, <1>3, <1>4, <1>5, <1>6

\* Finished() as a record, for the four steps that use it.
LEMMA FinishedLane ==
  ASSUME IInv, NEW l \in LaneIds, NEW status \in {"completed", "failed"}, Finished(l, status)
  PROVE  \E after \in Lane : /\ lanes' = [lanes EXCEPT ![l] = after]
                           /\ after.at = "done" /\ after.status = status
<1> DEFINE after == [lanes[l] EXCEPT !.at = "done", !.status = status]
<1>1. after \in Lane /\ after.at = "done" /\ after.status = status
  BY LaneType DEF Lane, At, Status
<1>2. lanes' = [lanes EXCEPT ![l] = after]
  BY DEF Finished
<1> HIDE DEF after
<1> QED BY <1>1, <1>2

\* postflight(): what is stored stays stored.
LEMMA StoreIInv ==
  ASSUME IInv, NEW l \in LaneIds, Sealed(l) \/ Stored(l) \/ StoreFails(l) \/ Persisted(l)
  PROVE  IInv'
<1> USE LanesAssumption
<1>0. lanes[l].intent \in Intents /\ l # NoLane
  BY LaneType DEF Lane, NoLane
<1>1. CASE Sealed(l)
  <2>1. CASE Finished(l, "completed")
    BY <1>1, <2>1, FinishedLane, MoveIInv DEF Sealed, IInv, TypeOK
  <2>2. CASE lanes' = [lanes EXCEPT ![l].at = "storing"]
    <3> DEFINE after == [lanes[l] EXCEPT !.at = "storing"]
    <3>1. after \in Lane /\ after.at = "storing"
      BY LaneType DEF Lane, At
    <3>2. lanes' = [lanes EXCEPT ![l] = after]
      BY <2>2
    <3> HIDE DEF after
    <3> QED BY <1>1, <3>1, <3>2, MoveIInv DEF Sealed, IInv, TypeOK
  <2> QED BY <1>1, <2>1, <2>2 DEF Sealed
<1>2. ASSUME Put(l)
      PROVE  /\ stored' \in [Intents -> LaneIds \cup {NoLane}]
             /\ stored'[lanes[l].intent] # NoLane
             /\ \A i \in Intents : stored[i] # NoLane => stored'[i] # NoLane
  BY <1>0, <1>2 DEF Put, IInv, TypeOK
<1>3. CASE Stored(l)
  <2>1. PICK after \in Lane :
          /\ lanes' = [lanes EXCEPT ![l] = after]
          /\ after.intent = lanes[l].intent
          /\ after.at = "persisting" \/ (after.at = "done" /\ after.status = "completed")
    <3>1. CASE lanes' = [lanes EXCEPT ![l].cid = TRUE, ![l].at = "done", ![l].status = "completed"]
      <4> DEFINE after == [lanes[l] EXCEPT !.cid = TRUE, !.at = "done", !.status = "completed"]
      <4>1. after \in Lane /\ after.at = "done" /\ after.status = "completed"
            /\ after.intent = lanes[l].intent
        BY LaneType DEF Lane, At, Status
      <4>2. lanes' = [lanes EXCEPT ![l] = after]
        BY <3>1
      <4> HIDE DEF after
      <4> QED BY <4>1, <4>2
    <3>2. CASE lanes' = [lanes EXCEPT ![l].cid = TRUE, ![l].at = "persisting"]
      <4> DEFINE after == [lanes[l] EXCEPT !.cid = TRUE, !.at = "persisting"]
      <4>1. after \in Lane /\ after.at = "persisting" /\ after.intent = lanes[l].intent
        BY LaneType DEF Lane, At
      <4>2. lanes' = [lanes EXCEPT ![l] = after]
        BY <3>2
      <4> HIDE DEF after
      <4> QED BY <4>1, <4>2
    <3> QED BY <1>3, <3>1, <3>2 DEF Stored
  <2>2. Put(l) /\ UNCHANGED <<tracked, listed, nodeUp>>
    BY <1>3 DEF Stored
  <2> QED BY <1>2, <2>1, <2>2, LaneChanges DEF IInv, TypeOK
<1>4. CASE StoreFails(l)
  <2>1. Finished(l, "completed") /\ (Put(l) \/ stored' = stored)
        /\ UNCHANGED <<tracked, listed, nodeUp>>
    BY <1>4 DEF StoreFails
  <2>2. PICK after \in Lane : /\ lanes' = [lanes EXCEPT ![l] = after]
                            /\ after.at = "done" /\ after.status = "completed"
    BY <2>1, FinishedLane
  <2> QED BY <1>2, <2>1, <2>2, LaneChanges DEF IInv, TypeOK
<1>5. CASE Persisted(l)
  <2>1. /\ lanes[l].at = "persisting" /\ Finished(l, "completed")
        /\ listed' = listed \cup {lanes[l].intent} \/ listed' = listed
        /\ UNCHANGED <<tracked, stored, nodeUp>>
    BY <1>5 DEF Persisted
  <2>2. stored[lanes[l].intent] # NoLane
    BY <2>1 DEF IInv, PersistingIsStored
  <2>3. PICK after \in Lane : /\ lanes' = [lanes EXCEPT ![l] = after]
                            /\ after.at = "done" /\ after.status = "completed"
    BY <2>1, FinishedLane
  <2> QED BY <1>0, <2>1, <2>2, <2>3, LaneChanges DEF IInv, TypeOK
<1> QED BY <1>1, <1>3, <1>4, <1>5

\* A replay, from its begin to either end.
LEMMA ReplayIInv ==
  ASSUME IInv, NEW l \in LaneIds, Replay(l) \/ ReplayGoesOn(l) \/ ReplayFails(l)
  PROVE  IInv'
<1> USE LanesAssumption, LaneType
<1>1. CASE Replay(l)
  <2> DEFINE after == [lanes[l] EXCEPT !.at = "loading", !.status = "running"]
  <2>1. after \in Lane /\ after.at = "loading"
    BY DEF Lane, At, Status
  <2>2. lanes' = [lanes EXCEPT ![l] = after] /\ UNCHANGED <<tracked, stored, listed, nodeUp>>
    BY <1>1 DEF Replay
  <2> HIDE DEF after
  <2> QED BY <2>1, <2>2, MoveIInv DEF IInv, TypeOK
<1>2. CASE ReplayGoesOn(l)
  <2>1. CASE ReplayFinished(l)
    <3> DEFINE after == [lanes[l] EXCEPT !.at = "done", !.status = "completed",
                                        !.result = "replayed"]
    <3>1. after \in Lane /\ after.at = "done" /\ after.status = "completed"
      BY DEF Lane, At, Status
    <3>2. lanes' = [lanes EXCEPT ![l] = after] /\ UNCHANGED <<tracked, stored, listed, nodeUp>>
      BY <1>2, <2>1, ZenonT(40) DEF ReplayFinished, ReplayGoesOn
    <3> HIDE DEF after
    <3> QED BY <3>1, <3>2, MoveIInv DEF IInv, TypeOK
  <2>2. CASE /\ lanes[l].cycles < MaxCycles
             /\ lanes' = [lanes EXCEPT ![l].at = "replaying", ![l].cycles = @ + 1]
    <3>1. PICK n \in 0..MaxCycles : n = lanes[l].cycles + 1
      BY <2>2 DEF Lane
    <3> DEFINE after == [lanes[l] EXCEPT !.at = "replaying", !.cycles = n]
    <3>2. after \in Lane /\ after.at = "replaying"
      BY DEF Lane, At
    <3>3. lanes' = [lanes EXCEPT ![l] = after] /\ UNCHANGED <<tracked, stored, listed, nodeUp>>
      BY <1>2, <2>2, <3>1 DEF ReplayGoesOn
    <3> HIDE DEF after
    <3> QED BY <3>2, <3>3, MoveIInv DEF IInv, TypeOK
  <2> QED BY <1>2, <2>1, <2>2 DEF ReplayGoesOn
<1>3. CASE ReplayFails(l)
  BY <1>3, FinishedLane, MoveIInv DEF ReplayFails, IInv, TypeOK
<1> QED BY <1>1, <1>2, <1>3

\* Every step of the lanes keeps the invariant.
LEMMA NextIInv == IInv /\ [Next]_vars => IInv'
<1> SUFFICES ASSUME IInv, [Next]_vars PROVE IInv'
  OBVIOUS
<1>1. CASE StopNode
  BY <1>1, StopNodeIInv
<1>2. ASSUME NEW l \in LaneIds, CreateLane(l) \/ Cancel(l) \/ CancelLane(l) \/ Step(l)
      PROVE  IInv'
  BY <1>2, ManagerIInv, ExecuteIInv, StoreIInv, ReplayIInv DEF Step
<1>3. CASE UNCHANGED vars
  BY <1>3 DEF vars, IInv, TypeOK, EndedIsSettled, Ended, ListedIsStored, PersistingIsStored
<1> QED BY <1>1, <1>2, <1>3 DEF Next

\* The invariant holds in every state.
LEMMA InductiveInvariant == Spec => []IInv
BY InitIInv, NextIInv, PTL DEF Spec

-----------------------------------------------------------------------------
\* No lane runs more than MaxCycles capabilities, and every field keeps its
\* type, through cancellation, failure and the stop of the node.
THEOREM TypeCorrect == Spec => []TypeOK
<1>1. IInv => TypeOK
  BY DEF IInv
<1> QED BY <1>1, InductiveInvariant, PTL

\* Every path through execute() and replay() ends in a final status.
THEOREM EndsSettled == Spec => []EndedIsSettled
<1>1. IInv => EndedIsSettled
  BY DEF IInv
<1> QED BY <1>1, InductiveInvariant, PTL

\* The startup configuration never lists a CID the storage does not hold.
THEOREM ListedStored == Spec => []ListedIsStored
<1>1. IInv => ListedIsStored
  BY DEF IInv
<1> QED BY <1>1, InductiveInvariant, PTL

\* Cancellation takes effect in the loop, whatever the capability in flight
\* returns: no step of any lane, and no step of the manager, starts another.
THEOREM CancelHonoured == Spec => LoopHonoursCancel
<1> DEFINE A == \A l \in LaneIds : Looping(l) /\ lanes[l].status = "cancelled"
                                   => lanes'[l].cycles = lanes[l].cycles
<1>1. IInv /\ [Next]_vars => [A]_vars
  <2> SUFFICES ASSUME IInv, [Next]_vars, NEW l \in LaneIds, Looping(l),
                      lanes[l].status = "cancelled"
               PROVE  lanes'[l].cycles = lanes[l].cycles
    BY DEF A
  <2>1. lanes \in [LaneIds -> Lane]
    BY DEF IInv, TypeOK
  <2>2. ASSUME NEW k \in LaneIds, CreateLane(k) \/ Cancel(k) \/ CancelLane(k)
        PROVE  lanes'[l].cycles = lanes[l].cycles
    BY <2>1, <2>2 DEF CreateLane, Cancel, CancelLane, Lane
  <2>3. ASSUME NEW k \in LaneIds, Step(k)
        PROVE  lanes'[l].cycles = lanes[l].cycles
    <3> USE <2>1
    <3>0. ASSUME NEW result, Postflight(k, result)
          PROVE  lanes'[l].cycles = lanes[l].cycles
      BY <3>0 DEF Postflight
    <3>1. CASE Execute(k) \/ PreflightAnswered(k) \/ \E stop \in BOOLEAN : CapabilityEnds(k, stop)
      <4>1. CASE Execute(k)
        BY <4>1 DEF Execute
      <4>2. CASE PreflightAnswered(k)
        BY <4>2 DEF Looping, PreflightAnswered
      <4>3. CASE \E stop \in BOOLEAN : CapabilityEnds(k, stop)
        BY <4>3 DEF CapabilityEnds
      <4> QED BY <3>1, <4>1, <4>2, <4>3
    <3>2. CASE PreflightFails(k) \/ Emitted(k) \/ EmitFails(k)
      <4>1. CASE lanes[k].at = "emitting" /\ GoesOn(k)
                 /\ lanes' = [lanes EXCEPT ![k].at = "thinking", ![k].cycles = @ + 1]
        <5>1. k # l
          BY <4>1 DEF GoesOn
        <5> QED BY <4>1, <5>1
      <4> QED BY <3>0, <3>2, <4>1 DEF PreflightFails, Emitted, EmitFails
    <3>3. CASE Sealed(k) \/ Stored(k) \/ StoreFails(k) \/ Persisted(k)
      <4>1. CASE Sealed(k)
        BY <4>1 DEF Lane, Sealed, Finished
      <4>2. CASE Stored(k)
        BY <4>2 DEF Lane, Stored
      <4>3. CASE StoreFails(k) \/ Persisted(k)
        BY <4>3 DEF Lane, StoreFails, Persisted, Finished
      <4> QED BY <3>3, <4>1, <4>2, <4>3
    <3>4. CASE Replay(k) \/ ReplayGoesOn(k) \/ ReplayFails(k)
      <4>1. CASE Replay(k)
        BY <4>1 DEF Replay
      <4>2. CASE ReplayGoesOn(k)
        <5>1. k # l
          BY <4>2 DEF Looping, ReplayGoesOn
        <5>2. CASE ReplayFinished(k)
          BY <5>1, <5>2 DEF ReplayFinished
        <5>3. CASE lanes' = [lanes EXCEPT ![k].at = "replaying", ![k].cycles = @ + 1]
          BY <5>1, <5>3
        <5> QED BY <4>2, <5>2, <5>3 DEF ReplayGoesOn
      <4>3. CASE ReplayFails(k)
        BY <4>3 DEF ReplayFails, Finished
      <4> QED BY <3>4, <4>1, <4>2, <4>3
    <3> QED BY <2>3, <3>1, <3>2, <3>3, <3>4 DEF Step
  <2>4. CASE StopNode
    BY <2>1, <2>4 DEF StopNode, Lane
  <2>5. CASE UNCHANGED vars
    BY <2>5 DEF vars
  <2> QED BY <2>2, <2>3, <2>4, <2>5 DEF Next
<1> QED BY <1>1, InductiveInvariant, PTL DEF Spec, LoopHonoursCancel

-----------------------------------------------------------------------------
(* Saved lanes.                                                            *)

SavingTypes ==
  /\ config \in Saving!Entry
  /\ lane \in [Lanes -> [stage : {"running", "stored", "adding", "writing", "done", "failed"},
                         copy : Saving!Entry]]
  /\ edit \in [stage : {"idle", "metadata", "writing"}, copy : Saving!Entry]
  /\ edit.stage = "metadata" => edit.copy = Saving!Absent
  /\ excused \in BOOLEAN
  /\ queue \in Seq(Cids) /\ replayed \in Seq(Cids) /\ kept \subseteq Cids

\* No list of lanes ever names a CID twice: not the stored one, and none of
\* the copies that somebody works on.
ListsAreSets ==
  /\ IsInjective(config.lanes)
  /\ IsInjective(edit.copy.lanes)
  /\ \A l \in Lanes : IsInjective(lane[l].copy.lanes)

\* What was replayed does not come again.
QueueIsAhead ==
  /\ os = "loading" => replayed = <<>>
  /\ IsInjective(queue) /\ IsInjective(replayed)
  /\ \A i \in DOMAIN queue, j \in DOMAIN replayed : queue[i] # replayed[j]

Busy(l) == lane[l].stage \in {"adding", "writing"}

\* Without an excuse one lane or one edit works on a copy.  That of a lane is as
\* good as the configuration itself, which is torn while somebody writes.
CopiesAreCurrent ==
  ~excused =>
    /\ edit.stage # "metadata"
    /\ edit.stage = "writing" => \A l \in Lanes : ~Busy(l)
    /\ \A l, m \in Lanes : Busy(l) /\ Busy(m) => l = m
    /\ \A l \in Lanes : lane[l].stage = "adding" => lane[l].copy = Saving!Loaded(TRUE)
    /\ \A l \in Lanes : lane[l].stage = "writing" => CidOf[l] \in Saving!ToSet(lane[l].copy.lanes)
    /\ edit.stage = "writing" \/ Saving!Writers # {} =>
         (Saving!WritesFiles => config = Saving!Torn)

OnceInv == SavingTypes /\ ListsAreSets /\ QueueIsAhead
KeptIInv   == SavingTypes /\ CopiesAreCurrent /\ AcknowledgedIsKept

-----------------------------------------------------------------------------
\* What os-config reads and writes is an entry.
LEMMA LoadedType ==
  ASSUME config \in Saving!Entry, NEW ok \in BOOLEAN
  PROVE  Saving!Loaded(ok) \in Saving!Entry
BY DEF Saving!Loaded, Saving!Failure, Saving!Entry

\* Adding a CID to a configuration gives a configuration.
LEMMA WithLaneType ==
  ASSUME NEW c \in Saving!Entry, NEW cid \in Cids
  PROVE  Saving!WithLane(c, cid) \in Saving!Entry
BY DEF Saving!WithLane, Saving!Entry

\* A cid is added once, and nothing that was there goes.
LEMMA WithLaneHolds ==
  ASSUME NEW c \in Saving!Entry, NEW cid \in Cids
  PROVE  Saving!ToSet(Saving!WithLane(c, cid).lanes) = Saving!ToSet(c.lanes) \cup {cid}
<1>1. CASE cid \in Saving!ToSet(c.lanes)
  BY <1>1 DEF Saving!WithLane
<1>2. CASE cid \notin Saving!ToSet(c.lanes)
  <2>1. Saving!WithLane(c, cid).lanes = Append(c.lanes, cid) /\ c.lanes \in Seq(Cids)
    BY <1>2 DEF Saving!WithLane, Saving!Entry
  <2> QED BY <2>1 DEF Saving!ToSet
<1> QED BY <1>1, <1>2

\* It names no CID twice if the one before did not.
LEMMA WithLaneInjective ==
  ASSUME NEW c \in Saving!Entry, NEW cid \in Cids, IsInjective(c.lanes)
  PROVE  IsInjective(Saving!WithLane(c, cid).lanes)
<1>1. CASE cid \in Saving!ToSet(c.lanes)
  BY <1>1 DEF Saving!WithLane
<1>2. CASE cid \notin Saving!ToSet(c.lanes)
  <2>1. Saving!WithLane(c, cid).lanes = Append(c.lanes, cid) /\ c.lanes \in Seq(Cids)
    BY <1>2 DEF Saving!WithLane, Saving!Entry
  <2> QED BY <1>2, <2>1 DEF Saving!ToSet, IsInjective
<1> QED BY <1>1, <1>2

-----------------------------------------------------------------------------

\* The initial states satisfy both invariants.
LEMMA InitSaving == Saving!Init => OnceInv /\ KeptIInv
<1> SUFFICES ASSUME Saving!Init PROVE OnceInv /\ KeptIInv
  OBVIOUS
<1>0. Saving!Absent \in Saving!Entry /\ Saving!Absent.lanes = <<>>
  BY DEF Saving!Absent, Saving!Entry
<1>1. SavingTypes
  <2>1. lane \in [Lanes -> [stage : {"running", "stored", "adding", "writing", "done", "failed"},
                            copy : Saving!Entry]]
    BY <1>0 DEF Saving!Init
  <2>2. edit \in [stage : {"idle", "metadata", "writing"}, copy : Saving!Entry]
        /\ edit.stage # "metadata"
    BY <1>0 DEF Saving!Init, Saving!NoEdit
  <2>3. config \in Saving!Entry /\ queue \in Seq(Cids) /\ replayed \in Seq(Cids) /\ kept \subseteq Cids
    BY <1>0 DEF Saving!Init
  <2>4. excused \in BOOLEAN
    BY Zenon DEF Saving!Init
  <2> QED BY <2>1, <2>2, <2>3, <2>4 DEF SavingTypes
<1>2. ListsAreSets /\ QueueIsAhead
  BY <1>0 DEF Saving!Init, ListsAreSets, QueueIsAhead, IsInjective, Saving!NoEdit
<1>3. CopiesAreCurrent /\ AcknowledgedIsKept
  <2>1. Saving!Writers = {} /\ edit.stage = "idle" /\ kept = {} /\ \A l \in Lanes : ~Busy(l)
    BY DEF Saving!Init, Saving!NoEdit, Saving!Writers, Busy
  <2> QED BY <2>1 DEF CopiesAreCurrent, AcknowledgedIsKept, Saving!AcknowledgedIsKept, Busy
<1> QED BY <1>1, <1>2, <1>3 DEF OnceInv, KeptIInv

\* Every step keeps the types.
LEMMA SavingTypesKept ==
  ASSUME SavingTypes, [Saving!Next]_Saving!vars
  PROVE  SavingTypes'
<1> USE LaneWorkAssumption DEF SavingTypes
<1>absent. Saving!Absent \in Saving!Entry
  BY DEF Saving!Absent, Saving!Entry
<1>1. ASSUME NEW l \in Lanes, NEW ok \in BOOLEAN, Saving!Store(l, ok)
      PROVE  SavingTypes'
  BY <1>1, <1>absent DEF Saving!Store, Saving!Stage
<1>2. ASSUME NEW l \in Lanes, NEW ok \in BOOLEAN, Saving!AddLaneReads(l, ok)
      PROVE  SavingTypes'
  BY <1>2, LoadedType DEF Saving!AddLaneReads, Saving!Stage
<1>torn. Saving!Torn \in Saving!Entry
  BY DEF Saving!Torn, Saving!Entry
<1>written. ASSUME NEW c \in Saving!Entry, NEW alone, Saving!Written(c, alone)
            PROVE  config' \in Saving!Entry
  BY <1>written, <1>absent, <1>torn DEF Saving!Written
<1>3. ASSUME NEW l \in Lanes, NEW ok \in BOOLEAN, Saving!AddLaneWrites(l, ok)
      PROVE  SavingTypes'
  <2> DEFINE new == Saving!WithLane(lane[l].copy, CidOf[l])
  <2>1. CidOf[l] \in Cids /\ new \in Saving!Entry
    BY WithLaneType
  <2>2. /\ \/ lane' = [lane EXCEPT ![l] = [stage |-> "writing", copy |-> new]]
           \/ lane' = [lane EXCEPT ![l] = [stage |-> "done", copy |-> Saving!Absent]]
        /\ config' \in {config, Saving!Torn}
        /\ kept' \in {kept, kept \cup {CidOf[l]}} /\ excused' \in {excused, TRUE}
        /\ UNCHANGED <<edit, queue, replayed>>
    <3> HIDE DEF SavingTypes
    <3>1. CASE new # lane[l].copy /\ ok
      BY <1>3, <3>1 DEF Saving!AddLaneWrites, Saving!Stage, Saving!Opened
    <3>2. CASE ~(new # lane[l].copy /\ ok)
      BY <1>3, <3>2 DEF Saving!AddLaneWrites, Saving!Stage, Saving!LostWrite
    <3> QED BY <3>1, <3>2
  <2> HIDE DEF new
  <2>3. lane' \in [Lanes -> [stage : {"running", "stored", "adding", "writing", "done", "failed"},
                             copy : Saving!Entry]]
    <3>1. CASE lane' = [lane EXCEPT ![l] = [stage |-> "writing", copy |-> new]]
      BY <2>1, <3>1
    <3>2. CASE lane' = [lane EXCEPT ![l] = [stage |-> "done", copy |-> Saving!Absent]]
      BY <1>absent, <3>2
    <3> QED BY <2>2, <3>1, <3>2
  <2>4. config' \in Saving!Entry /\ kept' \subseteq Cids /\ excused' \in BOOLEAN
    BY <1>torn, <2>1, <2>2
  <2> QED BY <2>2, <2>3, <2>4
<1>10. ASSUME NEW l \in Lanes, NEW ok \in BOOLEAN, Saving!AddLaneIsWritten(l, ok)
       PROVE  SavingTypes'
  <2>1. CidOf[l] \in Cids /\ lane[l].copy \in Saving!Entry
    OBVIOUS
  <2>2. config' \in Saving!Entry
    BY <1>10, <1>written, <2>1 DEF Saving!AddLaneIsWritten, Saving!LostWrite
  <2> QED BY <1>10, <1>absent, <2>1, <2>2 DEF Saving!AddLaneIsWritten, Saving!Stage, Saving!LostWrite
<1>11. ASSUME NEW ok \in BOOLEAN, Saving!EditIsWritten(ok)
       PROVE  SavingTypes'
  <2>1. config' \in Saving!Entry
    BY <1>11, <1>written DEF Saving!EditIsWritten, Saving!LostWrite
  <2> QED BY <1>11, <1>absent, <2>1 DEF Saving!EditIsWritten, Saving!NoEdit, Saving!LostWrite
<1>12. ASSUME NEW s \in Given, Saving!SaveConfig(s)
       PROVE  SavingTypes'
  <2>1. [is |-> "configuration", lanes |-> s] \in Saving!Entry
    BY DEF Saving!Entry
  <2>2. config' \in Saving!Entry
    BY <1>12, <1>torn DEF Saving!SaveConfig, Saving!Opened
  <2> QED BY <1>12, <2>1, <2>2 DEF Saving!SaveConfig
<1>4. ASSUME NEW ok \in BOOLEAN, Saving!GetLanes(ok)
      PROVE  SavingTypes'
  <2>1. Saving!Loaded(ok).lanes \in Seq(Cids)
    BY LoadedType DEF Saving!Entry
  <2> QED BY <1>4, <2>1 DEF Saving!GetLanes
<1>5. ASSUME NEW ok \in BOOLEAN, Saving!Replay(ok)
      PROVE  SavingTypes'
  BY <1>5 DEF Saving!Replay
<1>6. ASSUME NEW ok \in BOOLEAN, Saving!UpdateMetadataWrites(ok)
      PROVE  SavingTypes'
  <2>1. [edit.copy EXCEPT !.is = "configuration"] \in Saving!Entry
    BY DEF Saving!Entry
  <2>2. config' \in Saving!Entry
    BY <1>6, <1>torn DEF Saving!UpdateMetadataWrites, Saving!Opened, Saving!LostWrite
  <2>3. /\ edit' \in [stage : {"idle", "writing"}, copy : Saving!Entry]
        /\ excused' \in {excused, TRUE}
        /\ UNCHANGED <<lane, queue, replayed, kept>>
    <3> DEFINE new == [edit.copy EXCEPT !.is = "configuration"]
    <3>1. CASE ok
      <4>1. edit' = [stage |-> "writing", copy |-> new] /\ UNCHANGED <<excused, lane, queue, replayed, kept>>
        BY <1>6, <3>1 DEF Saving!UpdateMetadataWrites
      <4> HIDE DEF new
      <4> QED BY <2>1, <4>1 DEF new
    <3>2. CASE ~ok
      BY <1>6, <1>absent, <3>2 DEF Saving!UpdateMetadataWrites, Saving!NoEdit, Saving!LostWrite
    <3> QED BY <3>1, <3>2
  <2>4. edit' \in [stage : {"idle", "metadata", "writing"}, copy : Saving!Entry]
        /\ edit'.stage # "metadata"
    BY <2>3
  <2> QED BY <2>2, <2>3, <2>4
<1>7. CASE Saving!OSStops
  BY <1>7, <1>absent DEF Saving!OSStops, Saving!NoEdit
<1>8. CASE Saving!OSStarts \/ Saving!OSRuns \/ Saving!UpdateMetadataReads \/ Saving!DeleteConfig
  <2>1. CASE Saving!OSStarts
    BY <2>1 DEF Saving!OSStarts
  <2>2. CASE Saving!OSRuns
    BY <2>2 DEF Saving!OSRuns
  <2>3. CASE Saving!DeleteConfig
    BY <2>3, <1>absent DEF Saving!DeleteConfig
  <2>4. CASE Saving!UpdateMetadataReads
    BY <2>4, <1>absent DEF Saving!UpdateMetadataReads
  <2> QED BY <1>8, <2>1, <2>2, <2>3, <2>4
<1>9. CASE UNCHANGED Saving!vars \/ \E cid \in Cids : Saving!RemoveLane(cid)
  BY <1>9 DEF Saving!RemoveLane, Saving!vars
<1> QED BY <1>1, <1>2, <1>3, <1>4, <1>5, <1>6, <1>7, <1>8, <1>9, <1>10, <1>11, <1>12
        DEF Saving!Next

\* Every step keeps the first invariant.
LEMMA NextReplay == OnceInv /\ [Saving!Next]_Saving!vars => OnceInv'
<1> SUFFICES ASSUME OnceInv, [Saving!Next]_Saving!vars
             PROVE  ListsAreSets' /\ QueueIsAhead'
  BY SavingTypesKept DEF OnceInv
<1> USE LaneWorkAssumption DEF OnceInv
<1>absent. /\ IsInjective(Saving!Absent.lanes) /\ IsInjective(Saving!Failure.lanes)
           /\ IsInjective(Saving!Torn.lanes)
  BY DEF Saving!Absent, Saving!Failure, Saving!Torn, IsInjective
<1>written. ASSUME NEW c, NEW alone, Saving!Written(c, alone), IsInjective(c.lanes)
            PROVE  IsInjective(config'.lanes)
  BY <1>written, <1>absent DEF Saving!Written
<1>loaded. ASSUME NEW ok \in BOOLEAN PROVE IsInjective(Saving!Loaded(ok).lanes)
  BY <1>absent DEF Saving!Loaded, ListsAreSets
<1>1. ASSUME NEW l \in Lanes, NEW ok \in BOOLEAN, Saving!Store(l, ok)
      PROVE  ListsAreSets' /\ QueueIsAhead'
  BY <1>1, <1>absent DEF Saving!Store, Saving!Stage, SavingTypes, ListsAreSets, QueueIsAhead
<1>2. ASSUME NEW l \in Lanes, NEW ok \in BOOLEAN, Saving!AddLaneReads(l, ok)
      PROVE  ListsAreSets' /\ QueueIsAhead'
  BY <1>2, <1>loaded DEF Saving!AddLaneReads, Saving!Stage, SavingTypes, ListsAreSets,
                         QueueIsAhead
<1>3. ASSUME NEW l \in Lanes, NEW ok \in BOOLEAN, Saving!AddLaneWrites(l, ok)
      PROVE  ListsAreSets' /\ QueueIsAhead'
  <2>1. IsInjective(Saving!WithLane(lane[l].copy, CidOf[l]).lanes)
    BY WithLaneInjective DEF SavingTypes, ListsAreSets
  <2>2. config' \in {config, Saving!Torn}
    BY <1>3 DEF Saving!AddLaneWrites, Saving!Opened, Saving!LostWrite
  <2>3. /\ \/ lane' = [lane EXCEPT ![l] = [stage |-> "done", copy |-> Saving!Absent]]
           \/ lane' = [lane EXCEPT ![l] = [stage |-> "writing",
                                           copy |-> Saving!WithLane(lane[l].copy, CidOf[l])]]
        /\ UNCHANGED <<os, edit, queue, replayed>>
    BY <1>3 DEF Saving!AddLaneWrites, Saving!Stage
  <2>4. ListsAreSets'
    <3> HIDE DEF OnceInv
    <3>1. IsInjective(config'.lanes) /\ IsInjective(edit'.copy.lanes)
      BY <1>absent, <2>2, <2>3 DEF OnceInv, ListsAreSets
    <3>2. ASSUME NEW m \in Lanes PROVE IsInjective(lane'[m].copy.lanes)
      <4> DEFINE new == Saving!WithLane(lane[l].copy, CidOf[l])
      <4> HIDE DEF new
      <4>1. IsInjective(new.lanes) /\ IsInjective(lane[m].copy.lanes)
        BY <2>1 DEF new, OnceInv, ListsAreSets
      <4>2. CASE lane' = [lane EXCEPT ![l] = [stage |-> "done", copy |-> Saving!Absent]]
        BY <1>absent, <4>1, <4>2 DEF OnceInv, SavingTypes
      <4>3. CASE lane' = [lane EXCEPT ![l] = [stage |-> "writing", copy |-> new]]
        BY <4>1, <4>3 DEF OnceInv, SavingTypes
      <4> QED BY <2>3, <4>2, <4>3 DEF new
    <3> QED BY <3>1, <3>2 DEF ListsAreSets
  <2> QED BY <2>3, <2>4 DEF QueueIsAhead
<1>10. ASSUME NEW l \in Lanes, NEW ok \in BOOLEAN, Saving!AddLaneIsWritten(l, ok)
       PROVE  ListsAreSets' /\ QueueIsAhead'
  <2>1. IsInjective(config'.lanes)
    BY <1>10, <1>written DEF Saving!AddLaneIsWritten, Saving!LostWrite, ListsAreSets
  <2>2. /\ lane' = [lane EXCEPT ![l] = [stage |-> "done", copy |-> Saving!Absent]]
        /\ UNCHANGED <<os, edit, queue, replayed>>
    BY <1>10 DEF Saving!AddLaneIsWritten, Saving!Stage
  <2> QED BY <1>absent, <2>1, <2>2 DEF SavingTypes, ListsAreSets, QueueIsAhead
<1>11. ASSUME NEW ok \in BOOLEAN, Saving!EditIsWritten(ok)
       PROVE  ListsAreSets' /\ QueueIsAhead'
  <2>1. IsInjective(config'.lanes)
    BY <1>11, <1>written DEF Saving!EditIsWritten, Saving!LostWrite, ListsAreSets
  <2>2. edit'.copy = Saving!Absent /\ UNCHANGED <<lane, os, queue, replayed>>
    BY <1>11 DEF Saving!EditIsWritten, Saving!NoEdit
  <2> QED BY <1>absent, <2>1, <2>2 DEF ListsAreSets, QueueIsAhead
<1>12. ASSUME NEW s \in Given, Saving!SaveConfig(s)
       PROVE  ListsAreSets' /\ QueueIsAhead'
  <2>1. edit'.copy.lanes = s /\ config' \in {config, Saving!Torn}
        /\ UNCHANGED <<lane, os, queue, replayed>>
    BY <1>12 DEF Saving!SaveConfig, Saving!Opened
  <2>2. IsInjective(s)
    BY DEF IsInjective
  <2> QED BY <1>absent, <2>1, <2>2 DEF ListsAreSets, QueueIsAhead
<1>4. ASSUME NEW ok \in BOOLEAN, Saving!GetLanes(ok)
      PROVE  ListsAreSets' /\ QueueIsAhead'
  BY <1>4, <1>loaded DEF Saving!GetLanes, ListsAreSets, QueueIsAhead
<1>5. ASSUME NEW ok \in BOOLEAN, Saving!Replay(ok)
      PROVE  ListsAreSets' /\ QueueIsAhead'
  <2>1. ListsAreSets'
    BY <1>5 DEF Saving!Replay, ListsAreSets
  <2>2. queue \in Seq(Cids) /\ queue # <<>> /\ replayed \in Seq(Cids)
        /\ queue' = Tail(queue) /\ os' # "loading"
    BY <1>5 DEF Saving!Replay, SavingTypes
  <2>3. /\ Tail(queue) \in Seq(Cids) /\ Len(Tail(queue)) = Len(queue) - 1
        /\ \A i \in DOMAIN Tail(queue) : i + 1 \in DOMAIN queue /\ Tail(queue)[i] = queue[i + 1]
                                         /\ i + 1 # 1
        /\ 1 \in DOMAIN queue /\ Head(queue) = queue[1]
    BY <2>2
  <2>4. IsInjective(Tail(queue)) /\ \A i \in DOMAIN Tail(queue) : Tail(queue)[i] # Head(queue)
    <3>1. ASSUME NEW i \in DOMAIN Tail(queue), NEW j \in DOMAIN Tail(queue),
                 Tail(queue)[i] = Tail(queue)[j]
          PROVE  i = j
      <4>1. i + 1 = j + 1
        BY <2>3, <3>1 DEF QueueIsAhead, IsInjective
      <4> QED BY <2>3, <4>1
    <3>2. ASSUME NEW i \in DOMAIN Tail(queue)
          PROVE  Tail(queue)[i] # Head(queue)
      BY <2>3 DEF QueueIsAhead, IsInjective
    <3> QED BY <3>1, <3>2 DEF IsInjective
  <2>5. CASE replayed' = replayed
    <3>1. \A i \in DOMAIN Tail(queue), j \in DOMAIN replayed : Tail(queue)[i] # replayed[j]
      BY <2>3 DEF QueueIsAhead
    <3> QED BY <2>1, <2>2, <2>4, <2>5, <3>1, Zenon DEF QueueIsAhead
  <2>6. CASE replayed' = Append(replayed, Head(queue))
    <3>1. /\ Len(Append(replayed, Head(queue))) = Len(replayed) + 1
          /\ \A j \in DOMAIN Append(replayed, Head(queue)) :
               \/ j \in DOMAIN replayed /\ Append(replayed, Head(queue))[j] = replayed[j]
               \/ j = Len(replayed) + 1 /\ Append(replayed, Head(queue))[j] = queue[1]
      BY <2>2, <2>3
    <3>2. IsInjective(Append(replayed, Head(queue)))
      BY <2>3, <3>1 DEF QueueIsAhead, IsInjective
    <3>3. \A i \in DOMAIN Tail(queue), j \in DOMAIN Append(replayed, Head(queue)) :
            Tail(queue)[i] # Append(replayed, Head(queue))[j]
      BY <2>3, <2>4, <3>1 DEF QueueIsAhead
    <3> QED BY <2>1, <2>2, <2>4, <2>6, <3>2, <3>3, Zenon DEF QueueIsAhead
  <2> QED BY <1>5, <2>1, <2>5, <2>6 DEF Saving!Replay
<1>6. ASSUME NEW ok \in BOOLEAN, Saving!UpdateMetadataWrites(ok)
      PROVE  ListsAreSets' /\ QueueIsAhead'
  <2>1. edit'.copy.lanes = Saving!Absent.lanes /\ config' \in {config, Saving!Torn}
        /\ UNCHANGED <<lane, os, queue, replayed>>
    BY <1>6 DEF Saving!UpdateMetadataWrites, Saving!Opened, Saving!LostWrite, Saving!NoEdit,
                SavingTypes, Saving!Entry
  <2> QED BY <1>absent, <2>1 DEF ListsAreSets, QueueIsAhead
<1>7. CASE Saving!OSStops
  BY <1>7, <1>absent DEF Saving!OSStops, Saving!NoEdit, SavingTypes, ListsAreSets, QueueIsAhead,
                         IsInjective
<1>8. CASE Saving!OSStarts \/ Saving!OSRuns \/ Saving!UpdateMetadataReads \/ Saving!DeleteConfig
  BY <1>8, <1>absent DEF Saving!OSStarts, Saving!OSRuns, Saving!UpdateMetadataReads,
                         Saving!DeleteConfig, ListsAreSets, QueueIsAhead, IsInjective
<1>9. CASE UNCHANGED Saving!vars \/ \E cid \in Cids : Saving!RemoveLane(cid)
  BY <1>9 DEF Saving!RemoveLane, Saving!vars, ListsAreSets, QueueIsAhead
<1> QED BY <1>1, <1>2, <1>3, <1>4, <1>5, <1>6, <1>7, <1>8, <1>9, <1>10, <1>11, <1>12
        DEF Saving!Next

\* Whatever edits of the configuration overlap, however often a lane is
\* persisted and the instance restarted, no start replays a CID twice.
THEOREM SpecReplayedOnce == Saving!Spec => []ReplayedOnce
<1>1. OnceInv => ReplayedOnce
  <2> SUFFICES ASSUME OnceInv PROVE ReplayedOnce
    OBVIOUS
  <2>1. replayed \in Seq(Cids) /\ IsInjective(replayed)
    BY DEF OnceInv, SavingTypes, QueueIsAhead
  <2> QED BY <2>1 DEF ReplayedOnce, Saving!ReplayedOnce, IsInjective
<1> QED BY InitSaving, NextReplay, <1>1, PTL DEF Saving!Spec

\* Where the stores answer with a value, an acknowledged lane stays.
LEMMA NextKept ==
  ASSUME Saving!AnswersWithValue(Backend), KeptIInv, [Saving!Next]_Saving!vars
  PROVE  KeptIInv'
<1> SUFFICES CopiesAreCurrent' /\ AcknowledgedIsKept'
  BY SavingTypesKept DEF KeptIInv
<1> USE LaneWorkAssumption DEF KeptIInv, AcknowledgedIsKept
<1>grows. excused => excused'
  BY DEF Saving!Next, Saving!OSStarts, Saving!OSRuns, Saving!OSStops, Saving!vars,
         Saving!UpdateMetadataReads, Saving!DeleteConfig, Saving!RemoveLane, Saving!GetLanes,
         Saving!Replay, Saving!UpdateMetadataWrites, Saving!LostWrite, Saving!Store,
         Saving!AddLaneReads, Saving!AddLaneWrites, Saving!AddLaneIsWritten, Saving!SaveConfig,
         Saving!EditIsWritten
<1> SUFFICES ASSUME ~excused'
             PROVE  CopiesAreCurrent' /\ AcknowledgedIsKept'
  BY DEF CopiesAreCurrent, Saving!AcknowledgedIsKept
<1>clean. ~excused
  BY <1>grows
<1>empty. Saving!ToSet(Saving!Failure.lanes) = {} /\ Saving!ToSet(Saving!Absent.lanes) = {}
          /\ Saving!ToSet(Saving!Torn.lanes) = {}
  BY DEF Saving!ToSet, Saving!Failure, Saving!Absent, Saving!Torn
<1>1. ASSUME NEW l \in Lanes, NEW ok \in BOOLEAN, Saving!Store(l, ok)
      PROVE  CopiesAreCurrent' /\ AcknowledgedIsKept'
  <2>1. /\ lane[l].stage = "running" /\ UNCHANGED <<config, edit, kept>>
        /\ \E t \in {"stored", "failed"} :
             lane' = [lane EXCEPT ![l] = [stage |-> t, copy |-> Saving!Absent]]
    BY <1>1 DEF Saving!Store, Saving!Stage
  <2>2. /\ \A m \in Lanes : Busy(m)' => Busy(m) /\ lane'[m] = lane[m]
        /\ Saving!Writers' = Saving!Writers /\ \A m \in Saving!Writers : lane'[m] = lane[m]
    BY <2>1 DEF SavingTypes, Busy, Saving!Writers
  <2>3. Saving!Loaded(TRUE)' = Saving!Loaded(TRUE)
    BY <2>1 DEF Saving!Loaded
  <2>4. CopiesAreCurrent'
    BY <1>clean, <2>1, <2>2, <2>3 DEF CopiesAreCurrent, Busy
  <2> QED BY <1>clean, <2>1, <2>2, <2>4 DEF Saving!AcknowledgedIsKept
<1>2. ASSUME NEW l \in Lanes, NEW ok \in BOOLEAN, Saving!AddLaneReads(l, ok)
      PROVE  CopiesAreCurrent' /\ AcknowledgedIsKept'
  <2>1. ok /\ ~Saving!Overlap /\ UNCHANGED <<config, kept, edit>>
    BY <1>2 DEF Saving!AddLaneReads
  <2>2. edit.stage = "idle" /\ \A m \in Lanes : ~Busy(m)
    BY <2>1 DEF Saving!Overlap, SavingTypes, Busy
  <2>3. lane' = [lane EXCEPT ![l] = [stage |-> "adding", copy |-> Saving!Loaded(TRUE)]]
    BY <1>2, <2>1 DEF Saving!AddLaneReads, Saving!Stage
  <2>4. \A m \in Lanes : Busy(m)' => m = l
    BY <2>2, <2>3 DEF SavingTypes, Busy
  <2>5. Saving!Writers = {} /\ Saving!Writers' = {} /\ Saving!Loaded(TRUE)' = Saving!Loaded(TRUE)
    BY <2>1, <2>2, <2>3 DEF SavingTypes, Saving!Writers, Busy, Saving!Loaded
  <2>6. lane'[l].stage = "adding" /\ lane'[l].copy = Saving!Loaded(TRUE)
    BY <2>3 DEF SavingTypes
  <2>7. CopiesAreCurrent'
    BY <2>1, <2>2, <2>4, <2>5, <2>6 DEF CopiesAreCurrent, Busy
  <2> QED BY <1>clean, <2>1, <2>2, <2>5, <2>7 DEF Saving!AcknowledgedIsKept
<1>3. ASSUME NEW l \in Lanes, NEW ok \in BOOLEAN, Saving!AddLaneWrites(l, ok)
      PROVE  CopiesAreCurrent' /\ AcknowledgedIsKept'
  <2> DEFINE c   == lane[l].copy
             new == Saving!WithLane(c, CidOf[l])
  <2>1. lane[l].stage = "adding" /\ edit' = edit
    BY <1>3 DEF Saving!AddLaneWrites
  <2>2. c \in Saving!Entry /\ CidOf[l] \in Cids
    BY DEF SavingTypes
  <2>3. /\ c = Saving!Loaded(TRUE) /\ edit.stage = "idle" /\ Saving!Writers = {}
        /\ \A m \in Lanes : Busy(m) => m = l
    BY <1>clean, <2>1 DEF SavingTypes, CopiesAreCurrent, Busy, Saving!Writers
  <2>4. kept \subseteq Saving!ToSet(config.lanes)
    BY <1>clean, <2>3 DEF Saving!AcknowledgedIsKept
  <2>5. kept \subseteq Saving!ToSet(c.lanes)
    BY <1>empty, <2>3, <2>4 DEF Saving!Loaded
  <2>6. Saving!ToSet(new.lanes) = Saving!ToSet(c.lanes) \cup {CidOf[l]}
    BY <2>2, WithLaneHolds
  <2> HIDE DEF new
  <2>7. CASE new = c
    <3>1. /\ lane' = [lane EXCEPT ![l] = [stage |-> "done", copy |-> Saving!Absent]]
          /\ kept' = kept \cup {CidOf[l]} /\ config' = config
      BY <1>3, <2>7 DEF Saving!AddLaneWrites, Saving!Stage, new
    <3>2. CidOf[l] \in Saving!ToSet(c.lanes)
      BY <2>6, <2>7
    <3>3. c = config
      BY <1>empty, <2>3, <3>2 DEF Saving!Loaded
    <3>4. \A m \in Lanes : ~Busy(m)'
      BY <2>3, <3>1 DEF SavingTypes, Busy
    <3>5. Saving!Writers' = {}
      BY <3>4 DEF Saving!Writers, Busy
    <3>6. CopiesAreCurrent'
      BY <2>1, <2>3, <3>4, <3>5 DEF CopiesAreCurrent, Busy
    <3> QED BY <2>1, <2>3, <2>4, <3>1, <3>2, <3>3, <3>5, <3>6 DEF Saving!AcknowledgedIsKept
  <2>8. CASE new # c
    <3>1. ok
      BY <1>3, <2>8 DEF Saving!AddLaneWrites, Saving!LostWrite, new
    <3>2. /\ lane' = [lane EXCEPT ![l] = [stage |-> "writing", copy |-> new]]
          /\ kept' = kept /\ (Saving!WritesFiles => config' = Saving!Torn)
      BY <1>3, <2>8, <3>1 DEF Saving!AddLaneWrites, Saving!Stage, Saving!Opened, new
    <3>3. lane'[l].stage = "writing" /\ lane'[l].copy = new
      BY <3>2 DEF SavingTypes
    <3>4. \A m \in Lanes : Busy(m)' => m = l
      BY <2>3, <3>2 DEF SavingTypes, Busy
    <3>5. Saving!Writers' = {l}
      BY <3>3, <3>4 DEF Saving!Writers, Busy
    <3>6. CopiesAreCurrent'
      BY <2>1, <2>3, <2>6, <3>2, <3>3, <3>4, <3>5 DEF CopiesAreCurrent, Busy
    <3>7. kept' \subseteq Saving!ToSet(new.lanes)
      BY <2>5, <2>6, <3>2
    <3> QED BY <2>1, <2>3, <3>3, <3>5, <3>6, <3>7 DEF Saving!AcknowledgedIsKept
  <2> QED BY <2>7, <2>8
<1>alone. ASSUME NEW c, Saving!Written(c, TRUE), Saving!WritesFiles => config = Saving!Torn
          PROVE  config' = c
  BY <1>alone DEF Saving!Written, Saving!Torn, Saving!Absent
<1>10. ASSUME NEW l \in Lanes, NEW ok \in BOOLEAN, Saving!AddLaneIsWritten(l, ok)
       PROVE  CopiesAreCurrent' /\ AcknowledgedIsKept'
  <2>1. /\ lane[l].stage = "writing" /\ ok /\ edit' = edit
        /\ lane' = [lane EXCEPT ![l] = [stage |-> "done", copy |-> Saving!Absent]]
        /\ kept' = kept \cup {CidOf[l]}
        /\ Saving!Written(lane[l].copy, Saving!Writers = {l} /\ edit.stage # "writing")
    BY <1>10 DEF Saving!AddLaneIsWritten, Saving!LostWrite, Saving!Stage
  <2>2. /\ \A m \in Lanes : Busy(m) => m = l
        /\ Saving!Writers = {l} /\ edit.stage = "idle"
        /\ Saving!WritesFiles => config = Saving!Torn
        /\ CidOf[l] \in Saving!ToSet(lane[l].copy.lanes)
    BY <1>clean, <2>1 DEF SavingTypes, CopiesAreCurrent, Busy, Saving!Writers
  <2>3. config' = lane[l].copy
    <3>1. (Saving!Writers = {l} /\ edit.stage # "writing") = TRUE
      BY <2>2
    <3>2. Saving!Written(lane[l].copy, TRUE)
      BY <2>1, <3>1
    <3> QED BY <1>alone, <2>2, <3>2
  <2>4. kept \subseteq Saving!ToSet(lane[l].copy.lanes)
    BY <1>clean, <2>2 DEF Saving!AcknowledgedIsKept
  <2>5. \A m \in Lanes : ~Busy(m)'
    BY <2>1, <2>2 DEF SavingTypes, Busy
  <2>6. Saving!Writers' = {}
    BY <2>5 DEF Saving!Writers, Busy
  <2>7. CopiesAreCurrent'
    BY <2>1, <2>2, <2>5, <2>6 DEF CopiesAreCurrent, Busy
  <2> QED BY <2>1, <2>2, <2>3, <2>4, <2>6, <2>7 DEF Saving!AcknowledgedIsKept
<1>11. ASSUME NEW ok \in BOOLEAN, Saving!EditIsWritten(ok)
       PROVE  CopiesAreCurrent' /\ AcknowledgedIsKept'
  <2>1. /\ edit.stage = "writing" /\ ok /\ edit' = Saving!NoEdit
        /\ Saving!Written(edit.copy, Saving!Writers = {}) /\ UNCHANGED <<lane, kept>>
    BY <1>11 DEF Saving!EditIsWritten, Saving!LostWrite
  <2>2. /\ \A m \in Lanes : ~Busy(m)
        /\ Saving!Writers = {}
        /\ Saving!WritesFiles => config = Saving!Torn
    BY <1>clean, <2>1 DEF CopiesAreCurrent, Busy, Saving!Writers
  <2>3. config' = edit.copy
    <3>1. (Saving!Writers = {}) = TRUE
      BY <2>2
    <3>2. Saving!Written(edit.copy, TRUE)
      BY <2>1, <3>1
    <3> QED BY <1>alone, <2>2, <3>2
  <2>4. kept \subseteq Saving!ToSet(edit.copy.lanes)
    BY <1>clean, <2>1 DEF Saving!AcknowledgedIsKept
  <2>5. Saving!Writers' = {} /\ edit'.stage = "idle" /\ \A m \in Lanes : ~Busy(m)'
    BY <2>1, <2>2 DEF Saving!Writers, Saving!NoEdit, Busy
  <2>6. CopiesAreCurrent'
    BY <2>5 DEF CopiesAreCurrent, Busy
  <2> QED BY <2>1, <2>3, <2>4, <2>5, <2>6 DEF Saving!AcknowledgedIsKept
<1>12. ASSUME NEW s \in Given, Saving!SaveConfig(s)
       PROVE  CopiesAreCurrent' /\ AcknowledgedIsKept'
  <2>1. /\ ~Saving!Overlap /\ kept \subseteq Saving!ToSet(s)
        /\ edit'.stage = "writing" /\ edit'.copy.lanes = s
        /\ Saving!WritesFiles => config' = Saving!Torn
        /\ UNCHANGED <<lane, kept>>
    BY <1>12 DEF Saving!SaveConfig, Saving!Opened
  <2>2. Saving!Writers' = {} /\ \A m \in Lanes : ~Busy(m)'
    BY <2>1 DEF Saving!Overlap, Saving!Writers, Busy
  <2>3. CopiesAreCurrent'
    BY <2>1, <2>2 DEF CopiesAreCurrent, Busy
  <2> QED BY <2>1, <2>2, <2>3 DEF Saving!AcknowledgedIsKept
<1>unchanged. ASSUME UNCHANGED <<config, lane, edit, kept>>
              PROVE  CopiesAreCurrent' /\ AcknowledgedIsKept'
  <2>1. Saving!Writers' = Saving!Writers /\ Saving!Loaded(TRUE)' = Saving!Loaded(TRUE)
        /\ \A m \in Lanes : Busy(m)' <=> Busy(m)
    BY <1>unchanged DEF Saving!Writers, Saving!Loaded, Busy
  <2> QED BY <1>clean, <1>unchanged, <2>1 DEF CopiesAreCurrent, Saving!AcknowledgedIsKept
<1>4. ASSUME NEW ok \in BOOLEAN, Saving!GetLanes(ok) \/ Saving!Replay(ok)
      PROVE  CopiesAreCurrent' /\ AcknowledgedIsKept'
  BY <1>4, <1>unchanged DEF Saving!GetLanes, Saving!Replay
<1>5. ASSUME NEW ok \in BOOLEAN, Saving!UpdateMetadataWrites(ok)
      PROVE  CopiesAreCurrent' /\ AcknowledgedIsKept'
  BY <1>5, <1>clean DEF Saving!UpdateMetadataWrites, CopiesAreCurrent
<1>6. CASE Saving!OSStops
  <2>1. /\ ~Saving!Volatile(Backend) /\ config # Saving!Torn
        /\ config' = config /\ kept' = kept /\ edit'.stage = "idle"
        /\ \A m \in Lanes : ~Busy(m)'
    BY <1>6 DEF Saving!OSStops, Saving!NoEdit, Busy
  <2>2. Saving!WritesFiles
    BY <2>1 DEF Saving!Volatile, Saving!WritesFiles
  <2>3. Saving!Writers = {} /\ edit.stage # "writing"
    BY <1>clean, <2>1, <2>2 DEF CopiesAreCurrent
  <2>4. Saving!Writers' = {}
    BY <2>1 DEF Saving!Writers, Busy
  <2>5. CopiesAreCurrent'
    BY <2>1, <2>4 DEF CopiesAreCurrent, Busy
  <2> QED BY <1>clean, <2>1, <2>3, <2>4, <2>5 DEF Saving!AcknowledgedIsKept
<1>7. CASE Saving!OSStarts \/ Saving!OSRuns
  BY <1>7, <1>unchanged DEF Saving!OSStarts, Saving!OSRuns
<1>8. CASE Saving!UpdateMetadataReads \/ Saving!DeleteConfig
  BY <1>8 DEF Saving!UpdateMetadataReads, Saving!DeleteConfig
<1>9. CASE UNCHANGED Saving!vars \/ \E cid \in Cids : Saving!RemoveLane(cid)
  BY <1>9, <1>unchanged DEF Saving!RemoveLane, Saving!vars
<1> QED BY <1>1, <1>2, <1>3, <1>4, <1>5, <1>6, <1>7, <1>8, <1>9, <1>10, <1>11, <1>12
        DEF Saving!Next

\* A lane whose persistence was acknowledged stays in the configuration unless
\* there is one of the excuses, in the stores that answer with a value: the
\* disk, which is os-config's default, is not one of them.
THEOREM SpecAcknowledgedIsKept ==
  ASSUME Saving!AnswersWithValue(Backend)
  PROVE  Saving!Spec => []AcknowledgedIsKept
<1>1. KeptIInv /\ [Saving!Next]_Saving!vars => KeptIInv'
  BY NextKept
<1>2. KeptIInv => AcknowledgedIsKept
  BY DEF KeptIInv
<1> QED BY InitSaving, <1>1, <1>2, PTL DEF Saving!Spec

-----------------------------------------------------------------------------
(* Approvals.                                                              *)

ApprovingTypes ==
  /\ run \in [Runs -> [stage : Approving!Stages, task : Tasks \cup {"none"}]]
  /\ decision \in [Runs -> {"none", "approve", "always", "deny", "never", "unasked"}]
  /\ outlawed \subseteq Runs

\* Preferences are only added, so a task on the blacklist stays there, and an
\* execution that asked for it is refused without a question to anybody; what
\* is left is that the service could not be asked.
OutlawedIsRefused ==
  \A r \in outlawed :
    /\ run[r].task \in blacklist
    /\ run[r].stage \in {"requesting", "executing", "result", "error", "refused"}
    /\ run[r].stage \in {"executing", "result", "error"} => decision[r] = "unasked"

ApprovingIInv == ApprovingTypes /\ OutlawedIsRefused

\* The initial states satisfy the invariant.
LEMMA InitApproving == Approving!Init => ApprovingIInv
BY DEF Approving!Init, Approving!Idle, Approving!Stages, ApprovingIInv, ApprovingTypes,
       OutlawedIsRefused

\* Every step of an approval keeps the invariant.
LEMMA NextApproving == ApprovingIInv /\ [Approving!Next]_Approving!vars => ApprovingIInv'
<1> SUFFICES ASSUME ApprovingIInv, [Approving!Next]_Approving!vars
             PROVE  ApprovingIInv'
  OBVIOUS
<1> USE DEF ApprovingIInv, ApprovingTypes, OutlawedIsRefused, Approving!Stages,
            Approving!Goes, Approving!Decides
<1>1. ASSUME NEW r \in Runs, NEW t \in Tasks, Approving!Begin(r, t)
      PROVE  ApprovingIInv'
  BY <1>1 DEF Approving!Begin
<1>2. ASSUME NEW r \in Runs, NEW t \in Tasks, Approving!Replay(r, t)
      PROVE  ApprovingIInv'
  BY <1>2 DEF Approving!Replay
<1>3. ASSUME NEW r \in Runs, NEW noRoute \in BOOLEAN, Approving!ApprovalFails(r, noRoute)
      PROVE  ApprovingIInv'
  BY <1>3 DEF Approving!ApprovalFails
<1>4. ASSUME NEW r \in Runs, NEW ok \in BOOLEAN, Approving!ExecuteTask(r, ok)
      PROVE  ApprovingIInv'
  BY <1>4 DEF Approving!ExecuteTask
<1>5. ASSUME NEW r \in Runs, Approving!RequestApproval(r)
      PROVE  ApprovingIInv'
  <2>1. r \in outlawed => Approving!Verdict(run[r].task) = "deny"
    BY DEF Approving!Verdict
  <2>2. Approving!Verdict(run[r].task) \in {"deny", "approve", "ask"}
    BY DEF Approving!Verdict
  <2>3. CASE Approving!Verdict(run[r].task) = "deny"
    <3>1. /\ run[r].stage = "requesting" /\ run' = [run EXCEPT ![r].stage = "refused"]
          /\ decision' = [decision EXCEPT ![r] = "deny"] /\ UNCHANGED <<blacklist, outlawed>>
      BY <1>5, <2>3 DEF Approving!RequestApproval
    <3> QED BY <3>1
  <2>4. CASE Approving!Verdict(run[r].task) = "approve"
    <3>1. r \notin outlawed
      BY <2>1, <2>4
    <3> QED BY <1>5, <2>4, <3>1 DEF Approving!RequestApproval
  <2>5. CASE Approving!Verdict(run[r].task) = "ask"
    <3>1. r \notin outlawed
      BY <2>1, <2>5
    <3> QED BY <1>5, <2>5, <3>1 DEF Approving!RequestApproval
  <2> QED BY <2>2, <2>3, <2>4, <2>5
<1>6. ASSUME NEW r \in Runs, NEW words \in Approving!Words, Approving!HumanAnswers(r, words)
      PROVE  ApprovingIInv'
  <2>1. Approving!ParseApprovalResponse(words) \in {"approve", "always", "never", "deny"}
    BY DEF Approving!ParseApprovalResponse
  <2>2. r \notin outlawed
    BY <1>6 DEF Approving!HumanAnswers
  <2> QED BY <1>6, <2>1, <2>2 DEF Approving!HumanAnswers
<1>7. ASSUME NEW r \in Runs, Approving!PreferencesSaved(r)
      PROVE  ApprovingIInv'
  BY <1>7 DEF Approving!PreferencesSaved
<1>8. ASSUME NEW r \in Runs, Approving!ApprovalTimeout(r)
      PROVE  ApprovingIInv'
  BY <1>8 DEF Approving!ApprovalTimeout
<1>9. ASSUME NEW t \in Tasks, NEW p \in {"allow", "deny"}, Approving!SetPreference(t, p)
      PROVE  ApprovingIInv'
  BY <1>9 DEF Approving!SetPreference
<1>10. ASSUME NEW m, Approving!SetMode(m)
       PROVE  ApprovingIInv'
  BY <1>10 DEF Approving!SetMode
<1>11. CASE UNCHANGED Approving!vars
  BY <1>11 DEF Approving!vars
<1> QED BY <1>1, <1>2, <1>3, <1>4, <1>5, <1>6, <1>7, <1>8, <1>9, <1>10, <1>11
        DEF Approving!Next, Approving!Executes

\* Whatever humans answer at once, and whatever preferences and modes are set
\* by hand meanwhile: an execution that asks for a task on the blacklist runs
\* it only when the service could not be asked.
THEOREM SpecNeverIsFinal == Approving!Spec => []NeverIsFinal
<1>1. ApprovingIInv => NeverIsFinal
  BY DEF ApprovingIInv, OutlawedIsRefused, NeverIsFinal, Approving!NeverIsFinal
<1> QED BY InitApproving, NextApproving, <1>1, PTL DEF Approving!Spec

-----------------------------------------------------------------------------
(* The parts together.                                                     *)

\* What holds of a part, holds of the system: its variables change by its own
\* steps only.
LEMMA PartsAreKept == PartsSpec => Spec /\ Saving!Spec /\ Approving!Spec
<1>1. PartsInit => Init /\ Saving!Init /\ Approving!Init
  BY Zenon DEF PartsInit
<1> DEFINE all == <<part, vars, savedVars, approvalVars>>
<1>2. [PartsNext]_all => /\ [Next]_vars /\ [Saving!Next]_(Saving!vars)
                         /\ [Approving!Next]_(Approving!vars)
  <2>1. /\ UNCHANGED savedVars => UNCHANGED Saving!vars
        /\ UNCHANGED approvalVars => UNCHANGED Approving!vars
    BY DEF savedVars, approvalVars, Saving!vars, Approving!vars
  <2> QED BY <2>1, Zenon DEF PartsNext
<1> QED BY <1>1, <1>2, PTL DEF PartsSpec, Spec, Saving!Spec, Approving!Spec

\* In the system of all parts: a lane ends settled and is stored while it is
\* listed, no start replays twice, and the blacklist is final.
THEOREM LaneWorkCorrect ==
  PartsSpec => [](EndedIsSettled /\ ListedIsStored /\ ReplayedOnce /\ NeverIsFinal)
BY PartsAreKept, EndsSettled, ListedStored, SpecReplayedOnce, SpecNeverIsFinal, PTL

=============================================================================
