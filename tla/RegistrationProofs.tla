------------------------- MODULE RegistrationProofs -------------------------
(***************************************************************************)
(* Type correctness and the three state invariants of Registration, for    *)
(* every set of activities, every configuration and every fault bound, and *)
(* the action property about the end of a reconnection.                    *)
(*                                                                         *)
(* Every activity's step ends in one of the seven ways of Leaf, applied to *)
(* a table that the step computed; the lemmas below show that, and then    *)
(* what a Leaf preserves, so that each action only has to say which table  *)
(* it starts from.                                                         *)
(***************************************************************************)
EXTENDS Registration, TLAPS

\* Where an activity of each kind can be suspended.
Placed ==
  \A f \in Flows :
    /\ flows[f].kind = "none" <=> flows[f].at = "idle"
    /\ flows[f].kind = "start" => flows[f].at \in {"begin", "pcall", "pkeep", "lcall", "lkeep"}
    /\ flows[f].kind = "connected" => flows[f].at \in {"pcall", "pkeep", "lself", "lcall", "lkeep"}
    /\ flows[f].kind \in LoopKinds =>
         flows[f].at \in {"query", "pcall", "pkeep", "ping", "lcall", "lkeep", "sleep"}
    /\ flows[f].kind = "startloop" => ~(ParentHasTransports \/ ParentIsLeader)

\* The inductive invariant: the three invariants are inductive once the
\* kinds of activity are known to be where their code can suspend them.
IInv ==
  /\ TypeOK
  /\ Placed
  /\ RegisteringIsOwned
  /\ FlagMeansOneLoop
  /\ ParentNeverAbandoned

\* The seven ways a step of activity f ends, from the table t.
Leaf(f, t) ==
  \/ CanRegister(t, "parent") /\ Attempt(f, t, "parent", "pcall")
  \/ HasLeader /\ CanRegister(t, "leader") /\ Attempt(f, t, "leader", "lcall")
  \/ flows[f].kind \in LoopKinds /\ RoundFailed(f, t)
  \/ flows[f].kind \in LoopKinds /\ FullyRegistered(t) /\ EndOfRound(f, t)
  \/ flows[f].kind = "start" /\ StartFinished(f, t)
  \/ flows[f].kind = "connected" /\ HandlerFinished(f, t)
  \/ /\ flows[f].kind \in LoopKinds /\ reg' = t /\ Goto(f, flows[f].kind, "ping")
     /\ UNCHANGED <<reconnecting, nodeState>>

\* A table in which every registering role is owned by an activity that is
\* not f: what f's step may start from.
OwnedByOthers(f, t) ==
  \A r \in Role : t[r] = "registering" => \E g \in Attempts(r) : g # f

\* A table that abandons the parent only if an activity other than f, or f
\* as a loop, goes on to register it.
KeepsParent(f, t) ==
  HasLeader /\ t["parent"] = "not_registered" =>
    \/ \E g \in Flows \ {f} : flows[g].kind \in LoopKinds \/ flows[g].at = "begin"
    \/ flows[f].kind \in LoopKinds

-----------------------------------------------------------------------------

\* A turn that ends with the leader is a Leaf.
LEMMA LeaderLeaf ==
  ASSUME TypeOK, NEW f \in Flows, NEW t
  PROVE  /\ AfterLeader(f, t) => Leaf(f, t)
         /\ RegisterLeader(f, t) => Leaf(f, t)
BY ConfigAssumption DEF AfterLeader, RegisterLeader, Leaf, ConnectedParent, EndOfRound, RoundFailed

\* So is one that ends with the parent, or in an exception.
LEMMA ParentLeaf ==
  ASSUME TypeOK, NEW f \in Flows, NEW t
  PROVE  /\ AfterParent(f, t) => Leaf(f, t)
         /\ RegisterParent(f, t) => Leaf(f, t)
         /\ Threw(f, t) => Leaf(f, t)
BY LeaderLeaf DEF AfterParent, RegisterParent, Threw, ConnectedParent, Leaf

-----------------------------------------------------------------------------
\* What a Leaf does to the types and the places.
LEMMA LeafTypes ==
  ASSUME TypeOK, Placed, NEW f \in Flows, NEW t \in [Role -> RegState],
         flows[f].at # "idle", Leaf(f, t), resolvable' \in BOOLEAN,
         up' \in [Hosts -> BOOLEAN], link' \in [Hosts -> BOOLEAN],
         faults' \in 0..MaxFaults
  PROVE  TypeOK' /\ Placed'
<1> USE DEF TypeOK, Placed, Flow, Kind, At, Fate, LoopKinds, Idle
<1>1. CASE Attempt(f, t, "parent", "pcall")
  BY <1>1 DEF Attempt, Goto, Role, RegState
<1>2. CASE Attempt(f, t, "leader", "lcall")
  BY <1>2 DEF Attempt, Goto, Role, RegState
<1>3. CASE flows[f].kind \in LoopKinds /\ RoundFailed(f, t)
  BY <1>3 DEF RoundFailed, Goto
<1>4. CASE flows[f].kind \in LoopKinds /\ FullyRegistered(t) /\ EndOfRound(f, t)
  <2>1. flows' = [flows EXCEPT ![f] = Idle] /\ reg' = t
    BY <1>4 DEF EndOfRound, Exit
  <2>2. reconnecting' \in BOOLEAN
    BY <1>4, ZenonT(30) DEF EndOfRound
  <2>3. nodeState' \in NodeState
    BY <1>4 DEF EndOfRound, NodeState
  <2> QED BY <2>1, <2>2, <2>3
<1>5. CASE flows[f].kind = "start" /\ StartFinished(f, t)
  BY <1>5 DEF StartFinished, Exit, NodeState
<1>6. CASE flows[f].kind = "connected" /\ HandlerFinished(f, t)
  BY <1>6 DEF HandlerFinished, Exit
<1>7. CASE /\ flows[f].kind \in LoopKinds /\ reg' = t
           /\ Goto(f, flows[f].kind, "ping") /\ UNCHANGED <<reconnecting, nodeState>>
  BY <1>7 DEF Goto
<1> QED BY <1>1, <1>2, <1>3, <1>4, <1>5, <1>6, <1>7 DEF Leaf

\* Only f moves, and it is where the table needs it to be.
LEMMA LeafOwned ==
  ASSUME TypeOK, NEW f \in Flows, NEW t \in [Role -> RegState],
         Leaf(f, t), OwnedByOthers(f, t)
  PROVE  RegisteringIsOwned'
<1> USE DEF TypeOK, Flow, Role, RegisteringIsOwned, Attempts
<1>0. \A g \in Flows \ {f} : flows'[g] = flows[g]
  BY DEF Leaf, Attempt, RoundFailed, EndOfRound, StartFinished, HandlerFinished, Goto, Exit
<1>1. CASE Attempt(f, t, "parent", "pcall")
  BY <1>0, <1>1 DEF Attempt, Goto, OwnedByOthers
<1>2. CASE Attempt(f, t, "leader", "lcall")
  BY <1>0, <1>2 DEF Attempt, Goto, OwnedByOthers
<1>3. CASE reg' = t
  BY <1>0, <1>3 DEF OwnedByOthers
<1> QED BY <1>1, <1>2, <1>3 DEF Leaf, RoundFailed, EndOfRound, StartFinished, HandlerFinished

\* A loop keeps its kind until it ends, and it ends with the flag.
LEMMA LeafFlag ==
  ASSUME TypeOK, Placed, NEW f \in Flows, NEW t, Leaf(f, t), FlagMeansOneLoop
  PROVE  FlagMeansOneLoop'
<1> USE DEF TypeOK, Flow, EventLoops, LoopKinds
<1>1. CASE flows[f].kind \in LoopKinds /\ FullyRegistered(t) /\ EndOfRound(f, t)
  BY <1>1 DEF EndOfRound, Exit, Idle, FlagMeansOneLoop, Placed
<1>2. CASE /\ reconnecting' = reconnecting
           /\ \A g \in Flows : flows'[g].kind = "loop" <=> flows[g].kind = "loop"
  BY <1>2 DEF FlagMeansOneLoop
<1>3. Leaf(f, t) => \/ FullyRegistered(t) /\ flows[f].kind \in LoopKinds /\ EndOfRound(f, t)
                    \/ /\ reconnecting' = reconnecting
                       /\ \A g \in Flows : flows'[g].kind = "loop" <=> flows[g].kind = "loop"
  BY DEF Leaf, Attempt, RoundFailed, StartFinished, HandlerFinished, Goto, Exit, Idle
<1> QED BY <1>1, <1>2, <1>3

\* A loop that ends has registered the parent; any other activity leaves the
\* parent to the one that keeps it.
LEMMA LeafKeepsParent ==
  ASSUME TypeOK, NEW f \in Flows, NEW t \in [Role -> RegState], Leaf(f, t),
         KeepsParent(f, t) \/ reg'["parent"] # "not_registered"
  PROVE  ParentNeverAbandoned'
<1> USE DEF TypeOK, Flow, Role, LoopKinds
<1>0. \A g \in Flows \ {f} : flows'[g] = flows[g]
  BY DEF Leaf, Attempt, RoundFailed, EndOfRound, StartFinished, HandlerFinished, Goto, Exit
<1>1. CASE reg'["parent"] # "not_registered"
  BY <1>1 DEF ParentNeverAbandoned
<1>2. CASE reg'["parent"] = "not_registered" /\ t["parent"] = "not_registered"
  <2>1. CASE \E g \in Flows \ {f} : flows[g].kind \in LoopKinds \/ flows[g].at = "begin"
    BY <1>0, <2>1 DEF ParentNeverAbandoned
  <2>2. CASE flows[f].kind \in LoopKinds
    <3>1. flows'[f].kind \in LoopKinds
      BY <1>2, <2>2 DEF Leaf, Attempt, RoundFailed, EndOfRound, StartFinished,
                        HandlerFinished, Goto, FullyRegistered
    <3> QED BY <3>1 DEF ParentNeverAbandoned
  <2> QED BY <1>2, <2>1, <2>2 DEF KeepsParent, ParentNeverAbandoned
<1>3. reg'["parent"] = "not_registered" => t["parent"] = "not_registered"
  BY DEF Leaf, Attempt, RoundFailed, EndOfRound, StartFinished, HandlerFinished
<1> QED BY <1>1, <1>2, <1>3

-----------------------------------------------------------------------------
\* Init establishes the inductive invariant.
LEMMA InitIInv == Init => IInv
<1> SUFFICES ASSUME Init PROVE IInv
  OBVIOUS
<1> USE DEF Init, Flow, Kind, At, Fate, Idle, LoopKinds
<1>1. PICK f \in Flows :
        flows = [g \in Flows |->
                   IF g = f THEN [kind |-> "start", at |-> "begin", fate |-> "ok"] ELSE Idle]
  OBVIOUS
<1>2. TypeOK
  <2>1. resolvable \in BOOLEAN /\ reconnecting \in BOOLEAN
    BY Zenon
  <2>2. /\ reg \in [Role -> RegState] /\ nodeState \in NodeState
        /\ flows \in [Flows -> Flow]
    BY <1>1 DEF RegState, NodeState
  <2>3. up \in [Hosts -> BOOLEAN] /\ link \in [Hosts -> BOOLEAN] /\ faults \in 0..MaxFaults
    BY ConfigAssumption
  <2> QED BY <2>1, <2>2, <2>3 DEF TypeOK
<1>3. Placed
  BY <1>1 DEF Placed
<1>4. RegisteringIsOwned
  BY DEF RegisteringIsOwned
<1>5. FlagMeansOneLoop
  BY <1>1 DEF FlagMeansOneLoop, EventLoops
<1>6. ParentNeverAbandoned
  BY <1>1 DEF ParentNeverAbandoned
<1> QED BY <1>2, <1>3, <1>4, <1>5, <1>6 DEF IInv

\* A step of an activity that ends in a Leaf keeps the invariant.
LEMMA LeafIInv ==
  ASSUME IInv, NEW f \in Flows, NEW t \in [Role -> RegState], flows[f].at # "idle",
         Leaf(f, t), OwnedByOthers(f, t),
         KeepsParent(f, t) \/ reg'["parent"] # "not_registered",
         resolvable' \in BOOLEAN, up' = up, link' = link, faults' \in 0..MaxFaults
  PROVE  IInv'
BY LeafTypes, LeafOwned, LeafFlag, LeafKeepsParent DEF IInv, TypeOK

\* A suspended activity that only moves on inside its attempt.
LEMMA StepInAttempt ==
  ASSUME IInv, NEW f \in Flows, NEW b, flows[f].kind # "none",
         \/ flows[f].at = "pcall" /\ b = "pkeep"
         \/ flows[f].at = "lcall" /\ b = "lkeep"
         \/ flows[f].at = "sleep" /\ b = "query",
         Goto(f, flows[f].kind, b),
         UNCHANGED <<reg, reconnecting, nodeState, resolvable, net>>
  PROVE  IInv'
<1> USE DEF IInv, TypeOK, Flow, Kind, At, Fate, LoopKinds, Goto, net
<1>1. TypeOK'
  OBVIOUS
<1>2. Placed'
  BY DEF Placed
<1>3. RegisteringIsOwned'
  BY DEF RegisteringIsOwned, Attempts, Role
<1>4. FlagMeansOneLoop'
  BY DEF FlagMeansOneLoop, EventLoops
<1>5. ParentNeverAbandoned'
  BY DEF ParentNeverAbandoned
<1> QED BY <1>1, <1>2, <1>3, <1>4, <1>5

\* The two conditions on the table, from what a step does to it.
LEMMA TableOwned ==
  ASSUME IInv, NEW f \in Flows, NEW t \in [Role -> RegState],
         \A r \in Role : t[r] = "registering" => reg[r] = "registering" /\ f \notin Attempts(r)
  PROVE  OwnedByOthers(f, t)
BY DEF IInv, RegisteringIsOwned, OwnedByOthers, Attempts

\* A table in which the parent is no worse off keeps it.
LEMMA TableKeepsParent ==
  ASSUME IInv, NEW f \in Flows, flows[f].at # "begin", NEW t \in [Role -> RegState],
         t["parent"] = "not_registered" =>
           reg["parent"] = "not_registered" \/ flows[f].kind \in LoopKinds
  PROVE  KeepsParent(f, t)
BY DEF IInv, ParentNeverAbandoned, KeepsParent

\* Each step of an activity keeps the invariant: it says from which table
\* its Leaf starts.
LEMMA StepIInv == ASSUME IInv, NEW f \in Flows, Step(f) PROVE IInv'
<1> USE DEF IInv
<1>0. /\ resolvable \in BOOLEAN /\ reg \in [Role -> RegState] /\ faults \in 0..MaxFaults
      /\ \A r \in Role : RegState = {"not_registered", "registering", "registered", "failed"}
      /\ \A r \in Role : f \in Attempts(r) <=>
           flows[f].at \in (IF r = "parent" THEN {"pcall", "pkeep"} ELSE {"lcall", "lkeep"})
  BY DEF TypeOK, RegState, Attempts
<1>1. ASSUME StartRegistration(f) PROVE IInv'
  <2>1. /\ flows[f].at = "begin" /\ flows[f].kind = "start"
        /\ resolvable' = resolvable /\ up' = up /\ link' = link /\ faults' = faults
    BY <1>1 DEF StartRegistration, Placed, TypeOK, Flow, Kind, LoopKinds, net
  <2>2. OwnedByOthers(f, reg)
    BY <1>0, <2>1, TableOwned DEF Role
  <2>3. CASE ParentHasTransports \/ ParentIsLeader \/ ~CanRegister(reg, "parent")
    <3>1. Leaf(f, reg)
      BY <1>1, <2>3, ParentLeaf DEF StartRegistration
    <3>2. KeepsParent(f, reg) \/ reg'["parent"] # "not_registered"
      <4>1. CASE CanRegister(reg, "parent")
        BY <1>0, <1>1, <2>3, <4>1 DEF StartRegistration, RegisterParent, Attempt, Role
      <4>2. CASE ~CanRegister(reg, "parent")
        BY <4>2 DEF CanRegister, KeepsParent
      <4> QED BY <4>1, <4>2
    <3> QED BY <1>0, <2>1, <2>2, <3>1, <3>2, LeafIInv
  <2>4. CASE ~(ParentHasTransports \/ ParentIsLeader) /\ CanRegister(reg, "parent") /\ HasLeader
    <3>1. /\ reg' = Reset(reg, {"parent"}) /\ Goto(f, "startloop", "query")
          /\ reconnecting' = reconnecting /\ nodeState' = nodeState
      BY <1>1, <2>4 DEF StartRegistration
    <3> USE DEF TypeOK, Flow, Kind, At, Fate, LoopKinds, Goto
    <3>2. TypeOK'
      BY <2>1, <3>1 DEF Reset, RegState
    <3>3. Placed'
      BY <2>1, <2>4, <3>1 DEF Placed
    <3>4. RegisteringIsOwned'
      BY <2>1, <3>1 DEF RegisteringIsOwned, Attempts, Reset
    <3>5. FlagMeansOneLoop'
      BY <2>4 DEF FlagMeansOneLoop
    <3>6. ParentNeverAbandoned'
      BY <3>1 DEF ParentNeverAbandoned
    <3> QED BY <3>2, <3>3, <3>4, <3>5, <3>6
  <2>5. CASE ~(ParentHasTransports \/ ParentIsLeader) /\ CanRegister(reg, "parent") /\ ~HasLeader
    <3> DEFINE t == [reg EXCEPT !["parent"] = "failed"]
    <3>1. Leaf(f, t)
      BY <1>1, <2>1, <2>5 DEF StartRegistration, Leaf
    <3>2. t \in [Role -> RegState]
      BY <1>0 DEF RegState
    <3>3. OwnedByOthers(f, t)
      BY <1>0, <2>1, <3>2, TableOwned DEF Role
    <3>4. KeepsParent(f, t)
      BY <2>5 DEF KeepsParent
    <3> HIDE DEF t
    <3> QED BY <1>0, <2>1, <3>1, <3>2, <3>3, <3>4, LeafIInv
  <2> QED BY <2>3, <2>4, <2>5
<1>2. ASSUME ReRegisterLeader(f) \/ PingAnswered(f) PROVE IInv'
  <2>1. /\ flows[f].at \in {"lself", "ping"} /\ RegisterLeader(f, reg)
        /\ resolvable' = resolvable /\ up' = up /\ link' = link /\ faults' = faults
    BY <1>2 DEF ReRegisterLeader, PingAnswered, Answered, net
  <2>2. Leaf(f, reg)
    BY <2>1, LeaderLeaf
  <2>3. OwnedByOthers(f, reg) /\ KeepsParent(f, reg)
    BY <1>0, <2>1, TableOwned, TableKeepsParent DEF Role
  <2> QED BY <1>0, <2>1, <2>2, <2>3, LeafIInv
<1>3. ASSUME QueryAnswered(f) PROVE IInv'
  <2> DEFINE t == Reset(reg, Role)
  <2>1. /\ flows[f].at = "query" /\ flows[f].kind \in LoopKinds /\ RegisterParent(f, t)
        /\ resolvable' = resolvable /\ up' = up /\ link' = link /\ faults' = faults
    BY <1>3 DEF QueryAnswered, Answered, Placed, TypeOK, Flow, Kind, LoopKinds, net
  <2>2. t \in [Role -> RegState] /\ \A r \in Role : t[r] = "not_registered"
    BY <1>0 DEF Reset, RegState
  <2> HIDE DEF t
  <2>3. Leaf(f, t)
    BY <2>1, ParentLeaf
  <2>4. OwnedByOthers(f, t) /\ KeepsParent(f, t)
    BY <2>1, <2>2 DEF OwnedByOthers, KeepsParent
  <2> QED BY <1>0, <2>1, <2>2, <2>3, <2>4, LeafIInv
<1>4. ASSUME ParentRegistered(f) PROVE IInv'
  <2> DEFINE t == [reg EXCEPT !["parent"] = "registered"]
  <2>1. /\ flows[f].at = "pkeep" /\ AfterParent(f, t) /\ resolvable' = TRUE
        /\ up' = up /\ link' = link /\ faults' = faults
    BY <1>4 DEF ParentRegistered, net
  <2>2. t \in [Role -> RegState] /\ t["parent"] = "registered" /\ t["leader"] = reg["leader"]
    BY <1>0 DEF RegState, Role
  <2> HIDE DEF t
  <2>3. Leaf(f, t)
    BY <2>1, ParentLeaf
  <2>4. OwnedByOthers(f, t)
    BY <1>0, <2>1, <2>2, TableOwned DEF Role
  <2>5. KeepsParent(f, t)
    BY <2>2 DEF KeepsParent
  <2>6. resolvable' \in BOOLEAN
    BY <2>1, Zenon
  <2> QED BY <1>0, <2>1, <2>2, <2>3, <2>4, <2>5, <2>6, LeafIInv
<1>5. ASSUME LeaderRegistered(f) PROVE IInv'
  <2> DEFINE t == [reg EXCEPT !["leader"] = "registered"]
  <2>1. /\ flows[f].at = "lkeep" /\ AfterLeader(f, t)
        /\ resolvable' = resolvable /\ up' = up /\ link' = link /\ faults' = faults
    BY <1>5 DEF LeaderRegistered, net
  <2>2. t \in [Role -> RegState] /\ t["leader"] = "registered" /\ t["parent"] = reg["parent"]
    BY <1>0 DEF RegState, Role
  <2> HIDE DEF t
  <2>3. Leaf(f, t)
    BY <2>1, LeaderLeaf
  <2>4. OwnedByOthers(f, t) /\ KeepsParent(f, t)
    BY <1>0, <2>1, <2>2, TableOwned, TableKeepsParent DEF Role
  <2> QED BY <1>0, <2>1, <2>2, <2>3, <2>4, LeafIInv
<1>6. ASSUME CallFails(f) PROVE IInv'
  <2> DEFINE t == [r \in Role |-> IF f \in Attempts(r) THEN "failed" ELSE reg[r]]
  <2>1. /\ flows[f].at \in CallPoints /\ Threw(f, t)
        /\ resolvable' = resolvable /\ up' = up /\ link' = link
        /\ UNCHANGED faults \/ (faults < MaxFaults /\ faults' = faults + 1)
    BY <1>6 DEF CallFails, FailureRecorded
  <2>2. /\ t \in [Role -> RegState]
        /\ \A r \in Role : IF f \in Attempts(r) THEN t[r] = "failed" ELSE t[r] = reg[r]
    BY <1>0 DEF RegState
  <2> HIDE DEF t
  <2>3. Leaf(f, t)
    BY <2>1, ParentLeaf
  <2>4. OwnedByOthers(f, t) /\ KeepsParent(f, t)
    BY <1>0, <2>1, <2>2, TableOwned, TableKeepsParent DEF CallPoints, Role
  <2>5. faults' \in 0..MaxFaults
    BY <1>0, <2>1, ConfigAssumption
  <2> QED BY <1>0, <2>1, <2>2, <2>3, <2>4, <2>5, LeafIInv DEF CallPoints
<1>7. ASSUME ChildRegisterAnswered(f) \/ CommitAnswered(f) \/ BackoffElapsed(f) PROVE IInv'
  BY <1>7, StepInAttempt
     DEF ChildRegisterAnswered, CommitAnswered, BackoffElapsed, Answered, Placed
<1> QED BY <1>1, <1>2, <1>3, <1>4, <1>5, <1>6, <1>7 DEF Step

-----------------------------------------------------------------------------
\* A lost connection changes the fate of calls, not where they are; if it
\* takes the parent away, the same step starts the loop.
LEMMA DisconnectIInv ==
  ASSUME IInv, NEW h \in Hosts, NEW fl \in [Flows -> Flow],
         \A g \in Flows : fl[g].kind = flows[g].kind /\ fl[g].at = flows[g].at,
         HandleDisconnected(h, fl), UNCHANGED <<nodeState, resolvable>>,
         up' \in [Hosts -> BOOLEAN], link' \in [Hosts -> BOOLEAN], faults' \in 0..MaxFaults
  PROVE  IInv'
<1> USE DEF IInv, TypeOK, Flow, Kind, At, Fate, LoopKinds
<1> DEFINE lost == h = HostOf("parent") /\ resolvable /\ ~reconnecting
<1>1. /\ reg' \in [Role -> RegState]
      /\ \A r \in Role : reg'[r] = reg[r] \/ reg'[r] = "not_registered"
      /\ ~lost /\ h # "leader" => reg' = reg
      /\ ~lost => reg'["parent"] = reg["parent"]
  BY DEF HandleDisconnected, ParentLost, Reset, Role, RegState
<1>2. reconnecting' = (reconnecting \/ lost)
  BY DEF HandleDisconnected, ParentLost
<1>3. reconnecting' \in BOOLEAN
  BY <1>2, Zenon
<1>4. CASE lost /\ HasLeader
  <2>1. PICK f \in Free :
          flows' = [fl EXCEPT ![f] = [kind |-> "loop", at |-> "query", fate |-> "ok"]]
    BY <1>4 DEF HandleDisconnected, ParentLost
  <2>2. /\ f \in Flows /\ flows[f].kind = "none" /\ flows[f].at = "idle"
        /\ flows'[f] = [kind |-> "loop", at |-> "query", fate |-> "ok"]
        /\ \A g \in Flows \ {f} : flows'[g] = fl[g]
        /\ flows' \in [Flows -> Flow]
    BY <2>1 DEF Free, Placed
  <2>3. Placed'
    BY <2>2 DEF Placed
  <2>4. RegisteringIsOwned'
    <3> SUFFICES ASSUME NEW r \in Role, reg'[r] = "registering"
                 PROVE  Attempts(r)' # {}
      BY DEF RegisteringIsOwned
    <3>1. reg[r] = "registering"
      BY <1>1
    <3>2. PICK g \in Flows : g \in Attempts(r)
      BY <3>1 DEF RegisteringIsOwned, Attempts
    <3>3. g # f /\ flows'[g].at = flows[g].at
      BY <2>2, <3>2 DEF Attempts
    <3> QED BY <3>2, <3>3 DEF Attempts
  <2>5. FlagMeansOneLoop'
    <3>1. SUFFICES ASSUME ParentHasTransports \/ ParentIsLeader
                   PROVE  reconnecting' /\ EventLoops' = {f}
      BY ZenonT(40) DEF FlagMeansOneLoop
    <3>2. EventLoops = {}
      BY <1>4, <3>1, Zenon DEF FlagMeansOneLoop
    <3>3. EventLoops' = {f}
      BY <2>2, <3>2 DEF EventLoops
    <3> QED BY <1>2, <1>4, <3>3
  <2>6. ParentNeverAbandoned'
    BY <2>2 DEF ParentNeverAbandoned
  <2> QED BY <1>1, <1>3, <2>2, <2>3, <2>4, <2>5, <2>6
<1>5. CASE ~(lost /\ HasLeader)
  <2>1. flows' = fl
    BY <1>5 DEF HandleDisconnected, ParentLost
  <2>2. Placed'
    BY <2>1 DEF Placed
  <2>3. RegisteringIsOwned'
    BY <1>1, <2>1 DEF RegisteringIsOwned, Attempts, Role
  <2>4. FlagMeansOneLoop'
    BY <1>2, <1>5, <2>1 DEF FlagMeansOneLoop, EventLoops
  <2>5. ParentNeverAbandoned'
    BY <1>1, <1>5, <2>1 DEF ParentNeverAbandoned
  <2> QED BY <1>1, <1>3, <2>1, <2>2, <2>3, <2>4, <2>5
<1> QED BY <1>4, <1>5

\* A connection is lost, by whatever event.
LEMMA LinkLostIInv ==
  ASSUME IInv, NEW h \in Hosts, LinkLost(h), UNCHANGED <<nodeState, resolvable>>,
         up' \in [Hosts -> BOOLEAN], link' \in [Hosts -> BOOLEAN], faults' \in 0..MaxFaults
  PROVE  IInv'
<1>1. PICK fate \in [Cut(h) -> Fate] :
        HandleDisconnected(h, [f \in Flows |->
          IF f \in Cut(h) THEN [flows[f] EXCEPT !.fate = fate[f]] ELSE flows[f]])
  BY DEF LinkLost
<1> DEFINE fl == [f \in Flows |->
          IF f \in Cut(h) THEN [flows[f] EXCEPT !.fate = fate[f]] ELSE flows[f]]
<1>2. fl \in [Flows -> Flow]
  BY DEF IInv, TypeOK, Flow
<1>3. \A g \in Flows : fl[g].kind = flows[g].kind /\ fl[g].at = flows[g].at
  BY DEF IInv, TypeOK, Flow
<1> HIDE DEF fl
<1> QED BY <1>1, <1>2, <1>3, DisconnectIInv DEF fl

\* A connection is there.
LEMMA LinkUpIInv == ASSUME IInv, NEW h \in Hosts, LinkUp(h) PROVE IInv'
<1> USE DEF IInv, TypeOK, Flow, Kind, At, Fate, LoopKinds
<1>1. /\ UNCHANGED <<reconnecting, nodeState, resolvable, up, faults>>
      /\ link' \in [Hosts -> BOOLEAN]
  BY DEF LinkUp
<1>2. CASE UNCHANGED <<reg, flows>>
  BY <1>1, <1>2 DEF Placed, RegisteringIsOwned, Attempts, FlagMeansOneLoop, EventLoops,
                    ParentNeverAbandoned
<1>3. ASSUME NEW f \in Free, NEW next \in {"lself", "pcall"},
             Goto(f, "connected", next),
             reg' = IF next = "pcall" THEN [reg EXCEPT !["parent"] = "registering"] ELSE reg
      PROVE  IInv'
  <2>1. /\ f \in Flows /\ flows[f].kind = "none" /\ flows[f].at = "idle"
        /\ flows'[f] = [kind |-> "connected", at |-> next, fate |-> "ok"]
        /\ \A g \in Flows \ {f} : flows'[g] = flows[g]
        /\ flows' \in [Flows -> Flow]
    BY <1>3 DEF Free, Placed, Goto
  <2>2. TypeOK'
    BY <1>1, <1>3, <2>1 DEF RegState, Role
  <2>3. Placed'
    BY <2>1 DEF Placed
  <2>4. RegisteringIsOwned'
    BY <1>3, <2>1 DEF RegisteringIsOwned, Attempts, Role
  <2>5. FlagMeansOneLoop'
    <3>1. EventLoops' = EventLoops
      BY <2>1 DEF EventLoops
    <3> QED BY <1>1, <3>1 DEF FlagMeansOneLoop
  <2>6. ParentNeverAbandoned'
    BY <1>3, <2>1 DEF ParentNeverAbandoned, Role
  <2> QED BY <2>2, <2>3, <2>4, <2>5, <2>6
<1> QED BY <1>2, <1>3 DEF LinkUp, HandleConnected

\* Every step keeps the invariant.
LEMMA NextIInv == IInv /\ [Next]_vars => IInv'
<1> SUFFICES ASSUME IInv, [Next]_vars PROVE IInv'
  OBVIOUS
<1>1. CASE \E f \in Flows : Step(f)
  BY <1>1, StepIInv
<1>2. ASSUME NEW h \in Hosts, LinkUp(h) PROVE IInv'
  BY <1>2, LinkUpIInv
<1>3. ASSUME NEW h \in Hosts, LinkDrops(h) PROVE IInv'
  <2>1. /\ up' \in [Hosts -> BOOLEAN] /\ link' \in [Hosts -> BOOLEAN]
        /\ faults' \in 0..MaxFaults /\ UNCHANGED <<nodeState, resolvable>> /\ LinkLost(h)
    BY <1>3, ConfigAssumption DEF LinkDrops, IInv, TypeOK
  <2> QED BY <2>1, LinkLostIInv
<1>4. ASSUME NEW h \in Hosts, HostCrashes(h) PROVE IInv'
  <2>1. /\ up' \in [Hosts -> BOOLEAN] /\ link' \in [Hosts -> BOOLEAN]
        /\ faults' \in 0..MaxFaults /\ UNCHANGED <<nodeState, resolvable>>
    BY <1>4, ConfigAssumption DEF HostCrashes, IInv, TypeOK
  <2>2. CASE LinkLost(h)
    BY <2>1, <2>2, LinkLostIInv
  <2>3. CASE UNCHANGED <<reg, reconnecting, flows>>
    BY <2>1, <2>3 DEF IInv, TypeOK, Placed, RegisteringIsOwned, Attempts, FlagMeansOneLoop,
                      EventLoops, ParentNeverAbandoned
  <2> QED BY <1>4, <2>2, <2>3 DEF HostCrashes
<1>5. ASSUME NEW h \in Hosts, HostRestarts(h) PROVE IInv'
  <2>1. /\ up' \in [Hosts -> BOOLEAN]
        /\ UNCHANGED <<reg, reconnecting, nodeState, flows, link, faults>>
    BY <1>5 DEF HostRestarts, IInv, TypeOK
  <2>2. resolvable' \in BOOLEAN
    <3>1. CASE resolvable' = resolvable
      BY <3>1 DEF IInv, TypeOK
    <3>2. CASE resolvable' = FALSE
      BY <3>2, Zenon
    <3> QED BY <1>5, <3>1, <3>2 DEF HostRestarts
  <2> QED BY <2>1, <2>2 DEF IInv, TypeOK, Placed, RegisteringIsOwned, Attempts,
                            FlagMeansOneLoop, EventLoops, ParentNeverAbandoned
<1>6. CASE UNCHANGED vars
  BY <1>6 DEF vars, IInv, TypeOK, Placed, RegisteringIsOwned, Attempts, FlagMeansOneLoop,
              EventLoops, ParentNeverAbandoned
<1> QED BY <1>1, <1>2, <1>3, <1>4, <1>5, <1>6 DEF Next

\* The invariant holds in every state.
LEMMA InductiveInvariant == Spec => []IInv
BY InitIInv, NextIInv, PTL DEF Spec

-----------------------------------------------------------------------------
\* The table, the flag, the activities and the network keep their types: in
\* particular an activity is never without a place to resume from.
THEOREM TypeCorrect == Spec => []TypeOK
<1>1. IInv => TypeOK
  BY DEF IInv
<1> QED BY <1>1, InductiveInvariant, PTL

\* No interleaving leaves a role at registering with nobody registering it.
THEOREM RegisteringOwned == Spec => []RegisteringIsOwned
<1>1. IInv => RegisteringIsOwned
  BY DEF IInv
<1> QED BY <1>1, InductiveInvariant, PTL

\* The reconnecting flag stands for exactly one discovery loop whenever the
\* parent is known from the start and there is a leader.
THEOREM FlagOwned == Spec => []FlagMeansOneLoop
<1>1. IInv => FlagMeansOneLoop
  BY DEF IInv
<1> QED BY <1>1, InductiveInvariant, PTL

\* The parent state is never left at not_registered by an activity that ends.
THEOREM ParentKept == Spec => []ParentNeverAbandoned
<1>1. IInv => ParentNeverAbandoned
  BY DEF IInv
<1> QED BY <1>1, InductiveInvariant, PTL

\* A reconnection is declared over only with both registrations standing.
THEOREM ReconnectedRegistered == Spec => ReconnectedMeansRegistered
<1>1. ASSUME IInv, NEW f \in Flows, NEW t, Leaf(f, t), reconnecting, ~reconnecting'
      PROVE  FullyRegistered(reg')
  BY <1>1 DEF Leaf, Attempt, RoundFailed, EndOfRound, StartFinished, HandlerFinished
<1>2. IInv /\ [Next]_vars /\ reconnecting /\ ~reconnecting' => FullyRegistered(reg')
  <2> SUFFICES ASSUME IInv, [Next]_vars, reconnecting, ~reconnecting'
               PROVE  FullyRegistered(reg')
    OBVIOUS
  <2>1. ASSUME NEW f \in Flows, Step(f) PROVE FullyRegistered(reg')
    <3>1. TypeOK
      BY DEF IInv
    <3>2. CASE \E t : Leaf(f, t)
      BY <1>1, <3>2
    <3>3. (\E t : Leaf(f, t)) \/ UNCHANGED reconnecting
      BY <2>1, <3>1, ParentLeaf, LeaderLeaf
         DEF Step, StartRegistration, ReRegisterLeader, BackoffElapsed, QueryAnswered,
             ChildRegisterAnswered, ParentRegistered, PingAnswered, CommitAnswered,
             LeaderRegistered, CallFails, StartFinished
    <3> QED BY <3>2, <3>3
  <2>2. ASSUME NEW h \in Hosts, LinkUp(h) \/ LinkDrops(h) \/ HostCrashes(h) \/ HostRestarts(h)
        PROVE  reconnecting'
    BY <2>2 DEF LinkUp, LinkDrops, HostCrashes, HostRestarts, LinkLost, HandleDisconnected
  <2>3. CASE UNCHANGED vars
    BY <2>3 DEF vars
  <2> QED BY <2>1, <2>2, <2>3 DEF Next
<1> QED BY <1>2, InductiveInvariant, PTL DEF Spec, ReconnectedMeansRegistered
=============================================================================
