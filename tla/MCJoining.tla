----------------------------- MODULE MCJoining -----------------------------
(* Registration with three configurations of the parent, chosen at the     *)
(* start: another node than the leader, known from the start or found by   *)
(* discovery, and the leader itself.                                       *)
EXTENDS Registration, TLC

VARIABLE part

\* The parent is the leader; one more fault.
ToLeader == INSTANCE Registration WITH ParentIsLeader <- TRUE, MaxFaults <- MaxFaults + 1

\* The parent has no transports yet: start() itself discovers it.
Discovered == INSTANCE Registration WITH ParentHasTransports <- FALSE

PartsInit ==
  \/ part = "far" /\ Init
  \/ part = "leader" /\ ToLeader!Init
  \/ part = "discovery" /\ Discovered!Init

PartsNext ==
  /\ UNCHANGED part
  /\ \/ part = "far" /\ Next
     \/ part = "leader" /\ ToLeader!Next
     \/ part = "discovery" /\ Discovered!Next

\* The fairness of Registration.
PartsSpec ==
  /\ PartsInit /\ [][PartsNext]_<<part, vars>>
  /\ \A f \in Flows : /\ WF_vars(part = "far" /\ Step(f))
                      /\ WF_vars(part = "leader" /\ ToLeader!Step(f))
  /\ \A h \in {"parent", "leader"} :
       /\ WF_vars(part = "far" /\ Dial(h))
       /\ WF_vars(part = "far" /\ HostRestarts(h))
  /\ WF_vars(part = "leader" /\ ToLeader!Dial("leader"))
  /\ WF_vars(part = "leader" /\ ToLeader!HostRestarts("leader"))

-----------------------------------------------------------------------------

\* A reconnection ends, stated in Registration, when the parent is known from
\* the start.  When it is not, start() may run one discovery loop and a lost
\* connection another (waitForParentAndReconnect): each finds the other's
\* registration under way, resets it and tries again, for ever.
ReconnectionsEnd == part # "discovery" => ReconnectionEnds
=============================================================================
