------------------------------ MODULE LaneWork -------------------------------
(***************************************************************************)
(* What lanes do, as one system: the lanes themselves (Lanes), the         *)
(* configuration that replays them after a restart of the instance         *)
(* (SavedLanes) and the approval of the tool calls they make (Approvals).  *)
(* A behaviour is one of one part, chosen at the start; the other parts    *)
(* stay in an initial state.                                               *)
(***************************************************************************)
EXTENDS Lanes, Sequences

CONSTANTS
  FirstIntent,                                  \* that of lanes that do not run
  Lanes, Cids, CidOf, Given, Backend, LaneBackend, MaxStarts,  \* see SavedLanes
  Runs, Tasks                                   \* see Approvals

\* A lane has one content identifier; who saves a configuration names no
\* identifier twice.
ASSUME LaneWorkAssumption ==
  /\ CidOf \in [Lanes -> Cids]
  /\ \A s \in Given : s \in Seq(Cids) /\ \A i, j \in DOMAIN s : s[i] = s[j] => i = j

VARIABLES
  part,
  config, saved, os, starts, lane, edit, queue, replayed, kept, excused,
  mode, whitelist, blacklist, run, decision, outlawed

savedVars    == <<config, saved, os, starts, lane, edit, queue, replayed, kept, excused>>
approvalVars == <<mode, whitelist, blacklist, run, decision, outlawed>>

-----------------------------------------------------------------------------
(* The parts.                                                              *)

Saving == INSTANCE SavedLanes WITH stored <- saved

Approving == INSTANCE Approvals

-----------------------------------------------------------------------------

PartsInit ==
  /\ part \in {"lanes", "saving", "approving"}
  /\ Init /\ (part # "lanes" => \A l \in LaneIds : lanes[l].intent = FirstIntent)
  /\ Saving!Init
  /\ Approving!Init /\ (part # "approving" => mode = "allow")

PartsNext ==
  /\ UNCHANGED part
  /\ \/ part = "lanes" /\ Next /\ UNCHANGED <<savedVars, approvalVars>>
     \/ part = "saving" /\ Saving!Next /\ UNCHANGED <<vars, approvalVars>>
     \/ part = "approving" /\ Approving!Next /\ UNCHANGED <<vars, savedVars>>

\* The fairness of Lanes.
PartsSpec ==
  /\ PartsInit /\ [][PartsNext]_<<part, vars, savedVars, approvalVars>>
  /\ \A l \in LaneIds : WF_vars(part = "lanes" /\ Step(l))

-----------------------------------------------------------------------------
(* The properties, each stated in its module.                              *)

\* No start replays the lanes of one CID twice.
ReplayedOnce == Saving!ReplayedOnce

\* A lane whose saving was acknowledged stays in the configuration.
AcknowledgedIsKept == Saving!AcknowledgedIsKept

\* What was on the blacklist when it was asked for does not run.
NeverIsFinal == Approving!NeverIsFinal
=============================================================================
