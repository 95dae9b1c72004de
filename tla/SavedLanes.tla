----------------------------- MODULE SavedLanes ------------------------------
(***************************************************************************)
(* Lanes that outlive their node: a lane flagged for persistence is stored *)
(* under its cid, the cid is added to the configuration of its OS instance *)
(* in o://os-config, and the next start of the OS replays every cid it     *)
(* finds there.                                                            *)
(*                                                                         *)
(* os-config keeps one value per instance in the store it is told to use   *)
(* and changes it by reading it, changing the copy and writing it back; no *)
(* lock is held meanwhile.  Anybody may also save another configuration in *)
(* its place.  The stores do not answer alike: o://memory and o://secure   *)
(* answer with a record that holds the value, o://disk with the value      *)
(* itself, in which no reader finds a value.  o://disk and o://secure      *)
(* write files: a file under a write is torn, and so is one whose writer   *)
(* did not come to its end.                                                *)
(***************************************************************************)
EXTENDS Naturals, Sequences, SequencesExt

CONSTANTS
  Lanes,        \* lanes to persist; two may have one cid
  Cids, CidOf,  \* content identifier of the intent, caller and context of a lane
  Backend,      \* of os-config: "disk" (the default), "memory" or "secure"
  LaneBackend,  \* of o://lane, a disk store in an OS
  Given,        \* lists of lanes that others save; none names a cid twice
  MaxStarts     \* bound: starts of the OS

VARIABLES
  config,    \* what the store holds for this instance
  stored,    \* cids with a stored lane
  os,        \* "down", "loading", "replaying" or "running"
  starts,
  lane,      \* stage of each lane, and its copy of the configuration
  edit,      \* the same of an edit by others
  queue,     \* cids this start still has to replay
  replayed,  \* cids replayed by this start
  kept,      \* cids whose persistence was acknowledged
  excused    \* something happened after which one of them may be missing

vars == <<config, stored, os, starts, lane, edit, queue, replayed, kept, excused>>

Entry   == [is : {"nothing", "torn", "failure", "configuration"}, lanes : Seq(Cids)]
Absent  == [is |-> "nothing", lanes |-> <<>>]
Torn    == [is |-> "torn", lanes |-> <<>>]
Failure == [is |-> "failure", lanes |-> <<>>]
NoEdit  == [stage |-> "idle", copy |-> Absent]

TypeOK ==
  /\ DOMAIN config = {"is", "lanes"}
  /\ stored \subseteq Cids /\ kept \subseteq Cids
  /\ os \in {"down", "loading", "replaying", "running"}
  /\ starts \in 0..MaxStarts
  /\ \A l \in Lanes : lane[l].stage \in {"running", "stored", "adding", "writing", "done", "failed"}
  /\ edit.stage \in {"idle", "metadata", "writing"}
  /\ \A i \in 1..Len(queue) : queue[i] \in Cids
  /\ excused \in BOOLEAN

Init ==
  /\ config = Absent
  /\ stored = {} /\ kept = {} /\ excused = FALSE
  /\ os = "down" /\ starts = 0
  /\ lane = [l \in Lanes |-> [stage |-> "running", copy |-> Absent]]
  /\ edit = NoEdit
  /\ queue = <<>> /\ replayed = <<>>

-----------------------------------------------------------------------------
(* The stores, and os-config over them.                                    *)

\* Lanes that write the configuration.
Writers == {l \in Lanes : lane[l].stage = "writing"}

\* Somebody has read the configuration and not written it back, or writes it.
Overlap == edit.stage # "idle" \/ \E l \in Lanes : lane[l].stage \in {"adding", "writing"}

\* _tool_get of the providers: is there a "value" in the answer?
AnswersWithValue(b) == b \in {"memory", "secure"}

\* _tool_load_config.  A failure, of the store too, is a configuration like
\* any other to its callers: it has no lanes and no metadata.  So is a file
\* that does not parse.
Loaded(ok) ==
  IF ok /\ AnswersWithValue(Backend) /\ config \notin {Absent, Torn} THEN config ELSE Failure

WritesFiles == Backend # "memory"

\* _tool_put of the providers, from _tool_save_config, begins: a file that is
\* opened to be written is empty.
Opened == config' = IF WritesFiles THEN Torn ELSE config

\* The write of c ends.  Of two writes to one file something else may be left
\* than the value of either; a file that was deleted meanwhile stays so.
Written(c, alone) ==
  config' \in IF ~WritesFiles THEN {c}
              ELSE IF config = Absent THEN {Absent}
              ELSE IF config = Torn /\ alone THEN {c} ELSE {c, Torn}

\* It does not.  Its failure is reported to a caller that does not look.
LostWrite == excused' = TRUE /\ UNCHANGED config

Stage(l, stage, copy) == lane' = [lane EXCEPT ![l] = [stage |-> stage, copy |-> copy]]

\* postflight() and save(): the lane goes to o://lane.  A failure ends it.
Store(l, ok) ==
  /\ os # "down" /\ lane[l].stage = "running"
  /\ Stage(l, IF ok THEN "stored" ELSE "failed", Absent)
  /\ stored' = IF ok THEN stored \cup {CidOf[l]} ELSE stored
  /\ UNCHANGED <<config, os, starts, edit, queue, replayed, kept, excused>>

\* Mutant: the check for a lane that is already there is forgotten.
WithLaneTwice(c, cid) == [c EXCEPT !.lanes = Append(@, cid)]

\* Mutant: the list starts anew.
WithOnlyLane(c, cid) == [c EXCEPT !.lanes = <<cid>>]

\* _tool_add_lane_to_config adds a cid once.
WithLane(c, cid) == IF cid \in ToSet(c.lanes) THEN c ELSE [c EXCEPT !.lanes = Append(@, cid)]

\* _tool_add_lane_to_config, up to the answer of the store.
AddLaneReads(l, ok) ==
  /\ os # "down" /\ lane[l].stage = "stored"
  /\ Stage(l, "adding", Loaded(ok))
  /\ excused' = (excused \/ Overlap \/ ~ok)
  /\ UNCHANGED <<config, stored, os, starts, edit, queue, replayed, kept>>

\* The rest of it; nothing is written for a cid that is there.
AddLaneWrites(l, ok) ==
  LET c == lane[l].copy
      new == WithLane(c, CidOf[l])
  IN  /\ lane[l].stage = "adding"
      /\ IF new # c /\ ok
         THEN Stage(l, "writing", new) /\ Opened /\ UNCHANGED <<kept, excused>>
         ELSE /\ Stage(l, "done", Absent) /\ kept' = kept \cup {CidOf[l]}
              /\ IF new = c THEN UNCHANGED <<config, excused>> ELSE LostWrite
      /\ UNCHANGED <<stored, os, starts, edit, queue, replayed>>

AddLaneIsWritten(l, ok) ==
  /\ lane[l].stage = "writing"
  /\ Stage(l, "done", Absent)
  /\ kept' = kept \cup {CidOf[l]}
  /\ IF ok THEN /\ Written(lane[l].copy, Writers = {l} /\ edit.stage # "writing")
                /\ UNCHANGED excused
     ELSE LostWrite
  /\ UNCHANGED <<stored, os, starts, edit, queue, replayed>>

\* _tool_remove_lane_from_config looks for a success that no configuration
\* has, and returns what it loaded.
RemoveLane(cid) ==
  /\ os # "down"
  /\ UNCHANGED vars

\* _tool_update_metadata does the same, and goes on with an empty one.
UpdateMetadataReads ==
  /\ os # "down" /\ edit.stage = "idle"
  /\ edit' = [stage |-> "metadata", copy |-> Absent]
  /\ excused' = TRUE
  /\ UNCHANGED <<config, stored, os, starts, lane, queue, replayed, kept>>

UpdateMetadataWrites(ok) ==
  /\ edit.stage = "metadata"
  /\ IF ok THEN /\ edit' = [stage |-> "writing", copy |-> [edit.copy EXCEPT !.is = "configuration"]]
                /\ Opened /\ UNCHANGED excused
     ELSE edit' = NoEdit /\ LostWrite
  /\ UNCHANGED <<stored, os, starts, lane, queue, replayed, kept>>

\* _tool_save_config by others: the configuration they give takes the place of
\* what is there.
SaveConfig(lanes) ==
  /\ os # "down" /\ edit.stage = "idle"
  /\ edit' = [stage |-> "writing", copy |-> [is |-> "configuration", lanes |-> lanes]]
  /\ Opened
  /\ excused' = (excused \/ Overlap \/ ~(kept \subseteq ToSet(lanes)))
  /\ UNCHANGED <<stored, os, starts, lane, queue, replayed, kept>>

\* The write of an update of the metadata, or of a save, ends.
EditIsWritten(ok) ==
  /\ edit.stage = "writing"
  /\ edit' = NoEdit
  /\ IF ok THEN Written(edit.copy, Writers = {}) /\ UNCHANGED excused ELSE LostWrite
  /\ UNCHANGED <<stored, os, starts, lane, queue, replayed, kept>>

\* _tool_delete_config.
DeleteConfig ==
  /\ os # "down" /\ config # Absent
  /\ config' = Absent
  /\ excused' = TRUE
  /\ UNCHANGED <<stored, os, starts, lane, edit, queue, replayed, kept>>

-----------------------------------------------------------------------------
(* Starts of the OS.                                                       *)

\* The nodes and their stores are up; what was in memory is gone.
OSStarts ==
  /\ os = "down" /\ starts < MaxStarts
  /\ os' = "loading" /\ starts' = starts + 1
  /\ replayed' = <<>>
  /\ UNCHANGED <<config, stored, lane, edit, queue, kept, excused>>

\* runSavedPlans() asks for the lanes; an error is logged.
GetLanes(ok) ==
  /\ os = "loading"
  /\ os' = "replaying"
  /\ queue' = Loaded(ok).lanes
  /\ UNCHANGED <<config, stored, starts, lane, edit, replayed, kept, excused>>

\* replay() of one lane: it reads the stored lane and executes its tasks
\* again.  The next one follows whatever comes of it.
Replay(ok) ==
  /\ os = "replaying" /\ queue # <<>>
  /\ ok => Head(queue) \in stored /\ AnswersWithValue(LaneBackend)
  /\ queue' = Tail(queue)
  /\ replayed' = IF ok THEN Append(replayed, Head(queue)) ELSE replayed
  /\ UNCHANGED <<config, stored, os, starts, lane, edit, kept, excused>>

OSRuns ==
  /\ os = "replaying" /\ queue = <<>>
  /\ os' = "running"
  /\ UNCHANGED <<config, stored, starts, lane, edit, queue, replayed, kept, excused>>

\* The process ends, at any point, in the middle of a write too; so do the
\* lanes that were under way.
Volatile(b) == b = "memory"

OSStops ==
  /\ os # "down"
  /\ os' = "down" /\ queue' = <<>> /\ edit' = NoEdit
  /\ lane' = [l \in Lanes |-> IF lane[l].stage \in {"stored", "adding", "writing"}
                               THEN [stage |-> "failed", copy |-> Absent] ELSE lane[l]]
  /\ config' = IF Volatile(Backend) THEN Absent ELSE config
  /\ stored' = IF Volatile(LaneBackend) THEN {} ELSE stored
  /\ excused' = (excused \/ Volatile(Backend) \/ Volatile(LaneBackend) \/ config = Torn)
  /\ UNCHANGED <<starts, replayed, kept>>

-----------------------------------------------------------------------------
Next ==
  \/ OSStarts \/ OSRuns \/ OSStops
  \/ UpdateMetadataReads \/ DeleteConfig
  \/ \E cid \in Cids : RemoveLane(cid)
  \/ \E lanes \in Given : SaveConfig(lanes)
  \/ \E ok \in BOOLEAN :
       \/ GetLanes(ok) \/ Replay(ok) \/ UpdateMetadataWrites(ok) \/ EditIsWritten(ok)
       \/ \E l \in Lanes : \/ Store(l, ok) \/ AddLaneReads(l, ok)
                          \/ AddLaneWrites(l, ok) \/ AddLaneIsWritten(l, ok)

Spec == Init /\ [][Next]_vars

-----------------------------------------------------------------------------
(* Properties.                                                             *)

\* A start executes the tasks of a lane again at most once, whatever edits of
\* the configuration overlapped and however often a lane was persisted.
ReplayedOnce == \A i, j \in 1..Len(replayed) : replayed[i] = replayed[j] => i = j

\* Persisting is acknowledged when the cid is in the configuration, and it
\* stays there; while the file is written, it is in what is written.  All that
\* excuses its absence: two edits that overlapped, a read or a write that
\* failed, a process that ended in a write, an update of the metadata, a
\* configuration saved over this one without the lane, a deleted one, a store
\* that is only in memory.
AcknowledgedIsKept ==
  ~excused =>
    /\ Writers = {} /\ edit.stage # "writing" => kept \subseteq ToSet(config.lanes)
    /\ \A l \in Writers : kept \subseteq ToSet(lane[l].copy.lanes)
    /\ edit.stage = "writing" => kept \subseteq ToSet(edit.copy.lanes)

\* "persistToConfig: Persist lane for replay on startup" (o-lane/README.md:472):
\* a start that reads the configuration, and has no excuse, goes on to replay
\* every lane whose persistence was acknowledged.
PersistedAreReplayed ==
  [][GetLanes(TRUE) /\ ~excused => kept \subseteq ToSet(queue')]_vars
=============================================================================
