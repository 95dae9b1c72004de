----------------------------- MODULE OSInstances -----------------------------
(***************************************************************************)
(* The processes that start, stop and look after an OS instance by name,   *)
(* and the one file they share: startOS, stopOS and statusOS, and the      *)
(* index that a started OS builds in the background and notes there.       *)
(*                                                                         *)
(* Each reads the file, does something that takes time and writes the      *)
(* whole file again; an update is laid over what is there by then.  A      *)
(* process is its pid; a signal ends it a little later.                    *)
(***************************************************************************)
EXTENDS Naturals, FiniteSets

CONSTANTS
  Pids,      \* processes that may start an OS, each once
  MaxCalls   \* bound: calls of stopOS and statusOS

VARIABLES
  file,     \* the instance's configuration
  proc,     \* state of each process
  seen,     \* what the call of each process read
  call,     \* a call of stopOS or statusOS in another process
  calls,
  index,    \* the index of each process's OS, in the background
  overlap   \* the file was written between somebody's reading and writing

vars == <<file, proc, seen, call, calls, index, overlap>>

File    == [status : {"running", "stopped"}, pid : Pids \cup {"none"}, indexed : BOOLEAN]
NoFile  == [status |-> "none", pid |-> "none", indexed |-> FALSE]
NoCall  == [name |-> "none", read |-> NoFile]

TypeOK ==
  /\ file \in File \cup {NoFile}
  /\ proc \in [Pids -> {"new", "clearing", "starting", "running", "failed", "dying", "ended"}]
  /\ seen \in [Pids -> File \cup {NoFile}]
  /\ call.name \in {"none", "stop", "status"} /\ call.read \in File \cup {NoFile}
  /\ calls \in 0..MaxCalls
  /\ index \in [Pids -> {"none", "indexing", "noting", "done"}]
  /\ overlap \in BOOLEAN

Init ==
  /\ file = NoFile
  /\ proc = [p \in Pids |-> "new"] /\ seen = [p \in Pids |-> NoFile]
  /\ call = NoCall /\ calls = 0
  /\ index = [p \in Pids |-> "none"]
  /\ overlap = FALSE

-----------------------------------------------------------------------------
\* isProcessAlive(): a process that has been told to end still answers.
IsProcessAlive(p) == p # "none" /\ proc[p] \notin {"new", "ended"}

\* Somebody else is between reading the file and writing it.
Busy(p) == \/ \E q \in Pids \ {p} : proc[q] \in {"clearing", "starting"} \/ index[q] = "noting"
           \/ call # NoCall

\* updateOSConfig() lays a configuration over the file, if there is one.  The
\* time of the index is in the one or the other.
Updated(c) == IF file = NoFile THEN NoFile
              ELSE [c EXCEPT !.indexed = @ \/ file.indexed]

Cleared(c) == [c EXCEPT !.status = "stopped", !.pid = "none"]

\* process.kill(): SIGTERM.  The process may take its time.
Killed(p) == proc' = [proc EXCEPT ![p] = "dying"]

\* Mutant: the pid is compared the wrong way round.
StopsItself(existing, p) == IsProcessAlive(existing.pid) /\ existing.pid = p

\* The condition of startOS for another process of this name.
StopsExisting(existing, p) == IsProcessAlive(existing.pid) /\ existing.pid # p

\* startOS, up to the update of the file or the start of the OS.
StartOS(p) ==
  /\ proc[p] = "new"
  /\ seen' = [seen EXCEPT ![p] = file]
  /\ proc' = IF StopsExisting(file, p)
               THEN [proc EXCEPT ![p] = "clearing", ![file.pid] = "dying"]
               ELSE [proc EXCEPT ![p] = "starting"]
  /\ overlap' = (overlap \/ Busy(p))
  /\ UNCHANGED <<file, call, calls, index>>

\* The other process of this name is noted as stopped.
ExistingCleared(p) ==
  /\ proc[p] = "clearing"
  /\ file' = Updated(Cleared(seen[p]))
  /\ proc' = [proc EXCEPT ![p] = "starting"]
  /\ UNCHANGED <<seen, call, calls, index, overlap>>

\* os.start() is over.  If it succeeded the file is written as a new one, and
\* the background index has looked for an earlier one before.
OSStarted(p, ok) ==
  /\ proc[p] = "starting"
  /\ IF ok THEN /\ proc' = [proc EXCEPT ![p] = "running"]
                /\ file' = [status |-> "running", pid |-> p, indexed |-> FALSE]
                /\ index' = [index EXCEPT ![p] = IF file.indexed THEN "done" ELSE "indexing"]
     ELSE proc' = [proc EXCEPT ![p] = "failed"] /\ UNCHANGED <<file, index>>
  /\ UNCHANGED <<seen, call, calls, overlap>>

\* indexOnceInBackground(), when the index is built: it reads the file ...
Indexed(p) ==
  /\ proc[p] \in {"running", "dying"} /\ index[p] = "indexing"
  /\ index' = [index EXCEPT ![p] = IF file = NoFile THEN "done" ELSE "noting"]
  /\ seen' = [seen EXCEPT ![p] = file]
  /\ overlap' = (overlap \/ Busy(p))
  /\ UNCHANGED <<file, proc, call, calls>>

\* ... and writes it with the time of the index.
IndexNoted(p) ==
  /\ proc[p] \in {"running", "dying"} /\ index[p] = "noting"
  /\ index' = [index EXCEPT ![p] = "done"]
  /\ file' = [seen[p] EXCEPT !.indexed = TRUE]
  /\ UNCHANGED <<proc, seen, call, calls, overlap>>

\* A process ends by itself, or its start has failed.
ProcessEnds(p) ==
  /\ proc[p] \notin {"new", "ended"}
  /\ proc' = [proc EXCEPT ![p] = "ended"]
  /\ index' = [index EXCEPT ![p] = IF @ = "noting" THEN "none" ELSE @]
  /\ UNCHANGED <<file, seen, call, calls, overlap>>

\* stopOS: the process is told to end.
StopOS ==
  /\ call = NoCall /\ calls < MaxCalls /\ file # NoFile
  /\ call' = [name |-> "stop", read |-> file] /\ calls' = calls + 1
  /\ IF IsProcessAlive(file.pid) THEN Killed(file.pid) ELSE UNCHANGED proc
  /\ overlap' = (overlap \/ \E p \in Pids : Busy(p))
  /\ UNCHANGED <<file, seen, index>>

\* statusOS finds a process that runs no longer.
StatusOS ==
  /\ call = NoCall /\ calls < MaxCalls
  /\ file.status = "running" /\ ~IsProcessAlive(file.pid)
  /\ call' = [name |-> "status", read |-> file] /\ calls' = calls + 1
  /\ overlap' = (overlap \/ \E p \in Pids : Busy(p))
  /\ UNCHANGED <<file, proc, seen, index>>

\* Both note that the instance is stopped.
StopNoted ==
  /\ call # NoCall
  /\ file' = Updated(Cleared(call.read))
  /\ call' = NoCall
  /\ UNCHANGED <<proc, seen, calls, index, overlap>>

\* deleteOSInstance(); the caller sees to it that nothing runs.
DeleteOSInstance ==
  /\ file # NoFile /\ ~IsProcessAlive(file.pid)
  /\ file' = NoFile
  /\ overlap' = (overlap \/ \E p \in Pids : Busy(p))
  /\ UNCHANGED <<proc, seen, call, calls, index>>

-----------------------------------------------------------------------------
Next ==
  \/ \E p \in Pids : \/ StartOS(p) \/ ExistingCleared(p) \/ Indexed(p) \/ IndexNoted(p)
                     \/ ProcessEnds(p)
                     \/ \E ok \in BOOLEAN : OSStarted(p, ok)
  \/ StopOS \/ StatusOS \/ StopNoted \/ DeleteOSInstance

Spec == Init /\ [][Next]_vars

-----------------------------------------------------------------------------
(* Properties.                                                             *)

\* One process runs the instance, and the file names it - as long as nobody
\* reads the file while another is between its reading and its writing.  No
\* lock makes them take turns.
OneInstance ==
  ~overlap => \A p \in Pids : proc[p] = "running" => file.pid = p
=============================================================================
