------------------------------- MODULE Worlds --------------------------------
(***************************************************************************)
(* Worlds of an OS: the world manager keeps an instance per world, each    *)
(* with its members and the directories registered with it, and one file   *)
(* per world; the directories are also allowed in the one file system tool *)
(* of the OS.                                                              *)
(*                                                                         *)
(* The manager writes a world's file from its configuration and the        *)
(* addresses it reads there; the instance writes it from memory; a command *)
(* line adds addresses to it from outside, which the manager picks up a    *)
(* little later.  A call waits at every await, and any number of calls     *)
(* overlap.  What is to be written is fixed before the file is opened;     *)
(* from then until the write ends the file holds nothing that parses.      *)
(*                                                                         *)
(* Not modelled: two starts of one world at once, which leave two          *)
(* instances, and a start of a world while calls of its former instance    *)
(* wait for more than the end of its file.                                 *)
(***************************************************************************)
EXTENDS Naturals, FiniteSets

CONSTANTS
  WorldIds, Members, Directories,
  Calls,       \* calls of the tools that may overlap
  MaxOSStarts  \* bound: starts of the manager

\* A call that adds nobody names nobody.
ASSUME WorldsAssumption == "none" \notin Members

VARIABLES
  up,       \* the manager runs
  osStarts,
  worlds,   \* the map of the manager, and what each instance has in memory
  file,     \* per world: the file
  allowed,  \* directories the file system tool gives access to
  call,     \* what each call waits for
  changed,  \* the world whose file the watcher will look at, if any
  joined,   \* members whose joining was acknowledged
  unwritten, \* those of them whom no write has put in the file for sure
  removed   \* worlds whose removal was acknowledged, and was the end of them

worldVars == <<up, osStarts, worlds, file, allowed, call, changed, joined, unwritten, removed>>

Held(at)   == [at : at, members : SUBSET Members, addresses : SUBSET Directories]
Nothing    == [at |-> "none", members |-> {}, addresses |-> {}]
Torn       == [Nothing EXCEPT !.at = "torn"]
Kinds      == {"idle", "config", "addresses", "open", "write", "register", "unregister",
               "remove", "unlink", "sync"}
NoCall     == [kind |-> "idle", world |-> "none", member |-> "none", path |-> "none",
               content |-> Nothing, clean |-> TRUE, todo |-> {}]

WorldsTypeOK ==
  /\ up \in BOOLEAN /\ osStarts \in 0..MaxOSStarts
  /\ worlds \in [WorldIds -> Held({"none", "running", "stopped"})]
  /\ file \in [WorldIds -> Held({"none", "whole", "torn"})]
  /\ allowed \subseteq Directories
  /\ \A c \in Calls : call[c].kind \in Kinds /\ call[c].clean \in BOOLEAN
                     /\ call[c].todo \subseteq Directories
  /\ changed \subseteq WorldIds /\ Cardinality(changed) \leq 1
  /\ {joined, unwritten} \subseteq [WorldIds -> SUBSET Members]
  /\ removed \subseteq WorldIds

WorldsInit ==
  /\ up = FALSE /\ osStarts = 0
  /\ worlds = [w \in WorldIds |-> Nothing] /\ file = [w \in WorldIds |-> Nothing]
  /\ allowed = {}
  /\ call = [c \in Calls |-> NoCall]
  /\ changed = {}
  /\ joined = [w \in WorldIds |-> {}] /\ unwritten = [w \in WorldIds |-> {}]
  /\ removed = {}

-----------------------------------------------------------------------------
InMap(w)  == worlds[w].at # "none"
Runs(w)   == worlds[w].at = "running"
Others(c, w) == {d \in Calls \ {c} : call[d].world = w}

\* Calls that write the file of w, or are about to.
Writers(w) == {c \in Calls : call[c].world = w /\ call[c].kind \in {"open", "write"}}
Writing(w) == {c \in Writers(w) : call[c].kind = "write"}

\* add_path and remove_path of the file system tool.
AddPath(path)    == allowed' = allowed \cup {path}
RemovePath(path) == allowed' = allowed \ {path}

\* What start() of the instance finds in its file; one that does not parse
\* holds none.
LoadAddresses(w) == file[w].addresses

Waits(c, kind, w, member, path) ==
  call' = [call EXCEPT ![c] = [NoCall EXCEPT !.kind = kind, !.world = w, !.member = member,
                                               !.path = path, !.todo = call[c].todo]]

\* A call is answered; a sync goes on with the addresses it has left.
Returns(c) ==
  call' = [call EXCEPT ![c] = IF call[c].todo = {} THEN NoCall
                              ELSE [NoCall EXCEPT !.kind = "sync", !.world = call[c].world,
                                                  !.todo = call[c].todo]]

\* A call ends with an error.
Throws(c) == call' = [call EXCEPT ![c] = NoCall]

\* The file of w changes, and the watcher sees it.  There is one timer for all
\* files: a change of another file takes the place of an earlier one.
Becomes(w, content) ==
  /\ file' = [file EXCEPT ![w] = content]
  /\ changed' = IF up THEN {w} ELSE {}

\* startWorldInstance(): the addresses are loaded from the file and allowed.
\* A directory that is gone stops the start.
Started(w, members) ==
  /\ worlds' = [worlds EXCEPT ![w] = [at |-> "running", members |-> members,
                                        addresses |-> LoadAddresses(w)]]
  /\ allowed' = allowed \cup LoadAddresses(w)

\* Nobody else is about to start w or waits for its former instance.
MayBeStarted(c, w) ==
  ~InMap(w) /\ \A d \in Others(c, w) : call[d].kind = "unlink"

-----------------------------------------------------------------------------
(* The manager.                                                            *)

\* start() and restoreWorlds(): a file that does not parse is passed over.
ManagerStarts ==
  /\ ~up /\ osStarts < MaxOSStarts
  /\ up' = TRUE /\ osStarts' = osStarts + 1
  /\ worlds' = [w \in WorldIds |-> IF file[w].at = "whole" THEN [file[w] EXCEPT !.at = "running"]
                                   ELSE Nothing]
  /\ allowed' = UNION {LoadAddresses(w) : w \in WorldIds}
  /\ UNCHANGED <<file, call, changed, joined, unwritten, removed>>

\* The process ends with every call of its, in the middle of a write too, and
\* nothing is watched.
ManagerEnds ==
  /\ up /\ up' = FALSE
  /\ worlds' = [w \in WorldIds |-> Nothing] /\ allowed' = {}
  /\ call' = [c \in Calls |-> NoCall]
  /\ changed' = {}
  /\ unwritten' = [w \in WorldIds |-> IF Writing(w) = {} THEN unwritten[w] ELSE joined[w]]
  /\ UNCHANGED <<osStarts, file, joined, removed>>

\* _tool_create_world: the instance starts and is in the map ...
CreateWorld(c, w, member) ==
  /\ up /\ call[c] = NoCall
  /\ MayBeStarted(c, w)
  /\ Started(w, {member})
  /\ Waits(c, "config", w, member, "none")
  /\ removed' = removed \ {w}
  /\ UNCHANGED <<up, osStarts, file, changed, joined, unwritten>>

\* Mutant: the member is added to a copy of the configuration.
JoinOnCopy(c, w, member) ==
  /\ up /\ call[c] = NoCall /\ InMap(w)
  /\ member \notin worlds[w].members
  /\ Waits(c, "config", w, member, "none")
  /\ UNCHANGED <<up, osStarts, worlds, file, allowed, changed, joined, unwritten, removed>>

\* _tool_join_world: a new member is in memory at once and then written; one
\* who is there already is welcome at once, written or not.
JoinWorld(c, w, member) ==
  /\ up /\ call[c] = NoCall /\ InMap(w)
  /\ IF member \in worlds[w].members
     THEN /\ joined' = [joined EXCEPT ![w] = @ \cup {member}]
          /\ unwritten' = [unwritten EXCEPT ![w] = @ \cup ({member} \ joined[w])]
          /\ UNCHANGED <<worlds, call>>
     ELSE /\ worlds' = [worlds EXCEPT ![w].members = @ \cup {member}]
          /\ Waits(c, "config", w, member, "none")
          /\ UNCHANGED <<joined, unwritten>>
  /\ UNCHANGED <<up, osStarts, file, allowed, changed, removed>>

\* What persistWorldConfig() and persistAddresses() write is what the instance
\* has in memory, also when its world is gone; the addresses of the former are
\* those it has just read.  Of two writes of one file at a time neither is
\* clean: they may end in the other order or garble the file.
Serialised(c) ==
  LET w == call[c].world  others == Writers(w) IN
  /\ call[c].kind \in {"config", "addresses"}
  /\ call' = [d \in Calls |->
       IF d = c
       THEN [call[c] EXCEPT !.kind = "open", !.clean = (others = {}),
               !.content = [at |-> "whole", members |-> worlds[w].members,
                            addresses |-> IF call[c].kind = "config" THEN LoadAddresses(w)
                                          ELSE worlds[w].addresses]]
       ELSE [call[d] EXCEPT !.clean = @ /\ d \notin others]]
  /\ unwritten' = [unwritten EXCEPT ![w] = IF others = {} THEN @ ELSE joined[w]]
  /\ UNCHANGED <<up, osStarts, worlds, file, allowed, changed, joined, removed>>

FileOpened(c) ==
  /\ call[c].kind = "open"
  /\ Becomes(call[c].world, Torn)
  /\ call' = [call EXCEPT ![c].kind = "write"]
  /\ UNCHANGED <<up, osStarts, worlds, allowed, joined, unwritten, removed>>

\* The write ends, and with it a call that created or joined the world.
FileWritten(c, result) ==
  LET w == call[c].world  content == call[c].content IN
  /\ call[c].kind = "write"
  /\ call[c].clean => result = content
  /\ Becomes(w, result)
  /\ IF InMap(w)
     THEN LET welcome == {call[c].member} \cap Members IN
          /\ joined' = [joined EXCEPT ![w] = @ \cup welcome]
          /\ unwritten' = [unwritten EXCEPT ![w] = IF call[c].clean THEN @ \ content.members
                                                   ELSE @ \cup welcome]
     ELSE UNCHANGED <<joined, unwritten>>
  /\ Returns(c)
  /\ UNCHANGED <<up, osStarts, worlds, allowed, removed>>

\* The file cannot be opened, or not be written to its end: the caller is told.
WriteFails(c) ==
  LET w == call[c].world IN
  /\ call[c].kind \in {"open", "write"}
  /\ unwritten' = [unwritten EXCEPT ![w] = IF c \in Writing(w) THEN joined[w] ELSE @]
  /\ Throws(c)
  /\ UNCHANGED <<up, osStarts, worlds, file, allowed, changed, joined, removed>>

\* _tool_remove_world: the instance stops ...
RemoveWorld(c, w) ==
  /\ up /\ call[c] = NoCall /\ InMap(w)
  /\ worlds' = [worlds EXCEPT ![w].at = "stopped"]
  /\ Waits(c, "remove", w, "none", "none")
  /\ UNCHANGED <<up, osStarts, file, allowed, changed, joined, unwritten, removed>>

\* ... and leaves the map; its directories stay allowed.
WorldLeaves(c) ==
  LET w == call[c].world IN
  /\ call[c].kind = "remove"
  /\ worlds' = [worlds EXCEPT ![w].at = "none"]
  /\ joined' = [joined EXCEPT ![w] = {}]
  /\ unwritten' = [unwritten EXCEPT ![w] = {}]
  /\ call' = [call EXCEPT ![c].kind = "unlink"]
  /\ UNCHANGED <<up, osStarts, file, allowed, changed, removed>>

\* Mutant: the file is left to the next start.
WorldFileKept(c) ==
  /\ call[c].kind = "unlink"
  /\ removed' = removed \cup {call[c].world}
  /\ Throws(c)
  /\ UNCHANGED <<up, osStarts, worlds, file, allowed, changed, joined, unwritten>>

\* The file goes, under a write that has opened it too.  Other calls of the
\* world's that are under way may write it again, and it may have been started
\* again meanwhile.
WorldFileRemoved(c) ==
  LET w == call[c].world IN
  /\ call[c].kind = "unlink"
  /\ Becomes(w, Nothing)
  /\ call' = [d \in Calls |->
       IF d = c THEN NoCall ELSE [call[d] EXCEPT !.clean = @ /\ d \notin Writing(w)]]
  /\ unwritten' = [unwritten EXCEPT ![w] = joined[w]]
  /\ removed' = removed \cup {x \in {w} : /\ ~InMap(w)
                                          /\ \A d \in Others(c, w) :
                                               call[d].kind \in {"remove", "unlink"}}
  /\ UNCHANGED <<up, osStarts, worlds, allowed, joined>>

\* syncFromDisk(), half a second after the last change: the file is read, if
\* there is one and it parses ...
SyncFromDisk(c, w) ==
  /\ up /\ w \in changed /\ call[c] = NoCall
  /\ changed' = {}
  /\ call' = IF file[w].at # "whole" THEN call
             ELSE [call EXCEPT ![c] = [NoCall EXCEPT !.kind = "sync", !.world = w,
                                         !.content = file[w], !.todo = file[w].addresses]]
  /\ UNCHANGED <<up, osStarts, worlds, file, allowed, joined, unwritten, removed>>

\* ... a world that is not in the map is started ...
SyncStarts(c) ==
  LET w == call[c].world IN
  /\ call[c].kind = "sync" /\ call[c].content # Nothing
  /\ MayBeStarted(c, w)
  /\ Started(w, call[c].content.members)
  /\ Throws(c)
  /\ UNCHANGED <<up, osStarts, file, changed, joined, unwritten, removed>>

\* ... and of one that is, each address that is not in memory is registered.
SyncRegisters(c) ==
  LET w == call[c].world IN
  /\ call[c].kind = "sync" /\ (InMap(w) \/ call[c].content = Nothing)
  /\ IF call[c].todo \subseteq worlds[w].addresses THEN Throws(c)
     ELSE \E path \in call[c].todo \ worlds[w].addresses :
            call' = [call EXCEPT ![c] = [NoCall EXCEPT !.kind = "register", !.world = w,
                                           !.path = path,
                                           !.todo = call[c].todo \ {path}]]
  /\ UNCHANGED <<up, osStarts, worlds, file, allowed, changed, joined, unwritten, removed>>

\* The command line writes an address to the file of a world.
CommandLineAdds(w, path) ==
  /\ file[w].at = "whole" /\ path \notin file[w].addresses
  /\ Becomes(w, [file[w] EXCEPT !.addresses = @ \cup {path}])
  /\ UNCHANGED <<up, osStarts, worlds, allowed, call, joined, unwritten, removed>>

-----------------------------------------------------------------------------
(* The instance, and the file system tool.                                 *)

\* _tool_register_address of a path it has not got.
RegisterAddress(c, w, path) ==
  /\ up /\ call[c] = NoCall /\ Runs(w)
  /\ path \notin worlds[w].addresses
  /\ Waits(c, "register", w, "none", path)
  /\ UNCHANGED <<up, osStarts, worlds, file, allowed, changed, joined, unwritten, removed>>

\* add_path answers: the path is a directory or it is not.  A call of a
\* stopped instance fails there.
AddressRegistered(c, isDirectory) ==
  LET w == call[c].world  path == call[c].path IN
  /\ call[c].kind = "register"
  /\ IF isDirectory /\ Runs(w)
     THEN /\ worlds' = [worlds EXCEPT ![w].addresses = @ \cup {path}]
          /\ AddPath(path)
          /\ Waits(c, "addresses", w, "none", path)
     ELSE /\ IF Runs(w) THEN Returns(c) ELSE Throws(c)
          /\ UNCHANGED <<worlds, allowed>>
  /\ UNCHANGED <<up, osStarts, file, changed, joined, unwritten, removed>>

\* _tool_remove_address: the path leaves the memory at once ...
RemoveAddress(c, w, path) ==
  /\ up /\ call[c] = NoCall /\ Runs(w)
  /\ path \in worlds[w].addresses
  /\ worlds' = [worlds EXCEPT ![w].addresses = @ \ {path}]
  /\ Waits(c, "unregister", w, "none", path)
  /\ UNCHANGED <<up, osStarts, file, allowed, changed, joined, unwritten, removed>>

\* ... and after remove_path the file.
AddressRemoved(c) ==
  LET w == call[c].world IN
  /\ call[c].kind = "unregister"
  /\ IF Runs(w) THEN RemovePath(call[c].path) /\ Waits(c, "addresses", w, "none", call[c].path)
     ELSE Throws(c) /\ UNCHANGED allowed
  /\ UNCHANGED <<up, osStarts, worlds, file, changed, joined, unwritten, removed>>

-----------------------------------------------------------------------------
WorldsNext ==
  \/ ManagerStarts \/ ManagerEnds
  \/ \E w \in WorldIds, path \in Directories : CommandLineAdds(w, path)
  \/ \E c \in Calls :
       \/ Serialised(c) \/ FileOpened(c) \/ WriteFails(c)
       \/ WorldLeaves(c) \/ WorldFileRemoved(c) \/ AddressRemoved(c)
       \/ SyncStarts(c) \/ SyncRegisters(c)
       \/ \E result \in {call[c].content, Torn, Nothing} : FileWritten(c, result)
       \/ \E isDirectory \in BOOLEAN : AddressRegistered(c, isDirectory)
       \/ \E w \in WorldIds :
            \/ RemoveWorld(c, w) \/ SyncFromDisk(c, w)
            \/ \E member \in Members : CreateWorld(c, w, member) \/ JoinWorld(c, w, member)
            \/ \E path \in Directories : RegisterAddress(c, w, path) \/ RemoveAddress(c, w, path)

WorldsSpec == WorldsInit /\ [][WorldsNext]_worldVars

-----------------------------------------------------------------------------
(* Properties.                                                             *)

\* A member whose joining was acknowledged stays in the file of the world, or in
\* the write that is under way on it, whichever of the writers of the file comes
\* last and however often the manager restarts, until the world is removed.  The
\* exceptions, each until the next write that nothing disturbs: one who was
\* welcomed as a member already when no write had ended since; and everyone,
\* when two writes of the file overlapped, the process ended or failed within a
\* write, or the file was unlinked by a removal that the world had outlived.
MembersAreKept ==
  \A w \in WorldIds :
    LET kept == joined[w] \ unwritten[w] IN
    \/ kept \subseteq file[w].members
    \/ \E c \in Writing(w) : call[c].clean /\ kept \subseteq call[c].content.members

\* A world whose removal was acknowledged is not in its directory any more, and
\* no start, sync, command line or write brings it back, unless another call of
\* the world's was still under way, or it had been started again, when its file
\* went.
RemovedIsGone == \A w \in removed : file[w].at = "none"
=============================================================================
