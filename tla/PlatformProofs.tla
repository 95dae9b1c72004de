--------------------------- MODULE PlatformProofs ---------------------------
(***************************************************************************)
(* Proofs about what lives longer than a call, one part of Platform after  *)
(* the other: the life of a node, worlds, agents and their registry, their *)
(* inbox, an OlaneOS object and the processes that share an instance.      *)
(* Each has an inductive invariant of its own, and holds for every value   *)
(* of its constants.                                                       *)
(***************************************************************************)
EXTENDS Platform, SequenceFacts, FiniteSetTheorems

-----------------------------------------------------------------------------
(* The life of a node.                                                     *)

\* The state is decided by whoever is past its guard.
Points ==
  /\ starter \in {"validating", "creating", "initializing", "registering"}
       => state = "STARTING" /\ stopper = "idle"
  /\ starter \in TeardownAt => state \in {"ERROR", "STOPPING"} /\ stopper = "idle"
  /\ stopper # "idle" => state = "STOPPING" /\ starter = "idle"
  /\ state \in {"STOPPED", "RUNNING"} => starter = "idle" /\ stopper = "idle"

\* What is left of an earlier start, and what the current one has built.
Fields ==
  /\ state = "STOPPED" \/ starter \in {"validating", "creating"} =>
       ~managers /\ ~p2pNode /\ ~errored /\ ~loop
  /\ starter = "initializing" => p2pNode /\ ~managers /\ ~errored
  /\ starter = "registering" \/ state = "RUNNING" => managers /\ p2pNode /\ ~errored
  /\ loop => managers
  /\ heartbeat => state = "RUNNING"

\* Every libp2p node and every loop that was left behind had a start().
Counts ==
  /\ IF starter \in {"validating", "creating"} THEN listening < starts ELSE listening <= starts
  /\ IF managers \/ starter \in {"validating", "creating", "initializing"}
     THEN orphans < starts ELSE orphans <= starts

LifecycleInv == TypeOK /\ Points /\ Fields /\ Counts

\* The initial states satisfy the invariant.
LEMMA LifecycleInitInv == Init => LifecycleInv
<1> SUFFICES ASSUME Init PROVE LifecycleInv
  OBVIOUS
<1>1. TypeOK
  <2>1. /\ errored \in BOOLEAN /\ managers \in BOOLEAN /\ p2pNode \in BOOLEAN
        /\ heartbeat \in BOOLEAN /\ loop \in BOOLEAN
    BY Zenon DEF Init
  <2> QED BY <2>1, LifecycleAssumption
          DEF Init, TypeOK, States, StarterPoint, StopperPoint, TeardownAt
<1>2. Points /\ Fields
  BY DEF Init, Points, Fields, TeardownAt
<1>3. Counts
  BY DEF Init, Counts
<1> QED BY <1>1, <1>2, <1>3 DEF LifecycleInv

\* Every step of the life of a node keeps the invariant.
LEMMA LifecycleNextInv == LifecycleInv /\ [Next]_vars => LifecycleInv'
<1> SUFFICES ASSUME LifecycleInv, [Next]_vars PROVE LifecycleInv'
  OBVIOUS
<1> USE LifecycleAssumption
    DEF LifecycleInv, TypeOK, States, StarterPoint, StopperPoint, TeardownAt, Points, Fields, Counts,
        parts, loops
<1>1. CASE Start
  BY <1>1 DEF Start, MayStart
<1>2. CASE Stop
  BY <1>2 DEF Stop, MayStop, HeartbeatCleared
<1>3. CASE Validated
  BY <1>3 DEF Validated
<1>4. CASE NodeCreated
  BY <1>4 DEF NodeCreated
<1>5. CASE Initialized
  BY <1>5 DEF Initialized
<1>6. CASE InitializeThrows
  BY <1>6 DEF InitializeThrows
<1>7. CASE RegisterEnded
  BY <1>7 DEF RegisterEnded
<1>8. CASE UnregisterEnded
  BY <1>8 DEF UnregisterEnded
<1>9. CASE TeardownThrows
  BY <1>9 DEF TeardownThrows
<1>10. CASE TornDown
  <2>1. /\ errored' = FALSE /\ managers' = FALSE /\ p2pNode' = FALSE
        /\ heartbeat' = FALSE /\ loop' = FALSE /\ listening' = listening /\ starts' = starts
        /\ starter' \in StarterPoint /\ stopper' \in StopperPoint /\ state' \in States
        /\ orphans' = IF loop THEN orphans + 1 ELSE orphans
    BY <1>10 DEF TornDown, ResetState, StartFailed, Stopped
  <2>2. /\ errored' \in BOOLEAN /\ managers' \in BOOLEAN /\ p2pNode' \in BOOLEAN
        /\ heartbeat' \in BOOLEAN /\ loop' \in BOOLEAN
    BY <2>1, Zenon
  <2>3. TypeOK'
    BY <2>1, <2>2
  <2>4. Points' /\ Fields' /\ Counts'
    BY <1>10, <2>1, <2>2 DEF TornDown, StartFailed, Stopped
  <2> QED BY <2>3, <2>4
<1>11. CASE ParentLost
  BY <1>11 DEF ParentLost
<1>12. CASE LoopEnds
  <2>1. /\ UNCHANGED <<state, errored, starter, stopper, managers, p2pNode, listening,
                       heartbeat, starts>>
        /\ orphans' = orphans \/ (orphans > 0 /\ orphans' = orphans - 1)
        /\ loop' = loop \/ loop' = FALSE
    BY <1>12 DEF LoopEnds
  <2>2. loop' \in BOOLEAN /\ (loop' => loop)
    <3>1. CASE loop' = loop
      BY <3>1
    <3>2. CASE loop' = FALSE
      BY <3>2, Zenon
    <3> QED BY <2>1, <3>1, <3>2
  <2>3. orphans' \in Nat /\ orphans' <= orphans
    BY <2>1
  <2>4. TypeOK' /\ Points'
    BY <2>1, <2>2, <2>3
  <2>5. Fields' /\ Counts'
    BY <2>1, <2>2, <2>3
  <2> QED BY <2>4, <2>5
<1>13. CASE UNCHANGED vars
  BY <1>13 DEF vars
<1> QED
  BY <1>1, <1>2, <1>3, <1>4, <1>5, <1>6, <1>7, <1>8, <1>9, <1>10, <1>11, <1>12, <1>13
     DEF Next, StartStep, TeardownStep

\* The invariant holds in every state.
LEMMA LifecycleInvariant == Spec => []LifecycleInv
BY LifecycleInitInv, LifecycleNextInv, PTL DEF Spec

-----------------------------------------------------------------------------
\* The node's state, its program points and its counters keep their types: no
\* more libp2p nodes and no more loops are left behind than starts were made.
THEOREM LifecycleTypeCorrect == Spec => []TypeOK
<1>1. LifecycleInv => TypeOK
  BY DEF LifecycleInv
<1> QED BY <1>1, LifecycleInvariant, PTL

\* start() and stop(), with their teardown()s, never interleave.
THEOREM LifecycleExclusive == Spec => []OneLifecycleActivity
<1>1. LifecycleInv => OneLifecycleActivity
  BY DEF LifecycleInv, Points, OneLifecycleActivity
<1> QED BY <1>1, LifecycleInvariant, PTL

\* A RUNNING node has all its parts and no error left over.
THEOREM RunningWhole == Spec => []RunningIsWhole
<1>1. LifecycleInv => RunningIsWhole
  BY DEF LifecycleInv, Fields, RunningIsWhole
<1> QED BY <1>1, LifecycleInvariant, PTL

\* The monitor interval never outlives RUNNING.
THEOREM HeartbeatBounded == Spec => []HeartbeatOnlyWhileRunning
<1>1. LifecycleInv => HeartbeatOnlyWhileRunning
  BY DEF LifecycleInv, Fields, HeartbeatOnlyWhileRunning
<1> QED BY <1>1, LifecycleInvariant, PTL

\* Every start() that gets past its guard finds a node that was reset.
THEOREM FreshStarts == Spec => StartsFresh
<1>1. LifecycleInv /\ [Next]_vars =>
        [starts' # starts => ~managers /\ ~p2pNode /\ ~errored /\ ~loop]_vars
  <2> SUFFICES ASSUME LifecycleInv, [Next]_vars, starts' # starts
               PROVE  ~managers /\ ~p2pNode /\ ~errored /\ ~loop
    OBVIOUS
  <2>1. Start
    BY DEF Next, StartStep, TeardownStep, Stop, Validated, NodeCreated, Initialized,
           InitializeThrows, RegisterEnded, UnregisterEnded, TeardownThrows, TornDown,
           ParentLost, LoopEnds, vars
  <2>2. state = "STOPPED"
    BY <2>1 DEF Start, MayStart
  <2> QED BY <2>2 DEF LifecycleInv, Fields
<1> QED BY <1>1, LifecycleInvariant, PTL DEF Spec, StartsFresh

-----------------------------------------------------------------------------
(* Worlds.                                                                 *)

\* What an instance has in memory, a file or a write that is to come.
Content == [at : {"none", "running", "stopped", "whole", "torn"},
            members : SUBSET Members, addresses : SUBSET Directories]

Call == [kind : Kinds, world : WorldIds \cup {"none"}, member : Members \cup {"none"},
         path : Directories \cup {"none"}, content : Content, clean : BOOLEAN,
         todo : SUBSET Directories]

Types ==
  /\ worlds \in [WorldIds -> Content] /\ file \in [WorldIds -> Content]
  /\ call \in [Calls -> Call]
  /\ joined \in [WorldIds -> SUBSET Members] /\ unwritten \in [WorldIds -> SUBSET Members]
  /\ removed \subseteq WorldIds

\* Acknowledged, and written for sure.
Kept(w) == joined[w] \ unwritten[w]

\* A call that waits for something is about a world, and one that registers a
\* directory names one.
CallsHaveWorlds ==
  \A c \in Calls : /\ call[c].kind # "idle" => call[c].world \in WorldIds
                   /\ call[c].kind = "register" => call[c].path \in Directories

\* A manager that is down has no calls and no instances.
DownIsIdle == ~up => /\ \A c \in Calls : call[c] = NoCall
                     /\ \A w \in WorldIds : ~InMap(w)

\* Only a whole file has members.
PartIsEmpty == \A w \in WorldIds : file[w].at # "whole" => file[w].members = {}

\* The instance knows whom the file holds.
KnownInMemory ==
  up => \A w \in WorldIds : Kept(w) \subseteq IF InMap(w) THEN worlds[w].members ELSE {}

\* While nobody writes a file it holds them all.
FileIsCurrent == \A w \in WorldIds : Writing(w) = {} => Kept(w) \subseteq file[w].members

\* A clean write is the only one and holds them all; while there are others
\* nothing is promised.
WritersAreSound ==
  \A w \in WorldIds : \A c \in Writers(w) :
    /\ call[c].content.at = "whole"
    /\ Kept(w) \subseteq IF call[c].clean THEN call[c].content.members ELSE {}
    /\ call[c].clean => Writers(w) = {c}
    /\ InMap(w) => call[c].content.members \subseteq worlds[w].members

\* Who is being added is in memory, and in a clean write of it.
PendingIsMember ==
  \A c \in Calls :
    (/\ call[c].kind \in {"config", "addresses", "open", "write"}
     /\ call[c].member \in Members /\ InMap(call[c].world)) =>
        /\ call[c].member \in worlds[call[c].world].members
        /\ call[c].kind \in {"open", "write"} /\ call[c].clean
             => call[c].member \in call[c].content.members

\* A removed world has no instance, no file and no call that may write one.
RemovedIsOver ==
  \A w \in removed : /\ file[w].at = "none" /\ ~InMap(w)
                     /\ \A c \in Calls : call[c].world = w => call[c].kind \in {"idle", "remove", "unlink"}

WorldsInv ==
  /\ Types /\ CallsHaveWorlds /\ DownIsIdle /\ PartIsEmpty /\ KnownInMemory
  /\ FileIsCurrent /\ WritersAreSound /\ PendingIsMember /\ RemovedIsOver

-----------------------------------------------------------------------------
(* The pieces of the actions.                                              *)

\* The records the actions start from are of the right sort.
LEMMA SortsOfRecords ==
  Nothing \in Content /\ Torn \in Content /\ NoCall \in Call
  BY DEF Nothing, Torn, NoCall, Content, Call, Kinds

\* One call comes to something else.
LEMMA OneCallChanges ==
  ASSUME Types, NEW c \in Calls, NEW new \in Call, call' = [call EXCEPT ![c] = new]
  PROVE  /\ call' \in [Calls -> Call] /\ call'[c] = new
         /\ \A d \in Calls \ {c} : call'[d] = call[d]
  BY DEF Types

\* A call waits.
LEMMA WaitsGives ==
  ASSUME Types, NEW c \in Calls, NEW kind \in Kinds, NEW w \in WorldIds,
         NEW member \in Members \cup {"none"}, NEW path \in Directories \cup {"none"},
         Waits(c, kind, w, member, path)
  PROVE  /\ call' \in [Calls -> Call]
         /\ \A d \in Calls \ {c} : call'[d] = call[d]
         /\ call'[c].kind = kind /\ call'[c].world = w /\ call'[c].member = member
         /\ call'[c].path = path /\ call'[c].clean /\ call'[c].content = Nothing
  <1> DEFINE new == [NoCall EXCEPT !.kind = kind, !.world = w, !.member = member,
                                   !.path = path, !.todo = call[c].todo]
  <1>1. call[c].todo \in SUBSET Directories
    BY DEF Types, Call
  <1>2. new.kind = kind /\ new.world = w /\ new.member = member /\ new.path = path
        /\ new.clean /\ new.content = Nothing
    BY DEF NoCall
  <1>3. new \in Call
    BY <1>1, SortsOfRecords DEF NoCall, Call
  <1>4. call' = [call EXCEPT ![c] = new]
    BY DEF Waits
  <1> HIDE DEF new
  <1>5. call' \in [Calls -> Call] /\ call'[c] = new /\ \A d \in Calls \ {c} : call'[d] = call[d]
    BY <1>3, <1>4, OneCallChanges
  <1> QED BY <1>2, <1>5

\* A call ends, or goes on with what is left to register.
LEMMA ReturnsGives ==
  ASSUME Types, NEW c \in Calls, Returns(c)
  PROVE  /\ call' \in [Calls -> Call]
         /\ \A d \in Calls \ {c} : call'[d] = call[d]
         /\ \/ call'[c] = NoCall
            \/ /\ call'[c].kind = "sync" /\ call'[c].world = call[c].world
               /\ call'[c].member = "none" /\ call'[c].clean /\ call'[c].content = Nothing
  <1> DEFINE next == [NoCall EXCEPT !.kind = "sync", !.world = call[c].world, !.todo = call[c].todo]
  <1>1. call[c].todo \in SUBSET Directories /\ call[c].world \in WorldIds \cup {"none"}
    BY DEF Types, Call
  <1>2. next.kind = "sync" /\ next.world = call[c].world /\ next.member = "none"
        /\ next.clean /\ next.content = Nothing
    BY DEF NoCall
  <1>3. next \in Call
    BY <1>1, SortsOfRecords DEF NoCall, Call, Kinds
  <1>4. call' = [call EXCEPT ![c] = NoCall] \/ call' = [call EXCEPT ![c] = next]
    BY DEF Returns
  <1> HIDE DEF next
  <1>5. /\ call' \in [Calls -> Call] /\ \A d \in Calls \ {c} : call'[d] = call[d]
        /\ call'[c] = NoCall \/ call'[c] = next
    BY <1>3, <1>4, SortsOfRecords, OneCallChanges
  <1> QED BY <1>2, <1>5

\* A call ends.
LEMMA ThrowsGives ==
  ASSUME Types, NEW c \in Calls, Throws(c)
  PROVE  /\ call' \in [Calls -> Call] /\ call'[c] = NoCall
         /\ \A d \in Calls \ {c} : call'[d] = call[d]
  BY SortsOfRecords, OneCallChanges DEF Throws

\* A call goes on to another point.
LEMMA KindChanges ==
  ASSUME Types, NEW c \in Calls, NEW kind \in Kinds, call' = [call EXCEPT ![c].kind = kind]
  PROVE  call' \in [Calls -> Call] /\ \A d \in Calls \ {c} : call'[d] = call[d]
<1> DEFINE new == [call[c] EXCEPT !.kind = kind]
<1>1. call' = [call EXCEPT ![c] = new]
  OBVIOUS
<1>2. new \in Call
  BY DEF Types, Call
<1> HIDE DEF new
<1> QED BY <1>1, <1>2, OneCallChanges

-----------------------------------------------------------------------------
(* The calls about addresses.                                              *)

\* A call moves between points at which it adds no member and writes nothing.
LEMMA QuietCallKeeps ==
  ASSUME WorldsInv, up, up' = up, NEW c \in Calls, call' \in [Calls -> Call],
         \A d \in Calls \ {c} : call'[d] = call[d],
         call'[c].kind \in {"idle", "register", "unregister", "addresses", "sync"},
         call'[c].kind # "idle" => call'[c].world \in WorldIds \ removed,
         call'[c].kind = "register" => call'[c].path \in Directories,
         call'[c].kind = "addresses" => call'[c].member \notin Members,
         call[c].kind \notin {"open", "write"},
         worlds' \in [WorldIds -> Content],
         \A w \in WorldIds : worlds'[w].at = worlds[w].at /\ worlds'[w].members = worlds[w].members,
         UNCHANGED <<file, joined, unwritten, removed>>
  PROVE  WorldsInv'
<1> USE DEF WorldsInv, InMap
<1>1. Types' /\ PartIsEmpty' /\ CallsHaveWorlds' /\ DownIsIdle' /\ KnownInMemory'
  BY DEF Types, PartIsEmpty, CallsHaveWorlds, DownIsIdle, KnownInMemory, Kept
<1>2. \A w \in WorldIds : Writers(w)' = Writers(w) /\ Writing(w)' = Writing(w) /\ Kept(w)' = Kept(w)
  BY DEF Writers, Writing, Kept
<1>3. FileIsCurrent'
  BY <1>2 DEF FileIsCurrent
<1>4. WritersAreSound'
  BY <1>2 DEF WritersAreSound, Writers
<1>5. PendingIsMember'
  BY DEF PendingIsMember, CallsHaveWorlds
<1>6. RemovedIsOver'
  BY DEF RemovedIsOver, Types
<1> QED BY <1>1, <1>3, <1>4, <1>5, <1>6

\* A call that waits is one of a running manager, and not of a world that was
\* removed unless it waits for that.
LEMMA WaitingCall ==
  ASSUME WorldsInv, NEW c \in Calls, call[c].kind # "idle"
  PROVE  /\ up /\ call[c].world \in WorldIds
         /\ call[c].kind \notin {"remove", "unlink"} => call[c].world \notin removed
  BY DEF WorldsInv, DownIsIdle, NoCall, CallsHaveWorlds, RemovedIsOver

LEMMA RegisterAddressKeeps ==
  ASSUME WorldsInv, NEW c \in Calls, NEW w \in WorldIds, NEW path \in Directories,
         RegisterAddress(c, w, path)
  PROVE  WorldsInv'
<1> USE DEF WorldsInv, RegisterAddress
<1>1. w \notin removed /\ call[c].kind = "idle"
  BY DEF Runs, RemovedIsOver, InMap, NoCall
<1>2. /\ call' \in [Calls -> Call] /\ \A d \in Calls \ {c} : call'[d] = call[d]
      /\ call'[c].kind = "register" /\ call'[c].world = w /\ call'[c].path = path
  BY WaitsGives DEF Kinds
<1> QED BY <1>1, <1>2, QuietCallKeeps DEF Types

LEMMA RemoveAddressKeeps ==
  ASSUME WorldsInv, NEW c \in Calls, NEW w \in WorldIds, NEW path \in Directories,
         RemoveAddress(c, w, path)
  PROVE  WorldsInv'
<1> USE DEF WorldsInv, RemoveAddress
<1>1. w \notin removed /\ call[c].kind = "idle"
  BY DEF Runs, RemovedIsOver, InMap, NoCall
<1>2. /\ call' \in [Calls -> Call] /\ \A d \in Calls \ {c} : call'[d] = call[d]
      /\ call'[c].kind = "unregister" /\ call'[c].world = w
  BY WaitsGives DEF Kinds
<1>3. /\ worlds' \in [WorldIds -> Content]
      /\ \A x \in WorldIds : worlds'[x].at = worlds[x].at /\ worlds'[x].members = worlds[x].members
  BY DEF Types, Content
<1> QED BY <1>1, <1>2, <1>3, QuietCallKeeps

LEMMA AddressRegisteredKeeps ==
  ASSUME WorldsInv, NEW c \in Calls, NEW isDirectory \in BOOLEAN, AddressRegistered(c, isDirectory)
  PROVE  WorldsInv'
<1> DEFINE w == call[c].world  path == call[c].path
<1> USE DEF WorldsInv
<1>1. call[c].kind = "register" /\ up /\ w \in WorldIds \ removed /\ path \in Directories
  BY WaitingCall DEF AddressRegistered, CallsHaveWorlds
<1>2. up' = up /\ UNCHANGED <<file, joined, unwritten, removed>>
  BY DEF AddressRegistered
<1>3. CASE isDirectory /\ Runs(w)
  <2>1. Waits(c, "addresses", w, "none", path) /\ worlds' = [worlds EXCEPT ![w].addresses = @ \cup {path}]
    BY <1>3 DEF AddressRegistered
  <2>a. "addresses" \in Kinds /\ "none" \in Members \cup {"none"} /\ path \in Directories \cup {"none"}
    BY <1>1 DEF Kinds
  <2> HIDE DEF w, path
  <2>2. /\ call' \in [Calls -> Call] /\ \A d \in Calls \ {c} : call'[d] = call[d]
        /\ call'[c].kind = "addresses" /\ call'[c].world = w /\ call'[c].member = "none"
    BY <1>1, <2>1, <2>a, WaitsGives
  <2>3. /\ worlds' \in [WorldIds -> Content]
        /\ \A x \in WorldIds : worlds'[x].at = worlds[x].at /\ worlds'[x].members = worlds[x].members
    BY <1>1, <2>1 DEF Types, Content
  <2> QED BY <1>1, <1>2, <2>2, <2>3, QuietCallKeeps, WorldsAssumption
<1>4. CASE ~(isDirectory /\ Runs(w))
  <2>1. (Returns(c) \/ Throws(c)) /\ worlds' = worlds
    BY <1>4 DEF AddressRegistered
  <2>a. NoCall.kind = "idle"
    BY DEF NoCall
  <2>2. /\ call' \in [Calls -> Call] /\ \A d \in Calls \ {c} : call'[d] = call[d]
        /\ call'[c].kind = "idle" \/ (call'[c].kind = "sync" /\ call'[c].world = w)
    BY <2>1, <2>a, ReturnsGives, ThrowsGives
  <2> QED BY <1>1, <1>2, <2>1, <2>2, QuietCallKeeps DEF Types
<1> QED BY <1>3, <1>4

LEMMA AddressRemovedKeeps ==
  ASSUME WorldsInv, NEW c \in Calls, AddressRemoved(c)
  PROVE  WorldsInv'
<1> DEFINE w == call[c].world
<1> USE DEF WorldsInv
<1>1. /\ call[c].kind = "unregister" /\ up /\ w \in WorldIds \ removed
      /\ call[c].path \in Directories \cup {"none"}
  BY WaitingCall DEF AddressRemoved, Types, Call
<1>2. up' = up /\ UNCHANGED <<worlds, file, joined, unwritten, removed>>
  BY DEF AddressRemoved
<1>3. Throws(c) \/ Waits(c, "addresses", w, "none", call[c].path)
  BY DEF AddressRemoved
<1>a. "addresses" \in Kinds /\ NoCall.kind = "idle"
  BY DEF Kinds, NoCall
<1> HIDE DEF w
<1>4. /\ call' \in [Calls -> Call] /\ \A d \in Calls \ {c} : call'[d] = call[d]
      /\ call'[c].kind = "idle" \/ (/\ call'[c].kind = "addresses" /\ call'[c].world = w
                                       /\ call'[c].member = "none")
  BY <1>1, <1>3, <1>a, WaitsGives, ThrowsGives
<1> QED BY <1>1, <1>2, <1>4, QuietCallKeeps, WorldsAssumption DEF Types

LEMMA SyncRegistersKeeps ==
  ASSUME WorldsInv, NEW c \in Calls, SyncRegisters(c)
  PROVE  WorldsInv'
<1> DEFINE w == call[c].world
<1> USE DEF WorldsInv
<1>1. call[c].kind = "sync" /\ up /\ w \in WorldIds \ removed
  BY WaitingCall DEF SyncRegisters
<1>2. up' = up /\ UNCHANGED <<worlds, file, joined, unwritten, removed>>
  BY DEF SyncRegisters
<1>3. CASE Throws(c)
  BY <1>1, <1>2, <1>3, ThrowsGives, QuietCallKeeps DEF Types, NoCall
<1>4. ASSUME NEW path \in Directories,
             call' = [call EXCEPT ![c] = [NoCall EXCEPT !.kind = "register", !.world = w,
                                            !.path = path, !.todo = call[c].todo \ {path}]]
      PROVE  WorldsInv'
  <2> DEFINE new == [NoCall EXCEPT !.kind = "register", !.world = w,
                                   !.path = path, !.todo = call[c].todo \ {path}]
  <2>1. new \in Call /\ new.kind = "register" /\ new.world = w /\ new.path = path
    BY <1>1, SortsOfRecords DEF NoCall, Types, Call, Kinds
  <2>2. call' = [call EXCEPT ![c] = new]
    BY <1>4
  <2> HIDE DEF new
  <2>3. call' \in [Calls -> Call] /\ call'[c] = new /\ \A d \in Calls \ {c} : call'[d] = call[d]
    BY <2>1, <2>2, OneCallChanges
  <2> QED BY <1>1, <1>2, <2>1, <2>3, QuietCallKeeps DEF Types
<1>5. \/ Throws(c)
      \/ \E path \in Directories :
           call' = [call EXCEPT ![c] = [NoCall EXCEPT !.kind = "register", !.world = w,
                                          !.path = path, !.todo = call[c].todo \ {path}]]
  BY DEF SyncRegisters, Types, Call
<1> QED BY <1>3, <1>4, <1>5

LEMMA SyncFromDiskKeeps ==
  ASSUME WorldsInv, NEW c \in Calls, NEW w \in WorldIds, SyncFromDisk(c, w)
  PROVE  WorldsInv'
<1> USE DEF WorldsInv, SyncFromDisk
<1>1. up /\ up' = up /\ call[c].kind = "idle" /\ UNCHANGED <<worlds, file, joined, unwritten, removed>>
  BY DEF NoCall
<1>2. CASE file[w].at # "whole"
  BY <1>1, <1>2, QuietCallKeeps DEF Types
<1>3. CASE file[w].at = "whole"
  <2> DEFINE new == [NoCall EXCEPT !.kind = "sync", !.world = w, !.content = file[w],
                                   !.todo = file[w].addresses]
  <2>1. new \in Call /\ new.kind = "sync" /\ new.world = w
    BY SortsOfRecords DEF NoCall, Types, Content, Call, Kinds
  <2>2. call' = [call EXCEPT ![c] = new]
    BY <1>3
  <2> HIDE DEF new
  <2>3. call' \in [Calls -> Call] /\ call'[c] = new /\ \A d \in Calls \ {c} : call'[d] = call[d]
    BY <2>1, <2>2, OneCallChanges
  <2>4. w \notin removed
    BY <1>3 DEF RemovedIsOver
  <2> QED BY <1>1, <2>1, <2>3, <2>4, QuietCallKeeps DEF Types
<1> QED BY <1>2, <1>3

-----------------------------------------------------------------------------
(* The calls that add a member, write a file or remove a world.            *)

\* The manager reads every file.
LEMMA ManagerStartsKeeps ==
  ASSUME WorldsInv, ManagerStarts
  PROVE  WorldsInv'
<1> USE WorldsAssumption
    DEF WorldsInv, ManagerStarts, LoadAddresses, InMap, NoCall, Nothing, Torn,
        Types, Content, Call, Kinds
<1>1. Types'
  BY SMTT(40)
<1>2. CallsHaveWorlds'
  BY SMTT(40) DEF CallsHaveWorlds, DownIsIdle
<1>3. DownIsIdle'
  BY SMTT(40) DEF DownIsIdle, CallsHaveWorlds
<1>4. PartIsEmpty'
  BY SMTT(40) DEF PartIsEmpty, CallsHaveWorlds, WritersAreSound, Writers, Writing
<1>5. KnownInMemory'
  BY SMTT(40) DEF KnownInMemory, Kept, CallsHaveWorlds, DownIsIdle, WritersAreSound, Writers, Writing,
          FileIsCurrent, PartIsEmpty, PendingIsMember
<1>6. FileIsCurrent'
  BY SMTT(40) DEF KnownInMemory, FileIsCurrent, Kept, CallsHaveWorlds, DownIsIdle, WritersAreSound, Writers,
          Writing, PendingIsMember, PartIsEmpty
<1>7. WritersAreSound'
  BY SMTT(40) DEF KnownInMemory, Kept, CallsHaveWorlds, DownIsIdle, WritersAreSound, Writers, Writing,
          PendingIsMember
<1>8. PendingIsMember'
  BY SMTT(40) DEF PendingIsMember, CallsHaveWorlds, Writers, Writing, DownIsIdle, WritersAreSound
<1>9. RemovedIsOver'
  BY SMTT(40) DEF RemovedIsOver, CallsHaveWorlds, Writers, Writing, DownIsIdle
<1> QED BY <1>1, <1>2, <1>3, <1>4, <1>5, <1>6, <1>7, <1>8, <1>9

\* A write that is cut off leaves nothing that was promised.
LEMMA ManagerEndsKeeps ==
  ASSUME WorldsInv, ManagerEnds
  PROVE  WorldsInv'
<1> USE WorldsAssumption
    DEF WorldsInv, ManagerEnds, InMap, NoCall, Nothing, Torn,
        Types, Content, Call, Kinds
<1>1. Types'
  BY SMTT(40)
<1>2. CallsHaveWorlds'
  BY SMTT(40) DEF CallsHaveWorlds, DownIsIdle
<1>3. DownIsIdle'
  BY SMTT(40) DEF DownIsIdle, CallsHaveWorlds
<1>4. PartIsEmpty'
  BY SMTT(40) DEF PartIsEmpty, CallsHaveWorlds, WritersAreSound, Writers, Writing
<1>5. KnownInMemory'
  BY SMTT(40) DEF KnownInMemory, Kept, CallsHaveWorlds, DownIsIdle, WritersAreSound, Writers, Writing,
          FileIsCurrent, PartIsEmpty, PendingIsMember
<1>6. FileIsCurrent'
  BY SMTT(40) DEF KnownInMemory, FileIsCurrent, Kept, CallsHaveWorlds, DownIsIdle, WritersAreSound, Writers,
          Writing, PendingIsMember, PartIsEmpty
<1>7. WritersAreSound'
  BY SMTT(40) DEF KnownInMemory, Kept, CallsHaveWorlds, DownIsIdle, WritersAreSound, Writers, Writing,
          PendingIsMember
<1>8. PendingIsMember'
  BY SMTT(40) DEF PendingIsMember, CallsHaveWorlds, Writers, Writing, DownIsIdle, WritersAreSound
<1>9. RemovedIsOver'
  BY SMTT(40) DEF RemovedIsOver, CallsHaveWorlds, Writers, Writing, DownIsIdle
<1> QED BY <1>1, <1>2, <1>3, <1>4, <1>5, <1>6, <1>7, <1>8, <1>9

\* The members of a file are none of the command line's business.
LEMMA CommandLineAddsKeeps ==
  ASSUME WorldsInv, NEW w \in WorldIds, NEW path \in Directories, CommandLineAdds(w, path)
  PROVE  WorldsInv'
<1> USE WorldsAssumption
    DEF WorldsInv, CommandLineAdds, Becomes, InMap, NoCall, Nothing, Torn,
        Types, Content, Call, Kinds
<1>1. Types'
  BY SMTT(40)
<1>2. CallsHaveWorlds'
  BY SMTT(40) DEF CallsHaveWorlds, DownIsIdle
<1>3. DownIsIdle'
  BY SMTT(40) DEF DownIsIdle, CallsHaveWorlds
<1>4. PartIsEmpty'
  BY SMTT(40) DEF PartIsEmpty, CallsHaveWorlds, WritersAreSound, Writers, Writing
<1>5. KnownInMemory'
  BY SMTT(40) DEF KnownInMemory, Kept, CallsHaveWorlds, DownIsIdle, WritersAreSound, Writers, Writing,
          FileIsCurrent, PartIsEmpty, PendingIsMember
<1>6. FileIsCurrent'
  BY SMTT(40) DEF KnownInMemory, FileIsCurrent, Kept, CallsHaveWorlds, DownIsIdle, WritersAreSound, Writers,
          Writing, PendingIsMember, PartIsEmpty
<1>7. WritersAreSound'
  BY SMTT(40) DEF KnownInMemory, Kept, CallsHaveWorlds, DownIsIdle, WritersAreSound, Writers, Writing,
          PendingIsMember
<1>8. PendingIsMember'
  BY SMTT(40) DEF PendingIsMember, CallsHaveWorlds, Writers, Writing, DownIsIdle, WritersAreSound
<1>9. RemovedIsOver'
  BY SMTT(40) DEF RemovedIsOver, CallsHaveWorlds, Writers, Writing, DownIsIdle
<1> QED BY <1>1, <1>2, <1>3, <1>4, <1>5, <1>6, <1>7, <1>8, <1>9

\* A write begins.
LEMMA FileOpenedKeeps ==
  ASSUME WorldsInv, NEW c \in Calls, FileOpened(c)
  PROVE  WorldsInv'
<1> USE WorldsAssumption
    DEF WorldsInv, FileOpened, Becomes, InMap, NoCall, Nothing, Torn,
        Types, Content, Call, Kinds
<1>1. Types'
  <2>1. call' \in [Calls -> Call]
    BY KindChanges
  <2>2. worlds' \in [WorldIds -> Content] /\ file' \in [WorldIds -> Content]
    BY SMTT(40) DEF CallsHaveWorlds
  <2>3. /\ joined' \in [WorldIds -> SUBSET Members] /\ unwritten' \in [WorldIds -> SUBSET Members]
        /\ removed' \subseteq WorldIds
    BY SMTT(40) DEF CallsHaveWorlds
  <2> QED BY <2>1, <2>2, <2>3
<1>2. CallsHaveWorlds'
  BY SMTT(40) DEF CallsHaveWorlds, DownIsIdle
<1>3. DownIsIdle'
  BY SMTT(40) DEF DownIsIdle, CallsHaveWorlds
<1>4. PartIsEmpty'
  BY SMTT(40) DEF PartIsEmpty, CallsHaveWorlds, WritersAreSound, Writers, Writing
<1>5. KnownInMemory'
  BY SMTT(40) DEF KnownInMemory, Kept, CallsHaveWorlds, DownIsIdle, WritersAreSound, Writers, Writing,
          FileIsCurrent, PartIsEmpty, PendingIsMember
<1>6. FileIsCurrent'
  BY SMTT(40) DEF KnownInMemory, FileIsCurrent, Kept, CallsHaveWorlds, DownIsIdle, WritersAreSound, Writers,
          Writing, PendingIsMember, PartIsEmpty
<1>7. WritersAreSound'
  BY SMTT(40) DEF KnownInMemory, Kept, CallsHaveWorlds, DownIsIdle, WritersAreSound, Writers, Writing,
          PendingIsMember
<1>8. PendingIsMember'
  BY SMTT(40) DEF PendingIsMember, CallsHaveWorlds, Writers, Writing, DownIsIdle, WritersAreSound
<1>9. RemovedIsOver'
  BY SMTT(40) DEF RemovedIsOver, CallsHaveWorlds, Writers, Writing, DownIsIdle
<1> QED BY <1>1, <1>2, <1>3, <1>4, <1>5, <1>6, <1>7, <1>8, <1>9

\* The members of a world go with it.
LEMMA WorldLeavesKeeps ==
  ASSUME WorldsInv, NEW c \in Calls, WorldLeaves(c)
  PROVE  WorldsInv'
<1> USE WorldsAssumption
    DEF WorldsInv, WorldLeaves, InMap, NoCall, Nothing, Torn,
        Types, Content, Call, Kinds
<1>1. Types'
  <2>1. call' \in [Calls -> Call]
    BY KindChanges
  <2>2. worlds' \in [WorldIds -> Content] /\ file' \in [WorldIds -> Content]
    <3>1. file' = file /\ file \in [WorldIds -> Content] /\ call[c].world \in WorldIds
      BY SMTT(40) DEF CallsHaveWorlds
    <3>2. worlds' = [worlds EXCEPT ![call[c].world].at = "none"]
      BY Zenon
    <3>3. worlds' \in [WorldIds -> Content]
      BY <3>1, <3>2, SMTT(40)
    <3> QED BY <3>1, <3>3
  <2>3. /\ joined' \in [WorldIds -> SUBSET Members] /\ unwritten' \in [WorldIds -> SUBSET Members]
        /\ removed' \subseteq WorldIds
    BY SMTT(40) DEF CallsHaveWorlds
  <2> QED BY <2>1, <2>2, <2>3
<1>2. CallsHaveWorlds'
  BY SMTT(40) DEF CallsHaveWorlds, DownIsIdle
<1>3. DownIsIdle'
  BY SMTT(40) DEF DownIsIdle, CallsHaveWorlds
<1>4. PartIsEmpty'
  BY SMTT(40) DEF PartIsEmpty, CallsHaveWorlds, WritersAreSound, Writers, Writing
<1>5. KnownInMemory'
  BY SMTT(40) DEF KnownInMemory, Kept, CallsHaveWorlds, DownIsIdle, WritersAreSound, Writers, Writing,
          FileIsCurrent, PartIsEmpty, PendingIsMember
<1>6. FileIsCurrent'
  BY SMTT(40) DEF KnownInMemory, FileIsCurrent, Kept, CallsHaveWorlds, DownIsIdle, WritersAreSound, Writers,
          Writing, PendingIsMember, PartIsEmpty
<1>7. WritersAreSound'
  BY SMTT(40) DEF KnownInMemory, Kept, CallsHaveWorlds, DownIsIdle, WritersAreSound, Writers, Writing,
          PendingIsMember
<1>8. PendingIsMember'
  BY SMTT(40) DEF PendingIsMember, CallsHaveWorlds, Writers, Writing, DownIsIdle, WritersAreSound
<1>9. RemovedIsOver'
  BY SMTT(40) DEF RemovedIsOver, CallsHaveWorlds, Writers, Writing, DownIsIdle
<1> QED BY <1>1, <1>2, <1>3, <1>4, <1>5, <1>6, <1>7, <1>8, <1>9

\* A write that fails half way leaves nothing that was promised.
LEMMA WriteFailsKeeps ==
  ASSUME WorldsInv, NEW c \in Calls, WriteFails(c)
  PROVE  WorldsInv'
<1> USE WorldsAssumption
    DEF WorldsInv, WriteFails, Throws, InMap, NoCall, Nothing, Torn,
        Types, Content, Call, Kinds
<1>1. Types'
  <2>1. call' \in [Calls -> Call]
    BY ThrowsGives
  <2>2. worlds' \in [WorldIds -> Content] /\ file' \in [WorldIds -> Content]
    BY SMTT(40) DEF CallsHaveWorlds
  <2>3. /\ joined' \in [WorldIds -> SUBSET Members] /\ unwritten' \in [WorldIds -> SUBSET Members]
        /\ removed' \subseteq WorldIds
    BY SMTT(40) DEF CallsHaveWorlds
  <2> QED BY <2>1, <2>2, <2>3
<1>2. CallsHaveWorlds'
  BY SMTT(40) DEF CallsHaveWorlds, DownIsIdle
<1>3. DownIsIdle'
  BY SMTT(40) DEF DownIsIdle, CallsHaveWorlds
<1>4. PartIsEmpty'
  BY SMTT(40) DEF PartIsEmpty, CallsHaveWorlds, WritersAreSound, Writers, Writing
<1>5. KnownInMemory'
  BY SMTT(40) DEF KnownInMemory, Kept, CallsHaveWorlds, DownIsIdle, WritersAreSound, Writers, Writing,
          FileIsCurrent, PartIsEmpty, PendingIsMember
<1>6. FileIsCurrent'
  BY SMTT(40) DEF KnownInMemory, FileIsCurrent, Kept, CallsHaveWorlds, DownIsIdle, WritersAreSound, Writers,
          Writing, PendingIsMember, PartIsEmpty
<1>7. WritersAreSound'
  BY SMTT(40) DEF KnownInMemory, Kept, CallsHaveWorlds, DownIsIdle, WritersAreSound, Writers, Writing,
          PendingIsMember
<1>8. PendingIsMember'
  BY SMTT(40) DEF PendingIsMember, CallsHaveWorlds, Writers, Writing, DownIsIdle, WritersAreSound
<1>9. RemovedIsOver'
  BY SMTT(40) DEF RemovedIsOver, CallsHaveWorlds, Writers, Writing, DownIsIdle
<1> QED BY <1>1, <1>2, <1>3, <1>4, <1>5, <1>6, <1>7, <1>8, <1>9

\* A world is started that is not in the map.
LEMMA SyncStartsKeeps ==
  ASSUME WorldsInv, NEW c \in Calls, SyncStarts(c)
  PROVE  WorldsInv'
<1> USE WorldsAssumption
    DEF WorldsInv, SyncStarts, MayBeStarted, Others, Started, LoadAddresses, Throws, InMap, NoCall, Nothing, Torn,
        Types, Content, Call, Kinds
<1>1. Types'
  <2>1. call' \in [Calls -> Call]
    BY ThrowsGives
  <2>2. worlds' \in [WorldIds -> Content] /\ file' \in [WorldIds -> Content]
    BY SMTT(40) DEF CallsHaveWorlds
  <2>3. /\ joined' \in [WorldIds -> SUBSET Members] /\ unwritten' \in [WorldIds -> SUBSET Members]
        /\ removed' \subseteq WorldIds
    BY SMTT(40) DEF CallsHaveWorlds
  <2> QED BY <2>1, <2>2, <2>3
<1>2. CallsHaveWorlds'
  BY SMTT(40) DEF CallsHaveWorlds, DownIsIdle
<1>3. DownIsIdle'
  BY SMTT(40) DEF DownIsIdle, CallsHaveWorlds
<1>4. PartIsEmpty'
  BY SMTT(40) DEF PartIsEmpty, CallsHaveWorlds, WritersAreSound, Writers, Writing
<1>5. KnownInMemory'
  BY SMTT(40) DEF KnownInMemory, Kept, CallsHaveWorlds, DownIsIdle, WritersAreSound, Writers, Writing,
          FileIsCurrent, PartIsEmpty, PendingIsMember
<1>6. FileIsCurrent'
  BY SMTT(40) DEF KnownInMemory, FileIsCurrent, Kept, CallsHaveWorlds, DownIsIdle, WritersAreSound, Writers,
          Writing, PendingIsMember, PartIsEmpty
<1>7. WritersAreSound'
  BY SMTT(40) DEF KnownInMemory, Kept, CallsHaveWorlds, DownIsIdle, WritersAreSound, Writers, Writing,
          PendingIsMember
<1>8. PendingIsMember'
  BY SMTT(40) DEF PendingIsMember, CallsHaveWorlds, Writers, Writing, DownIsIdle, WritersAreSound
<1>9. RemovedIsOver'
  BY SMTT(40) DEF RemovedIsOver, CallsHaveWorlds, Writers, Writing, DownIsIdle
<1> QED BY <1>1, <1>2, <1>3, <1>4, <1>5, <1>6, <1>7, <1>8, <1>9

\* An instance that stops still knows its members.
LEMMA RemoveWorldKeeps ==
  ASSUME WorldsInv, NEW c \in Calls, NEW w \in WorldIds, RemoveWorld(c, w)
  PROVE  WorldsInv'
<1> USE WorldsAssumption
    DEF WorldsInv, RemoveWorld, Waits, InMap, NoCall, Nothing, Torn,
        Types, Content, Call, Kinds
<1>1. Types'
  <2>1. call' \in [Calls -> Call]
    BY WaitsGives
  <2>2. worlds' \in [WorldIds -> Content] /\ file' \in [WorldIds -> Content]
    BY SMTT(40)
  <2>3. /\ joined' \in [WorldIds -> SUBSET Members] /\ unwritten' \in [WorldIds -> SUBSET Members]
        /\ removed' \subseteq WorldIds
    BY SMTT(40)
  <2> QED BY <2>1, <2>2, <2>3
<1>2. CallsHaveWorlds'
  BY SMTT(40) DEF CallsHaveWorlds, DownIsIdle
<1>3. DownIsIdle'
  BY SMTT(40) DEF DownIsIdle, CallsHaveWorlds
<1>4. PartIsEmpty'
  BY SMTT(40) DEF PartIsEmpty, CallsHaveWorlds, WritersAreSound, Writers, Writing
<1>5. KnownInMemory'
  BY SMTT(40) DEF KnownInMemory, Kept, CallsHaveWorlds, DownIsIdle, WritersAreSound, Writers, Writing,
          FileIsCurrent, PartIsEmpty, PendingIsMember
<1>6. FileIsCurrent'
  BY SMTT(40) DEF KnownInMemory, FileIsCurrent, Kept, CallsHaveWorlds, DownIsIdle, WritersAreSound, Writers,
          Writing, PendingIsMember, PartIsEmpty
<1>7. WritersAreSound'
  BY SMTT(40) DEF KnownInMemory, Kept, CallsHaveWorlds, DownIsIdle, WritersAreSound, Writers, Writing,
          PendingIsMember
<1>8. PendingIsMember'
  BY SMTT(40) DEF PendingIsMember, CallsHaveWorlds, Writers, Writing, DownIsIdle, WritersAreSound
<1>9. RemovedIsOver'
  BY SMTT(40) DEF RemovedIsOver, CallsHaveWorlds, Writers, Writing, DownIsIdle
<1> QED BY <1>1, <1>2, <1>3, <1>4, <1>5, <1>6, <1>7, <1>8, <1>9

\* The first member of a world is in its memory.
LEMMA CreateWorldKeeps ==
  ASSUME WorldsInv, NEW c \in Calls, NEW w \in WorldIds, NEW member \in Members, CreateWorld(c, w, member)
  PROVE  WorldsInv'
<1> USE WorldsAssumption
    DEF WorldsInv, CreateWorld, MayBeStarted, Others, Started, LoadAddresses, Waits, InMap, NoCall, Nothing, Torn,
        Types, Content, Call, Kinds
<1>1. Types'
  <2>1. call' \in [Calls -> Call]
    BY WaitsGives
  <2>2. worlds' \in [WorldIds -> Content] /\ file' \in [WorldIds -> Content]
    BY SMTT(40)
  <2>3. /\ joined' \in [WorldIds -> SUBSET Members] /\ unwritten' \in [WorldIds -> SUBSET Members]
        /\ removed' \subseteq WorldIds
    BY SMTT(40)
  <2> QED BY <2>1, <2>2, <2>3
<1>2. CallsHaveWorlds'
  BY SMTT(40) DEF CallsHaveWorlds, DownIsIdle
<1>3. DownIsIdle'
  BY SMTT(40) DEF DownIsIdle, CallsHaveWorlds
<1>4. PartIsEmpty'
  BY SMTT(40) DEF PartIsEmpty, CallsHaveWorlds, WritersAreSound, Writers, Writing
<1>5. KnownInMemory'
  BY SMTT(40) DEF KnownInMemory, Kept, CallsHaveWorlds, DownIsIdle, WritersAreSound, Writers, Writing,
          FileIsCurrent, PartIsEmpty, PendingIsMember
<1>6. FileIsCurrent'
  BY SMTT(40) DEF KnownInMemory, FileIsCurrent, Kept, CallsHaveWorlds, DownIsIdle, WritersAreSound, Writers,
          Writing, PendingIsMember, PartIsEmpty
<1>7. WritersAreSound'
  BY SMTT(40) DEF KnownInMemory, Kept, CallsHaveWorlds, DownIsIdle, WritersAreSound, Writers, Writing,
          PendingIsMember
<1>8. PendingIsMember'
  BY SMTT(40) DEF PendingIsMember, CallsHaveWorlds, Writers, Writing, DownIsIdle, WritersAreSound
<1>9. RemovedIsOver'
  BY SMTT(40) DEF RemovedIsOver, CallsHaveWorlds, Writers, Writing, DownIsIdle
<1> QED BY <1>1, <1>2, <1>3, <1>4, <1>5, <1>6, <1>7, <1>8, <1>9

\* One who is there already is acknowledged, but not for sure; another is in
\* memory before anything is written.
LEMMA JoinWorldKeeps ==
  ASSUME WorldsInv, NEW c \in Calls, NEW w \in WorldIds, NEW member \in Members,
         JoinWorld(c, w, member)
  PROVE  WorldsInv'
<1> USE WorldsAssumption DEF WorldsInv
<1>1. /\ up /\ up' = up /\ call[c] = NoCall /\ InMap(w) /\ w \notin removed
      /\ UNCHANGED <<file, removed>>
  BY DEF JoinWorld, RemovedIsOver
<1>2. CASE member \in worlds[w].members
  <2>1. /\ joined' = [joined EXCEPT ![w] = @ \cup {member}]
        /\ unwritten' = [unwritten EXCEPT ![w] = @ \cup ({member} \ joined[w])]
        /\ UNCHANGED <<worlds, call>>
    BY <1>2 DEF JoinWorld
  <2>2. /\ joined' \in [WorldIds -> SUBSET Members] /\ unwritten' \in [WorldIds -> SUBSET Members]
        /\ \A x \in WorldIds : Kept(x)' = Kept(x)
    BY <2>1 DEF Types, Kept
  <2>3. \A x \in WorldIds : /\ InMap(x)' = InMap(x) /\ Writers(x)' = Writers(x)
                            /\ Writing(x)' = Writing(x)
    BY <2>1 DEF InMap, Writers, Writing
  <2>4. Types' /\ CallsHaveWorlds' /\ DownIsIdle' /\ PartIsEmpty' /\ RemovedIsOver'
    BY <1>1, <2>1, <2>2, <2>3 DEF Types, CallsHaveWorlds, DownIsIdle, PartIsEmpty, RemovedIsOver, InMap
  <2>5. KnownInMemory' /\ FileIsCurrent' /\ WritersAreSound'
    BY <1>1, <2>1, <2>2, <2>3 DEF KnownInMemory, FileIsCurrent, WritersAreSound
  <2>6. PendingIsMember'
    BY <2>1 DEF PendingIsMember, InMap
  <2> QED BY <2>4, <2>5, <2>6
<1>3. CASE member \notin worlds[w].members
  <2>1. /\ worlds' = [worlds EXCEPT ![w].members = @ \cup {member}]
        /\ Waits(c, "config", w, member, "none") /\ UNCHANGED <<joined, unwritten>>
    BY <1>3 DEF JoinWorld
  <2>2. /\ call' \in [Calls -> Call] /\ \A d \in Calls \ {c} : call'[d] = call[d]
        /\ call'[c].kind = "config" /\ call'[c].world = w /\ call'[c].member = member
    BY <2>1, WaitsGives DEF Kinds
  <2>3. /\ worlds' \in [WorldIds -> Content]
        /\ \A x \in WorldIds : /\ worlds'[x].at = worlds[x].at
                               /\ worlds[x].members \subseteq worlds'[x].members
        /\ member \in worlds'[w].members
    BY <2>1 DEF Types, Content
  <2>4. call[c].kind = "idle"
    BY <1>1 DEF NoCall
  <2>5. \A x \in WorldIds : /\ InMap(x)' = InMap(x) /\ Writers(x)' = Writers(x)
                            /\ Writing(x)' = Writing(x) /\ Kept(x)' = Kept(x)
    BY <2>1, <2>2, <2>3, <2>4 DEF InMap, Writers, Writing, Kept
  <2>6. Types' /\ CallsHaveWorlds' /\ DownIsIdle' /\ PartIsEmpty' /\ RemovedIsOver'
    BY <1>1, <2>1, <2>2, <2>3 DEF Types, CallsHaveWorlds, DownIsIdle, PartIsEmpty, RemovedIsOver, InMap
  <2>7. KnownInMemory' /\ FileIsCurrent'
    BY <1>1, <2>3, <2>5 DEF KnownInMemory, FileIsCurrent
  <2>8. WritersAreSound'
    BY <2>2, <2>3, <2>4, <2>5 DEF WritersAreSound, Writers
  <2>9. PendingIsMember'
    BY <2>2, <2>3, <2>4 DEF PendingIsMember, InMap, CallsHaveWorlds
  <2> QED BY <2>6, <2>7, <2>8, <2>9
<1> QED BY <1>2, <1>3

\* What is to be written is what is in memory; with another writer of the file
\* nothing is promised any more.
LEMMA SerialisedKeeps ==
  ASSUME WorldsInv, NEW c \in Calls, Serialised(c)
  PROVE  WorldsInv'
<1> DEFINE w == call[c].world
           content == [at |-> "whole", members |-> worlds[w].members,
                       addresses |-> IF call[c].kind = "config" THEN LoadAddresses(w)
                                     ELSE worlds[w].addresses]
           alone == Writers(w) = {}
           new == [call[c] EXCEPT !.kind = "open", !.clean = alone, !.content = content]
<1> USE DEF WorldsInv
<1>1. /\ call[c].kind \in {"config", "addresses"} /\ up /\ up' = up /\ w \in WorldIds \ removed
      /\ UNCHANGED <<worlds, file, joined, removed>>
  BY WaitingCall DEF Serialised
<1>2. /\ call' = [d \in Calls |-> IF d = c THEN new
                                  ELSE [call[d] EXCEPT !.clean = @ /\ d \notin Writers(w)]]
      /\ unwritten' = [unwritten EXCEPT ![w] = IF alone THEN @ ELSE joined[w]]
  BY Zenon DEF Serialised
<1>3. content \in Content /\ content.at = "whole" /\ content.members = worlds[w].members
  BY <1>1 DEF Types, Content, LoadAddresses
<1>4. alone \in BOOLEAN
  BY Zenon
<1> HIDE DEF content, alone
<1>5. /\ new \in Call /\ new.kind = "open" /\ new.world = w /\ new.member = call[c].member
      /\ new.content = content /\ (new.clean <=> alone)
  <2>1. call[c] \in Call /\ "open" \in Kinds
    BY DEF Types, Kinds
  <2> DEFINE k == [call[c] EXCEPT !.kind = "open"]
             l == [k EXCEPT !.clean = alone]
  <2>2. k \in Call /\ k.kind = "open" /\ k.world = w /\ k.member = call[c].member
    BY <2>1 DEF Call
  <2> HIDE DEF k
  <2>3. /\ l \in Call /\ l.kind = k.kind /\ l.world = k.world /\ l.member = k.member
        /\ l.clean = alone
    BY <1>4, <2>2 DEF Call
  <2> HIDE DEF l
  <2>4. [l EXCEPT !.content = content] = new
    BY DEF l, k
  <2>5. /\ new \in Call /\ new.kind = l.kind /\ new.world = l.world /\ new.member = l.member
        /\ new.content = content /\ new.clean = l.clean
    BY <1>3, <2>3, <2>4 DEF Call
  <2> HIDE DEF new
  <2> QED BY <2>2, <2>3, <2>5
<1>6. \A d \in Calls \ {c} :
        /\ call'[d] \in Call /\ call'[d].kind = call[d].kind /\ call'[d].world = call[d].world
        /\ call'[d].member = call[d].member /\ call'[d].content = call[d].content
        /\ call'[d].path = call[d].path
        /\ call'[d].clean <=> (call[d].clean /\ d \notin Writers(w))
  <2> TAKE d \in Calls \ {c}
  <2> DEFINE b == call[d].clean /\ d \notin Writers(w)
  <2>1. b \in BOOLEAN /\ call'[d] = [call[d] EXCEPT !.clean = b]
    BY <1>2, Zenon
  <2> HIDE DEF b
  <2>2. /\ call'[d] \in Call /\ call'[d].kind = call[d].kind /\ call'[d].world = call[d].world
        /\ call'[d].member = call[d].member /\ call'[d].content = call[d].content
        /\ call'[d].path = call[d].path /\ call'[d].clean = b
    BY <2>1, SMTT(40) DEF Types, Call
  <2> QED BY <2>2, Zenon DEF b
<1>7. call'[c] = new /\ \A d \in Calls : call'[d] \in Call
  BY <1>2, <1>5, <1>6, Zenon
<1> HIDE DEF new
<1>8. /\ unwritten' \in [WorldIds -> SUBSET Members]
      /\ \A x \in WorldIds : Kept(x)' = IF x = w /\ ~alone THEN {} ELSE Kept(x)
  BY <1>1, <1>2, SMTT(40) DEF Types, Kept
<1>9. /\ \A x \in WorldIds : /\ InMap(x)' = InMap(x) /\ Writing(x)' = Writing(x)
                             /\ Writers(x)' = IF x = w THEN Writers(x) \cup {c} ELSE Writers(x)
      /\ c \notin Writers(w)
  BY <1>1, <1>5, <1>6, <1>7, SMTT(40) DEF InMap, Writing, Writers
<1>10. call' \in [Calls -> Call]
  BY <1>2, <1>7, Zenon
<1>11. Types' /\ DownIsIdle' /\ PartIsEmpty'
  BY <1>1, <1>8, <1>10 DEF Types, DownIsIdle, PartIsEmpty
<1>12. CallsHaveWorlds' /\ RemovedIsOver'
  BY <1>1, <1>5, <1>6, <1>7, <1>9 DEF CallsHaveWorlds, RemovedIsOver, InMap
<1>13. KnownInMemory' /\ FileIsCurrent'
  BY <1>1, <1>8, <1>9 DEF KnownInMemory, FileIsCurrent
<1>14. WritersAreSound'
  <2> SUFFICES ASSUME NEW x \in WorldIds, NEW d \in Writers(x)'
               PROVE  /\ call'[d].content.at = "whole"
                      /\ Kept(x)' \subseteq IF call'[d].clean THEN call'[d].content.members ELSE {}
                      /\ call'[d].clean => Writers(x)' = {d}
                      /\ InMap(x)' => call'[d].content.members \subseteq worlds'[x].members
    BY Zenon DEF WritersAreSound
  <2>1. CASE d = c
    <3>1. x = w
      BY <1>5, <1>7, <2>1 DEF Writers
    <3>2. Kept(w) \subseteq worlds[w].members
      BY <1>1 DEF KnownInMemory
    <3>3. /\ call'[d].content = content /\ (call'[d].clean <=> alone)
          /\ Kept(x)' = (IF alone THEN Kept(w) ELSE {}) /\ Writers(x)' = Writers(w) \cup {c}
      BY <1>5, <1>7, <1>8, <1>9, <2>1, <3>1
    <3>4. alone => Writers(x)' = {d}
      BY <2>1, <3>3 DEF alone
    <3> QED BY <1>1, <1>3, <3>1, <3>2, <3>3, <3>4
  <2>2. CASE d # c
    <3>1. d \in Calls /\ d \in Writers(x)
      BY <1>9, <2>2 DEF Writers
    <3>2. CASE x = w
      <4>1. ~alone /\ d \in Writers(w)
        BY <3>1, <3>2 DEF alone
      <4>2. ~call'[d].clean /\ Kept(x)' = {}
        BY <1>6, <1>8, <2>2, <3>1, <3>2, <4>1
      <4> QED BY <1>1, <1>6, <1>9, <2>2, <3>1, <4>2 DEF WritersAreSound
    <3>3. CASE x # w
      <4>1. d \notin Writers(w)
        BY <3>1, <3>3 DEF Writers
      <4>2. /\ call'[d].content = call[d].content /\ (call'[d].clean <=> call[d].clean)
              /\ Kept(x)' = Kept(x) /\ Writers(x)' = Writers(x) /\ InMap(x)' = InMap(x)
          BY <1>6, <1>8, <1>9, <2>2, <3>1, <3>3, <4>1
        <4> QED BY <1>1, <3>1, <4>2 DEF WritersAreSound
    <3> QED BY <3>2, <3>3
  <2> QED BY <2>1, <2>2
<1>15. PendingIsMember'
  <2> SUFFICES ASSUME NEW d \in Calls, call'[d].kind \in {"config", "addresses", "open", "write"},
                      call'[d].member \in Members, worlds'[call'[d].world].at # "none"
               PROVE  /\ call'[d].member \in worlds'[call'[d].world].members
                      /\ call'[d].kind \in {"open", "write"} /\ call'[d].clean
                           => call'[d].member \in call'[d].content.members
    BY Zenon DEF PendingIsMember, InMap
  <2>1. CASE d = c
    <3>1. call'[d].member = call[c].member /\ call'[d].world = w /\ call'[d].content = content
      BY <1>5, <1>7, <2>1
    <3>2. InMap(w)
      BY <1>1, <3>1 DEF InMap
    <3>3. call[c].member \in worlds[w].members
      BY <1>1, <3>1, <3>2 DEF PendingIsMember
    <3> QED BY <1>1, <1>3, <3>1, <3>3
  <2>2. CASE d # c
    <3>1. d \in Calls \ {c} /\ call[d].world \in WorldIds
      BY <1>6, <2>2 DEF CallsHaveWorlds
    <3> QED BY <1>1, <1>6, <2>2, <3>1 DEF PendingIsMember, InMap
  <2> QED BY <2>1, <2>2
<1> QED BY <1>11, <1>12, <1>13, <1>14, <1>15

\* A clean write holds whom it promised, and who was waiting for it.
LEMMA FileWrittenKeeps ==
  ASSUME WorldsInv, NEW c \in Calls, NEW result \in {call[c].content, Torn, Nothing}, FileWritten(c, result)
  PROVE  WorldsInv'
<1> USE WorldsAssumption
    DEF WorldsInv, FileWritten, Becomes, Returns, InMap, NoCall, Nothing, Torn,
        Types, Content, Call, Kinds
<1>1. Types'
  <2>1. joined' \in [WorldIds -> SUBSET Members]
    BY SMTT(40) DEF CallsHaveWorlds
  <2>2. unwritten' \in [WorldIds -> SUBSET Members]
    <3>1. CASE call[c].clean
      BY <3>1, SMTT(40) DEF CallsHaveWorlds
    <3>2. CASE ~call[c].clean
      BY <3>2, SMTT(40) DEF CallsHaveWorlds
    <3> QED BY <3>1, <3>2
  <2>3. call' \in [Calls -> Call]
    BY ReturnsGives
  <2>4. worlds' \in [WorldIds -> Content] /\ file' \in [WorldIds -> Content] /\ removed' \subseteq WorldIds
    BY SMTT(40) DEF CallsHaveWorlds
  <2> QED BY <2>1, <2>2, <2>3, <2>4
<1>2. CallsHaveWorlds'
  BY SMTT(40) DEF CallsHaveWorlds, DownIsIdle
<1>3. DownIsIdle'
  BY SMTT(40) DEF DownIsIdle, CallsHaveWorlds
<1>4. PartIsEmpty'
  BY SMTT(40) DEF PartIsEmpty, CallsHaveWorlds, WritersAreSound, Writers, Writing
<1>5. KnownInMemory'
  BY SMTT(40) DEF KnownInMemory, Kept, CallsHaveWorlds, DownIsIdle, WritersAreSound, Writers, Writing,
          FileIsCurrent, PartIsEmpty, PendingIsMember
<1>6. FileIsCurrent'
  <2> SUFFICES ASSUME NEW x \in WorldIds, Writing(x)' = {} PROVE Kept(x)' \subseteq file'[x].members
    BY Zenon DEF FileIsCurrent
  <2>1. call[c].kind = "write" /\ call[c].world \in WorldIds /\ up
    BY WaitingCall
  <2>2. CASE x # call[c].world
    <3>1. file'[x] = file[x] /\ Kept(x)' = Kept(x)
      BY <2>1, <2>2, SMTT(40) DEF Kept
    <3>2. Writing(x) = {}
      BY <2>1, <2>2, SMTT(40) DEF Writing, Writers
    <3> QED BY <3>1, <3>2, SMTT(40) DEF FileIsCurrent
  <2>3. CASE x = call[c].world
    <3>1. c \in Writers(x)
      BY <2>1, <2>3 DEF Writers
    <3>2. CASE ~call[c].clean
      <4>1. Kept(x) = {}
        BY <3>1, <3>2, Zenon DEF WritersAreSound
      <4>2. Kept(x)' \subseteq Kept(x)
        BY <2>1, <2>3, <3>2, SMTT(40) DEF Kept
      <4> QED BY <4>1, <4>2
    <3>3. CASE call[c].clean
      <4>1. Kept(x) \subseteq call[c].content.members
        BY <3>1, <3>3, Zenon DEF WritersAreSound
      <4>2. file'[x] = call[c].content
        BY <2>1, <2>3, <3>3, SMTT(40)
      <4>3. CASE InMap(x)
        <5>1. \A m \in Members : m = call[c].member => m \in call[c].content.members
          BY <2>1, <2>3, <3>3, <4>3, SMTT(40) DEF PendingIsMember
        <5>2. Kept(x)' \subseteq Kept(x) \cup call[c].content.members \cup ({call[c].member} \cap Members)
          BY <2>1, <2>3, <3>3, <4>3, SMTT(40) DEF Kept
        <5> QED BY <4>1, <4>2, <5>1, <5>2
      <4>4. CASE ~InMap(x)
        BY <2>3, <4>1, <4>2, <4>4, SMTT(40) DEF Kept
      <4> QED BY <4>3, <4>4
    <3> QED BY <3>2, <3>3
  <2> QED BY <2>2, <2>3
<1>7. WritersAreSound'
  BY SMTT(40) DEF KnownInMemory, Kept, CallsHaveWorlds, DownIsIdle, WritersAreSound, Writers, Writing,
          PendingIsMember
<1>8. PendingIsMember'
  BY SMTT(40) DEF PendingIsMember, CallsHaveWorlds, Writers, Writing, DownIsIdle, WritersAreSound
<1>9. RemovedIsOver'
  BY SMTT(40) DEF RemovedIsOver, CallsHaveWorlds, Writers, Writing, DownIsIdle
<1> QED BY <1>1, <1>2, <1>3, <1>4, <1>5, <1>6, <1>7, <1>8, <1>9

\* Nothing is promised of a file that is gone.
LEMMA WorldFileRemovedKeeps ==
  ASSUME WorldsInv, NEW c \in Calls, WorldFileRemoved(c)
  PROVE  WorldsInv'
<1> USE WorldsAssumption
    DEF WorldsInv, WorldFileRemoved, Becomes, Others, InMap, NoCall, Nothing, Torn,
        Types, Content, Call, Kinds
<1>1. Types'
  <2>1. call[c].world \in WorldIds /\ call' = [d \in Calls |-> IF d = c THEN NoCall
          ELSE [call[d] EXCEPT !.clean = @ /\ d \notin Writing(call[c].world)]]
    BY Zenon DEF CallsHaveWorlds
  <2>2. ASSUME NEW d \in Calls PROVE call'[d] \in Call
    <3> DEFINE b == call[d].clean /\ d \notin Writing(call[c].world)
    <3>1. call'[d] = IF d = c THEN NoCall ELSE [call[d] EXCEPT !.clean = b]
      BY <2>1, Zenon
    <3>2. b \in BOOLEAN
      BY Zenon
    <3> HIDE DEF b
    <3>3. [call[d] EXCEPT !.clean = b] \in Call
      BY <3>2, SMTT(40)
    <3> QED BY <3>1, <3>3, SortsOfRecords, Zenon
  <2>3. call' \in [Calls -> Call]
    BY <2>1, <2>2, Zenon
  <2>4. /\ worlds' \in [WorldIds -> Content] /\ file' \in [WorldIds -> Content]
        /\ joined' \in [WorldIds -> SUBSET Members] /\ unwritten' \in [WorldIds -> SUBSET Members]
        /\ removed' \subseteq WorldIds
    BY <2>1, SMTT(40)
  <2> QED BY <2>3, <2>4
<1>2. CallsHaveWorlds'
  BY SMTT(40) DEF CallsHaveWorlds, DownIsIdle
<1>3. DownIsIdle'
  BY SMTT(40) DEF DownIsIdle, CallsHaveWorlds
<1>4. PartIsEmpty'
  BY SMTT(40) DEF PartIsEmpty, CallsHaveWorlds, WritersAreSound, Writers, Writing
<1>5. KnownInMemory'
  BY SMTT(40) DEF KnownInMemory, Kept, CallsHaveWorlds, DownIsIdle, WritersAreSound, Writers, Writing,
          FileIsCurrent, PartIsEmpty, PendingIsMember
<1>6. FileIsCurrent'
  <2> SUFFICES ASSUME NEW x \in WorldIds, Writing(x)' = {} PROVE Kept(x)' \subseteq file'[x].members
    BY Zenon DEF FileIsCurrent
  <2>1. call[c].kind = "unlink" /\ call[c].world \in WorldIds
    BY SMTT(40) DEF CallsHaveWorlds
  <2>2. CASE x = call[c].world
    BY <2>1, <2>2, SMTT(40) DEF Kept
  <2>3. CASE x # call[c].world
    <3>1. file'[x] = file[x] /\ Kept(x)' = Kept(x)
      BY <2>1, <2>3, SMTT(40) DEF Kept
    <3>2. Writing(x) = {}
      <4>1. \A d \in Calls \ {c} : call'[d].kind = call[d].kind /\ call'[d].world = call[d].world
        <5> TAKE d \in Calls \ {c}
        <5> DEFINE b == call[d].clean /\ d \notin Writing(call[c].world)
        <5>1. call'[d] = [call[d] EXCEPT !.clean = b] /\ call[d] \in Call
          BY Zenon
        <5> HIDE DEF b
        <5> QED BY <5>1, SMTT(40)
      <4> HIDE DEF WorldFileRemoved, WorldsInv, Types
      <4> QED BY <2>1, <4>1, SMTT(40) DEF Writing, Writers
    <3> QED BY <3>1, <3>2, SMTT(40) DEF FileIsCurrent
  <2> QED BY <2>2, <2>3
<1>7. WritersAreSound'
  BY SMTT(40) DEF KnownInMemory, Kept, CallsHaveWorlds, DownIsIdle, WritersAreSound, Writers, Writing,
          PendingIsMember
<1>8. PendingIsMember'
  BY SMTT(40) DEF PendingIsMember, CallsHaveWorlds, Writers, Writing, DownIsIdle, WritersAreSound
<1>9. RemovedIsOver'
  BY SMTT(40) DEF RemovedIsOver, CallsHaveWorlds, Writers, Writing, DownIsIdle
<1> QED BY <1>1, <1>2, <1>3, <1>4, <1>5, <1>6, <1>7, <1>8, <1>9

-----------------------------------------------------------------------------

\* The initial states satisfy the invariant.
LEMMA WorldsInitInv == WorldsInit => WorldsInv
<1> SUFFICES ASSUME WorldsInit PROVE WorldsInv
  OBVIOUS
<1>1. Types
  BY SortsOfRecords DEF WorldsInit, Types
<1>2. \A c \in Calls : call[c] = NoCall /\ NoCall.kind = "idle"
  BY DEF WorldsInit, NoCall
<1>3. \A w \in WorldIds : Writers(w) = {} /\ Kept(w) = {} /\ ~InMap(w)
  BY <1>2 DEF Writers, Kept, InMap, WorldsInit, Nothing
<1> QED BY <1>1, <1>2, <1>3
        DEF WorldsInit, WorldsInv, CallsHaveWorlds, DownIsIdle, PartIsEmpty, KnownInMemory,
            FileIsCurrent, WritersAreSound, PendingIsMember, RemovedIsOver, Nothing

\* A step that changes nothing.
LEMMA WorldsStutter == WorldsInv /\ UNCHANGED worldVars => WorldsInv'
BY DEF worldVars, WorldsInv, Types, CallsHaveWorlds, DownIsIdle, PartIsEmpty, KnownInMemory,
       FileIsCurrent, WritersAreSound, PendingIsMember, RemovedIsOver, Kept, Writers, Writing, InMap

\* Every step keeps the invariant.
LEMMA WorldsNextInv == WorldsInv /\ [WorldsNext]_worldVars => WorldsInv'
<1> SUFFICES ASSUME WorldsInv, [WorldsNext]_worldVars PROVE WorldsInv'
  OBVIOUS
<1>1. CASE ManagerStarts \/ ManagerEnds
  BY <1>1, ManagerStartsKeeps, ManagerEndsKeeps
<1>2. CASE \E w \in WorldIds, path \in Directories : CommandLineAdds(w, path)
  BY <1>2, CommandLineAddsKeeps
<1>3. ASSUME NEW c \in Calls,
             \/ Serialised(c) \/ FileOpened(c) \/ WriteFails(c)
             \/ WorldLeaves(c) \/ WorldFileRemoved(c) \/ AddressRemoved(c)
             \/ SyncStarts(c) \/ SyncRegisters(c)
      PROVE  WorldsInv'
  BY <1>3, SerialisedKeeps, FileOpenedKeeps, WriteFailsKeeps, WorldLeavesKeeps,
     WorldFileRemovedKeeps, AddressRemovedKeeps, SyncStartsKeeps, SyncRegistersKeeps
<1>4. ASSUME NEW c \in Calls, NEW result \in {call[c].content, Torn, Nothing}, FileWritten(c, result)
      PROVE  WorldsInv'
  BY <1>4, FileWrittenKeeps
<1>5. ASSUME NEW c \in Calls, NEW isDirectory \in BOOLEAN, AddressRegistered(c, isDirectory)
      PROVE  WorldsInv'
  BY <1>5, AddressRegisteredKeeps
<1>6. ASSUME NEW c \in Calls, NEW w \in WorldIds, RemoveWorld(c, w) \/ SyncFromDisk(c, w)
      PROVE  WorldsInv'
  BY <1>6, RemoveWorldKeeps, SyncFromDiskKeeps
<1>7. ASSUME NEW c \in Calls, NEW w \in WorldIds, NEW member \in Members,
             CreateWorld(c, w, member) \/ JoinWorld(c, w, member)
      PROVE  WorldsInv'
  BY <1>7, CreateWorldKeeps, JoinWorldKeeps
<1>8. ASSUME NEW c \in Calls, NEW w \in WorldIds, NEW path \in Directories,
             RegisterAddress(c, w, path) \/ RemoveAddress(c, w, path)
      PROVE  WorldsInv'
  BY <1>8, RegisterAddressKeeps, RemoveAddressKeeps
<1>9. CASE UNCHANGED worldVars
  BY <1>9, WorldsStutter
<1> QED BY <1>1, <1>2, <1>3, <1>4, <1>5, <1>6, <1>7, <1>8, <1>9 DEF WorldsNext

LEMMA WorldsInvariant == WorldsSpec => []WorldsInv
BY WorldsInitInv, WorldsNextInv, PTL DEF WorldsSpec

\* An acknowledged member stays in the file of the world or in a clean write of
\* it (persistWorldConfig() and persistAddresses()).  If no write is under way
\* the file is current; if one is, it is clean and holds them, or nothing is
\* promised.
THEOREM MembersKept == WorldsSpec => []MembersAreKept
<1>1. WorldsInv => MembersAreKept
  <2> SUFFICES ASSUME WorldsInv, NEW w \in WorldIds
               PROVE  \/ Kept(w) \subseteq file[w].members
                      \/ \E c \in Writing(w) : call[c].clean /\ Kept(w) \subseteq call[c].content.members
    BY DEF MembersAreKept, Kept
  <2>1. CASE Writing(w) = {}
    BY <2>1 DEF WorldsInv, FileIsCurrent
  <2>2. CASE Writing(w) # {}
    <3>1. PICK c \in Writing(w) : c \in Writers(w)
      BY <2>2 DEF Writing
    <3> QED BY <3>1 DEF WorldsInv, WritersAreSound
  <2> QED BY <2>1, <2>2
<1> QED BY <1>1, WorldsInvariant, PTL

\* A removed world has no file (_tool_remove_world): it has no instance and no
\* call that could write one.
THEOREM RemovedGone == WorldsSpec => []RemovedIsGone
<1>1. WorldsInv => RemovedIsGone
  BY DEF WorldsInv, RemovedIsOver, RemovedIsGone
<1> QED BY <1>1, WorldsInvariant, PTL

-----------------------------------------------------------------------------
(* Agents and their registry.                                              *)

Pause == Interval + Late

\* How long n pauses between heartbeats last.
Pauses(n) == n * Pause

\* The heartbeats of the agent's present process that are on their way.
Beats(a) == {c \in calls : c.method = "heartbeat" /\ ~c.back /\ c.from = a /\ c.pid = agentStarts[a]}

\* The registrations of the agent's present process, on their way or answered.
Registrations(a) ==
  {c \in calls : c.method = "register" /\ c.from = a /\ c.pid = agentStarts[a]}

\* The entry is of the agent's present process.
HasEntry(a) == entries[a] # Registry!NoEntry /\ entries[a].pid = agentStarts[a]

\* While its process waits for the answer to its registration, an entry is as
\* old as the answer.
EntryIsNew(a) ==
  HasEntry(a) => /\ \E c \in Registrations(a) : c.back /\ entries[a].age <= c.way
                 /\ TTL >= Latency => entries[a].live = TRUE

\* A heartbeat is on its way since the timer fired, and an entry is as old as
\* the answer to the registration, the heartbeats that were lost since, the one
\* that is on its way and the time since the timer fired.
EntryIsFresh(a) ==
  HasEntry(a) /\ lost[a] < MaxLost =>
    /\ entries[a].age <= Latency + Pauses(lost[a]) + clock[a] + IF Beats(a) = {} THEN 0 ELSE Pause
    /\ Registry!Silence(lost[a]) <= TTL => entries[a].live = TRUE

AgentInv(a) ==
  /\ \A c, d \in Registrations(a) : c = d
  /\ process[a] => agentStarts[a] # 0
  /\ stage[a] # "down" => process[a]
  /\ (timer[a] = TRUE) <=> (stage[a] = "up")
  /\ entries[a].pid <= agentStarts[a]
  /\ stage[a] = "registering" => Beats(a) = {} /\ EntryIsNew(a)
  /\ stage[a] = "up" => (\A c \in Beats(a) : c.way = clock[a]) /\ EntryIsFresh(a)

AgentsInv ==
  /\ Registry!TypeOK
  /\ \A a \in Agents : AgentInv(a)
  /\ \A c \in calls : c.pid <= agentStarts[c.from]

\* One pause more.
LEMMA PausesGrow ==
  ASSUME NEW n \in Nat
  PROVE  /\ Pause \in Nat /\ Pauses(n) \in Nat /\ Pauses(n + 1) = Pauses(n) + Pause
         /\ Registry!Silence(n) = Latency + Pauses(n) + Pause + Latency
<1>1. Interval \in Nat /\ Late \in Nat /\ Latency \in Nat /\ Pause \in Nat
  BY PlatformAssumption DEF Pause
<1>2. Pauses(n) \in Nat /\ Pauses(n + 1) = Pauses(n) + Pause
  BY <1>1 DEF Pauses
<1>3. Registry!Silence(n) = Latency + Pauses(n + 1) + Latency
  BY <1>1 DEF Pauses, Pause, Registry!Silence
<1> HIDE DEF Pauses, Pause
<1> QED BY <1>1, <1>2, <1>3

\* A heartbeat makes an entry of an entry.
LEMMA BeatIsEntry ==
  ASSUME NEW e \in Registry!Entry \cup {Registry!NoEntry}
  PROVE  Registry!Beat(e) \in Registry!Entry \cup {Registry!NoEntry}
<1>1. CASE e = Registry!NoEntry
  BY <1>1 DEF Registry!Beat
<1>2. CASE e # Registry!NoEntry
  <2>1. e \in Registry!Entry /\ Registry!Beat(e) = [e EXCEPT !.age = 0, !.live = TRUE]
    BY <1>2 DEF Registry!Beat
  <2>2. TTL \in Nat
    BY PlatformAssumption
  <2>3. e.pid \in 1..MaxAgentStarts /\ DOMAIN e = {"pid", "age", "live"}
    BY <2>1 DEF Registry!Entry
  <2>4. [e EXCEPT !.age = 0, !.live = TRUE] = [pid |-> e.pid, age |-> 0, live |-> TRUE]
    BY <2>1 DEF Registry!Entry
  <2>5. 0 \in 0..(2 * TTL + 1)
    BY <2>2
  <2> QED BY <2>1, <2>3, <2>4, <2>5 DEF Registry!Entry
<1> QED BY <1>1, <1>2

\* A step of others does not concern an agent.
LEMMA OthersDoNotMatter ==
  ASSUME NEW b \in Agents, AgentInv(b), entries'[b] = entries[b],
         agentStarts'[b] = agentStarts[b], process'[b] = process[b], stage'[b] = stage[b],
         timer'[b] = timer[b], clock'[b] = clock[b], lost'[b] = lost[b],
         Beats(b)' = Beats(b), Registrations(b)' = Registrations(b)
  PROVE  AgentInv(b)'
BY DEF AgentInv, EntryIsNew, EntryIsFresh, HasEntry

\* The types, for the provers.
LEMMA AgentTypes ==
  ASSUME AgentsInv, NEW a \in Agents
  PROVE  /\ entries[a] \in Registry!Entry \cup {Registry!NoEntry}
         /\ entries[a].pid \in Nat /\ entries[a].age \in Nat
         /\ agentStarts[a] \in Nat /\ process[a] \in BOOLEAN /\ timer[a] \in BOOLEAN
         /\ clock[a] \in 0..Interval + Late /\ lost[a] \in 0..MaxLost /\ lost[a] \in Nat
         /\ AgentInv(a)
         /\ \A c \in calls : c.pid \in Nat /\ c.way \in 0..Latency /\ c.from \in Agents
                             /\ c \in Registry!Call
         /\ Interval \in Nat /\ Late \in Nat /\ Latency \in Nat /\ TTL \in Nat /\ MaxLost \in Nat
         /\ Latency < Interval /\ MaxAgentStarts \in Nat
  BY PlatformAssumption DEF AgentsInv, Registry!TypeOK, Registry!Entry, Registry!NoEntry, Registry!Call

\* The start of an agent.
LEMMA StartKeeps ==
  ASSUME AgentsInv, NEW a \in Agents, Registry!Start(a)
  PROVE  AgentsInv'
<1> DEFINE c == Registry!ToRegistry("register", a, agentStarts[a] + 1)
<1>1. /\ stage[a] = "down" /\ agentStarts[a] < MaxAgentStarts
      /\ agentStarts' = [agentStarts EXCEPT ![a] = @ + 1]
      /\ process' = [process EXCEPT ![a] = TRUE]
      /\ stage' = [stage EXCEPT ![a] = "registering"]
      /\ calls' = calls \cup {c}
      /\ lost' = [lost EXCEPT ![a] = 0]
      /\ UNCHANGED <<entries, timer, clock, restarts>>
  BY DEF Registry!Start
<1>2. /\ c \in Registry!Call /\ c.method = "register" /\ c.from = a /\ ~c.back
      /\ c.pid = agentStarts[a] + 1
  BY <1>1, AgentTypes DEF Registry!ToRegistry, Registry!Call
<1> HIDE DEF c
<1>3. Registry!TypeOK'
  BY <1>1, <1>2, AgentTypes DEF AgentsInv, Registry!TypeOK
<1>4. \A d \in calls' : d.pid <= agentStarts'[d.from]
  BY <1>1, <1>2, AgentTypes DEF AgentsInv, Registry!TypeOK
<1>5. ASSUME NEW b \in Agents PROVE AgentInv(b)'
  <2>1. CASE b # a
    BY <1>1, <1>2, <2>1, AgentTypes, OthersDoNotMatter DEF Beats, Registrations, AgentsInv, Registry!TypeOK
  <2>2. CASE b = a
    <3>1. Beats(a)' = {}
      BY <1>1, <1>2, AgentTypes DEF Beats, AgentsInv, Registry!TypeOK
    <3>0. \A d, e \in Registrations(a)' : d = e
      BY <1>1, <1>2, AgentTypes DEF Registrations, AgentsInv, Registry!TypeOK
    <3>2. ~HasEntry(a)'
      BY <1>1, AgentTypes DEF HasEntry, AgentInv, AgentsInv, Registry!TypeOK
    <3>3. /\ process'[a] = TRUE /\ stage'[a] = "registering" /\ timer'[a] = timer[a]
          /\ agentStarts'[a] = agentStarts[a] + 1 /\ entries'[a] = entries[a]
      BY <1>1 DEF AgentsInv, Registry!TypeOK
    <3>4. timer[a] # TRUE /\ entries[a].pid <= agentStarts[a]
      BY <1>1, AgentTypes DEF AgentInv
    <3>5. EntryIsNew(a)'
      BY <3>2 DEF EntryIsNew
    <3>6. /\ agentStarts'[a] # 0 /\ timer'[a] # TRUE /\ stage'[a] # "up" /\ stage'[a] # "down"
          /\ entries'[a].pid <= agentStarts'[a]
      <4>1. agentStarts[a] \in Nat /\ entries[a].pid \in Nat
        BY AgentTypes
      <4>2. agentStarts'[a] # 0 /\ entries'[a].pid <= agentStarts'[a]
        BY <3>3, <3>4, <4>1
      <4>3. timer'[a] # TRUE /\ stage'[a] # "up" /\ stage'[a] # "down"
        BY <3>3, <3>4
      <4> QED BY <4>2, <4>3
    <3> QED BY <2>2, <3>0, <3>1, <3>3, <3>5, <3>6 DEF AgentInv
  <2> QED BY <2>1, <2>2
<1> QED BY <1>3, <1>4, <1>5 DEF AgentsInv

\* A timer fires only when the heartbeat before has come to its end.
LEMMA HeartbeatKeeps ==
  ASSUME AgentsInv, NEW a \in Agents, Registry!Heartbeat(a)
  PROVE  AgentsInv'
<1> DEFINE c == Registry!ToRegistry("heartbeat", a, agentStarts[a])
<1>1. /\ timer[a] /\ clock[a] >= Interval
      /\ clock' = [clock EXCEPT ![a] = 0]
      /\ calls' = calls \cup {c}
      /\ UNCHANGED <<entries, agentStarts, process, stage, timer, lost, restarts>>
  BY DEF Registry!Heartbeat
<1>2. stage[a] = "up" /\ agentStarts[a] # 0 /\ agentStarts[a] \in 1..MaxAgentStarts
  BY <1>1, AgentTypes DEF AgentInv, AgentsInv, Registry!TypeOK
<1>3. /\ c \in Registry!Call /\ c.method = "heartbeat" /\ ~c.back /\ c.from = a /\ c.way = 0
      /\ c.pid = agentStarts[a]
  BY <1>2, AgentTypes DEF Registry!ToRegistry, Registry!Call
<1> HIDE DEF c
<1>4. Registry!TypeOK'
  BY <1>1, <1>3, AgentTypes DEF AgentsInv, Registry!TypeOK
<1>5. \A d \in calls' : d.pid <= agentStarts'[d.from]
  BY <1>1, <1>3, AgentTypes DEF AgentsInv, Registry!TypeOK
<1>6. ASSUME NEW b \in Agents PROVE AgentInv(b)'
  <2>1. CASE b # a
    BY <1>1, <1>3, <2>1, AgentTypes, OthersDoNotMatter DEF Beats, Registrations, AgentsInv, Registry!TypeOK
  <2>2. CASE b = a
    <3>1. Beats(a) = {}
      <4> SUFFICES ASSUME NEW d \in Beats(a) PROVE FALSE
        OBVIOUS
      <4>1. d.way = clock[a] /\ d.way \in 0..Latency
        BY <1>2, AgentTypes DEF AgentInv, Beats
      <4> QED BY <1>1, <4>1, AgentTypes
    <3>2. Beats(a)' = {c} /\ clock'[a] = 0
      BY <1>1, <1>3, <3>1, AgentTypes DEF Beats, AgentsInv, Registry!TypeOK
    <3>3. EntryIsFresh(a)'
      <4> SUFFICES ASSUME HasEntry(a)', lost[a] < MaxLost
                   PROVE  /\ entries[a].age <= Latency + Pauses(lost[a]) + 0 + Pause
                          /\ Registry!Silence(lost[a]) <= TTL => entries[a].live = TRUE
        BY <1>1, <3>2 DEF EntryIsFresh
      <4>1. HasEntry(a)
        BY <1>1 DEF HasEntry
      <4>2. /\ entries[a].age <= Latency + Pauses(lost[a]) + clock[a] + 0
            /\ Registry!Silence(lost[a]) <= TTL => entries[a].live = TRUE
        BY <1>2, <3>1, <4>1, AgentTypes DEF AgentInv, EntryIsFresh
      <4>3. clock[a] <= Pause
        BY AgentTypes DEF Pause
      <4> QED BY <4>2, <4>3, AgentTypes, PausesGrow
    <3>4. Registrations(a)' = Registrations(a)
      BY <1>1, <1>3 DEF Registrations
    <3>5. \A d, e \in Registrations(a)' : d = e
      BY <3>4, AgentTypes DEF AgentInv
    <3>6. \A d \in Beats(a)' : d.way = clock'[a]
      BY <1>3, <3>2
    <3> QED BY <1>1, <1>2, <2>2, <3>3, <3>5, <3>6, AgentTypes DEF AgentInv
  <2> QED BY <2>1, <2>2
<1> QED BY <1>4, <1>5, <1>6 DEF AgentsInv

\* A stop clears the timer.
LEMMA StopKeeps ==
  ASSUME AgentsInv, NEW a \in Agents, Registry!Stop(a)
  PROVE  AgentsInv'
<1> DEFINE c == Registry!ToRegistry("deregister", a, agentStarts[a])
<1>1. /\ stage[a] = "up"
      /\ stage' = [stage EXCEPT ![a] = "deregistering"]
      /\ timer' = [timer EXCEPT ![a] = FALSE]
      /\ clock' = [clock EXCEPT ![a] = 0]
      /\ calls' = calls \cup {c}
      /\ UNCHANGED <<entries, agentStarts, process, lost, restarts>>
  BY DEF Registry!Stop
<1>2. agentStarts[a] \in 1..MaxAgentStarts
  BY <1>1, AgentTypes DEF AgentInv, AgentsInv, Registry!TypeOK
<1>3. c \in Registry!Call /\ c.method = "deregister" /\ c.from = a /\ c.pid = agentStarts[a]
  BY <1>2, AgentTypes DEF Registry!ToRegistry, Registry!Call
<1> HIDE DEF c
<1>4. Registry!TypeOK'
  BY <1>1, <1>3, AgentTypes DEF AgentsInv, Registry!TypeOK
<1>5. \A d \in calls' : d.pid <= agentStarts'[d.from]
  BY <1>1, <1>3, AgentTypes DEF AgentsInv, Registry!TypeOK
<1>6. ASSUME NEW b \in Agents PROVE AgentInv(b)'
  <2>1. CASE b # a
    BY <1>1, <1>3, <2>1, AgentTypes, OthersDoNotMatter DEF Beats, Registrations, AgentsInv, Registry!TypeOK
  <2>2. CASE b = a
    <3>1. Registrations(a)' = Registrations(a)
      BY <1>1, <1>3 DEF Registrations
    <3> QED BY <1>1, <2>2, <3>1, AgentTypes DEF AgentInv, AgentsInv, Registry!TypeOK
  <2> QED BY <2>1, <2>2
<1> QED BY <1>4, <1>5, <1>6 DEF AgentsInv

\* A process that ends takes its timer along.
LEMMA ProcessEndsKeeps ==
  ASSUME AgentsInv, NEW a \in Agents, Registry!ProcessEnds(a)
  PROVE  AgentsInv'
<1>1. /\ process' = [process EXCEPT ![a] = FALSE]
      /\ stage' = [stage EXCEPT ![a] = "down"]
      /\ timer' = [timer EXCEPT ![a] = FALSE]
      /\ clock' = [clock EXCEPT ![a] = 0]
      /\ UNCHANGED <<entries, calls, agentStarts, lost, restarts>>
  BY DEF Registry!ProcessEnds
<1>2. Registry!TypeOK'
  BY <1>1, AgentTypes DEF AgentsInv, Registry!TypeOK
<1>3. ASSUME NEW b \in Agents PROVE AgentInv(b)'
  <2>1. CASE b # a
    BY <1>1, <2>1, AgentTypes, OthersDoNotMatter DEF Beats, Registrations, AgentsInv, Registry!TypeOK
  <2>2. CASE b = a
    <3>1. Registrations(a)' = Registrations(a)
      BY <1>1 DEF Registrations
    <3> QED BY <1>1, <2>2, <3>1, AgentTypes DEF AgentInv, AgentsInv, Registry!TypeOK
  <2> QED BY <2>1, <2>2
<1> QED BY <1>1, <1>2, <1>3 DEF AgentsInv

\* What the end of a call is to its agent.
LEMMA EndedGives ==
  ASSUME AgentsInv, NEW c \in calls, Registry!Ended(c)
  PROVE  LET a == c.from IN
         /\ stage' \in [Agents -> {"down", "registering", "up", "deregistering"}]
         /\ timer' \in [Agents -> BOOLEAN]
         /\ \A b \in Agents : b # a => stage'[b] = stage[b] /\ timer'[b] = timer[b]
         /\ \/ stage'[a] = stage[a] /\ timer'[a] = timer[a]
            \/ /\ c \in Registrations(a) /\ stage[a] = "registering"
               /\ stage'[a] = "up" /\ timer'[a] = TRUE
            \/ stage[a] = "deregistering" /\ stage'[a] = "down" /\ timer'[a] = timer[a]
         /\ c \in Registrations(a) => stage'[a] # "registering"
<1> DEFINE a == c.from
<1> USE DEF AgentsInv, Registry!TypeOK
<1>1. a \in Agents /\ c.method \in {"register", "heartbeat", "deregister"}
  BY DEF Registry!Call
<1>2. c \in Registrations(a) <=> c.method = "register" /\ c.pid = agentStarts[a]
  BY DEF Registrations
<1> HIDE DEF a
<1>3. CASE ~Registry!IsPidAlive(a, c.pid) \/ c.method = "heartbeat"
  <2>1. UNCHANGED <<stage, timer>>
    BY <1>3 DEF Registry!Ended, a
  <2>2. c \in Registrations(a) => stage[a] # "registering"
    BY <1>1, <1>2, <1>3 DEF Registry!IsPidAlive, AgentInv
  <2> QED BY <2>1, <2>2 DEF a
<1>4. CASE Registry!IsPidAlive(a, c.pid) /\ c.method = "register"
  <2>1. IF stage[a] = "registering"
        THEN stage' = [stage EXCEPT ![a] = "up"] /\ timer' = [timer EXCEPT ![a] = TRUE]
        ELSE UNCHANGED <<stage, timer>>
    BY <1>4 DEF Registry!Ended, a
  <2>2. c \in Registrations(a)
    BY <1>2, <1>4 DEF Registry!IsPidAlive
  <2>3. CASE stage[a] = "registering"
    <3>1. /\ stage' \in [Agents -> {"down", "registering", "up", "deregistering"}]
          /\ timer' \in [Agents -> BOOLEAN]
          /\ \A b \in Agents : b # a => stage'[b] = stage[b] /\ timer'[b] = timer[b]
          /\ stage'[a] = "up" /\ timer'[a] = TRUE
      BY <1>1, <2>1, <2>3, ZenonT(40)
    <3> QED BY <2>2, <2>3, <3>1 DEF a
  <2>4. CASE stage[a] # "registering"
    BY <2>1, <2>4 DEF a
  <2> QED BY <2>3, <2>4
<1>5. CASE Registry!IsPidAlive(a, c.pid) /\ c.method = "deregister"
  <2>1. IF stage[a] = "deregistering"
        THEN stage' = [stage EXCEPT ![a] = "down"] /\ timer' = timer
        ELSE UNCHANGED <<stage, timer>>
    BY <1>5 DEF Registry!Ended, a
  <2> QED BY <1>1, <1>2, <1>5, <2>1 DEF a
<1> QED BY <1>1, <1>3, <1>4, <1>5

\* A call arrives at the registry.
LEMMA CallHandledKeeps ==
  ASSUME AgentsInv, NEW c \in calls, Registry!CallHandled(c)
  PROVE  AgentsInv'
<1> DEFINE a == c.from
           answer == [c EXCEPT !.back = TRUE]
<1>1. /\ a \in Agents /\ c.pid \in 1..MaxAgentStarts /\ c.pid <= agentStarts[a]
      /\ c \in Registry!Call /\ ~c.back
      /\ entries' = [entries EXCEPT ![a] = Registry!Handled(c)]
      /\ calls' = (calls \ {c}) \cup
           {d \in {answer} : c.method # "heartbeat" /\ Registry!IsPidAlive(a, c.pid)}
      /\ lost' = [lost EXCEPT ![a] = IF c.method # "deregister" /\ Registry!IsPidAlive(a, c.pid)
                                     THEN 0 ELSE @]
      /\ UNCHANGED <<agentStarts, process, stage, timer, clock, restarts>>
  BY DEF Registry!CallHandled, AgentsInv, Registry!TypeOK, Registry!Call
<1>2. /\ answer \in Registry!Call /\ answer.method = c.method /\ answer.from = a
      /\ answer.pid = c.pid /\ answer.back /\ answer.way = c.way
  BY <1>1 DEF Registry!Call
<1> HIDE DEF a, answer
<1>3. /\ Registry!Handled(c) \in Registry!Entry \cup {Registry!NoEntry}
      /\ \/ Registry!Handled(c) = Registry!NoEntry
         \/ /\ Registry!Handled(c).age = 0 /\ Registry!Handled(c).live = TRUE
            /\ \/ c.method = "register" /\ Registry!Handled(c).pid = c.pid
               \/ c.method = "heartbeat" /\ Registry!Handled(c).pid = entries[a].pid
                    /\ entries[a] # Registry!NoEntry
  <2>1. CASE c.method = "register"
    <3>1. Registry!Handled(c) = [pid |-> c.pid, age |-> 0, live |-> TRUE]
      BY <2>1 DEF Registry!Handled, Registry!Registered
    <3> QED BY <1>1, <2>1, <3>1, AgentTypes DEF Registry!Entry
  <2>2. CASE c.method = "heartbeat"
    <3>1. Registry!Handled(c) = Registry!Beat(entries[a])
      BY <2>2 DEF Registry!Handled, a
    <3>2. entries[a] \in Registry!Entry \cup {Registry!NoEntry}
      BY <1>1, AgentTypes
    <3>3. Registry!Handled(c) \in Registry!Entry \cup {Registry!NoEntry}
      BY <3>1, <3>2, BeatIsEntry
    <3> QED BY <2>2, <3>1, <3>2, <3>3 DEF Registry!Beat, Registry!Entry
  <2>3. CASE c.method = "deregister"
    BY <2>3 DEF Registry!Handled
  <2> QED BY <1>1, <2>1, <2>2, <2>3 DEF Registry!Call
<1>4. Registry!TypeOK'
  BY <1>1, <1>2, <1>3, AgentTypes DEF AgentsInv, Registry!TypeOK
<1>5. \A d \in calls' : d.pid <= agentStarts'[d.from]
  BY <1>1, <1>2 DEF AgentsInv
<1>6. ASSUME NEW b \in Agents PROVE AgentInv(b)'
  <2>1. CASE b # a
    <3>1. Beats(b)' = Beats(b) /\ Registrations(b)' = Registrations(b)
      BY <1>1, <1>2, <2>1 DEF Beats, Registrations, a
    <3> QED BY <1>1, <2>1, <3>1, AgentTypes, OthersDoNotMatter DEF AgentsInv, Registry!TypeOK
  <2>2. CASE b = a
    <3>1. Beats(a)' \subseteq Beats(a)
      BY <1>1, <1>2 DEF Beats
    <3>2. entries'[a] = Registry!Handled(c) /\ entries'[a].pid <= agentStarts[a]
      BY <1>1, <1>3, AgentTypes DEF AgentInv, AgentsInv, Registry!TypeOK, Registry!NoEntry
    <3>0. \A d, e \in Registrations(a)' : d = e
      <4>1. Registrations(a)' \subseteq (Registrations(a) \ {c}) \cup {answer}
        BY <1>1 DEF Registrations
      <4>2. answer \in Registrations(a)' => c \in Registrations(a)
        BY <1>1, <1>2 DEF Registrations, a
      <4> QED BY <1>1, <4>1, <4>2, AgentTypes DEF AgentInv
    <3>3. stage[a] = "registering" => Beats(a)' = {} /\ EntryIsNew(a)'
      <4> SUFFICES ASSUME stage[a] = "registering", HasEntry(a)'
                   PROVE  /\ \E d \in Registrations(a)' : d.back /\ entries'[a].age <= d.way
                          /\ TTL >= Latency => entries'[a].live = TRUE
        BY <1>1, <3>1, AgentTypes DEF AgentInv, EntryIsNew
      <4>1. /\ entries'[a].age = 0 /\ entries'[a].live = TRUE
            /\ \/ c.method = "register" /\ c.pid = agentStarts[a]
               \/ c.method = "heartbeat" /\ HasEntry(a)
        BY <1>1, <1>3, <3>2 DEF HasEntry
      <4>2. CASE c.method = "heartbeat" /\ HasEntry(a)
        <5>1. Registrations(a)' = Registrations(a)
          BY <1>1, <1>2, <4>2 DEF Registrations
        <5>2. \A d \in Registrations(a) : d.way \in Nat
          BY AgentTypes DEF Registrations
        <5>3. EntryIsNew(a)
          BY <1>1, AgentTypes DEF AgentInv
        <5>4. PICK d \in Registrations(a) : d.back
          BY <4>2, <5>3 DEF EntryIsNew
        <5> QED BY <4>1, <5>1, <5>2, <5>4
      <4>3. CASE c.method = "register" /\ c.pid = agentStarts[a]
        <5>1. Registry!IsPidAlive(a, c.pid)
          BY <1>1, <4>3, AgentTypes DEF Registry!IsPidAlive, AgentInv
        <5>2. answer \in Registrations(a)' /\ answer.way \in Nat
          BY <1>1, <1>2, <4>3, <5>1, AgentTypes DEF Registrations
        <5> QED BY <1>2, <4>1, <5>2
      <4> QED BY <4>1, <4>2, <4>3
    <3>4. stage[a] = "up" => EntryIsFresh(a)'
      <4> SUFFICES ASSUME HasEntry(a)'
                   PROVE  /\ entries'[a].age <= Latency + Pauses(lost'[a]) + clock[a]
                                                 + IF Beats(a)' = {} THEN 0 ELSE Pause
                          /\ entries'[a].live = TRUE
        BY <1>1 DEF EntryIsFresh
      <4>1. entries'[a].age = 0 /\ entries'[a].live = TRUE
        BY <1>3, <3>2 DEF HasEntry
      <4>2. lost'[a] \in Nat
        BY <1>1, <1>4 DEF Registry!TypeOK
      <4>3. Pauses(lost'[a]) \in Nat /\ Pause \in Nat /\ clock[a] \in Nat /\ Latency \in Nat
        BY <1>1, <4>2, AgentTypes, PausesGrow
      <4> QED BY <4>1, <4>3
    <3> QED BY <1>1, <2>2, <3>0, <3>1, <3>2, <3>3, <3>4, AgentTypes DEF AgentInv
  <2> QED BY <2>1, <2>2
<1> QED BY <1>4, <1>5, <1>6 DEF AgentsInv

\* The answer to a call arrives.
LEMMA CallAnsweredKeeps ==
  ASSUME AgentsInv, NEW c \in calls, Registry!CallAnswered(c)
  PROVE  AgentsInv'
<1> DEFINE a == c.from
<1>1. /\ c.back /\ calls' = calls \ {c} /\ Registry!Ended(c)
      /\ UNCHANGED <<entries, agentStarts, process, clock, lost, restarts>>
  BY DEF Registry!CallAnswered
<1>2. /\ stage' \in [Agents -> {"down", "registering", "up", "deregistering"}]
      /\ timer' \in [Agents -> BOOLEAN]
      /\ \A b \in Agents : b # a => stage'[b] = stage[b] /\ timer'[b] = timer[b]
      /\ \/ stage'[a] = stage[a] /\ timer'[a] = timer[a]
         \/ /\ c \in Registrations(a) /\ stage[a] = "registering"
            /\ stage'[a] = "up" /\ timer'[a] = TRUE
         \/ stage[a] = "deregistering" /\ stage'[a] = "down" /\ timer'[a] = timer[a]
      /\ c \in Registrations(a) => stage'[a] # "registering"
  BY <1>1, EndedGives
<1>3. a \in Agents
  BY DEF AgentsInv, Registry!TypeOK, Registry!Call
<1> HIDE DEF a
<1>4. Registry!TypeOK'
  BY <1>1, <1>2 DEF AgentsInv, Registry!TypeOK
<1>5. \A d \in calls' : d.pid <= agentStarts'[d.from]
  BY <1>1 DEF AgentsInv
<1>6. ASSUME NEW b \in Agents PROVE AgentInv(b)'
  <2>1. CASE b # a
    <3>1. Beats(b)' = Beats(b) /\ Registrations(b)' = Registrations(b)
      BY <1>1, <2>1 DEF Beats, Registrations, a
    <3> QED BY <1>1, <1>2, <2>1, <3>1, AgentTypes, OthersDoNotMatter
  <2>2. CASE b = a
    <3>1. Beats(a)' \subseteq Beats(a) /\ Registrations(a)' = Registrations(a) \ {c}
      BY <1>1 DEF Beats, Registrations
    <3>2. stage'[a] = "registering" => Registrations(a)' = Registrations(a) /\ stage[a] = "registering"
      BY <1>2, <3>1
    <3>3. stage'[a] = "registering" => EntryIsNew(a)'
      BY <1>1, <1>3, <3>2, AgentTypes DEF AgentInv, EntryIsNew, HasEntry
    <3>4. CASE stage'[a] = "up" /\ stage[a] = "registering"
      <4>1. c \in Registrations(a) /\ timer'[a] = TRUE /\ Beats(a)' = {}
        BY <1>2, <1>3, <3>1, <3>4, AgentTypes DEF AgentInv
      <4>2. HasEntry(a) => /\ entries[a].age <= Latency
                           /\ TTL >= Latency => entries[a].live = TRUE
        <5> SUFFICES ASSUME HasEntry(a)
                     PROVE  /\ entries[a].age <= Latency
                            /\ TTL >= Latency => entries[a].live = TRUE
          OBVIOUS
        <5>1. EntryIsNew(a) /\ \A d, e \in Registrations(a) : d = e
          BY <1>3, <3>4, AgentTypes DEF AgentInv
        <5>2. entries[a].age <= c.way /\ (TTL >= Latency => entries[a].live = TRUE)
          BY <4>1, <5>1 DEF EntryIsNew
        <5> QED BY <1>3, <5>2, AgentTypes
      <4>3. EntryIsFresh(a)'
        <5> SUFFICES ASSUME HasEntry(a)', lost[a] < MaxLost
                     PROVE  /\ entries[a].age <= Latency + Pauses(lost[a]) + clock[a] + 0
                            /\ Registry!Silence(lost[a]) <= TTL => entries[a].live = TRUE
          BY <1>1, <4>1 DEF EntryIsFresh
        <5>1. HasEntry(a)
          BY <1>1 DEF HasEntry
        <5>2. /\ Pauses(lost[a]) \in Nat /\ clock[a] \in Nat /\ Pause \in Nat
              /\ Registry!Silence(lost[a]) = Latency + Pauses(lost[a]) + Pause + Latency
          BY <1>3, AgentTypes, PausesGrow
        <5> QED BY <1>3, <4>2, <5>1, <5>2, AgentTypes
      <4>4. \A d, e \in Registrations(a)' : d = e
        BY <1>3, <3>1, AgentTypes DEF AgentInv
      <4> QED BY <1>1, <1>3, <2>2, <3>4, <4>1, <4>3, <4>4, AgentTypes DEF AgentInv
    <3>5. CASE ~(stage'[a] = "up" /\ stage[a] = "registering")
      <4>1. stage'[a] = "up" => stage[a] = "up"
        BY <1>2, <3>5
      <4>2. Beats(a)' = Beats(a) /\ \A d, e \in Registrations(a)' : d = e
        <5>1. Beats(a)' = Beats(a)
          BY <1>1 DEF Beats
        <5>2. \A d, e \in Registrations(a) : d = e
          BY <1>3, AgentTypes DEF AgentInv
        <5> QED BY <3>1, <5>1, <5>2
      <4>3. stage'[a] = "up" => EntryIsFresh(a)'
        BY <1>1, <1>3, <4>1, <4>2, AgentTypes DEF AgentInv, EntryIsFresh, HasEntry
      <4>4. /\ stage'[a] = "registering" => Beats(a)' = {}
            /\ stage'[a] = "up" => \A d \in Beats(a)' : d.way = clock'[a]
        <5>1. AgentInv(a) /\ clock' = clock
          BY <1>1, <1>3 DEF AgentsInv
        <5>2. /\ stage[a] = "registering" => Beats(a) = {}
              /\ stage[a] = "up" => \A d \in Beats(a) : d.way = clock[a]
          BY <5>1 DEF AgentInv
        <5> QED BY <3>2, <4>1, <4>2, <5>1, <5>2, Zenon
      <4>5. /\ (timer'[a] = TRUE) <=> (stage'[a] = "up")
            /\ stage'[a] # "down" => stage[a] # "down"
        BY <1>2, <1>3, <3>5, AgentTypes DEF AgentInv
      <4> QED BY <1>1, <1>3, <2>2, <3>3, <4>2, <4>3, <4>4, <4>5, AgentTypes DEF AgentInv
    <3> QED BY <3>4, <3>5
  <2> QED BY <2>1, <2>2
<1> QED BY <1>4, <1>5, <1>6 DEF AgentsInv

\* A call, or its answer, is lost.
LEMMA CallLostKeeps ==
  ASSUME AgentsInv, NEW c \in calls, Registry!CallLost(c)
  PROVE  AgentsInv'
<1> DEFINE a == c.from
           n == IF ~Registry!IsPidAlive(a, c.pid) THEN lost[a]
                ELSE IF c.method = "heartbeat" /\ lost[a] < MaxLost THEN lost[a] + 1
                ELSE IF c.method = "register" /\ c.back THEN MaxLost ELSE lost[a]
<1>1. /\ calls' = calls \ {c} /\ Registry!Ended(c)
      /\ lost' = [lost EXCEPT ![a] = n]
      /\ UNCHANGED <<entries, agentStarts, process, clock, restarts>>
  BY DEF Registry!CallLost
<1>2. /\ stage' \in [Agents -> {"down", "registering", "up", "deregistering"}]
      /\ timer' \in [Agents -> BOOLEAN]
      /\ \A b \in Agents : b # a => stage'[b] = stage[b] /\ timer'[b] = timer[b]
      /\ \/ stage'[a] = stage[a] /\ timer'[a] = timer[a]
         \/ /\ c \in Registrations(a) /\ stage[a] = "registering"
            /\ stage'[a] = "up" /\ timer'[a] = TRUE
         \/ stage[a] = "deregistering" /\ stage'[a] = "down" /\ timer'[a] = timer[a]
      /\ c \in Registrations(a) => stage'[a] # "registering"
  BY <1>1, EndedGives
<1>3. a \in Agents
  BY DEF AgentsInv, Registry!TypeOK, Registry!Call
<1>4. /\ n \in 0..MaxLost
      /\ n = lost[a] \/ n = lost[a] + 1 \/ n = MaxLost
      /\ c \in Beats(a) /\ process[a] /\ n < MaxLost => n = lost[a] + 1
      /\ c \in Registrations(a) /\ process[a] /\ c.back => n = MaxLost
  <2>1. lost[a] \in 0..MaxLost /\ MaxLost \in Nat
    BY <1>3, AgentTypes
  <2>2. c \in Beats(a) \/ c \in Registrations(a) => c.pid = agentStarts[a]
    BY DEF Beats, Registrations
  <2>3. c \in Beats(a) => c.method = "heartbeat"
    BY DEF Beats
  <2>4. c \in Registrations(a) => c.method = "register"
    BY DEF Registrations
  <2> QED BY <2>1, <2>2, <2>3, <2>4 DEF Registry!IsPidAlive
<1> HIDE DEF a, n
<1>5. lost'[a] = n /\ \A b \in Agents : b # a => lost'[b] = lost[b]
  BY <1>1, <1>3 DEF AgentsInv, Registry!TypeOK
<1>6. Registry!TypeOK'
  BY <1>1, <1>2, <1>4 DEF AgentsInv, Registry!TypeOK
<1>7. \A d \in calls' : d.pid <= agentStarts'[d.from]
  BY <1>1 DEF AgentsInv
<1>8. ASSUME NEW b \in Agents PROVE AgentInv(b)'
  <2>1. CASE b # a
    <3>1. Beats(b)' = Beats(b) /\ Registrations(b)' = Registrations(b)
      BY <1>1, <2>1 DEF Beats, Registrations, a
    <3> QED BY <1>1, <1>2, <1>5, <2>1, <3>1, AgentTypes, OthersDoNotMatter
  <2>2. CASE b = a
    <3>1. Beats(a)' = Beats(a) \ {c} /\ Registrations(a)' = Registrations(a) \ {c}
      BY <1>1 DEF Beats, Registrations
    <3>2. stage'[a] = "registering" => Registrations(a)' = Registrations(a) /\ stage[a] = "registering"
      BY <1>2, <3>1
    <3>3. stage'[a] = "registering" => EntryIsNew(a)'
      BY <1>1, <1>3, <3>2, AgentTypes DEF AgentInv, EntryIsNew, HasEntry
    <3>4. \A d, e \in Registrations(a)' : d = e
      BY <1>3, <3>1, AgentTypes DEF AgentInv
    <3>5. stage[a] = "up" => EntryIsFresh(a)'
      <4> SUFFICES ASSUME stage[a] = "up", HasEntry(a)', n < MaxLost
                   PROVE  /\ entries[a].age <= Latency + Pauses(n) + clock[a]
                                               + IF Beats(a)' = {} THEN 0 ELSE Pause
                          /\ Registry!Silence(n) <= TTL => entries[a].live = TRUE
        BY <1>1, <1>5 DEF EntryIsFresh
      <4>1. HasEntry(a)
        BY <1>1 DEF HasEntry
      <4>2. /\ lost[a] \in Nat /\ Pauses(lost[a]) \in Nat /\ Pause \in Nat
            /\ Pauses(lost[a] + 1) = Pauses(lost[a]) + Pause
            /\ lost[a] + 1 \in Nat
            /\ Registry!Silence(lost[a]) = Latency + Pauses(lost[a]) + Pause + Latency
        BY <1>3, AgentTypes, PausesGrow
      <4>3. Registry!Silence(lost[a] + 1) = Latency + Pauses(lost[a] + 1) + Pause + Latency
        BY <4>2, PausesGrow
      <4>4. n = lost[a] \/ n = lost[a] + 1
        BY <1>4
      <4>5. lost[a] < MaxLost /\ process[a]
        <5>1. MaxLost \in Nat /\ AgentInv(a)
          BY <1>3, AgentTypes
        <5> QED BY <4>2, <4>4, <5>1 DEF AgentInv
      <4>6. /\ entries[a].age <= Latency + Pauses(lost[a]) + clock[a]
                                   + IF Beats(a) = {} THEN 0 ELSE Pause
            /\ Registry!Silence(lost[a]) <= TTL => entries[a].live = TRUE
        BY <1>3, <4>1, <4>5, AgentTypes DEF AgentInv, EntryIsFresh
      <4>7. entries[a].age \in Nat /\ clock[a] \in Nat /\ Latency \in Nat /\ TTL \in Nat
        BY <1>3, AgentTypes
      <4>8. CASE c \in Beats(a)
        <5>1. n = lost[a] + 1
          BY <1>4, <4>5, <4>8
        <5> QED BY <4>2, <4>3, <4>6, <4>7, <5>1
      <4>9. CASE c \notin Beats(a)
        <5>1. Beats(a)' = Beats(a)
          BY <3>1, <4>9
        <5> QED BY <4>2, <4>3, <4>4, <4>6, <4>7, <5>1
      <4> QED BY <4>8, <4>9
    <3>6. CASE stage'[a] = "up" /\ stage[a] = "registering"
      <4>1. c \in Registrations(a) /\ timer'[a] = TRUE /\ Beats(a)' = {} /\ process[a]
        BY <1>2, <1>3, <3>1, <3>6, AgentTypes DEF AgentInv
      <4>2. EntryIsFresh(a)'
        <5> SUFFICES ASSUME HasEntry(a)', n < MaxLost PROVE FALSE
          BY <1>5 DEF EntryIsFresh
        <5>1. HasEntry(a)
          BY <1>1 DEF HasEntry
        <5>2. EntryIsNew(a) /\ \A d, e \in Registrations(a) : d = e
          BY <1>3, <3>6, AgentTypes DEF AgentInv
        <5>3. c.back
          BY <4>1, <5>1, <5>2 DEF EntryIsNew
        <5> QED BY <1>3, <1>4, <4>1, <5>3, AgentTypes
      <4> QED BY <1>1, <1>3, <2>2, <3>4, <3>6, <4>1, <4>2, AgentTypes DEF AgentInv
    <3>7. CASE ~(stage'[a] = "up" /\ stage[a] = "registering")
      <4>1. stage'[a] = "up" => stage[a] = "up"
        BY <1>2, <3>7
      <4>2. /\ stage'[a] = "registering" => Beats(a)' = {}
            /\ stage'[a] = "up" => \A d \in Beats(a)' : d.way = clock'[a]
        BY <1>1, <1>3, <3>1, <3>2, <4>1, AgentTypes DEF AgentInv
      <4>3. /\ (timer'[a] = TRUE) <=> (stage'[a] = "up")
            /\ stage'[a] # "down" => stage[a] # "down"
        BY <1>2, <1>3, <3>7, AgentTypes DEF AgentInv
      <4> QED BY <1>1, <1>3, <2>2, <3>3, <3>4, <3>5, <4>1, <4>2, <4>3, AgentTypes DEF AgentInv
    <3> QED BY <3>6, <3>7
  <2> QED BY <2>1, <2>2
<1> QED BY <1>6, <1>7, <1>8 DEF AgentsInv

\* What the sweep leaves of an entry.
LEMMA SweepKeeps ==
  ASSUME AgentsInv, Registry!Sweep
  PROVE  AgentsInv'
<1>1. /\ entries' = [b \in Agents |-> Registry!Swept(b)]
      /\ UNCHANGED <<calls, agentStarts, process, stage, timer, clock, lost, restarts>>
  BY DEF Registry!Sweep
<1>2. ASSUME NEW b \in Agents
      PROVE  \/ Registry!Swept(b) = Registry!NoEntry
             \/ /\ entries[b] \in Registry!Entry /\ entries[b] # Registry!NoEntry
                /\ Registry!Swept(b) \in Registry!Entry
                /\ Registry!Swept(b).pid = entries[b].pid
                /\ Registry!Swept(b).age = entries[b].age
                /\ entries[b].age <= TTL /\ Registry!IsPidAlive(b, entries[b].pid)
                      => Registry!Swept(b).live = TRUE
  <2> DEFINE e == entries[b]
             alive == ~Registry!ShouldBeDead(e, ~Registry!IsPidAlive(b, e.pid))
  <2>1. CASE Registry!Swept(b) # Registry!NoEntry
    <3>1. e \in Registry!Entry /\ e # Registry!NoEntry
      BY <2>1, AgentTypes DEF Registry!Swept, Registry!Known
    <3>2. Registry!Swept(b) = [e EXCEPT !.live = alive]
      BY <2>1 DEF Registry!Swept
    <3>3. alive \in BOOLEAN /\ e.age \in Nat /\ TTL \in Nat
      BY AgentTypes DEF Registry!ShouldBeDead
    <3>4. e.age <= TTL /\ Registry!IsPidAlive(b, e.pid) => alive = TRUE
      BY <3>3 DEF Registry!ShouldBeDead
    <3> HIDE DEF alive
    <3> QED BY <3>1, <3>2, <3>3, <3>4 DEF Registry!Entry
  <2> QED BY <2>1
<1>3. Registry!TypeOK'
  BY <1>1, <1>2 DEF AgentsInv, Registry!TypeOK
<1>4. \A d \in calls' : d.pid <= agentStarts'[d.from]
  BY <1>1 DEF AgentsInv
<1>5. ASSUME NEW b \in Agents PROVE AgentInv(b)'
  <2>1. Beats(b)' = Beats(b) /\ Registrations(b)' = Registrations(b)
    BY <1>1 DEF Beats, Registrations
  <2>2. entries'[b] = Registry!Swept(b)
    BY <1>1
  <2>3. HasEntry(b)' => /\ HasEntry(b) /\ entries'[b].age = entries[b].age
                        /\ entries[b].age <= TTL /\ process[b] => entries'[b].live = TRUE
    BY <1>1, <1>2, <2>2 DEF HasEntry, Registry!IsPidAlive
  <2>4. entries'[b].pid <= agentStarts[b]
    <3>1. entries[b].pid <= agentStarts[b] /\ agentStarts[b] \in Nat
      BY AgentTypes DEF AgentInv
    <3>2. CASE Registry!Swept(b) = Registry!NoEntry
      BY <2>2, <3>1, <3>2 DEF Registry!NoEntry
    <3>3. CASE Registry!Swept(b).pid = entries[b].pid
      BY <2>2, <3>1, <3>3
    <3> QED BY <1>2, <3>2, <3>3
  <2>5. stage[b] = "registering" => EntryIsNew(b)'
    <3> SUFFICES ASSUME stage[b] = "registering", HasEntry(b)'
                 PROVE  /\ \E d \in Registrations(b)' : d.back /\ entries'[b].age <= d.way
                        /\ TTL >= Latency => entries'[b].live = TRUE
      BY DEF EntryIsNew
    <3>1. process[b] /\ EntryIsNew(b)
      BY AgentTypes DEF AgentInv
    <3>2. PICK d \in Registrations(b) : d.back /\ entries[b].age <= d.way
      BY <2>3, <3>1 DEF EntryIsNew
    <3>3. d.way \in 0..Latency /\ entries[b].age \in Nat /\ Latency \in Nat /\ TTL \in Nat
      BY AgentTypes DEF Registrations
    <3> QED BY <2>1, <2>3, <3>1, <3>2, <3>3
  <2>6. stage[b] = "up" => EntryIsFresh(b)'
    <3> SUFFICES ASSUME stage[b] = "up", HasEntry(b)', lost[b] < MaxLost
                 PROVE  /\ entries'[b].age <= Latency + Pauses(lost[b]) + clock[b]
                                              + IF Beats(b) = {} THEN 0 ELSE Pause
                        /\ Registry!Silence(lost[b]) <= TTL => entries'[b].live = TRUE
      BY <1>1, <2>1 DEF EntryIsFresh
    <3>1. process[b] /\ EntryIsFresh(b) /\ \A d \in Beats(b) : d.way = clock[b]
      BY AgentTypes DEF AgentInv
    <3>2. entries[b].age <= Latency + Pauses(lost[b]) + clock[b]
                             + IF Beats(b) = {} THEN 0 ELSE Pause
      BY <2>3, <3>1 DEF EntryIsFresh
    <3>3. /\ Pauses(lost[b]) \in Nat /\ Pause \in Nat /\ clock[b] \in 0..Pause
          /\ Registry!Silence(lost[b]) = Latency + Pauses(lost[b]) + Pause + Latency
      BY AgentTypes, PausesGrow DEF Pause
    <3>4. \A d \in Beats(b) : clock[b] <= Latency
      BY <3>1, AgentTypes DEF Beats
    <3>5. entries[b].age \in Nat /\ Latency \in Nat /\ TTL \in Nat
      BY AgentTypes
    <3>6. Registry!Silence(lost[b]) <= TTL => entries[b].age <= TTL
      <4>1. CASE Beats(b) = {}
        BY <3>2, <3>3, <3>5, <4>1
      <4>2. CASE Beats(b) # {}
        <5>1. clock[b] <= Latency
          BY <3>4, <4>2
        <5> QED BY <3>2, <3>3, <3>5, <4>2, <5>1
      <4> QED BY <4>1, <4>2
    <3> QED BY <2>3, <3>1, <3>2, <3>6
  <2> QED BY <1>1, <2>1, <2>4, <2>5, <2>6, AgentTypes DEF AgentInv
<1> QED BY <1>3, <1>4, <1>5 DEF AgentsInv

\* A registry that restarts has no entries.
LEMMA RestartKeeps ==
  ASSUME AgentsInv, Registry!RegistryRestarts
  PROVE  AgentsInv'
<1>1. /\ entries' = [b \in Agents |-> Registry!NoEntry]
      /\ restarts < MaxRestarts /\ restarts' = restarts + 1
      /\ UNCHANGED <<calls, agentStarts, process, stage, timer, clock, lost>>
  BY DEF Registry!RegistryRestarts
<1>2. Registry!TypeOK'
  BY <1>1, PlatformAssumption DEF AgentsInv, Registry!TypeOK
<1>3. \A d \in calls' : d.pid <= agentStarts'[d.from]
  BY <1>1 DEF AgentsInv
<1>4. ASSUME NEW b \in Agents PROVE AgentInv(b)'
  <2>1. Beats(b)' = Beats(b) /\ Registrations(b)' = Registrations(b) /\ ~HasEntry(b)'
    BY <1>1 DEF Beats, Registrations, HasEntry
  <2>2. entries'[b].pid <= agentStarts[b]
    BY <1>1, AgentTypes DEF Registry!NoEntry
  <2>3. EntryIsNew(b)' /\ EntryIsFresh(b)'
    BY <2>1 DEF EntryIsNew, EntryIsFresh
  <2> QED BY <1>1, <2>1, <2>2, <2>3, AgentTypes DEF AgentInv
<1> QED BY <1>2, <1>3, <1>4 DEF AgentsInv

\* Time passes: an entry, the timer and what is on its way age alike.
LEMMA TickKeeps ==
  ASSUME AgentsInv, Registry!Tick
  PROVE  AgentsInv'
<1> DEFINE Older(c) == IF Registry!Timed(c) THEN [c EXCEPT !.way = @ + 1] ELSE c
<1>1. /\ \A b \in Agents : timer[b] => clock[b] < Interval + Late
      /\ \A c \in calls : Registry!Timed(c) => c.way < Latency
      /\ clock' = [b \in Agents |-> IF timer[b] THEN clock[b] + 1 ELSE clock[b]]
      /\ calls' = {Older(c) : c \in calls}
      /\ entries' = [b \in Agents |->
           IF Registry!Known(b) /\ entries[b].age <= 2 * TTL
           THEN [entries[b] EXCEPT !.age = @ + 1] ELSE entries[b]]
      /\ UNCHANGED <<agentStarts, process, stage, timer, lost, restarts>>
  BY DEF Registry!Tick
<1>2. ASSUME NEW c \in calls
      PROVE  /\ Older(c) \in Registry!Call
             /\ Older(c).method = c.method /\ Older(c).from = c.from /\ Older(c).pid = c.pid
             /\ Older(c).back = c.back
             /\ Older(c).way = IF Registry!Timed(c) THEN c.way + 1 ELSE c.way
  <2>1. c \in Registry!Call /\ c.way \in 0..Latency /\ Latency \in Nat
    BY PlatformAssumption DEF AgentsInv, Registry!TypeOK, Registry!Call
  <2>2. CASE Registry!Timed(c)
    <3>1. Older(c) = [c EXCEPT !.way = c.way + 1] /\ c.way + 1 \in 0..Latency
      BY <1>1, <2>1, <2>2
    <3> QED BY <2>1, <2>2, <3>1 DEF Registry!Call
  <2>3. CASE ~Registry!Timed(c)
    BY <2>1, <2>3
  <2> QED BY <2>2, <2>3
<1> HIDE DEF Older
<1>3. ASSUME NEW b \in Agents
      PROVE  /\ entries'[b] \in Registry!Entry \cup {Registry!NoEntry}
             /\ entries'[b].pid = entries[b].pid /\ entries'[b].live = entries[b].live
             /\ entries'[b].age <= entries[b].age + 1
             /\ entries'[b] # Registry!NoEntry => entries[b] # Registry!NoEntry
  <2>1. entries[b] \in Registry!Entry \cup {Registry!NoEntry} /\ entries[b].age \in Nat /\ TTL \in Nat
    BY AgentTypes
  <2>2. CASE Registry!Known(b) /\ entries[b].age <= 2 * TTL
    <3>1. entries[b] \in Registry!Entry /\ entries'[b] = [entries[b] EXCEPT !.age = entries[b].age + 1]
      BY <1>1, <2>1, <2>2 DEF Registry!Known
    <3>2. entries[b].age + 1 \in 0..(2 * TTL + 1)
      BY <2>1, <2>2
    <3>3. entries[b] # Registry!NoEntry
      BY <2>2 DEF Registry!Known
    <3> QED BY <2>1, <3>1, <3>2, <3>3 DEF Registry!Entry
  <2>3. CASE ~(Registry!Known(b) /\ entries[b].age <= 2 * TTL)
    <3>1. entries'[b] = entries[b]
      BY <1>1, <2>3
    <3> QED BY <2>1, <3>1
  <2> QED BY <2>2, <2>3
<1>4. Registry!TypeOK'
  <2>1. calls' \subseteq Registry!Call
    BY <1>1, <1>2
  <2>2. clock' \in [Agents -> 0..Interval + Late]
    BY <1>1, AgentTypes
  <2>3. entries' \in [Agents -> Registry!Entry \cup {Registry!NoEntry}]
    BY <1>1, <1>3
  <2> QED BY <1>1, <2>1, <2>2, <2>3 DEF AgentsInv, Registry!TypeOK
<1>5. \A d \in calls' : d.pid <= agentStarts'[d.from]
  BY <1>1, <1>2 DEF AgentsInv
<1>6. ASSUME NEW b \in Agents PROVE AgentInv(b)'
  <2>1. Registrations(b)' = {Older(c) : c \in Registrations(b)}
    BY <1>1, <1>2 DEF Registrations
  <2>2. Beats(b)' = {Older(c) : c \in Beats(b)}
    BY <1>1, <1>2 DEF Beats
  <2>3. HasEntry(b)' => HasEntry(b)
    BY <1>1, <1>3 DEF HasEntry
  <2>4. AgentInv(b) /\ Latency \in Nat /\ entries[b].age \in Nat /\ clock[b] \in Nat
    BY AgentTypes
  <2>5. entries'[b].age \in Nat
    BY <1>3 DEF Registry!Entry, Registry!NoEntry
  <2>6. \A d, e \in Registrations(b)' : d = e
    BY <2>1, <2>4 DEF AgentInv
  <2>7. stage[b] = "registering" => EntryIsNew(b)'
    <3> SUFFICES ASSUME stage[b] = "registering", HasEntry(b)'
                 PROVE  /\ \E d \in Registrations(b)' : d.back /\ entries'[b].age <= d.way
                        /\ TTL >= Latency => entries'[b].live = TRUE
      BY DEF EntryIsNew
    <3>1. PICK d \in Registrations(b) : d.back /\ entries[b].age <= d.way
      BY <2>3, <2>4 DEF AgentInv, EntryIsNew
    <3>2. d \in calls /\ d.way \in Nat /\ Registry!Timed(d)
      BY <3>1, AgentTypes DEF Registrations, Registry!Timed
    <3>3. Older(d) \in Registrations(b)' /\ Older(d).back /\ Older(d).way = d.way + 1
      BY <1>2, <2>1, <3>1, <3>2
    <3>4. entries'[b].age <= Older(d).way
      BY <1>3, <2>4, <2>5, <3>1, <3>2, <3>3
    <3>5. TTL >= Latency => entries'[b].live = TRUE
      BY <1>3, <2>3, <2>4 DEF AgentInv, EntryIsNew
    <3> QED BY <3>3, <3>4, <3>5
  <2>8. ASSUME stage[b] = "up"
        PROVE  (\A d \in Beats(b)' : d.way = clock'[b]) /\ EntryIsFresh(b)'
    <3>1. clock'[b] = clock[b] + 1
      BY <1>1, <2>4, <2>8 DEF AgentInv
    <3>2. \A c \in Beats(b) : Older(c).way = clock[b] + 1
      <4> SUFFICES ASSUME NEW c \in Beats(b) PROVE Older(c).way = clock[b] + 1
        OBVIOUS
      <4>1. c \in calls /\ Registry!Timed(c) /\ c.way = clock[b]
        BY <2>4, <2>8 DEF AgentInv, Beats, Registry!Timed
      <4> QED BY <1>2, <4>1
    <3>3. (Beats(b)' = {}) <=> (Beats(b) = {})
      BY <2>2
    <3>4. EntryIsFresh(b)'
      <4> SUFFICES ASSUME HasEntry(b)', lost[b] < MaxLost
                   PROVE  /\ entries'[b].age <= Latency + Pauses(lost[b]) + clock'[b]
                                                + IF Beats(b)' = {} THEN 0 ELSE Pause
                          /\ Registry!Silence(lost[b]) <= TTL => entries'[b].live = TRUE
        BY <1>1 DEF EntryIsFresh
      <4>1. /\ entries[b].age <= Latency + Pauses(lost[b]) + clock[b]
                                   + IF Beats(b) = {} THEN 0 ELSE Pause
            /\ Registry!Silence(lost[b]) <= TTL => entries[b].live = TRUE
        BY <2>3, <2>4, <2>8 DEF AgentInv, EntryIsFresh
      <4>2. Pauses(lost[b]) \in Nat /\ Pause \in Nat
        BY AgentTypes, PausesGrow
      <4> QED BY <1>3, <2>4, <2>5, <3>1, <3>3, <4>1, <4>2
    <3> QED BY <2>2, <3>1, <3>2, <3>4
  <2>9. Beats(b) = {} => Beats(b)' = {}
    BY <2>2
  <2> QED BY <1>1, <1>3, <2>4, <2>6, <2>7, <2>8, <2>9 DEF AgentInv
<1> QED BY <1>4, <1>5, <1>6 DEF AgentsInv

\* An agent that is up and whose entry is of its process is listed as alive, as
\* long as the heartbeats it lost in a row fit into the TTL with everything
\* that is late, whenever the registry sweeps, restarts or handles late calls of
\* the agent's earlier processes.
THEOREM SpecBeatsKeepAlive == Registry!Spec => []BeatsKeepAlive
<1>1. Registry!Init => AgentsInv
  <2> SUFFICES ASSUME Registry!Init PROVE AgentsInv
    OBVIOUS
  <2>1. Registry!TypeOK
    BY PlatformAssumption DEF Registry!Init, Registry!TypeOK
  <2> QED BY <2>1 DEF Registry!Init, AgentsInv, AgentInv, EntryIsNew, EntryIsFresh, HasEntry,
                      Registrations, Beats, Registry!NoEntry
<1>2. AgentsInv /\ [Registry!Next]_agentVars => AgentsInv'
  <2>1. CASE UNCHANGED agentVars
    <3> SUFFICES ASSUME AgentsInv PROVE AgentsInv'
      BY <2>1
    <3>1. \A b \in Agents : Beats(b)' = Beats(b) /\ Registrations(b)' = Registrations(b)
      BY <2>1 DEF agentVars, Beats, Registrations
    <3>2. \A b \in Agents : AgentInv(b)'
      BY <2>1, <3>1, AgentTypes, OthersDoNotMatter DEF agentVars
    <3> QED BY <2>1, <3>2 DEF agentVars, AgentsInv, Registry!TypeOK
  <2> QED BY <2>1, StartKeeps, HeartbeatKeeps, StopKeeps, ProcessEndsKeeps, CallHandledKeeps,
             CallAnsweredKeeps, CallLostKeeps, SweepKeeps, RestartKeeps, TickKeeps
          DEF Registry!Next, Registry!Step
<1>3. AgentsInv => BeatsKeepAlive
  BY DEF AgentsInv, AgentInv, EntryIsFresh, HasEntry, BeatsKeepAlive, Registry!BeatsKeepAlive,
         Registry!Listed, Registry!Known
<1> QED BY <1>1, <1>2, <1>3, PTL DEF Registry!Spec, Registry!vars, agentVars

-----------------------------------------------------------------------------
(* The inbox of an agent.                                                  *)

\* s is the end of t, of at most k elements.
EndOf(s, t, k) ==
  /\ Len(s) = IF Len(t) <= k THEN Len(t) ELSE k
  /\ \A i \in 1..Len(s) : s[i] = t[Len(t) - Len(s) + i]

InboxInv ==
  /\ arrived \in Seq(Messages) /\ transit \subseteq Messages
  /\ inbox \in Seq(Messages) /\ EndOf(inbox, arrived, InboxBound)

\* A full ring that drops its oldest element and takes a new one holds the
\* end of what there is then.
LEMMA RingTakesOne ==
  ASSUME NEW S, NEW s \in Seq(S), NEW t \in Seq(S), NEW e \in S, NEW k \in Nat \ {0},
         EndOf(s, t, k)
  PROVE  LET r == Append(IF Len(s) >= k THEN Tail(s) ELSE s, e)
         IN  r \in Seq(S) /\ EndOf(r, Append(t, e), k)
<1> DEFINE kept == IF Len(s) >= k THEN Tail(s) ELSE s
           r == Append(kept, e)
<1>1. kept \in Seq(S) /\ Len(kept) = (IF Len(s) >= k THEN k - 1 ELSE Len(s))
  BY DEF EndOf
<1>0. Len(s) \in Nat /\ Len(t) \in Nat
  OBVIOUS
<1>2. ASSUME NEW i \in 1..Len(kept) PROVE kept[i] = t[Len(t) - Len(kept) + i]
  <2>1. CASE Len(s) >= k
    <3>1. Len(s) = k /\ Len(kept) = k - 1 /\ kept[i] = s[i + 1] /\ i + 1 \in 1..Len(s)
      BY <1>0, <1>1, <1>2, <2>1 DEF EndOf
    <3>2. s[i + 1] = t[Len(t) - Len(s) + (i + 1)]
      BY <3>1 DEF EndOf
    <3> HIDE DEF kept
    <3>3. Len(t) - Len(s) + (i + 1) = Len(t) - Len(kept) + i
      BY <1>0, <3>1
    <3> QED BY <3>1, <3>2, <3>3
  <2>2. CASE ~(Len(s) >= k)
    BY <1>0, <1>1, <1>2, <2>2 DEF EndOf
  <2> QED BY <2>1, <2>2
<1> HIDE DEF kept
<1>3. /\ r \in Seq(S) /\ Len(r) = Len(kept) + 1
      /\ \A i \in 1..Len(r) : r[i] = IF i = Len(r) THEN e ELSE kept[i]
  BY <1>1
<1>4. /\ Len(Append(t, e)) = Len(t) + 1
      /\ \A i \in 1..(Len(t) + 1) : Append(t, e)[i] = IF i = Len(t) + 1 THEN e ELSE t[i]
  OBVIOUS
<1>5. Len(r) = IF Len(t) + 1 <= k THEN Len(t) + 1 ELSE k
  BY <1>0, <1>1, <1>3 DEF EndOf
<1>6. ASSUME NEW i \in 1..Len(r) PROVE r[i] = Append(t, e)[Len(t) + 1 - Len(r) + i]
  <2>1. Len(kept) \in Nat /\ Len(kept) <= Len(t)
    BY <1>0, <1>1 DEF EndOf
  <2>2. CASE i = Len(r)
    BY <1>0, <1>3, <1>4, <2>1, <2>2
  <2>3. CASE i # Len(r)
    <3>1. i \in 1..Len(kept) /\ r[i] = kept[i]
      BY <1>3, <1>6, <2>1, <2>3
    <3>2. kept[i] = t[Len(t) - Len(kept) + i]
      BY <1>2, <3>1
    <3> QED BY <1>0, <1>3, <1>4, <2>1, <3>1, <3>2
  <2> QED BY <2>2, <2>3
<1>7. r \in Seq(S) /\ EndOf(r, Append(t, e), k)
  <2> HIDE DEF r
  <2> QED BY <1>3, <1>4, <1>5, <1>6, SMTT(40) DEF EndOf
<1> QED BY <1>7 DEF kept

\* The end of a sequence is a subsequence of it.
LEMMA EndIsSubSeq ==
  ASSUME NEW S, NEW s \in Seq(S), NEW t \in Seq(S), NEW k \in Nat, EndOf(s, t, k)
  PROVE  s = SubSeq(t, Len(t) - (IF Len(t) <= k THEN Len(t) ELSE k) + 1, Len(t))
<1> DEFINE m == Len(t) - (IF Len(t) <= k THEN Len(t) ELSE k) + 1
           u == SubSeq(t, m, Len(t))
<1>0. Len(s) \in Nat /\ Len(t) \in Nat
  OBVIOUS
<1>1. m \in 1..(Len(t) + 1) /\ Len(s) = Len(t) - m + 1
  <2>1. CASE Len(t) <= k
    BY <1>0, <2>1 DEF EndOf
  <2>2. CASE ~(Len(t) <= k)
    BY <1>0, <2>2 DEF EndOf
  <2> QED BY <2>1, <2>2
<1>2. u \in Seq(S) /\ Len(u) = Len(t) - m + 1
      /\ \A i \in 1..(Len(t) - m + 1) : u[i] = t[m + i - 1]
  <2>1. \A i \in m..Len(t) : t[i] \in S
    BY <1>0, <1>1
  <2> HIDE DEF m
  <2> QED BY <1>0, <1>1, <2>1, SubSeqProperties
<1>3. ASSUME NEW i \in 1..Len(s) PROVE s[i] = t[m + i - 1]
  <2>1. s[i] = t[Len(t) - Len(s) + i]
    BY DEF EndOf
  <2>2. m \in Nat /\ i \in Nat /\ Len(t) - Len(s) = m - 1
    BY <1>0, <1>1
  <2> HIDE DEF m
  <2>3. Len(t) - Len(s) + i = m + i - 1
    BY <1>0, <2>2
  <2> QED BY <2>1, <2>3
<1> HIDE DEF u, m
<1>5. s = u
  BY <1>0, <1>1, <1>2, <1>3, SeqEqual
<1> QED BY <1>5 DEF u, m

\* Every step of the inbox keeps the invariant.
LEMMA InboxMoves == InboxInv /\ [Inbox!Next]_inboxVars => InboxInv'
<1> SUFFICES ASSUME InboxInv, [Inbox!Next]_inboxVars PROVE InboxInv'
  OBVIOUS
<1>1. ASSUME NEW m \in Messages, Inbox!Send(m) \/ Inbox!Lost(m) PROVE InboxInv'
  BY <1>1 DEF Inbox!Send, Inbox!Lost, InboxInv
<1>2. ASSUME NEW m \in Messages, Inbox!Receive(m) PROVE InboxInv'
  <2>1. /\ arrived' = Append(arrived, m) /\ transit' = transit \ {m}
        /\ inbox' = Append(IF Len(inbox) >= InboxBound THEN Tail(inbox) ELSE inbox, m)
    BY <1>2 DEF Inbox!Receive, Inbox!Deposited
  <2>2. inbox' \in Seq(Messages) /\ EndOf(inbox', Append(arrived, m), InboxBound)
    BY <2>1, RingTakesOne, PlatformAssumption DEF InboxInv
  <2> QED BY <2>1, <2>2 DEF InboxInv
<1>3. ASSUME NEW path \in Inbox!Paths, Inbox!DrainInbox(path) PROVE InboxInv'
  BY <1>3, PlatformAssumption DEF Inbox!DrainInbox, InboxInv, EndOf
<1>4. ASSUME NEW path \in Inbox!Paths, Inbox!Read(path) PROVE InboxInv'
  BY <1>4 DEF Inbox!Read, InboxInv
<1>5. CASE UNCHANGED inboxVars
  BY <1>5 DEF inboxVars, InboxInv
<1> QED BY <1>1, <1>2, <1>3, <1>4, <1>5 DEF Inbox!Next

\* The inbox is the end of what arrived since it was last drained, in order
\* and complete as long as it fits, for every bound and any traffic.
THEOREM SpecInboxKeepsLatest == Inbox!Spec => []InboxKeepsLatest
<1>1. Inbox!Init => InboxInv
  BY PlatformAssumption DEF Inbox!Init, InboxInv, EndOf
<1>2. InboxInv => InboxKeepsLatest
  BY EndIsSubSeq, PlatformAssumption DEF InboxInv, InboxKeepsLatest, Inbox!InboxKeepsLatest
<1> QED BY <1>1, <1>2, InboxMoves, PTL DEF Inbox!Spec, Inbox!vars, inboxVars

-----------------------------------------------------------------------------
(* The entry node of an OlaneOS object.                                    *)

\* The index is that of a node, or of the first there will be, unless an entry
\* node was asked for too early.
IndexInBounds ==
  ~early => \/ nodes = <<>> /\ roundRobinIndex = 0
            \/ nodes # <<>> /\ roundRobinIndex \in 0..(Len(nodes) - 1)

OSInv ==
  /\ created \in Nat
  /\ nodes \in Seq(Nat \ {0})
  /\ roundRobinIndex \in {OS!NaN} \cup Nat
  /\ IndexInBounds

\* One step of entryNode() leaves the index at a node.
LEMMA NextIndexInBounds ==
  ASSUME OSInv
  PROVE  /\ OS!NextIndex \in {OS!NaN} \cup Nat
         /\ ~early /\ nodes # <<>> => OS!NextIndex \in 0..(Len(nodes) - 1)
<1>1. CASE roundRobinIndex = OS!NaN \/ nodes = <<>>
  BY <1>1 DEF OSInv, IndexInBounds, OS!NextIndex, OS!NaN
<1>2. CASE ~(roundRobinIndex = OS!NaN \/ nodes = <<>>)
  <2>1. OS!NextIndex = (roundRobinIndex + 1) % Len(nodes) /\ roundRobinIndex \in Nat
    BY <1>2 DEF OSInv, OS!NextIndex
  <2>2. Len(nodes) \in Nat \ {0}
    BY <1>2 DEF OSInv
  <2> QED BY <2>1, <2>2
<1> QED BY <1>1, <1>2

\* A node more does not move the index.
LEMMA OneMoreNode ==
  ASSUME OSInv, NEW n \in Nat \ {0}, nodes' = Append(nodes, n),
         UNCHANGED <<roundRobinIndex, early>>
  PROVE  nodes' \in Seq(Nat \ {0}) /\ IndexInBounds'
BY DEF OSInv, IndexInBounds

\* Every step of the object keeps the invariant.
LEMMA OSMoves == OSInv /\ [OS!Next]_osVars => OSInv'
<1> SUFFICES ASSUME OSInv, [OS!Next]_osVars PROVE OSInv'
  OBVIOUS
<1>1. ASSUME OS!Enter, UNCHANGED <<nodes, created>> PROVE OSInv'
  <2>1. roundRobinIndex' = OS!NextIndex /\ (~early' => ~early /\ nodes # <<>>)
    BY <1>1 DEF OS!Enter
  <2> QED BY <1>1, <2>1, NextIndexInBounds DEF OSInv, IndexInBounds
<1>a. ASSUME OS!EntryNode # OS!None, roundRobinIndex' = OS!NextButOne,
             UNCHANGED <<nodes, created, early>>
      PROVE  OSInv'
  <2>1. roundRobinIndex \in 0..(Len(nodes) - 1)
    BY <1>a DEF OS!EntryNode
  <2>2. nodes \in Seq(Nat \ {0}) /\ Len(nodes) \in Nat
    BY DEF OSInv
  <2>3. nodes # <<>> /\ Len(nodes) \in Nat \ {0}
    BY <2>1, <2>2
  <2>4. OS!NextIndex = (roundRobinIndex + 1) % Len(nodes)
    BY <2>1, <2>3 DEF OS!NextIndex, OS!NaN
  <2>5. OS!NextIndex \in Nat
    BY <2>1, <2>3, <2>4
  <2>6. roundRobinIndex' \in 0..(Len(nodes) - 1)
    BY <1>a, <2>3, <2>5 DEF OS!NextButOne
  <2> QED BY <1>a, <2>3, <2>6 DEF OSInv, IndexInBounds
<1>2. CASE OS!Use \/ OS!ReplayLane
  BY <1>1, <1>2, <1>a DEF OS!Use, OS!ReplayLane
<1>3. ASSUME NEW ok \in BOOLEAN, NEW tools \in BOOLEAN, OS!StartNode(ok, tools) PROVE OSInv'
  <2>1. /\ created' = created + 1 /\ UNCHANGED <<roundRobinIndex, early>>
        /\ nodes' = nodes \/ nodes' = Append(nodes, created + 1)
    BY <1>3 DEF OS!StartNode, OS!Created
  <2> QED BY <2>1, OneMoreNode DEF OSInv, IndexInBounds
<1>4. ASSUME NEW ok \in BOOLEAN, NEW tools \in BOOLEAN,
             OS!AddLeader(ok) \/ OS!StartLeader(ok, tools)
      PROVE  OSInv'
  BY <1>4 DEF OS!AddLeader, OS!StartLeader, OS!Created, OSInv, IndexInBounds
<1>5. ASSUME NEW ok \in BOOLEAN, NEW lanes \in 0..2,
             OS!Start(ok) \/ OS!StartServices(ok, lanes)
      PROVE  OSInv'
  BY <1>5 DEF OS!Start, OS!StartServices, OSInv, IndexInBounds
<1>6. CASE OS!LeadersStarted \/ OS!NodesStarted \/ OS!Running \/ OS!Stop
  BY <1>6 DEF OS!LeadersStarted, OS!NodesStarted, OS!Running, OS!Stop, OSInv, IndexInBounds
<1>7. CASE OS!Stopped
  <2>1. roundRobinIndex' = 0 /\ UNCHANGED <<nodes, created>>
    BY <1>7 DEF OS!Stopped
  <2> QED BY <2>1 DEF OSInv, IndexInBounds
<1>8. CASE OS!AddNode
  BY <1>8, <1>a DEF OS!AddNode
<1>9. CASE UNCHANGED osVars
  BY <1>9 DEF osVars, OSInv, IndexInBounds
<1> QED BY <1>2, <1>3, <1>4, <1>5, <1>6, <1>7, <1>8, <1>9 DEF OS!Next

\* The round robin never leaves the array, however often the system is
\* stopped, restarted and given nodes, unless an entry node was asked for
\* before there was one.
THEOREM SpecEntryNodeExists == OS!Spec => []EntryNodeExists
<1>1. OS!Init => OSInv
  BY DEF OS!Init, OSInv, IndexInBounds
<1>2. OSInv => EntryNodeExists
  BY DEF OSInv, IndexInBounds, EntryNodeExists, OS!EntryNodeExists, OS!EntryNode, OS!None
<1> QED BY <1>1, <1>2, OSMoves, PTL DEF OS!Spec, OS!vars, osVars

-----------------------------------------------------------------------------
(* The processes that share an instance.                                   *)

\* What holds whoever overlaps with whom: an index is noted by a process that
\* has started, and the file was written by one.
InstanceHistory ==
  /\ \A p \in Pids : index[p] = "noting" =>
       proc[p] \in {"running", "dying"} /\ seen[p] # Instances!NoFile
  /\ instance # Instances!NoFile => \E p \in Pids : proc[p] \in {"running", "dying", "ended"}

\* While nobody overlaps: who is about to write the file is alone with it, and
\* nothing runs that the writing will not name.
TakesTurns ==
  /\ OneInstance
  /\ \A p \in Pids : proc[p] \in {"clearing", "starting"} =>
       /\ osCall = Instances!NoCall
       /\ \A q \in Pids \ {p} : /\ proc[q] \notin {"clearing", "starting", "running"}
                                /\ index[q] # "noting"
  /\ \A p, q \in Pids : index[p] = "noting" /\ proc[q] = "running" => seen[p].pid = q
  /\ osCall # Instances!NoCall =>
       \A p \in Pids : proc[p] \notin {"clearing", "starting", "running"}

InstancesInv == Instances!TypeOK /\ InstanceHistory /\ (~overlap => TakesTurns)

\* A process reads the file and signals whom it names.
LEMMA StartOSKeeps ==
  ASSUME InstancesInv, NEW p \in Pids, Instances!StartOS(p)
  PROVE  InstancesInv'
<1> USE PlatformAssumption DEF InstancesInv, Instances!TypeOK, Instances!File, Instances!NoFile
<1>1. /\ proc[p] = "new" /\ seen' = [seen EXCEPT ![p] = instance]
      /\ UNCHANGED <<instance, osCall, osCalls, index>>
      /\ overlap' = (overlap \/ Instances!Busy(p))
  BY DEF Instances!StartOS
<1>2. overlap' \in BOOLEAN
  BY <1>1, Zenon
<1>3. CASE Instances!StopsExisting(instance, p)
  <2>1. /\ proc' = [proc EXCEPT ![p] = "clearing", ![instance.pid] = "dying"]
        /\ instance.pid \in Pids /\ instance.pid # p /\ proc[instance.pid] \notin {"new", "ended"}
    BY <1>3 DEF Instances!StartOS, Instances!StopsExisting, Instances!IsProcessAlive
  <2>2. Instances!TypeOK'
    BY <1>1, <1>2, <2>1
  <2>3. InstanceHistory'
    BY <1>1, <2>1 DEF InstanceHistory
  <2>4. ASSUME ~overlap' PROVE TakesTurns'
    <3>1. ~overlap /\ ~Instances!Busy(p)
      BY <1>1, <2>4
    <3> QED BY <1>1, <2>1, <3>1
            DEF TakesTurns, OneInstance, Instances!OneInstance, InstanceHistory, Instances!Busy
  <2> QED BY <2>2, <2>3, <2>4
<1>4. CASE ~Instances!StopsExisting(instance, p)
  <2>1. proc' = [proc EXCEPT ![p] = "starting"]
    BY <1>4 DEF Instances!StartOS
  <2>2. Instances!TypeOK'
    BY <1>1, <1>2, <2>1
  <2>3. InstanceHistory'
    BY <1>1, <2>1 DEF InstanceHistory
  <2>4. ASSUME ~overlap' PROVE TakesTurns'
    <3>1. ~overlap /\ ~Instances!Busy(p)
      BY <1>1, <2>4
    <3>2. \A q \in Pids \ {p} : proc[q] # "running"
      BY <1>4, <3>1 DEF Instances!StopsExisting, Instances!IsProcessAlive, TakesTurns,
                        OneInstance, Instances!OneInstance
    <3> QED BY <1>1, <2>1, <3>1, <3>2
            DEF TakesTurns, OneInstance, Instances!OneInstance, InstanceHistory, Instances!Busy
  <2> QED BY <2>2, <2>3, <2>4
<1> QED BY <1>3, <1>4

\* A process clears the file, has started, or ends.
LEMMA ProcessKeeps ==
  ASSUME InstancesInv, NEW p \in Pids,
         \/ Instances!ExistingCleared(p) \/ Instances!ProcessEnds(p)
         \/ \E ok \in BOOLEAN : Instances!OSStarted(p, ok)
  PROVE  InstancesInv'
<1> USE PlatformAssumption DEF InstancesInv, Instances!TypeOK, Instances!File, Instances!NoFile
<1>1. CASE Instances!ExistingCleared(p)
  <2>1. /\ proc[p] = "clearing" /\ proc' = [proc EXCEPT ![p] = "starting"]
        /\ instance' = Instances!Updated(Instances!Cleared(seen[p]))
        /\ UNCHANGED <<seen, osCall, osCalls, index, overlap>>
    BY <1>1 DEF Instances!ExistingCleared
  <2>2. /\ instance' \in Instances!File \cup {Instances!NoFile}
        /\ instance = Instances!NoFile => instance' = Instances!NoFile
    BY <2>1 DEF Instances!Updated, Instances!Cleared
  <2>3. Instances!TypeOK' /\ InstanceHistory'
    BY <2>1, <2>2 DEF InstanceHistory
  <2>4. ~overlap' => TakesTurns'
    BY <2>1 DEF TakesTurns, OneInstance, Instances!OneInstance
  <2> QED BY <2>3, <2>4
<1>2. CASE Instances!ProcessEnds(p)
  <2>1. /\ proc[p] \notin {"new", "ended"} /\ proc' = [proc EXCEPT ![p] = "ended"]
        /\ index' = [index EXCEPT ![p] = IF index[p] = "noting" THEN "none" ELSE index[p]]
        /\ UNCHANGED <<instance, seen, osCall, osCalls, overlap>>
    BY <1>2 DEF Instances!ProcessEnds
  <2>2. Instances!TypeOK' /\ InstanceHistory'
    BY <2>1 DEF InstanceHistory
  <2>3. ~overlap' => TakesTurns'
    BY <2>1 DEF TakesTurns, OneInstance, Instances!OneInstance
  <2> QED BY <2>2, <2>3
<1>3. ASSUME NEW ok \in BOOLEAN, Instances!OSStarted(p, ok) PROVE InstancesInv'
  <2>1. proc[p] = "starting" /\ UNCHANGED <<seen, osCall, osCalls, overlap>>
    BY <1>3 DEF Instances!OSStarted
  <2>2. CASE ok
    <3>1. /\ proc' = [proc EXCEPT ![p] = "running"]
          /\ instance' = [status |-> "running", pid |-> p, indexed |-> FALSE]
          /\ index' = [index EXCEPT ![p] = IF instance.indexed THEN "done" ELSE "indexing"]
      BY <1>3, <2>2 DEF Instances!OSStarted
    <3>2. Instances!TypeOK' /\ InstanceHistory'
      BY <2>1, <3>1 DEF InstanceHistory
    <3>3. ~overlap' => TakesTurns'
      BY <2>1, <3>1 DEF TakesTurns, OneInstance, Instances!OneInstance
    <3> QED BY <3>2, <3>3
  <2>3. CASE ~ok
    <3>1. proc' = [proc EXCEPT ![p] = "failed"] /\ UNCHANGED <<instance, index>>
      BY <1>3, <2>3 DEF Instances!OSStarted
    <3>2. Instances!TypeOK' /\ InstanceHistory'
      BY <2>1, <3>1 DEF InstanceHistory
    <3>3. ~overlap' => TakesTurns'
      BY <2>1, <3>1 DEF TakesTurns, OneInstance, Instances!OneInstance
    <3> QED BY <3>2, <3>3
  <2> QED BY <2>2, <2>3
<1> QED BY <1>1, <1>2, <1>3

\* A process has indexed its network and notes it in the file.
LEMMA IndexKeeps ==
  ASSUME InstancesInv, NEW p \in Pids, Instances!Indexed(p) \/ Instances!IndexNoted(p)
  PROVE  InstancesInv'
<1> USE PlatformAssumption DEF InstancesInv, Instances!TypeOK, Instances!File, Instances!NoFile
<1>1. CASE Instances!Indexed(p)
  <2>1. /\ proc[p] \in {"running", "dying"} /\ index[p] = "indexing"
        /\ index' = [index EXCEPT ![p] = IF instance = Instances!NoFile THEN "done" ELSE "noting"]
        /\ seen' = [seen EXCEPT ![p] = instance]
        /\ overlap' = (overlap \/ Instances!Busy(p))
        /\ UNCHANGED <<instance, proc, osCall, osCalls>>
    BY <1>1 DEF Instances!Indexed
  <2>2. overlap' \in BOOLEAN
    BY <2>1, Zenon
  <2>3. Instances!TypeOK' /\ InstanceHistory'
    BY <2>1, <2>2 DEF InstanceHistory
  <2>4. ASSUME ~overlap' PROVE TakesTurns'
    <3>1. ~overlap /\ ~Instances!Busy(p)
      BY <2>1, <2>4
    <3> QED BY <2>1, <3>1 DEF TakesTurns, OneInstance, Instances!OneInstance, Instances!Busy
  <2> QED BY <2>3, <2>4
<1>2. CASE Instances!IndexNoted(p)
  <2>1. /\ proc[p] \in {"running", "dying"} /\ index[p] = "noting"
        /\ index' = [index EXCEPT ![p] = "done"]
        /\ instance' = [seen[p] EXCEPT !.indexed = TRUE]
        /\ UNCHANGED <<proc, seen, osCall, osCalls, overlap>>
    BY <1>2 DEF Instances!IndexNoted
  <2>2. instance'.pid = seen[p].pid
    BY <2>1
  <2>3. instance' \in Instances!File
    <3>1. seen[p] \in Instances!File \cup {Instances!NoFile} /\ seen[p] # Instances!NoFile
      BY <2>1 DEF InstanceHistory
    <3> QED BY <2>1, <3>1
  <2>4. Instances!TypeOK' /\ InstanceHistory'
    BY <2>1, <2>3 DEF InstanceHistory
  <2>5. ~overlap' => TakesTurns'
    BY <2>1, <2>2 DEF TakesTurns, OneInstance, Instances!OneInstance
  <2> QED BY <2>4, <2>5
<1> QED BY <1>1, <1>2

\* Calls of other processes: stopOS, statusOS, deleteOSInstance.
LEMMA CallKeeps ==
  ASSUME InstancesInv,
         \/ Instances!StopOS \/ Instances!StatusOS \/ Instances!StopNoted
         \/ Instances!DeleteOSInstance
  PROVE  InstancesInv'
<1> USE PlatformAssumption DEF InstancesInv, Instances!TypeOK, Instances!File, Instances!NoFile
<1>1. CASE Instances!StopOS
  <2>1. /\ osCall = Instances!NoCall /\ osCalls < MaxCalls /\ instance # Instances!NoFile
        /\ osCall' = [name |-> "stop", read |-> instance] /\ osCalls' = osCalls + 1
        /\ overlap' = (overlap \/ \E p \in Pids : Instances!Busy(p))
        /\ UNCHANGED <<instance, seen, index>>
        /\ IF Instances!IsProcessAlive(instance.pid)
             THEN proc' = [proc EXCEPT ![instance.pid] = "dying"] ELSE proc' = proc
    BY <1>1 DEF Instances!StopOS, Instances!Killed
  <2>2. overlap' \in BOOLEAN
    BY <2>1, Zenon
  <2>3. /\ proc' \in [Pids -> {"new", "clearing", "starting", "running", "failed", "dying", "ended"}]
        /\ \A p \in Pids : \/ proc'[p] = proc[p]
                           \/ p = instance.pid /\ proc[p] \notin {"new", "ended"} /\ proc'[p] = "dying"
        /\ Instances!IsProcessAlive(instance.pid) => proc'[instance.pid] = "dying"
    BY <2>1 DEF Instances!IsProcessAlive
  <2>4. Instances!TypeOK' /\ InstanceHistory'
    BY <2>1, <2>2, <2>3 DEF InstanceHistory
  <2>5. ASSUME ~overlap' PROVE TakesTurns'
    <3>1. ~overlap /\ \A p \in Pids : ~Instances!Busy(p)
      BY <2>1, <2>5
    <3>2. \A p \in Pids : proc[p] \notin {"clearing", "starting"}
      BY <2>1, <3>1 DEF InstanceHistory, Instances!Busy
    <3>3. \A p \in Pids : proc'[p] # "running"
      BY <2>3, <3>1 DEF TakesTurns, OneInstance, Instances!OneInstance, Instances!IsProcessAlive
    <3> QED BY <2>3, <3>2, <3>3 DEF TakesTurns, OneInstance, Instances!OneInstance
  <2> QED BY <2>4, <2>5
<1>2. CASE Instances!StatusOS
  <2>1. /\ osCall = Instances!NoCall /\ osCalls < MaxCalls
        /\ instance.status = "running" /\ ~Instances!IsProcessAlive(instance.pid)
        /\ osCall' = [name |-> "status", read |-> instance] /\ osCalls' = osCalls + 1
        /\ overlap' = (overlap \/ \E p \in Pids : Instances!Busy(p))
        /\ UNCHANGED <<instance, proc, seen, index>>
    BY <1>2 DEF Instances!StatusOS
  <2>2. overlap' \in BOOLEAN
    BY <2>1, Zenon
  <2>3. Instances!TypeOK' /\ InstanceHistory'
    BY <2>1, <2>2 DEF InstanceHistory
  <2>4. ASSUME ~overlap' PROVE TakesTurns'
    <3>1. ~overlap /\ \A p \in Pids : ~Instances!Busy(p)
      BY <2>1, <2>4
    <3>2. \A p \in Pids : proc[p] \notin {"clearing", "starting"}
      BY <2>1, <3>1 DEF InstanceHistory, Instances!Busy
    <3>3. \A p \in Pids : proc[p] # "running"
      BY <2>1, <3>1 DEF TakesTurns, OneInstance, Instances!OneInstance, Instances!IsProcessAlive
    <3> QED BY <2>1, <3>2, <3>3 DEF TakesTurns, OneInstance, Instances!OneInstance
  <2> QED BY <2>3, <2>4
<1>3. CASE Instances!StopNoted
  <2>1. /\ osCall # Instances!NoCall /\ osCall' = Instances!NoCall
        /\ instance' = Instances!Updated(Instances!Cleared(osCall.read))
        /\ UNCHANGED <<proc, seen, osCalls, index, overlap>>
    BY <1>3 DEF Instances!StopNoted
  <2>2. /\ instance' \in Instances!File \cup {Instances!NoFile}
        /\ instance = Instances!NoFile => instance' = Instances!NoFile
    BY <2>1 DEF Instances!Updated, Instances!Cleared
  <2>3. Instances!TypeOK' /\ InstanceHistory'
    BY <2>1, <2>2 DEF InstanceHistory, Instances!NoCall
  <2>4. ~overlap' => TakesTurns'
    BY <2>1 DEF TakesTurns, OneInstance, Instances!OneInstance
  <2> QED BY <2>3, <2>4
<1>4. CASE Instances!DeleteOSInstance
  <2>1. /\ ~Instances!IsProcessAlive(instance.pid) /\ instance' = Instances!NoFile
        /\ overlap' = (overlap \/ \E p \in Pids : Instances!Busy(p))
        /\ UNCHANGED <<proc, seen, osCall, osCalls, index>>
    BY <1>4 DEF Instances!DeleteOSInstance
  <2>2. overlap' \in BOOLEAN
    BY <2>1, Zenon
  <2>3. Instances!TypeOK' /\ InstanceHistory'
    BY <2>1, <2>2 DEF InstanceHistory
  <2>4. ASSUME ~overlap' PROVE TakesTurns'
    <3>1. ~overlap
      BY <2>1, <2>4
    <3>2. \A p \in Pids : proc[p] # "running"
      BY <2>1, <3>1 DEF TakesTurns, OneInstance, Instances!OneInstance, Instances!IsProcessAlive
    <3> QED BY <2>1, <3>1, <3>2 DEF TakesTurns, OneInstance, Instances!OneInstance
  <2> QED BY <2>3, <2>4
<1> QED BY <1>1, <1>2, <1>3, <1>4

\* Whatever order processes start, stop, delete and die in, the one that runs
\* is the one the file names and there is no other - as long as nobody reads
\* the file while somebody else is between reading and writing it.
THEOREM SpecOneInstance == Instances!Spec => []OneInstance
<1>1. Instances!Init => InstancesInv
  <2> SUFFICES ASSUME Instances!Init PROVE InstancesInv
    OBVIOUS
  <2> overlap \in BOOLEAN
    BY Zenon DEF Instances!Init
  <2>1. Instances!TypeOK
    BY PlatformAssumption DEF Instances!Init, Instances!TypeOK, Instances!NoCall
  <2>2. InstanceHistory /\ TakesTurns
    BY DEF Instances!Init, InstanceHistory, TakesTurns, OneInstance, Instances!OneInstance
  <2> QED BY <2>1, <2>2 DEF InstancesInv
<1>2. InstancesInv /\ [Instances!Next]_instanceVars => InstancesInv'
  <2>1. CASE UNCHANGED instanceVars
    BY <2>1 DEF instanceVars, InstancesInv, Instances!TypeOK, InstanceHistory, TakesTurns,
                OneInstance, Instances!OneInstance
  <2> QED BY <2>1, StartOSKeeps, ProcessKeeps, IndexKeeps, CallKeeps DEF Instances!Next
<1>3. InstancesInv /\ ~overlap => OneInstance
  BY DEF InstancesInv, TakesTurns
<1>4. overlap => OneInstance
  BY DEF OneInstance, Instances!OneInstance
<1> QED BY <1>1, <1>2, <1>3, <1>4, PTL DEF Instances!Spec, Instances!vars, instanceVars

-----------------------------------------------------------------------------
(* The parts together.                                                     *)

\* What holds of a part, holds of the system: its variables change by its own
\* steps only.
LEMMA PartsAreKept ==
  PartsSpec => /\ Spec /\ WorldsSpec /\ Registry!Spec /\ Inbox!Spec /\ Metrics!Spec
               /\ OS!Spec /\ Instances!Spec
<1>1. PartsInit => /\ Init /\ WorldsInit /\ Registry!Init /\ Inbox!Init /\ Metrics!Init
                   /\ OS!Init /\ Instances!Init
  BY Zenon DEF PartsInit
<1> DEFINE all == <<part, vars, agentVars, inboxVars, monitorVars, osVars, instanceVars,
                    worldVars>>
<1>2. [PartsNext]_all => /\ [Next]_vars /\ [WorldsNext]_worldVars
                         /\ [Registry!Next]_(Registry!vars) /\ [Inbox!Next]_(Inbox!vars)
                         /\ [Metrics!Next]_(Metrics!vars) /\ [OS!Next]_(OS!vars)
                         /\ [Instances!Next]_(Instances!vars)
  <2>1. /\ UNCHANGED agentVars => UNCHANGED Registry!vars
        /\ UNCHANGED inboxVars => UNCHANGED Inbox!vars
        /\ UNCHANGED monitorVars => UNCHANGED Metrics!vars
        /\ UNCHANGED osVars => UNCHANGED OS!vars
        /\ UNCHANGED instanceVars => UNCHANGED Instances!vars
    BY DEF agentVars, inboxVars, monitorVars, osVars, instanceVars, Registry!vars,
           Inbox!vars, Metrics!vars, OS!vars, Instances!vars
  <2> QED BY <2>1, Zenon DEF PartsNext
<1> QED BY <1>1, <1>2, PTL DEF PartsSpec, Spec, WorldsSpec, Registry!Spec, Inbox!Spec,
                                Metrics!Spec, OS!Spec, Instances!Spec

\* In the system of all parts, every safety property of the parts.
THEOREM PlatformCorrect ==
  PartsSpec => []( /\ RunningIsWhole /\ HeartbeatOnlyWhileRunning
                   /\ BeatsKeepAlive /\ InboxKeepsLatest
                   /\ MembersAreKept /\ RemovedIsGone
                   /\ EntryNodeExists /\ OneInstance )
BY PartsAreKept, RunningWhole, HeartbeatBounded, SpecBeatsKeepAlive, SpecInboxKeepsLatest,
   MembersKept, RemovedGone, SpecEntryNodeExists, SpecOneInstance, PTL

=============================================================================
