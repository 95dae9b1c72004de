-------------------------------- MODULE Locks --------------------------------
(***************************************************************************)
(* LockManager (o-node/src/utils/lock-manager.ts): named locks for         *)
(* asynchronous callers of one process.                                    *)
(*                                                                         *)
(* A caller that finds a name locked awaits the promise of the current     *)
(* holder.  Releasing resolves that promise for every caller that awaits   *)
(* it at once: each of them goes on in a microtask of its own and looks    *)
(* again, in a loop.  A name is locked exactly when its promise is pending *)
(* and its resolver is kept, so the three maps of the code are one         *)
(* function here.                                                          *)
(***************************************************************************)
EXTENDS Naturals

CONSTANTS
    Names,   \* names of locks
    Callers  \* asynchronous calls of withLock()

VARIABLES
    locked,  \* lockStates: the name is taken
    at,      \* where each caller is
    torn     \* clearAll() has been called

locksVars == <<locked, at, torn>>

Places == {"out", "waiting", "woken", "inside"}

LocksTypeOK ==
    /\ locked \in [Names -> BOOLEAN]
    /\ at \in [Callers -> Places \X Names]
    /\ torn \in BOOLEAN

LocksInit ==
    /\ locked = [n \in Names |-> FALSE]
    /\ at \in [Callers -> {"out"} \X Names]
    /\ torn = FALSE

-----------------------------------------------------------------------------

\* Whoever awaits the promise of a name when its resolver is called.
Wake(places, names) ==
    [p \in Callers |-> IF places[p][1] = "waiting" /\ places[p][2] \in names
                       THEN <<"woken", places[p][2]>> ELSE places[p]]

\* A mutant: the name is looked at once, before the wait only.
TryNameOnce(p, n) ==
    /\ locked' = [locked EXCEPT ![n] = TRUE]
    /\ at' = [at EXCEPT ![p] = <<IF locked[n] /\ at[p][1] = "out"
                                 THEN "waiting" ELSE "inside", n>>]
    /\ UNCHANGED torn

\* One turn of acquire()'s loop: take the name or await its promise.
TryName(p, n) ==
    /\ locked' = [locked EXCEPT ![n] = TRUE]
    /\ at' = [at EXCEPT ![p] = <<IF locked[n] THEN "waiting" ELSE "inside", n>>]
    /\ UNCHANGED torn

Acquire(p, n) == at[p][1] = "out" /\ TryName(p, n)

Recheck(p) == at[p][1] = "woken" /\ TryName(p, at[p][2])

\* The timer of a call that was given timeoutMs wins its race.
LockTimeout(p) ==
    /\ at[p][1] = "waiting"
    /\ at' = [at EXCEPT ![p][1] = "out"]
    /\ UNCHANGED <<locked, torn>>

\* withLock() ends, with or without an error, and releases the name whoever
\* holds it by now.
Release(p) ==
    LET n == at[p][2] IN
    /\ at[p][1] = "inside"
    /\ locked' = [locked EXCEPT ![n] = FALSE]
    /\ at' = Wake([at EXCEPT ![p][1] = "out"], IF locked[n] THEN {n} ELSE {})
    /\ UNCHANGED torn

ClearAll ==
    /\ locked' = [n \in Names |-> FALSE]
    /\ at' = Wake(at, {n \in Names : locked[n]})
    /\ torn' = TRUE

LocksNext ==
    \/ \E p \in Callers : \/ \E n \in Names : Acquire(p, n)
                         \/ Recheck(p) \/ LockTimeout(p) \/ Release(p)
    \/ ClearAll

LocksSpec == LocksInit /\ [][LocksNext]_locksVars

-----------------------------------------------------------------------------

\* Until a teardown, only the one caller that took a name works under it,
\* through every order in which waiters are woken, look again, time out and
\* release (acquire, release, withLock): the abstract mutex is implemented.
Promise == INSTANCE NamedMutex WITH
               inside <- [n \in Names |-> {p \in Callers : at[p] = <<"inside", n>>}]
Exclusion == Promise!Spec
=============================================================================
