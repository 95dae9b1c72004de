------------------------------ MODULE NamedMutex ------------------------------
(***************************************************************************)
(* What LockManager promises its callers: between one teardown and the     *)
(* next nothing but the holder of a name works under that name.  A         *)
(* teardown (clearAll) withdraws the promise for good: a holder it cut     *)
(* loose goes on working.                                                  *)
(***************************************************************************)
CONSTANTS
    Names,   \* names of locks
    Callers  \* asynchronous calls that want to work under a name

VARIABLES
    inside,  \* who works under each name
    torn     \* clearAll() has been called

vars == <<inside, torn>>

Init == /\ inside = [n \in Names |-> {}]
        /\ torn = FALSE

Enter(p, n) == /\ torn \/ inside[n] = {}
               /\ inside' = [inside EXCEPT ![n] = @ \cup {p}]
               /\ UNCHANGED torn

Leave(p, n) == /\ p \in inside[n]
               /\ inside' = [inside EXCEPT ![n] = @ \ {p}]
               /\ UNCHANGED torn

TearDown == torn' = TRUE /\ UNCHANGED inside

Next == \/ \E p \in Callers, n \in Names : Enter(p, n) \/ Leave(p, n)
        \/ TearDown

Spec == Init /\ [][Next]_vars
=============================================================================
