-------------------------- MODULE ExclusiveSection --------------------------
(***************************************************************************)
(* What SchedulerLockService.withLock promises its callers: of the calls   *)
(* that ask for the same key (lock name and scope), at most one is inside  *)
(* `execute` at a time, in whatever process of the deployment it runs.     *)
(***************************************************************************)
CONSTANTS
    Callers,    \* the calls of withLock that may be made
    KeyOf       \* the key each of them asks for

VARIABLE inside \* the callers that are running their `execute`

Init == inside = {}

Enter(c) ==
    /\ c \notin inside
    /\ \A d \in inside : KeyOf[d] # KeyOf[c]
    /\ inside' = inside \cup {c}

\* One caller leaves, or all those of a process that dies.
Leave(S) == inside' = inside \ S

Next ==
    \/ \E c \in Callers : Enter(c)
    \/ \E S \in SUBSET inside : Leave(S)

Spec == Init /\ [][Next]_inside
=============================================================================
