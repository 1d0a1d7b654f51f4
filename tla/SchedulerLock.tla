---------------------------- MODULE SchedulerLock ----------------------------
(***************************************************************************)
(* SchedulerLockService (src/common/scheduler-lock): the lock the four     *)
(* periodic jobs take before they run.  Each process keeps a set of the    *)
(* keys it is busy with; between processes the lock is a session-level     *)
(* advisory lock of PostgreSQL, which belongs to the CONNECTION that took  *)
(* it.  Both queries go to the Prisma pool, so the connection that unlocks *)
(* need not be the one that locked.                                        *)
(*                                                                         *)
(* A reply and the synchronous code after it (localLocks.delete) are one   *)
(* step with the query: no other call of the process can use the key       *)
(* before that code has run.                                               *)
(***************************************************************************)
EXTENDS Naturals, FiniteSets

CONSTANTS
    Instances,      \* processes of the backend
    Callers,        \* concurrent calls of withLock
    Keys,           \* `${lockName}:${scope ?? 'global'}`
    LockIds,        \* 32-bit advisory lock numbers
    Connections,    \* connections of all the pools
    InstanceOf,     \* [Callers -> Instances]
    KeyOf,          \* [Callers -> Keys]
    LockIdOf,       \* [Keys -> LockIds], hashToBigInt
    OwnerOf,        \* [Connections -> Instances], whose pool a connection is in
    WithPostgres,   \* instances whose DATABASE_URL includes 'postgres'
    Faults,         \* what may go wrong: the query of acquire, the query of
                    \* release, a connection
    MaxCount        \* bound on how often one session re-enters one lock

ASSUME ConstantsAssumption ==
    /\ InstanceOf \in [Callers -> Instances]
    /\ KeyOf \in [Callers -> Keys]
    /\ LockIdOf \in [Keys -> LockIds]
    /\ OwnerOf \in [Connections -> Instances]
    /\ WithPostgres \subseteq Instances
    /\ Faults \subseteq {"acquire", "release", "connection"}
    /\ MaxCount \in Nat \ {0}

VARIABLES
    pc,             \* where each call of withLock is
    outcome,        \* how its last withLock ended
    localLocks,     \* per instance: the service's Set of keys
    held            \* PostgreSQL: per session and lock, how often it was taken

vars == <<pc, outcome, localLocks, held>>

Inst(c) == InstanceOf[c]
LockId(c) == LockIdOf[KeyOf[c]]

TypeOK ==
    /\ pc \in [Callers -> {"idle", "acquiring", "executing", "releasing"}]
    /\ outcome \in [Callers -> {"none", "skipped", "executed", "failed"}]
    /\ localLocks \in [Instances -> SUBSET Keys]
    /\ held \in [Connections -> [LockIds -> Nat]]

Init ==
    /\ pc = [c \in Callers |-> "idle"]
    /\ outcome = [c \in Callers |-> "none"]
    /\ localLocks = [i \in Instances |-> {}]
    /\ held = [k \in Connections |-> [l \in LockIds |-> 0]]

-----------------------------------------------------------------------------
(* The database.                                                           *)

\* Seeded fault: a shared lock is asked for.
GrantedTo_Shared(k, l) == k \in Connections /\ l \in LockIds

\* pg_try_advisory_lock fails only if ANOTHER session has the lock.
GrantedTo(k, l) == \A other \in Connections \ {k} : held[other][l] = 0

FreeLocal(c) ==
    localLocks' = [localLocks EXCEPT ![Inst(c)] = @ \ {KeyOf[c]}]

Goto(c, place) == pc' = [pc EXCEPT ![c] = place]
EndsWith(c, result) == outcome' = [outcome EXCEPT ![c] = result]

-----------------------------------------------------------------------------
(* acquire                                                                 *)

\* The process is busy with the key: withLock returns {acquired: false}.
SkipLocally(c) ==
    /\ pc[c] = "idle"
    /\ KeyOf[c] \in localLocks[Inst(c)]
    /\ EndsWith(c, "skipped")
    /\ UNCHANGED <<pc, localLocks, held>>

EnterLocally(c) ==
    /\ pc[c] = "idle"
    /\ KeyOf[c] \notin localLocks[Inst(c)]
    /\ localLocks' = [localLocks EXCEPT ![Inst(c)] = @ \cup {KeyOf[c]}]
    /\ Goto(c, IF Inst(c) \in WithPostgres THEN "acquiring" ELSE "executing")
    /\ UNCHANGED <<outcome, held>>

TryLockGranted(c, k) ==
    /\ pc[c] = "acquiring"
    /\ OwnerOf[k] = Inst(c)
    /\ GrantedTo(k, LockId(c))
    /\ held[k][LockId(c)] < MaxCount
    /\ held' = [held EXCEPT ![k][LockId(c)] = @ + 1]
    /\ Goto(c, "executing")
    /\ UNCHANGED <<outcome, localLocks>>

\* Seeded fault: the key stays in the process's set when the database refuses.
TryLockDenied_KeepsKey(c, k) ==
    /\ pc[c] = "acquiring"
    /\ OwnerOf[k] = Inst(c)
    /\ ~ GrantedTo(k, LockId(c))
    /\ Goto(c, "idle")
    /\ EndsWith(c, "skipped")
    /\ UNCHANGED <<localLocks, held>>

TryLockDenied(c, k) ==
    /\ pc[c] = "acquiring"
    /\ OwnerOf[k] = Inst(c)
    /\ ~ GrantedTo(k, LockId(c))
    /\ FreeLocal(c)
    /\ Goto(c, "idle")
    /\ EndsWith(c, "skipped")
    /\ UNCHANGED held

\* The catch of acquire: the caller runs without the database's lock.
TryLockError(c) ==
    /\ "acquire" \in Faults
    /\ pc[c] = "acquiring"
    /\ Goto(c, "executing")
    /\ UNCHANGED <<outcome, localLocks, held>>

-----------------------------------------------------------------------------
(* execute ends, by returning or by throwing; `finally` releases.          *)

\* Seeded fault: an execute that throws is reported in a way of its own.
Finish_Thrown(c) ==
    /\ pc[c] = "executing"
    /\ \E result \in {"executed", "thrown"} : EndsWith(c, result)
    /\ IF Inst(c) \in WithPostgres
       THEN Goto(c, "releasing") /\ UNCHANGED localLocks
       ELSE Goto(c, "idle") /\ FreeLocal(c)
    /\ UNCHANGED held

Finish(c) ==
    /\ pc[c] = "executing"
    /\ \E result \in {"executed", "failed"} : EndsWith(c, result)
    /\ IF Inst(c) \in WithPostgres
       THEN Goto(c, "releasing") /\ UNCHANGED localLocks
       ELSE Goto(c, "idle") /\ FreeLocal(c)
    /\ UNCHANGED held

\* Seeded fault: the key is forgotten and the session keeps the lock.
Unlock_OnlyLocally(c, k) ==
    /\ pc[c] = "releasing"
    /\ OwnerOf[k] = Inst(c)
    /\ FreeLocal(c)
    /\ Goto(c, "idle")
    /\ UNCHANGED <<outcome, held>>

\* pg_advisory_unlock: no effect on a session that does not have the lock.
Unlock(c, k) ==
    /\ pc[c] = "releasing"
    /\ OwnerOf[k] = Inst(c)
    /\ held' = [held EXCEPT ![k][LockId(c)] = IF @ > 0 THEN @ - 1 ELSE 0]
    /\ FreeLocal(c)
    /\ Goto(c, "idle")
    /\ UNCHANGED outcome

\* The swallowed error of release.
UnlockError(c) ==
    /\ "release" \in Faults
    /\ pc[c] = "releasing"
    /\ FreeLocal(c)
    /\ Goto(c, "idle")
    /\ UNCHANGED <<outcome, held>>

-----------------------------------------------------------------------------
(* The environment.                                                        *)

\* A session ends and the server gives back its locks.
DropConnection(k) ==
    /\ "connection" \in Faults
    /\ held' = [held EXCEPT ![k] = [l \in LockIds |-> 0]]
    /\ UNCHANGED <<pc, outcome, localLocks>>

\* A process dies and starts again; its sessions end.
Restart(i) ==
    /\ pc' = [c \in Callers |-> IF Inst(c) = i THEN "idle" ELSE pc[c]]
    /\ localLocks' = [localLocks EXCEPT ![i] = {}]
    /\ held' = [k \in Connections |->
                  IF OwnerOf[k] = i THEN [l \in LockIds |-> 0] ELSE held[k]]
    /\ UNCHANGED outcome

CallerStep(c) ==
    \/ SkipLocally(c)
    \/ EnterLocally(c)
    \/ TryLockError(c)
    \/ Finish(c)
    \/ UnlockError(c)
    \/ \E k \in Connections :
          \/ TryLockGranted(c, k)
          \/ TryLockDenied(c, k)
          \/ Unlock(c, k)

Next ==
    \/ \E c \in Callers : CallerStep(c)
    \/ \E k \in Connections : DropConnection(k)
    \/ \E i \in Instances : Restart(i)

Spec == Init /\ [][Next]_vars

\* A call that has entered is carried on: PostgreSQL answers, `execute`
\* settles and `finally` runs.  Nothing obliges a timer to fire again.
Proceeds(c) == (CallerStep(c) /\ pc[c] # "idle")

FairSpec == Spec /\ \A c \in Callers : WF_vars(Proceeds(c))

-----------------------------------------------------------------------------
(* Properties                                                              *)

\* withLock's purpose: two calls for one key are never inside `execute`
\* together, be they in one process or in two.
MutualExclusion ==
    \A c, d \in Callers :
       /\ c # d
       /\ KeyOf[c] = KeyOf[d]
       /\ pc[c] = "executing"
       => pc[d] # "executing"

\* A key in a process's set belongs to exactly one call of that process
\* that is still under way: no path of withLock, the refusal, the error and
\* the throwing `execute` included, leaves a key behind that would make the
\* process skip the job until it is restarted.
LocalKeyHasOneOwner ==
    \A i \in Instances, key \in Keys :
       LET owners == {c \in Callers : Inst(c) = i /\ KeyOf[c] = key /\ pc[c] # "idle"}
       IN  Cardinality(owners) = IF key \in localLocks[i] THEN 1 ELSE 0

\* PostgreSQL keeps a lock only for a call that is under way.  It holds for
\* pools of one connection; with more, release may unlock the wrong session.
NoOrphanLock ==
    \A k \in Connections, l \in LockIds :
       held[k][l] > 0 =>
          \E c \in Callers : /\ Inst(c) = OwnerOf[k]
                             /\ LockId(c) = l
                             /\ pc[c] \in {"executing", "releasing"}

\* No job is shut out for good: every lock is free again and again.
LockComesFree == \A l \in LockIds : []<>(\A k \in Connections : held[k][l] = 0)

\* The service implements the section its callers rely on.
Section == INSTANCE ExclusiveSection WITH
              inside <- {c \in Callers : pc[c] = "executing"}
ImplementsSection == Section!Spec
=============================================================================
