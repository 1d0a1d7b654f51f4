------------------------ MODULE SchedulerLock_proofs ------------------------
(***************************************************************************)
(* Theorems about SchedulerLock, for any number of processes, calls, keys  *)
(* and connections.                                                        *)
(*                                                                         *)
(* Within a process, LocalOwners is the inductive invariant: whatever may  *)
(* fail, a key in the set has one owner.  Between processes the argument   *)
(* is about PostgreSQL's sessions: at most one has a lock (OneSession),    *)
(* and while calls of a process are inside, one of the sessions of the     *)
(* process has the lock at least as often as there are calls (Covered).    *)
(* The count is needed because two keys may share a lock number and an     *)
(* unlock may reach a session other than the one that locked.              *)
(***************************************************************************)
EXTENDS SchedulerLock, FiniteSetTheorems, TLAPS

Busy(c) == pc[c] # "idle"

\* A busy call has its key in the set of its process, and only one call has it.
LocalOwners ==
    /\ \A c \in Callers : Busy(c) => KeyOf[c] \in localLocks[Inst(c)]
    /\ \A c, d \in Callers :
          Busy(c) /\ Busy(d) /\ Inst(c) = Inst(d) /\ KeyOf[c] = KeyOf[d] => c = d
    /\ \A i \in Instances : \A key \in localLocks[i] :
          \E c \in Callers : Busy(c) /\ Inst(c) = i /\ KeyOf[c] = key

\* The calls of process i that have PostgreSQL's lock l, or think so.
Acquired(i, l) ==
    {c \in Callers : Inst(c) = i /\ LockId(c) = l /\ pc[c] \in {"executing", "releasing"}}

OneSession ==
    \A k, m \in Connections, l \in LockIds :
       held[k][l] > 0 /\ held[m][l] > 0 => k = m

Covered ==
    \A i \in Instances, l \in LockIds :
       Acquired(i, l) # {} =>
          \E k \in Connections : OwnerOf[k] = i /\ held[k][l] >= Cardinality(Acquired(i, l))

-----------------------------------------------------------------------------
(* Type correctness and the local half.                                    *)

\* Every state of the service and of PostgreSQL is of its type.
THEOREM TypeCorrect == Spec => []TypeOK
<1>1. Init => TypeOK
  BY ConstantsAssumption DEF Init, TypeOK
<1>2. TypeOK /\ [Next]_vars => TypeOK'
  <2> SUFFICES ASSUME TypeOK, [Next]_vars PROVE TypeOK'
    OBVIOUS
  <2> USE ConstantsAssumption DEF TypeOK, Inst, LockId, Goto, EndsWith, FreeLocal
  <2>1. ASSUME NEW c \in Callers, SkipLocally(c) PROVE TypeOK'
    BY <2>1 DEF SkipLocally
  <2>2. ASSUME NEW c \in Callers, EnterLocally(c) PROVE TypeOK'
    BY <2>2 DEF EnterLocally
  <2>3. ASSUME NEW c \in Callers, TryLockError(c) PROVE TypeOK'
    BY <2>3 DEF TryLockError
  <2>4. ASSUME NEW c \in Callers, Finish(c) PROVE TypeOK'
    BY <2>4 DEF Finish
  <2>5. ASSUME NEW c \in Callers, UnlockError(c) PROVE TypeOK'
    BY <2>5 DEF UnlockError
  <2>6. ASSUME NEW c \in Callers, NEW k \in Connections, TryLockGranted(c, k)
        PROVE  TypeOK'
    BY <2>6 DEF TryLockGranted
  <2>7. ASSUME NEW c \in Callers, NEW k \in Connections, TryLockDenied(c, k)
        PROVE  TypeOK'
    BY <2>7 DEF TryLockDenied
  <2>8. ASSUME NEW c \in Callers, NEW k \in Connections, Unlock(c, k) PROVE TypeOK'
    BY <2>8 DEF Unlock
  <2>9. ASSUME NEW k \in Connections, DropConnection(k) PROVE TypeOK'
    BY <2>9 DEF DropConnection
  <2>10. ASSUME NEW i \in Instances, Restart(i) PROVE TypeOK'
    BY <2>10 DEF Restart
  <2>11. CASE UNCHANGED vars
    BY <2>11 DEF vars
  <2> QED
    BY <2>1, <2>2, <2>3, <2>4, <2>5, <2>6, <2>7, <2>8, <2>9, <2>10, <2>11
    DEF Next, CallerStep
<1> QED
  BY <1>1, <1>2, PTL DEF Spec

\* What a step may do to the calls and to the sets of the processes.
LEMMA LocalStep ==
  ASSUME TypeOK, LocalOwners, [Next]_vars
  PROVE  LocalOwners'
<1> USE ConstantsAssumption DEF TypeOK, LocalOwners, Busy, Inst, LockId, Goto, EndsWith,
                               FreeLocal
<1>1. ASSUME NEW c \in Callers, SkipLocally(c) PROVE LocalOwners'
  BY <1>1 DEF SkipLocally
<1>2. ASSUME NEW c \in Callers, EnterLocally(c) PROVE LocalOwners'
  BY <1>2 DEF EnterLocally
<1>3. ASSUME NEW c \in Callers, TryLockError(c) PROVE LocalOwners'
  BY <1>3 DEF TryLockError
<1>4. ASSUME NEW c \in Callers, Finish(c) PROVE LocalOwners'
  BY <1>4, SMTT(30) DEF Finish
<1>5. ASSUME NEW c \in Callers, UnlockError(c) PROVE LocalOwners'
  BY <1>5 DEF UnlockError
<1>6. ASSUME NEW c \in Callers, NEW k \in Connections, TryLockGranted(c, k)
      PROVE  LocalOwners'
  BY <1>6 DEF TryLockGranted
<1>7. ASSUME NEW c \in Callers, NEW k \in Connections, TryLockDenied(c, k)
      PROVE  LocalOwners'
  BY <1>7 DEF TryLockDenied
<1>8. ASSUME NEW c \in Callers, NEW k \in Connections, Unlock(c, k) PROVE LocalOwners'
  BY <1>8 DEF Unlock
<1>9. ASSUME NEW k \in Connections, DropConnection(k) PROVE LocalOwners'
  BY <1>9 DEF DropConnection
<1>10. ASSUME NEW i \in Instances, Restart(i) PROVE LocalOwners'
  BY <1>10 DEF Restart
<1>11. CASE UNCHANGED vars
  BY <1>11 DEF vars
<1> QED
  BY <1>1, <1>2, <1>3, <1>4, <1>5, <1>6, <1>7, <1>8, <1>9, <1>10, <1>11
  DEF Next, CallerStep

LEMMA LocalOwnersHold == Spec => []LocalOwners
<1>1. Init => LocalOwners
  BY ConstantsAssumption DEF Init, LocalOwners, Busy, Inst
<1> QED
  BY <1>1, LocalStep, TypeCorrect, PTL DEF Spec

\* LocalKeyHasOneOwner, whatever fails: no path of withLock leaves a key behind
\* in the set of its process.
THEOREM NoKeyLeftBehind == Spec => []LocalKeyHasOneOwner
<1>1. LocalOwners => LocalKeyHasOneOwner
  <2> SUFFICES ASSUME LocalOwners, NEW i \in Instances, NEW key \in Keys
               PROVE  LET owners == {c \in Callers : /\ Inst(c) = i
                                                     /\ KeyOf[c] = key
                                                     /\ pc[c] # "idle"}
                      IN  Cardinality(owners) = IF key \in localLocks[i] THEN 1 ELSE 0
    BY DEF LocalKeyHasOneOwner
  <2> DEFINE owners == {c \in Callers : Inst(c) = i /\ KeyOf[c] = key /\ pc[c] # "idle"}
  <2>1. CASE key \in localLocks[i]
    <3>1. PICK c \in Callers : Busy(c) /\ Inst(c) = i /\ KeyOf[c] = key
      BY <2>1 DEF LocalOwners
    <3>2. owners = {c}
      BY <3>1 DEF LocalOwners, Busy
    <3> QED
      BY <2>1, <3>2, FS_Singleton
  <2>2. CASE key \notin localLocks[i]
    <3>1. owners = {}
      BY <2>2 DEF LocalOwners, Busy
    <3> QED
      BY <2>2, <3>1, FS_EmptySet
  <2> QED
    BY <2>1, <2>2
<1> QED
  BY <1>1, LocalOwnersHold, PTL

-----------------------------------------------------------------------------
(* Between processes.  A lost session (DropConnection) or a query of       *)
(* acquire that fails lets a call run without the lock, so both are ruled  *)
(* out, as is a process that does not use PostgreSQL.                      *)

LockKept ==
    /\ WithPostgres = Instances
    /\ Faults \subseteq {"release"}
    /\ IsFiniteSet(Callers)

IInv == TypeOK /\ OneSession /\ Covered

LEMMA AcquiredFinite ==
  ASSUME IsFiniteSet(Callers), NEW i, NEW l
  PROVE  /\ IsFiniteSet(Acquired(i, l))
         /\ Cardinality(Acquired(i, l)) \in Nat
         /\ Cardinality(Acquired(i, l)) = 0 <=> Acquired(i, l) = {}
<1>1. IsFiniteSet(Acquired(i, l))
  BY FS_Subset DEF Acquired
<1> QED
  BY <1>1, FS_CardinalityType, FS_EmptySet

LEMMA AcquiredCount ==
  ASSUME LockKept, NEW i, NEW l
  PROVE  /\ IsFiniteSet(Acquired(i, l))
         /\ Cardinality(Acquired(i, l)) \in Nat
         /\ Cardinality(Acquired(i, l)) = 0 <=> Acquired(i, l) = {}
<1> QED
  BY AcquiredFinite DEF LockKept

\* Where nobody new comes in and no count goes down, a process stays covered.
LEMMA CoveredByShrinking ==
  ASSUME LockKept, TypeOK, NEW i \in Instances, NEW l \in LockIds, Covered,
         Acquired(i, l)' \subseteq Acquired(i, l),
         \A k \in Connections : OwnerOf[k] = i => held'[k][l] = held[k][l]
  PROVE  Acquired(i, l)' # {} =>
            \E k \in Connections :
               OwnerOf[k] = i /\ held'[k][l] >= Cardinality(Acquired(i, l)')
<1> SUFFICES ASSUME Acquired(i, l)' # {}
             PROVE  \E k \in Connections :
                       OwnerOf[k] = i /\ held'[k][l] >= Cardinality(Acquired(i, l)')
  OBVIOUS
<1>1. Acquired(i, l) # {}
  OBVIOUS
<1>2. PICK k \in Connections : OwnerOf[k] = i /\ held[k][l] >= Cardinality(Acquired(i, l))
  BY <1>1 DEF Covered
<1>3. /\ IsFiniteSet(Acquired(i, l))
      /\ Cardinality(Acquired(i, l)) \in Nat
  BY AcquiredCount
<1>4. /\ Cardinality(Acquired(i, l)') \in Nat
      /\ Cardinality(Acquired(i, l)') <= Cardinality(Acquired(i, l))
  BY <1>3, FS_Subset, FS_CardinalityType
<1>5. held[k][l] \in Nat
  BY DEF TypeOK
<1>6. held'[k][l] = held[k][l]
  BY <1>2
<1> QED
  BY <1>2, <1>3, <1>4, <1>5, <1>6

LEMMA CoveredStep ==
  ASSUME LockKept, IInv, [Next]_vars
  PROVE  OneSession' /\ Covered'
<1> USE ConstantsAssumption DEF IInv
<1>1. ASSUME NEW c \in Callers, NEW k \in Connections, TryLockGranted(c, k)
      PROVE  OneSession' /\ Covered'
  <2> DEFINE i == Inst(c)
             l == LockId(c)
  <2>1. /\ pc[c] = "acquiring" /\ OwnerOf[k] = i /\ GrantedTo(k, l)
        /\ held' = [held EXCEPT ![k][l] = @ + 1]
        /\ pc' = [pc EXCEPT ![c] = "executing"]
    BY <1>1 DEF TryLockGranted, Goto
  <2>2. i \in Instances /\ l \in LockIds
    BY DEF Inst, LockId
  <2>3. \A m \in Connections, n \in LockIds :
           held'[m][n] = IF m = k /\ n = l THEN held[k][l] + 1 ELSE held[m][n]
    BY <2>1, <2>2 DEF TypeOK
  <2>4. OneSession'
    BY <2>1, <2>2, <2>3 DEF OneSession, GrantedTo, TypeOK
  <2>5. ASSUME NEW j \in Instances, NEW n \in LockIds, Acquired(j, n)' # {}
        PROVE  \E m \in Connections :
                  OwnerOf[m] = j /\ held'[m][n] >= Cardinality(Acquired(j, n)')
    <3>1. CASE j = i /\ n = l
      <4>1. Acquired(i, l)' = Acquired(i, l) \cup {c} /\ c \notin Acquired(i, l)
        BY <2>1 DEF Acquired, TypeOK, Inst, LockId
      <4>2. Cardinality(Acquired(i, l)') = Cardinality(Acquired(i, l)) + 1
        BY <4>1, AcquiredCount, FS_AddElement
      <4>3. held[k][l] >= Cardinality(Acquired(i, l))
        <5>1. CASE Acquired(i, l) = {}
          <6>1. Cardinality(Acquired(i, l)) = 0
            BY <5>1, FS_EmptySet
          <6> QED
            BY <6>1, <2>2 DEF TypeOK
        <5>2. CASE Acquired(i, l) # {}
          <6>1. PICK m \in Connections :
                   OwnerOf[m] = i /\ held[m][l] >= Cardinality(Acquired(i, l))
            BY <5>2, <2>2 DEF Covered
          <6>2. held[m][l] > 0
            BY <6>1, <5>2, <2>2, AcquiredCount DEF TypeOK
          <6>3. m = k
            BY <6>2, <2>1, <2>2 DEF GrantedTo, TypeOK
          <6> QED
            BY <6>1, <6>3
        <5> QED
          BY <5>1, <5>2
      <4>4. held'[k][l] = held[k][l] + 1
        BY <2>2, <2>3
      <4>5. held[k][l] \in Nat /\ Cardinality(Acquired(i, l)) \in Nat
        BY <2>2, AcquiredCount DEF TypeOK
      <4> QED
        BY <3>1, <4>2, <4>3, <4>4, <4>5, <2>1
    <3>2. CASE ~ (j = i /\ n = l)
      <4>1. Acquired(j, n)' = Acquired(j, n)
        BY <2>1, <3>2 DEF Acquired, TypeOK, Inst, LockId
      <4>2. \A m \in Connections : OwnerOf[m] = j => held'[m][n] = held[m][n]
        BY <2>1, <2>3, <3>2
      <4> QED
        BY <4>1, <4>2, <2>5, CoveredByShrinking
    <3> QED
      BY <3>1, <3>2
  <2> QED
    BY <2>4, <2>5 DEF Covered
<1>2. ASSUME NEW c \in Callers, NEW k \in Connections, Unlock(c, k)
      PROVE  OneSession' /\ Covered'
  <2> DEFINE i == Inst(c)
             l == LockId(c)
  <2>1. /\ pc[c] = "releasing" /\ OwnerOf[k] = i
        /\ held' = [held EXCEPT ![k][l] = IF @ > 0 THEN @ - 1 ELSE 0]
        /\ pc' = [pc EXCEPT ![c] = "idle"]
    BY <1>2 DEF Unlock, Goto
  <2>2. i \in Instances /\ l \in LockIds
    BY DEF Inst, LockId
  <2>3. \A m \in Connections, n \in LockIds :
           held'[m][n] = IF m = k /\ n = l
                         THEN IF held[k][l] > 0 THEN held[k][l] - 1 ELSE 0
                         ELSE held[m][n]
    BY <2>1, <2>2 DEF TypeOK
  <2>4. OneSession'
    <3> SUFFICES ASSUME NEW m \in Connections, NEW o \in Connections, NEW n \in LockIds,
                        held'[m][n] > 0, held'[o][n] > 0
                 PROVE  m = o
      BY DEF OneSession
    <3>1. held[m][n] > 0 /\ held[o][n] > 0
      BY <2>2, <2>3 DEF TypeOK
    <3> QED
      BY <3>1 DEF OneSession
  <2>5. ASSUME NEW j \in Instances, NEW n \in LockIds, Acquired(j, n)' # {}
        PROVE  \E m \in Connections :
                  OwnerOf[m] = j /\ held'[m][n] >= Cardinality(Acquired(j, n)')
    <3>1. CASE j = i /\ n = l
      <4>1. Acquired(i, l)' = Acquired(i, l) \ {c} /\ c \in Acquired(i, l)
        BY <2>1 DEF Acquired, TypeOK, Inst, LockId
      <4>2. Cardinality(Acquired(i, l)') = Cardinality(Acquired(i, l)) - 1
        <5>1. IsFiniteSet(Acquired(i, l))
          BY AcquiredCount
        <5>2. Cardinality(Acquired(i, l) \ {c}) = Cardinality(Acquired(i, l)) - 1
          BY <4>1, <5>1, FS_RemoveElement
        <5> QED
          BY <4>1, <5>2
      <4>3. PICK m \in Connections :
               OwnerOf[m] = i /\ held[m][l] >= Cardinality(Acquired(i, l))
        BY <4>1, <2>2 DEF Covered
      <4>4. held[m][l] \in Nat /\ Cardinality(Acquired(i, l)) \in Nat
        BY <2>2, AcquiredCount DEF TypeOK
      <4>5. held'[m][l] >= held[m][l] - 1
        BY <2>2, <2>3, <4>4
      <4>6. held'[m][l] \in Nat
        BY <2>2, <2>3, <4>4
      <4> QED
        BY <3>1, <4>2, <4>3, <4>4, <4>5, <4>6
    <3>2. CASE ~ (j = i /\ n = l)
      <4>1. Acquired(j, n)' = Acquired(j, n)
        BY <2>1, <3>2 DEF Acquired, TypeOK, Inst, LockId
      <4>2. \A m \in Connections : OwnerOf[m] = j => held'[m][n] = held[m][n]
        BY <2>1, <2>3, <3>2
      <4> QED
        BY <4>1, <4>2, <2>5, CoveredByShrinking
    <3> QED
      BY <3>1, <3>2
  <2> QED
    BY <2>4, <2>5 DEF Covered
<1>3. ASSUME NEW i \in Instances, Restart(i)
      PROVE  OneSession' /\ Covered'
  <2>1. /\ pc' = [c \in Callers |-> IF Inst(c) = i THEN "idle" ELSE pc[c]]
        /\ held' = [k \in Connections |->
                      IF OwnerOf[k] = i THEN [l \in LockIds |-> 0] ELSE held[k]]
    BY <1>3 DEF Restart
  <2>2. OneSession'
    BY <2>1 DEF OneSession, TypeOK
  <2>3. ASSUME NEW j \in Instances, NEW n \in LockIds, Acquired(j, n)' # {}
        PROVE  \E m \in Connections :
                  OwnerOf[m] = j /\ held'[m][n] >= Cardinality(Acquired(j, n)')
    <3>1. j # i
      BY <2>1, <2>3 DEF Acquired
    <3>2. Acquired(j, n)' \subseteq Acquired(j, n)
      BY <2>1, <3>1 DEF Acquired
    <3>3. \A m \in Connections : OwnerOf[m] = j => held'[m][n] = held[m][n]
      BY <2>1, <3>1
    <3> QED
      BY <3>2, <3>3, <2>3, CoveredByShrinking
  <2> QED
    BY <2>2, <2>3 DEF Covered
<1>4. ASSUME held' = held,
             \A i \in Instances, l \in LockIds : Acquired(i, l)' \subseteq Acquired(i, l)
      PROVE  OneSession' /\ Covered'
  <2>1. OneSession'
    BY <1>4 DEF OneSession
  <2>2. Covered'
    BY <1>4, CoveredByShrinking DEF Covered
  <2> QED
    BY <2>1, <2>2
<1>5. ASSUME NEW c \in Callers,
             \/ SkipLocally(c) \/ EnterLocally(c) \/ Finish(c) \/ UnlockError(c)
             \/ \E k \in Connections : TryLockDenied(c, k)
      PROVE  /\ held' = held
             /\ \A i \in Instances, l \in LockIds :
                   Acquired(i, l)' \subseteq Acquired(i, l)
  BY <1>5 DEF SkipLocally, EnterLocally, Finish, UnlockError, TryLockDenied, Goto,
              Acquired, TypeOK, LockKept, Inst, LockId
<1>6. ASSUME NEW c \in Callers, TryLockError(c) PROVE FALSE
  BY <1>6 DEF TryLockError, LockKept
<1>7. ASSUME NEW k \in Connections, DropConnection(k) PROVE FALSE
  BY <1>7 DEF DropConnection, LockKept
<1>8. ASSUME UNCHANGED vars
      PROVE  /\ held' = held
             /\ \A i \in Instances, l \in LockIds :
                   Acquired(i, l)' \subseteq Acquired(i, l)
  BY <1>8 DEF vars, Acquired
<1> QED
  BY <1>1, <1>2, <1>3, <1>4, <1>5, <1>6, <1>7, <1>8 DEF Next, CallerStep

LEMMA IInvHolds ==
  ASSUME LockKept
  PROVE  Spec => []IInv
<1>1. Init => OneSession /\ Covered
  BY DEF Init, OneSession, Covered, Acquired
<1>2. TypeOK /\ OneSession /\ Covered /\ [Next]_vars => (OneSession /\ Covered)'
  BY CoveredStep DEF IInv
<1> QED
  BY <1>1, <1>2, TypeCorrect, PTL DEF Spec, IInv

\* MutualExclusion: however many processes and connections there are, though
\* keys collide and unlocks fail or reach the wrong session, two calls for one
\* key are never inside `execute` together.
THEOREM WithLockExcludes ==
  ASSUME LockKept
  PROVE  Spec => []MutualExclusion
<1>1. IInv /\ LocalOwners => MutualExclusion
  <2> SUFFICES ASSUME IInv, LocalOwners, NEW c \in Callers, NEW d \in Callers,
                      KeyOf[c] = KeyOf[d], pc[c] = "executing", pc[d] = "executing"
               PROVE  c = d
    BY DEF MutualExclusion
  <2> USE ConstantsAssumption
  <2>1. /\ Inst(c) \in Instances /\ Inst(d) \in Instances
        /\ LockId(c) \in LockIds /\ LockId(d) = LockId(c)
    BY DEF Inst, LockId
  <2>2. PICK k \in Connections :
           /\ OwnerOf[k] = Inst(c)
           /\ held[k][LockId(c)] >= Cardinality(Acquired(Inst(c), LockId(c)))
    BY <2>1 DEF IInv, Covered, Acquired
  <2>3. PICK m \in Connections :
           /\ OwnerOf[m] = Inst(d)
           /\ held[m][LockId(c)] >= Cardinality(Acquired(Inst(d), LockId(c)))
    BY <2>1 DEF IInv, Covered, Acquired
  <2>4. c \in Acquired(Inst(c), LockId(c)) /\ d \in Acquired(Inst(d), LockId(c))
    BY <2>1 DEF Acquired
  <2>5. held[k][LockId(c)] > 0 /\ held[m][LockId(c)] > 0
    <3>1. /\ Cardinality(Acquired(Inst(c), LockId(c))) \in Nat \ {0}
          /\ Cardinality(Acquired(Inst(d), LockId(c))) \in Nat \ {0}
      BY <2>4, AcquiredCount
    <3>2. held[k][LockId(c)] \in Nat /\ held[m][LockId(c)] \in Nat
      BY <2>1 DEF IInv, TypeOK
    <3> QED
      BY <2>2, <2>3, <3>1, <3>2
  <2>6. Inst(c) = Inst(d)
    BY <2>1, <2>2, <2>3, <2>5 DEF IInv, OneSession
  <2> QED
    BY <2>6 DEF LocalOwners, Busy
<1> QED
  BY <1>1, IInvHolds, LocalOwnersHold, PTL

\* The service implements ExclusiveSection: Init is its Init, the step that is
\* granted the lock its Enter, the end of `execute` and a restart its Leave,
\* and every other step leaves the section alone.
THEOREM Implementation ==
  ASSUME LockKept
  PROVE  Spec => ImplementsSection
<1> DEFINE in == {c \in Callers : pc[c] = "executing"}
<1>1. Init => Section!Init
  BY DEF Init, Section!Init
<1>2. TypeOK /\ MutualExclusion' /\ [Next]_vars => [Section!Next]_in
  <2> SUFFICES ASSUME TypeOK, MutualExclusion', [Next]_vars
               PROVE  Section!Next \/ in' = in
    OBVIOUS
  <2> USE ConstantsAssumption DEF TypeOK, Goto
  <2>1. ASSUME NEW c \in Callers, NEW k \in Connections, TryLockGranted(c, k)
        PROVE  Section!Next
    <3>1. /\ in' = in \cup {c} /\ c \notin in
          /\ pc' = [pc EXCEPT ![c] = "executing"]
      BY <2>1 DEF TryLockGranted
    <3>2. \A d \in in : KeyOf[d] # KeyOf[c]
      BY <3>1 DEF MutualExclusion
    <3> QED
      BY <3>1, <3>2 DEF Section!Next, Section!Enter
  <2>2. ASSUME NEW c \in Callers, Finish(c) PROVE Section!Next
    <3>1. in' = in \ {c} /\ {c} \in SUBSET in
      BY <2>2 DEF Finish
    <3> QED
      BY <3>1 DEF Section!Next, Section!Leave
  <2>3. ASSUME NEW i \in Instances, Restart(i) PROVE Section!Next
    <3> DEFINE died == {c \in in : Inst(c) = i}
    <3>1. in' = in \ died /\ died \in SUBSET in
      BY <2>3 DEF Restart
    <3> QED
      BY <3>1 DEF Section!Next, Section!Leave
  <2>4. ASSUME NEW c \in Callers,
               \/ SkipLocally(c) \/ EnterLocally(c) \/ UnlockError(c)
               \/ \E k \in Connections : TryLockDenied(c, k) \/ Unlock(c, k)
        PROVE  in' = in
    BY <2>4 DEF SkipLocally, EnterLocally, UnlockError, TryLockDenied, Unlock,
                LockKept, Inst
  <2>5. ASSUME NEW c \in Callers, TryLockError(c) PROVE FALSE
    BY <2>5 DEF TryLockError, LockKept
  <2>6. ASSUME NEW k \in Connections, DropConnection(k) PROVE FALSE
    BY <2>6 DEF DropConnection, LockKept
  <2>7. CASE UNCHANGED vars
    BY <2>7 DEF vars
  <2> QED
    BY <2>1, <2>2, <2>3, <2>4, <2>5, <2>6, <2>7 DEF Next, CallerStep
<1> QED
  BY <1>1, <1>2, TypeCorrect, WithLockExcludes, PTL
  DEF Spec, ImplementsSection, Section!Spec

-----------------------------------------------------------------------------
(* No lock without its call.  With one connection per process an unlock    *)
(* reaches the session that locked; a release that fails leaves the lock   *)
(* behind, so that fault is ruled out.  A query of acquire that fails and  *)
(* a session that is lost do no harm here: the one leaves a call without a *)
(* lock, the other takes the lock with it.                                 *)

SinglePools ==
    /\ \A k, m \in Connections : OwnerOf[k] = OwnerOf[m] => k = m
    /\ "release" \notin Faults
    /\ IsFiniteSet(Callers)

\* A process that does not use PostgreSQL has no lock there.
LocalOnly ==
    /\ \A c \in Callers : Inst(c) \notin WithPostgres => pc[c] \in {"idle", "executing"}
    /\ \A k \in Connections, l \in LockIds : OwnerOf[k] \notin WithPostgres => held[k][l] = 0

\* A session has a lock at most as often as its process has calls inside.
HeldByCalls ==
    \A k \in Connections, l \in LockIds :
       held[k][l] <= Cardinality(Acquired(OwnerOf[k], l))

LEMMA LocalOnlyStep ==
  ASSUME TypeOK, LocalOnly, [Next]_vars
  PROVE  LocalOnly'
<1> USE ConstantsAssumption DEF TypeOK, LocalOnly, Inst, LockId, Goto
<1>1. ASSUME NEW c \in Callers,
             \/ SkipLocally(c) \/ EnterLocally(c) \/ TryLockError(c) \/ Finish(c)
             \/ UnlockError(c)
      PROVE  LocalOnly'
  BY <1>1 DEF SkipLocally, EnterLocally, TryLockError, Finish, UnlockError
<1>2. ASSUME NEW c \in Callers, NEW k \in Connections, TryLockGranted(c, k)
      PROVE  LocalOnly'
  BY <1>2 DEF TryLockGranted
<1>3. ASSUME NEW c \in Callers, NEW k \in Connections, TryLockDenied(c, k)
      PROVE  LocalOnly'
  BY <1>3 DEF TryLockDenied
<1>4. ASSUME NEW c \in Callers, NEW k \in Connections, Unlock(c, k) PROVE LocalOnly'
  BY <1>4 DEF Unlock
<1>5. ASSUME NEW k \in Connections, DropConnection(k) PROVE LocalOnly'
  BY <1>5 DEF DropConnection
<1>6. ASSUME NEW i \in Instances, Restart(i) PROVE LocalOnly'
  BY <1>6 DEF Restart
<1>7. CASE UNCHANGED vars
  BY <1>7 DEF vars
<1> QED
  BY <1>1, <1>2, <1>3, <1>4, <1>5, <1>6, <1>7 DEF Next, CallerStep

LEMMA HeldByCallsStep ==
  ASSUME SinglePools, TypeOK, LocalOnly, HeldByCalls, [Next]_vars
  PROVE  HeldByCalls'
<1> SUFFICES ASSUME NEW k \in Connections, NEW l \in LockIds
             PROVE  held'[k][l] <= Cardinality(Acquired(OwnerOf[k], l)')
  BY DEF HeldByCalls
<1> USE ConstantsAssumption
<1> DEFINE i == OwnerOf[k]
           in == Acquired(i, l)
<1>0. /\ i \in Instances /\ held[k][l] \in Nat /\ held[k][l] <= Cardinality(in)
      /\ IsFiniteSet(in) /\ Cardinality(in) \in Nat
  BY AcquiredFinite DEF TypeOK, HeldByCalls, SinglePools
<1>1. IsFiniteSet(in') /\ Cardinality(in') \in Nat
  <2>1. in' \subseteq Callers
    BY DEF Acquired
  <2> QED
    BY <2>1, FS_Subset, FS_CardinalityType DEF SinglePools
<1>2. ASSUME held'[k][l] = 0 PROVE held'[k][l] <= Cardinality(in')
  BY <1>1, <1>2
<1>3. ASSUME held'[k][l] = held[k][l], in \subseteq in'
      PROVE  held'[k][l] <= Cardinality(in')
  BY <1>0, <1>1, <1>3, FS_Subset
<1>4. ASSUME NEW c \in Callers, NEW m \in Connections, TryLockGranted(c, m)
      PROVE  held'[k][l] <= Cardinality(in')
  <2>1. /\ pc[c] = "acquiring" /\ OwnerOf[m] = Inst(c)
        /\ pc' = [pc EXCEPT ![c] = "executing"]
        /\ held' = [held EXCEPT ![m][LockId(c)] = @ + 1]
    BY <1>4 DEF TryLockGranted, Goto
  <2>2. CASE m = k /\ LockId(c) = l
    <3>1. in' = in \cup {c} /\ c \notin in
      BY <2>1, <2>2 DEF Acquired, TypeOK, Inst, LockId
    <3>2. Cardinality(in') = Cardinality(in) + 1
      BY <1>0, <3>1, FS_AddElement
    <3>3. held'[k][l] = held[k][l] + 1
      BY <2>1, <2>2 DEF TypeOK
    <3> QED
      BY <1>0, <3>2, <3>3
  <2>3. CASE ~ (m = k /\ LockId(c) = l)
    <3>1. held'[k][l] = held[k][l]
      BY <2>1, <2>3 DEF TypeOK, LockId
    <3>2. in \subseteq in'
      BY <2>1 DEF Acquired, TypeOK
    <3> QED
      BY <1>3, <3>1, <3>2
  <2> QED
    BY <2>2, <2>3
<1>5. ASSUME NEW c \in Callers, NEW m \in Connections, Unlock(c, m)
      PROVE  held'[k][l] <= Cardinality(in')
  <2>1. /\ pc[c] = "releasing" /\ OwnerOf[m] = Inst(c)
        /\ pc' = [pc EXCEPT ![c] = "idle"]
        /\ held' = [held EXCEPT ![m][LockId(c)] = IF @ > 0 THEN @ - 1 ELSE 0]
    BY <1>5 DEF Unlock, Goto
  <2>2. CASE m = k /\ LockId(c) = l
    <3>1. in' = in \ {c} /\ c \in in
      BY <2>1, <2>2 DEF Acquired, TypeOK, Inst, LockId
    <3>2. Cardinality(in \ {c}) = Cardinality(in) - 1
      <4> HIDE DEF in
      <4>1. c \in in /\ IsFiniteSet(in)
        BY <1>0, <3>1
      <4> QED
        BY <4>1, FS_RemoveElement
    <3>3. held'[k][l] = IF held[k][l] > 0 THEN held[k][l] - 1 ELSE 0
      BY <2>1, <2>2 DEF TypeOK
    <3>4. Cardinality(in') = Cardinality(in) - 1
      BY <3>1, <3>2
    <3> HIDE DEF in
    <3> QED
      BY <1>0, <1>1, <3>3, <3>4
  <2>3. CASE ~ (m = k /\ LockId(c) = l)
    <3>1. held'[k][l] = held[k][l]
      BY <2>1, <2>3 DEF TypeOK, LockId
    <3>2. c \notin in
      BY <2>1, <2>3 DEF Acquired, SinglePools
    <3>3. in \subseteq in'
      BY <2>1, <3>2 DEF Acquired, TypeOK
    <3> QED
      BY <1>3, <3>1, <3>3
  <2> QED
    BY <2>2, <2>3
<1>6. ASSUME NEW c \in Callers, Finish(c) PROVE held'[k][l] <= Cardinality(in')
  <2>1. /\ held' = held /\ pc[c] = "executing"
        /\ pc' = [pc EXCEPT ![c] = IF Inst(c) \in WithPostgres THEN "releasing" ELSE "idle"]
    BY <1>6 DEF Finish, Goto
  <2>2. CASE i \in WithPostgres
    <3>1. in \subseteq in'
      BY <2>1, <2>2 DEF Acquired, TypeOK, Inst
    <3> QED
      BY <1>3, <2>1, <3>1
  <2>3. CASE i \notin WithPostgres
    BY <1>2, <2>1, <2>3 DEF LocalOnly
  <2> QED
    BY <2>2, <2>3
<1>7. ASSUME NEW c \in Callers,
             \/ SkipLocally(c) \/ EnterLocally(c) \/ TryLockError(c)
             \/ \E m \in Connections : TryLockDenied(c, m)
      PROVE  held'[k][l] = held[k][l] /\ in \subseteq in'
  BY <1>7 DEF SkipLocally, EnterLocally, TryLockError, TryLockDenied, Goto, Acquired, TypeOK
<1>8. ASSUME NEW c \in Callers, UnlockError(c) PROVE FALSE
  BY <1>8 DEF UnlockError, SinglePools
<1>9. ASSUME NEW m \in Connections, DropConnection(m)
      PROVE  held'[k][l] = 0 \/ (held'[k][l] = held[k][l] /\ in \subseteq in')
  BY <1>9 DEF DropConnection, TypeOK, Acquired
<1>10. ASSUME NEW j \in Instances, Restart(j)
       PROVE  held'[k][l] = 0 \/ (held'[k][l] = held[k][l] /\ in \subseteq in')
  BY <1>10 DEF Restart, TypeOK, Acquired
<1>11. ASSUME UNCHANGED vars PROVE held'[k][l] = held[k][l] /\ in \subseteq in'
  BY <1>11 DEF vars, Acquired
<1> QED
  BY <1>2, <1>3, <1>4, <1>5, <1>6, <1>7, <1>8, <1>9, <1>10, <1>11 DEF Next, CallerStep

\* NoOrphanLock: with one connection per process and releases that reach the
\* database, PostgreSQL keeps a lock only for a call that is under way.
THEOREM NoLockWithoutCall ==
  ASSUME SinglePools
  PROVE  Spec => []NoOrphanLock
<1>1. Init => LocalOnly /\ HeldByCalls
  <2> SUFFICES ASSUME Init PROVE LocalOnly /\ HeldByCalls
    OBVIOUS
  <2>1. \A k \in Connections, l \in LockIds : held[k][l] = 0
    BY DEF Init
  <2>2. \A i, l : Cardinality(Acquired(i, l)) \in Nat
    BY AcquiredFinite DEF SinglePools
  <2> QED
    BY <2>1, <2>2 DEF Init, LocalOnly, HeldByCalls
<1>2. TypeOK /\ HeldByCalls => NoOrphanLock
  <2> SUFFICES ASSUME TypeOK, HeldByCalls, NEW k \in Connections, NEW l \in LockIds,
                      held[k][l] > 0
               PROVE  Acquired(OwnerOf[k], l) # {}
    BY DEF NoOrphanLock, Acquired
  <2>1. held[k][l] \in Nat /\ held[k][l] <= Cardinality(Acquired(OwnerOf[k], l))
    BY DEF TypeOK, HeldByCalls
  <2> QED
    BY <2>1, AcquiredFinite DEF SinglePools
<1>3. TypeOK /\ LocalOnly /\ HeldByCalls /\ [Next]_vars => LocalOnly' /\ HeldByCalls'
  BY LocalOnlyStep, HeldByCallsStep
<1> QED
  BY <1>1, <1>2, <1>3, TypeCorrect, PTL DEF Spec
=============================================================================
