---------------------- MODULE AutomationScheduler_proofs ----------------------
(***************************************************************************)
(* Theorems about AutomationScheduler, for any number of processes,        *)
(* cycles, rules, servants, runs and windows.                              *)
(*                                                                         *)
(* CyclesInOrder is about the cycles and their flag, RunsInOrder about the *)
(* runs: a run that its cycle still waits for is the cycle's only one.     *)
(* Together they leave one run at a time while nothing timed out and no    *)
(* two cycles ran (LoneRun).  Then what was read of a rule before its run  *)
(* is still true in it (ReadsStand), and an action that was done is in the *)
(* log or about to be (Accounted, LogBehind).                              *)
(***************************************************************************)
EXTENDS AutomationScheduler, TLAPS

Busy(w) == run[w].stage # "idle"
InOrder == {"timeout", "scopes"} \cap troubles = {}

\* An active cycle keeps the flag of its process up, and is the only one there;
\* the only one of all while no two cycles ran beside each other.
CyclesInOrder ==
    /\ \A c \in Cycles : Active(c) => running[ProcessOf[c]]
    /\ \A c, d \in Cycles :
          Active(c) /\ Active(d) /\ ProcessOf[c] = ProcessOf[d] => c = d
    /\ "scopes" \in troubles \/ \A c, d \in Cycles : Active(c) /\ Active(d) => c = d
    /\ "checkpoint" \in troubles \/ OverlapMeansACycle

\* A run is of a rule, and leaves nothing behind.
RunsOfRules ==
    \A w \in Runs : IF Busy(w) THEN run[w].rule \in Rules ELSE run[w] = IdleRun

\* If its cycle waits for it, a run runs in the cycle's process and is all the
\* cycle waits for.
RunsInOrder ==
    /\ \A w \in Runs : Busy(w) =>
          /\ run[w].cycle # NoCycle =>
                /\ cycle[run[w].cycle].stage = "active"
                /\ run[w].process = ProcessOf[run[w].cycle]
                /\ run[w].rule \notin cycle[run[w].cycle].todo
          /\ "timeout" \in troubles \/ run[w].cycle # NoCycle
    /\ \A v, w \in Runs :
          Busy(v) /\ Busy(w) /\ run[v].cycle # NoCycle /\ run[v].cycle = run[w].cycle
             => v = w

LoneRun == InOrder => \A v, w \in Runs : Busy(v) /\ Busy(w) => v = w

\* What the cycle read of the rules it has yet to come to, and what its run was
\* told, is what the database has; a TIME rule that runs is due.
RunsDated ==
    \A w \in Runs :
       /\ run[w].window <= now
       /\ Busy(w) => run[w].window # 0
       /\ run[w].stage = "called" => run[w].about = NoServant
       /\ Busy(w) /\ TriggerOf[run[w].rule] = "TIME" => run[w].left = {}

ReadsStand ==
    InOrder =>
       /\ \A c \in Cycles : cycle[c].stage = "active" =>
             \A r \in cycle[c].todo : cycle[c].seen[r] = lastRunAt[r]
       /\ \A w \in Runs : run[w].stage = "called" /\ TriggerOf[run[w].rule] = "TIME" =>
             \/ lastRunAt[run[w].rule] = 0
             \/ run[w].window - lastRunAt[run[w].rule] >= EveryOf[run[w].rule]

\* Actions that were done are in the log, or their run is about to write it.
Accounted ==
    Untroubled =>
       \A k \in Keys :
          \/ attempts[k] = 0
          \/ /\ attempts[k] = 1
             /\ k \in log \/ \E w \in Runs : run[w].stage = "logging" /\ KeyOfRun(w) = k

\* The log of a TIME rule does not run ahead of its lastRunAt, but for the run
\* that is about to set it.
LogBehind ==
    Untroubled =>
       \A k \in log : TriggerOf[k.rule] = "TIME" /\ k.about = NoServant =>
          /\ k.window \in 1..now
          /\ \/ k.window <= lastRunAt[k.rule]
             \/ \E w \in Runs : run[w].stage = "stamping" /\ run[w].rule = k.rule

\* What DueRuleIsNoRepeat asks of the rules: a TIME rule whose dedupe key has no
\* window (BY_EVENT, the column's default) runs once and never again.
FittingStrategies ==
    \A r \in Rules : TriggerOf[r] = "TIME" => StrategyOf[r] # "BY_EVENT"

-----------------------------------------------------------------------------
(* Type correctness.                                                       *)

LEMMA LocalTypes ==
  /\ IdleCycle \in CycleLocals
  /\ IdleRun \in RunLocals
<1> QED
  BY ConstantsAssumption DEF IdleCycle, IdleRun, CycleLocals, RunLocals

\* The local variables of a run that is done with one servant.
LEMMA NextServantType ==
  ASSUME TypeOK, NEW local \in RunLocals
  PROVE  NextServant(local) \in RunLocals
<1>1. now \in 0..MaxNow
  BY DEF TypeOK
<1>2. [local EXCEPT !.stage = "called", !.about = NoServant, !.window = now] \in RunLocals
  BY <1>1 DEF RunLocals
<1> QED
  BY <1>2, LocalTypes DEF NextServant

LEMMA AboutType ==
  ASSUME TypeOK, NEW w \in Runs, NEW servant \in Servants \cup {NoServant}
  PROVE  About(w, servant) \in RunLocals
<1> QED
  BY ZenonT(60) DEF TypeOK, RunLocals, About

LEMMA PendingType ==
  ASSUME TypeOK, NEW w \in Runs
  PROVE  Pending(w) \subseteq Servants \cup {NoServant}
<1> QED
  BY DEF TypeOK, RunLocals, Pending

LEMMA KeyType ==
  ASSUME NEW rule \in Rules, NEW servant \in Servants \cup {NoServant},
         NEW window \in 0..MaxNow
  PROVE  DedupeKey(rule, servant, window) \in Keys
<1> QED
  BY ConstantsAssumption DEF DedupeKey, Keys

LEMMA AttemptsType ==
  ASSUME attempts \in [Keys -> 0..2], NEW key, Attempted(key)
  PROVE  attempts' \in [Keys -> 0..2]
<1> QED
  BY DEF Attempted

LEMMA CycleMoves ==
  ASSUME cycle \in [Cycles -> CycleLocals], NEW c \in Cycles, NEW r
  PROVE  /\ [cycle EXCEPT ![c].stage = "starting"] \in [Cycles -> CycleLocals]
         /\ [cycle EXCEPT ![c].todo = @ \ {r}] \in [Cycles -> CycleLocals]
<1> QED
  BY DEF CycleLocals

LEMMA RunMoves ==
  ASSUME NEW local \in RunLocals,
         NEW stage \in {"idle", "called", "logging", "stamping"}
  PROVE  /\ [local EXCEPT !.stage = stage] \in RunLocals
         /\ [local EXCEPT !.stage = stage].rule = local.rule
         /\ [local EXCEPT !.stage = stage].stage = stage
<1> QED
  BY DEF RunLocals

LEMMA RunLeftBehind ==
  ASSUME NEW local \in RunLocals
  PROVE  /\ [local EXCEPT !.cycle = NoCycle] \in RunLocals
         /\ [local EXCEPT !.cycle = NoCycle].rule = local.rule
         /\ [local EXCEPT !.cycle = NoCycle].stage = local.stage
<1> QED
  BY DEF RunLocals

LEMMA AboutRule ==
  ASSUME NEW w \in Runs, NEW servant, run[w] \in RunLocals
  PROVE  /\ About(w, servant).rule = run[w].rule
         /\ About(w, servant).window = run[w].window
         /\ About(w, servant).cycle = run[w].cycle
         /\ About(w, servant).process = run[w].process
         /\ About(w, servant).about = servant
         /\ About(w, servant).left = run[w].left \ {servant}
<1> QED
  BY DEF RunLocals, About

\* What StartRule begins.
LEMMA StartedType ==
  ASSUME TypeOK, NEW c \in Cycles, NEW r \in Rules, NEW servants \in SUBSET Servants
  PROVE  [stage |-> "called", rule |-> r, seen |-> cycle[c].seen[r], left |-> servants,
          about |-> NoServant, window |-> now, cycle |-> c,
          process |-> ProcessOf[c]] \in RunLocals
<1>1. cycle[c].seen[r] \in 0..MaxNow /\ now \in 0..MaxNow /\ ProcessOf[c] \in Processes
  BY ConstantsAssumption DEF TypeOK, CycleLocals
<1> QED
  BY <1>1 DEF RunLocals

LEMMA TypeInvHolds == Spec => [](TypeOK /\ RunsOfRules)
<1> DEFINE Inv == TypeOK /\ RunsOfRules
<1>1. Init => Inv
  BY ConstantsAssumption, LocalTypes
  DEF Init, TypeOK, Lock!Init, RunsOfRules, Busy, IdleRun
<1>2. Inv /\ [Next]_vars => Inv'
  <2> SUFFICES ASSUME Inv, [Next]_vars PROVE Inv'
    OBVIOUS
  <2> USE ConstantsAssumption, LocalTypes DEF RunsOfRules, Busy, Trouble, Lock!Leave
  <2>0. IdleRun.stage = "idle" /\ IdleRun.rule = NoRule
    BY DEF IdleRun
  <2>a. cycle \in [Cycles -> CycleLocals] /\ run \in [Runs -> RunLocals]
    BY DEF TypeOK
  <2>1. ASSUME NEW c \in Cycles, BeginCycle(c) PROVE Inv'
    <3>1. cycle' \in [Cycles -> CycleLocals]
      BY <2>1, <2>a, CycleMoves DEF BeginCycle
    <3> QED
      BY <2>1, <3>1 DEF BeginCycle, Lock!Enter, TypeOK
  <2>2. ASSUME NEW c \in Cycles, StartCheckpointFails(c) PROVE Inv'
    BY <2>2 DEF StartCheckpointFails, TypeOK
  <2>3. ASSUME NEW c \in Cycles, ReadRules(c) PROVE Inv'
    <3>1. cycle' \in [Cycles -> CycleLocals]
      BY <2>3, <2>a DEF ReadRules, CycleLocals, TypeOK
    <3> QED
      BY <2>3, <3>1 DEF ReadRules, TypeOK
  <2>4. ASSUME NEW c \in Cycles, SkipRule(c) PROVE Inv'
    <3>1. cycle' \in [Cycles -> CycleLocals]
      <4>1. PICK r \in Rules : cycle' = [cycle EXCEPT ![c].todo = @ \ {r}]
        BY <2>4 DEF SkipRule
      <4> QED
        BY <2>a, <4>1, CycleMoves
    <3> QED
      BY <2>4, <3>1 DEF SkipRule, TypeOK
  <2>5. ASSUME NEW c \in Cycles, StartRule(c) PROVE Inv'
    <3>1. cycle' \in [Cycles -> CycleLocals]
      <4>1. PICK r \in Rules : cycle' = [cycle EXCEPT ![c].todo = @ \ {r}]
        BY <2>5 DEF StartRule
      <4> QED
        BY <2>a, <4>1, CycleMoves
    <3>2. PICK r \in Rules, servants \in SUBSET Servants, w \in Runs :
             run' = [run EXCEPT ![w] =
                [stage |-> "called", rule |-> r, seen |-> cycle[c].seen[r],
                 left |-> servants, about |-> NoServant, window |-> now, cycle |-> c,
                 process |-> ProcessOf[c]]]
      BY <2>5 DEF StartRule, IdleRuns
    <3>3. run' \in [Runs -> RunLocals]
      BY <2>a, <3>2, StartedType
    <3> QED
      BY <2>5, <3>1, <3>2, <3>3 DEF StartRule, TypeOK
  <2>6. ASSUME NEW c \in Cycles, Timeout(c) PROVE Inv'
    <3>1. PICK w \in Runs :
             Busy(w) /\ run' = [run EXCEPT ![w] = [run[w] EXCEPT !.cycle = NoCycle]]
      BY <2>6 DEF Timeout, RunsFor
    <3>2. run' \in [Runs -> RunLocals] /\ RunsOfRules'
      <4>1. /\ [run[w] EXCEPT !.cycle = NoCycle] \in RunLocals
            /\ [run[w] EXCEPT !.cycle = NoCycle].rule = run[w].rule
            /\ [run[w] EXCEPT !.cycle = NoCycle].stage = run[w].stage
        BY <2>a, RunLeftBehind
      <4> QED
        BY <2>a, <3>1, <4>1
    <3> QED
      BY <2>6, <3>2 DEF Timeout, TypeOK
  <2>7. ASSUME NEW c \in Cycles, EndCycle(c) PROVE Inv'
    BY <2>7 DEF EndCycle, TypeOK
  <2>8. ASSUME NEW w \in Runs, SkipRun(w) PROVE Inv'
    <3>1. PICK servant \in Pending(w) :
             run' = [run EXCEPT ![w] = NextServant(About(w, servant))]
      BY <2>8 DEF SkipRun
    <3>2. NextServant(About(w, servant)) \in RunLocals
      BY NextServantType, AboutType, PendingType
    <3>3. \/ NextServant(About(w, servant)) = IdleRun
          \/ /\ NextServant(About(w, servant)).stage = "called"
             /\ NextServant(About(w, servant)).rule = run[w].rule
      BY <2>a DEF NextServant, About, RunLocals
    <3> QED
      BY <2>0, <2>8, <3>1, <3>2, <3>3 DEF SkipRun, TypeOK
  <2>9. ASSUME NEW w \in Runs, Act(w) PROVE Inv'
    <3>1. PICK servant \in Pending(w) :
             /\ run' = [run EXCEPT ![w] = [About(w, servant) EXCEPT !.stage = "logging"]]
             /\ Attempted(DedupeKey(About(w, servant).rule, servant,
                                    About(w, servant).window))
      BY <2>9 DEF Act
    <3>2. /\ [About(w, servant) EXCEPT !.stage = "logging"] \in RunLocals
          /\ [About(w, servant) EXCEPT !.stage = "logging"].rule = run[w].rule
          /\ [About(w, servant) EXCEPT !.stage = "logging"].stage = "logging"
      <4>1. About(w, servant) \in RunLocals /\ About(w, servant).rule = run[w].rule
        BY <2>a, AboutType, AboutRule, PendingType
      <4> QED
        BY <4>1, RunMoves
    <3>3. attempts' \in [Keys -> 0..2]
      BY <3>1, AttemptsType DEF TypeOK
    <3>4. run' \in [Runs -> RunLocals] /\ RunsOfRules'
      BY <2>a, <2>9, <3>1, <3>2 DEF Act
    <3> QED
      BY <2>9, <3>3, <3>4 DEF Act, TypeOK
  <2>10. ASSUME NEW w \in Runs, Persist(w) PROVE Inv'
    <3>1. KeyOfRun(w) \in Keys
      BY <2>10, <2>a, KeyType DEF Persist, KeyOfRun, RunLocals
    <3>2. /\ [run[w] EXCEPT !.stage = "stamping"] \in RunLocals
          /\ [run[w] EXCEPT !.stage = "stamping"].rule = run[w].rule
          /\ [run[w] EXCEPT !.stage = "stamping"].stage = "stamping"
      BY <2>a, RunMoves
    <3>3. \/ run' = [run EXCEPT ![w] = IdleRun]
          \/ run' = [run EXCEPT ![w] = [run[w] EXCEPT !.stage = "stamping"]]
      BY <2>10 DEF Persist
    <3>4. run' \in [Runs -> RunLocals] /\ RunsOfRules'
      BY <2>a, <2>0, <2>10, <3>2, <3>3, ZenonT(60) DEF Persist
    <3> QED
      BY <2>10, <3>1, <3>4 DEF Persist, TypeOK
  <2>11. ASSUME NEW w \in Runs, Stamp(w) PROVE Inv'
    <3>1. NextServant(run[w]) \in RunLocals
      BY <2>a, NextServantType
    <3>2. \/ NextServant(run[w]) = IdleRun
          \/ /\ NextServant(run[w]).stage = "called"
             /\ NextServant(run[w]).rule = run[w].rule
      BY <2>a DEF NextServant, RunLocals
    <3> QED
      BY <2>0, <2>11, <3>1, <3>2 DEF Stamp, TypeOK
  <2>12. ASSUME NEW w \in Runs, RunFails(w) PROVE Inv'
    BY <2>0, <2>12 DEF RunFails, TypeOK
  <2>13. ASSUME NEW p \in Processes, Restart(p) PROVE Inv'
    BY <2>0, <2>13 DEF Restart, TypeOK
  <2>14. CASE Tick
    BY <2>14 DEF Tick, TypeOK
  <2>15. CASE UNCHANGED vars
    BY <2>15 DEF vars, TypeOK
  <2> QED
    BY <2>1, <2>2, <2>3, <2>4, <2>5, <2>6, <2>7, <2>8, <2>9, <2>10, <2>11, <2>12,
       <2>13, <2>14, <2>15
    DEF Next, CycleStep, RunStep
<1> QED
  BY <1>1, <1>2, PTL DEF Spec

\* Every state of the scheduler, of its runs and of the tables is of its type.
THEOREM TypeCorrect == Spec => []TypeOK
<1> QED
  BY TypeInvHolds, PTL

-----------------------------------------------------------------------------
(* One thing at a time.                                                    *)

LEMMA CyclesStep ==
  ASSUME TypeOK, CyclesInOrder, [Next]_vars
  PROVE  CyclesInOrder'
<1> USE ConstantsAssumption DEF CyclesInOrder, OverlapMeansACycle, Active
<1>0. /\ cycle \in [Cycles -> CycleLocals] /\ running \in [Processes -> BOOLEAN]
      /\ IdleCycle.stage = "idle"
  BY DEF TypeOK, IdleCycle
<1>1. ASSUME NEW c \in Cycles, BeginCycle(c) PROVE CyclesInOrder'
  <2>1. /\ \A d \in Cycles : cycle'[d].stage = IF d = c THEN "starting" ELSE cycle[d].stage
        /\ running' = [running EXCEPT ![ProcessOf[c]] = TRUE]
        /\ ~ running[ProcessOf[c]] /\ ~ Active(c)
        /\ IF \E d \in Cycles : Active(d) THEN troubles' = troubles \cup {"scopes"}
           ELSE troubles' = troubles
    BY <1>0, <1>1 DEF BeginCycle, Trouble, CycleLocals
  <2>2. \A d \in Cycles : Active(d)' <=> d = c \/ Active(d)
    BY <2>1
  <2>3. \A d \in Cycles : Active(d) => ProcessOf[d] # ProcessOf[c]
    BY <2>1
  <2>4. /\ running'[ProcessOf[c]]
        /\ \A p \in Processes : p # ProcessOf[c] => running'[p] = running[p]
    BY <1>0, <2>1
  <2>5. \A d \in Cycles : Active(d)' => running'[ProcessOf[d]]
    BY <2>2, <2>3, <2>4
  <2>6. "scopes" \in troubles' \/ \A d, e \in Cycles : Active(d)' /\ Active(e)' => d = e
    BY <2>1, <2>2
  <2>7. "checkpoint" \in troubles' \/ OverlapMeansACycle'
    BY <2>1, <2>2, <2>4
  <2>8. ASSUME NEW d \in Cycles, NEW e \in Cycles,
               Active(d)', Active(e)', ProcessOf[d] = ProcessOf[e]
        PROVE  d = e
    <3>1. (d = c \/ Active(d)) /\ (e = c \/ Active(e))
      BY <2>2, <2>8
    <3> HIDE DEF Active
    <3> QED
      BY <2>3, <2>8, <3>1 DEF CyclesInOrder
  <2> HIDE DEF Active, OverlapMeansACycle
  <2> QED
    BY <2>5, <2>6, <2>7, <2>8
<1>2. ASSUME NEW c \in Cycles, StartCheckpointFails(c) PROVE CyclesInOrder'
  BY <1>0, <1>2 DEF StartCheckpointFails, Trouble
<1>3. ASSUME NEW c \in Cycles, EndCycle(c) PROVE CyclesInOrder'
  BY <1>0, <1>3 DEF EndCycle
<1>4. ASSUME NEW c \in Cycles, ReadRules(c) \/ SkipRule(c) \/ StartRule(c) \/ Timeout(c)
      PROVE  CyclesInOrder'
  <2>1. /\ \A d \in Cycles : Active(d)' <=> Active(d)
        /\ UNCHANGED running
        /\ troubles \subseteq troubles'
    <3>1. CASE ReadRules(c)
      BY <1>0, <3>1 DEF ReadRules
    <3>2. CASE SkipRule(c)
      BY <1>0, <3>2 DEF SkipRule, CycleLocals
    <3>3. CASE StartRule(c)
      BY <1>0, <3>3 DEF StartRule, CycleLocals
    <3>4. CASE Timeout(c)
      BY <1>0, <3>4 DEF Timeout
    <3> QED
      BY <1>4, <3>1, <3>2, <3>3, <3>4
  <2> QED
    BY <2>1
<1>5. ASSUME NEW w \in Runs, RunStep(w) PROVE CyclesInOrder'
  <2>1. UNCHANGED <<cycle, running>> /\ troubles \subseteq troubles'
    BY <1>5 DEF RunStep, SkipRun, Act, Persist, Stamp, RunFails, Trouble
  <2> QED
    BY <2>1
<1>6. ASSUME NEW p \in Processes, Restart(p) PROVE CyclesInOrder'
  BY <1>0, <1>6 DEF Restart, Trouble
<1>7. CASE Tick \/ UNCHANGED vars
  <2>1. UNCHANGED <<cycle, running, troubles>>
    BY <1>7 DEF Tick, vars
  <2> QED
    BY <2>1
<1> QED
  BY <1>1, <1>2, <1>3, <1>4, <1>5, <1>6, <1>7 DEF Next, CycleStep

\* What a step of a run does: the run goes on, or is gone.
LEMMA RunStepEffect ==
  ASSUME TypeOK, NEW w \in Runs, RunStep(w)
  PROVE  /\ Busy(w)
         /\ UNCHANGED <<cycle, running, now>>
         /\ troubles \subseteq troubles'
         /\ \E new \in RunLocals :
               /\ run' = [run EXCEPT ![w] = new]
               /\ \/ new = IdleRun
                  \/ /\ new.stage # "idle"
                     /\ new.rule = run[w].rule /\ new.cycle = run[w].cycle
                     /\ new.process = run[w].process
<1> DEFINE GoesOn(new) ==
             /\ new.stage # "idle"
             /\ new.rule = run[w].rule /\ new.cycle = run[w].cycle
             /\ new.process = run[w].process
<1>0. run \in [Runs -> RunLocals] /\ run[w] \in RunLocals
  BY DEF TypeOK
<1>1. Busy(w) /\ UNCHANGED <<cycle, running, now>> /\ troubles \subseteq troubles'
  BY DEF RunStep, SkipRun, Act, Persist, Stamp, RunFails, Trouble, Busy
<1>2. ASSUME NEW local \in RunLocals, NEW stage \in {"called", "logging", "stamping"},
             local.rule = run[w].rule, local.cycle = run[w].cycle,
             local.process = run[w].process
      PROVE  [local EXCEPT !.stage = stage] \in RunLocals
             /\ GoesOn([local EXCEPT !.stage = stage])
  BY <1>2 DEF RunLocals
<1>3. ASSUME NEW local \in RunLocals,
             local.rule = run[w].rule, local.cycle = run[w].cycle,
             local.process = run[w].process
      PROVE  /\ NextServant(local) \in RunLocals
             /\ NextServant(local) = IdleRun \/ GoesOn(NextServant(local))
  <2>1. NextServant(local) \in RunLocals
    BY NextServantType
  <2>2. NextServant(local) = IdleRun \/ GoesOn(NextServant(local))
    BY <1>3 DEF NextServant, RunLocals
  <2> QED
    BY <2>1, <2>2
<1>4. ASSUME NEW servant \in Pending(w)
      PROVE  /\ About(w, servant) \in RunLocals
             /\ About(w, servant).rule = run[w].rule
             /\ About(w, servant).cycle = run[w].cycle
             /\ About(w, servant).process = run[w].process
  BY <1>0, AboutType, AboutRule, PendingType
<1>5. CASE SkipRun(w)
  BY <1>1, <1>3, <1>4, <1>5 DEF SkipRun
<1>6. CASE Act(w)
  <2>1. PICK servant \in Pending(w) :
           run' = [run EXCEPT ![w] = [About(w, servant) EXCEPT !.stage = "logging"]]
    BY <1>6 DEF Act
  <2> DEFINE new == [About(w, servant) EXCEPT !.stage = "logging"]
  <2>2. new \in RunLocals /\ GoesOn(new)
    BY <1>2, <1>4
  <2> QED
    BY <1>1, <2>1, <2>2
<1>7. CASE Persist(w)
  <2> DEFINE new == [run[w] EXCEPT !.stage = "stamping"]
  <2>1. new \in RunLocals /\ GoesOn(new)
    BY <1>0, <1>2
  <2>2. run' = [run EXCEPT ![w] = IdleRun] \/ run' = [run EXCEPT ![w] = new]
    BY <1>7 DEF Persist
  <2> QED
    BY <1>1, <2>1, <2>2, LocalTypes
<1>8. CASE Stamp(w)
  BY <1>0, <1>1, <1>3, <1>8 DEF Stamp
<1>9. CASE RunFails(w)
  BY <1>1, <1>9, LocalTypes DEF RunFails
<1> QED
  BY <1>5, <1>6, <1>7, <1>8, <1>9 DEF RunStep

LEMMA RunsStep ==
  ASSUME TypeOK, RunsOfRules, RunsInOrder, [Next]_vars
  PROVE  RunsInOrder'
<1> USE DEF Busy
<1>0. /\ cycle \in [Cycles -> CycleLocals] /\ run \in [Runs -> RunLocals]
      /\ \A w \in Runs : run[w].cycle \in Cycles \cup {NoCycle}
      /\ NoCycle \notin Cycles
      /\ IdleRun.stage = "idle"
  BY ConstantsAssumption DEF TypeOK, IdleRun, RunLocals
<1>1. ASSUME NEW c \in Cycles,
             BeginCycle(c) \/ StartCheckpointFails(c) \/ ReadRules(c) \/ EndCycle(c)
      PROVE  RunsInOrder'
  <2>1. cycle[c].stage # "active" \/ RunsFor(c) = {}
    BY <1>1 DEF BeginCycle, StartCheckpointFails, ReadRules, EndCycle, Active
  <2>2. \A w \in Runs : Busy(w) => run[w].cycle # c
    BY <1>0, <2>1 DEF RunsFor, RunsInOrder
  <2>3. /\ \A d \in Cycles : d # c => cycle'[d] = cycle[d]
        /\ UNCHANGED run
        /\ troubles \subseteq troubles'
    <3>1. CASE BeginCycle(c)
      BY <1>0, <3>1 DEF BeginCycle, Trouble
    <3>2. CASE StartCheckpointFails(c)
      BY <1>0, <3>2 DEF StartCheckpointFails, Trouble
    <3>3. CASE ReadRules(c)
      BY <1>0, <3>3 DEF ReadRules
    <3>4. CASE EndCycle(c)
      BY <1>0, <3>4 DEF EndCycle
    <3> QED
      BY <1>1, <3>1, <3>2, <3>3, <3>4
  <2> QED
    BY <1>0, <2>2, <2>3 DEF RunsInOrder
<1>2. ASSUME NEW c \in Cycles, SkipRule(c) PROVE RunsInOrder'
  <2>1. /\ \A d \in Cycles : /\ cycle'[d].stage = cycle[d].stage
                             /\ cycle'[d].todo \subseteq cycle[d].todo
        /\ UNCHANGED <<run, troubles>>
    BY <1>0, <1>2 DEF SkipRule, CycleLocals
  <2> QED
    BY <1>0, <2>1 DEF RunsInOrder
<1>3. ASSUME NEW c \in Cycles, StartRule(c) PROVE RunsInOrder'
  <2>1. PICK r \in Rules, servants \in SUBSET Servants, w \in Runs :
           /\ NextUp(c, r) /\ ~ Busy(w)
           /\ run' = [run EXCEPT ![w] =
                [stage |-> "called", rule |-> r, seen |-> cycle[c].seen[r],
                 left |-> servants, about |-> NoServant, window |-> now, cycle |-> c,
                 process |-> ProcessOf[c]]]
           /\ cycle' = [cycle EXCEPT ![c].todo = @ \ {r}]
    BY <1>3 DEF StartRule, IdleRuns
  <2>2. /\ \A d \in Cycles : /\ cycle'[d].stage = cycle[d].stage
                             /\ cycle'[d].todo = cycle[d].todo \ (IF d = c THEN {r} ELSE {})
        /\ UNCHANGED troubles
    BY <1>0, <1>3, <2>1 DEF StartRule, CycleLocals
  <2>3. /\ run'[w].stage = "called" /\ run'[w].rule = r /\ run'[w].cycle = c
        /\ run'[w].process = ProcessOf[c]
        /\ \A v \in Runs : v # w => run'[v] = run[v]
    BY <1>0, <2>1
  <2>4. cycle[c].stage = "active" /\ \A v \in Runs : Busy(v) => run[v].cycle # c
    BY <2>1 DEF NextUp, RunsFor
  <2> QED
    BY <1>0, <2>2, <2>3, <2>4 DEF RunsInOrder
<1>4. ASSUME NEW c \in Cycles, Timeout(c) PROVE RunsInOrder'
  <2>1. PICK w \in Runs : run' = [run EXCEPT ![w] = [run[w] EXCEPT !.cycle = NoCycle]]
    BY <1>4 DEF Timeout, RunsFor
  <2>2. /\ run'[w].stage = run[w].stage /\ run'[w].cycle = NoCycle
        /\ \A v \in Runs : v # w => run'[v] = run[v]
    BY <1>0, <2>1, RunLeftBehind DEF RunLocals
  <2>3. "timeout" \in troubles' /\ UNCHANGED cycle
    BY <1>4 DEF Timeout
  <2> QED
    BY <1>0, <2>2, <2>3 DEF RunsInOrder
<1>5. ASSUME NEW w \in Runs, RunStep(w) PROVE RunsInOrder'
  <2>1. /\ Busy(w) /\ UNCHANGED cycle /\ troubles \subseteq troubles'
        /\ \A v \in Runs : v # w => run'[v] = run[v]
        /\ \/ ~ Busy(w)'
           \/ /\ run'[w].rule = run[w].rule /\ run'[w].cycle = run[w].cycle
              /\ run'[w].process = run[w].process
    BY <1>0, <1>5, RunStepEffect
  <2> QED
    BY <2>1 DEF RunsInOrder
<1>6. ASSUME NEW p \in Processes, Restart(p) PROVE RunsInOrder'
  <2>1. /\ \A w \in Runs : IF run[w].process = p THEN ~ Busy(w)' ELSE run'[w] = run[w]
        /\ \A c \in Cycles : ProcessOf[c] # p => cycle'[c] = cycle[c]
        /\ troubles \subseteq troubles'
    BY <1>0, <1>6 DEF Restart, Trouble
  <2> QED
    BY <1>0, <2>1 DEF RunsInOrder
<1>7. CASE Tick \/ UNCHANGED vars
  <2>1. UNCHANGED <<cycle, run, troubles>>
    BY <1>7 DEF Tick, vars
  <2> QED
    BY <2>1 DEF RunsInOrder
<1> QED
  BY <1>1, <1>2, <1>3, <1>4, <1>5, <1>6, <1>7 DEF Next, CycleStep

LEMMA OrderHolds == Spec => [](TypeOK /\ RunsOfRules /\ CyclesInOrder /\ RunsInOrder)
<1>1. Init => CyclesInOrder /\ RunsInOrder
  BY ConstantsAssumption
  DEF Init, CyclesInOrder, RunsInOrder, OverlapMeansACycle, Active, Busy, IdleCycle, IdleRun
<1> QED
  BY <1>1, CyclesStep, RunsStep, TypeInvHolds, PTL DEF Spec

LEMMA OneAtATime ==
  ASSUME TypeOK, CyclesInOrder, RunsInOrder
  PROVE  LoneRun
<1> SUFFICES ASSUME InOrder, NEW v \in Runs, NEW w \in Runs, Busy(v), Busy(w)
             PROVE  v = w
  BY DEF LoneRun
<1>1. /\ run[v].cycle \in Cycles /\ run[w].cycle \in Cycles
      /\ Active(run[v].cycle) /\ Active(run[w].cycle)
  BY DEF TypeOK, RunLocals, RunsInOrder, InOrder, Active
<1>2. run[v].cycle = run[w].cycle
  BY <1>1 DEF CyclesInOrder, InOrder
<1> QED
  BY <1>1, <1>2, ConstantsAssumption DEF RunsInOrder

\* ScheduledRunsDoNotOverlap: a process runs one cycle at a time and its flag says
\* so, and a rule is executed once at a time, outside the troubles it names.
THEOREM NoOverlap == Spec => []ScheduledRunsDoNotOverlap
<1>1. TypeOK /\ RunsOfRules /\ CyclesInOrder /\ RunsInOrder => ScheduledRunsDoNotOverlap
  <2> SUFFICES ASSUME TypeOK, RunsOfRules, CyclesInOrder, RunsInOrder
               PROVE  ScheduledRunsDoNotOverlap
    OBVIOUS
  <2>1. ASSUME InOrder, NEW v \in Runs, NEW w \in Runs, v # w, Busy(v)
        PROVE  run[v].rule # run[w].rule
    <3>1. ~ Busy(w)
      BY <2>1, OneAtATime DEF LoneRun
    <3> QED
      BY <2>1, <3>1, ConstantsAssumption DEF RunsOfRules, IdleRun
  <2> QED
    BY <2>1 DEF ScheduledRunsDoNotOverlap, CyclesInOrder, InOrder, Busy
<1> QED
  BY <1>1, OrderHolds, PTL

-----------------------------------------------------------------------------
(* What was read is still true, and what was done is accounted for.        *)

LEMMA NextServantFields ==
  ASSUME NEW local \in RunLocals
  PROVE  IF local.left = {} THEN NextServant(local) = IdleRun
         ELSE /\ NextServant(local).stage = "called"
              /\ NextServant(local).rule = local.rule
              /\ NextServant(local).about = NoServant
              /\ NextServant(local).window = now
<1> QED
  BY DEF NextServant, RunLocals

\* SkipRun and Stamp leave a run idle or called anew; a TIME rule's is idle.
LEMMA ServantDone ==
  ASSUME TypeOK, RunsDated, NEW w \in Runs, SkipRun(w) \/ Stamp(w)
  PROVE  /\ Busy(w)
         /\ \A v \in Runs : v # w => run'[v] = run[v]
         /\ \/ run'[w] = IdleRun
            \/ /\ run'[w].stage = "called" /\ run'[w].about = NoServant
               /\ run'[w].window = now /\ run'[w].rule = run[w].rule
               /\ TriggerOf[run[w].rule] # "TIME"
<1>0. run \in [Runs -> RunLocals] /\ run[w] \in RunLocals
  BY DEF TypeOK
<1>1. CASE Stamp(w)
  BY <1>0, <1>1, NextServantFields DEF Stamp, RunsDated, Busy
<1>2. CASE SkipRun(w)
  <2>1. PICK servant \in Pending(w) :
           run' = [run EXCEPT ![w] = NextServant(About(w, servant))]
    BY <1>2 DEF SkipRun
  <2>2. /\ About(w, servant) \in RunLocals
        /\ About(w, servant).rule = run[w].rule
        /\ About(w, servant).left = run[w].left \ {servant}
    BY <1>0, AboutType, AboutRule, PendingType
  <2>3. TriggerOf[run[w].rule] = "TIME" => About(w, servant).left = {}
    BY <1>2, <2>2 DEF SkipRun, RunsDated, Busy
  <2> QED
    BY <1>0, <1>2, <2>1, <2>2, <2>3, NextServantFields DEF SkipRun, Busy
<1> QED
  BY <1>1, <1>2

\* Act and Persist take a run that is called to its log entry and past it.
LEMMA RunAdvances ==
  ASSUME TypeOK, NEW w \in Runs, Act(w) \/ Persist(w)
  PROVE  /\ Busy(w)
         /\ \A v \in Runs : v # w => run'[v] = run[v]
         /\ \/ run'[w] = IdleRun
            \/ /\ run'[w].stage = IF Act(w) THEN "logging" ELSE "stamping"
               /\ run'[w].rule = run[w].rule /\ run'[w].window = run[w].window
               /\ run'[w].left \subseteq run[w].left
<1>0. run \in [Runs -> RunLocals] /\ run[w] \in RunLocals
  BY DEF TypeOK
<1>1. CASE Act(w)
  <2>1. PICK servant \in Pending(w) :
           run' = [run EXCEPT ![w] = [About(w, servant) EXCEPT !.stage = "logging"]]
    BY <1>1 DEF Act
  <2>2. /\ About(w, servant) \in RunLocals
        /\ About(w, servant).rule = run[w].rule
        /\ About(w, servant).window = run[w].window
        /\ About(w, servant).left \subseteq run[w].left
    BY <1>0, AboutType, AboutRule, PendingType
  <2>3. /\ run'[w].stage = "logging"
        /\ run'[w].rule = run[w].rule /\ run'[w].window = run[w].window
        /\ run'[w].left \subseteq run[w].left
    BY <1>0, <2>1, <2>2 DEF RunLocals
  <2> QED
    BY <1>0, <1>1, <2>1, <2>3 DEF Act, Busy
<1>2. CASE Persist(w)
  <2>1. ~ Act(w)
    BY <1>2 DEF Act, Persist
  <2>2. run' = [run EXCEPT ![w] = IdleRun]
        \/ run' = [run EXCEPT ![w] = [run[w] EXCEPT !.stage = "stamping"]]
    BY <1>2 DEF Persist
  <2> QED
    BY <1>0, <1>2, <2>1, <2>2 DEF Persist, Busy, RunLocals
<1> QED
  BY <1>1, <1>2

\* What StartRule does, by fields.
LEMMA RuleStarts ==
  ASSUME TypeOK, NEW c \in Cycles, StartRule(c)
  PROVE  \E r \in Rules, servants \in SUBSET Servants, w \in Runs :
            /\ NextUp(c, r) /\ ~ Busy(w)
            /\ TriggerOf[r] = "TIME" => Due(r, cycle[c].seen[r]) /\ servants = {}
            /\ run'[w].stage = "called" /\ run'[w].rule = r /\ run'[w].left = servants
            /\ run'[w].about = NoServant /\ run'[w].window = now
            /\ \A v \in Runs : v # w => run'[v] = run[v]
            /\ \A d \in Cycles : /\ cycle'[d].stage = cycle[d].stage
                                 /\ cycle'[d].seen = cycle[d].seen
                                 /\ cycle'[d].todo \subseteq cycle[d].todo
<1>0. run \in [Runs -> RunLocals] /\ cycle \in [Cycles -> CycleLocals]
  BY DEF TypeOK
<1>1. PICK r \in Rules, servants \in SUBSET Servants, w \in Runs :
         /\ NextUp(c, r) /\ ~ Busy(w)
         /\ TriggerOf[r] = "TIME" => Due(r, cycle[c].seen[r]) /\ servants = {}
         /\ run' = [run EXCEPT ![w] =
              [stage |-> "called", rule |-> r, seen |-> cycle[c].seen[r],
               left |-> servants, about |-> NoServant, window |-> now, cycle |-> c,
               process |-> ProcessOf[c]]]
         /\ cycle' = [cycle EXCEPT ![c].todo = @ \ {r}]
  BY DEF StartRule, IdleRuns, Busy
<1>2. /\ run'[w].stage = "called" /\ run'[w].rule = r /\ run'[w].left = servants
      /\ run'[w].about = NoServant /\ run'[w].window = now
      /\ \A v \in Runs : v # w => run'[v] = run[v]
  BY <1>0, <1>1
<1>3. \A d \in Cycles : /\ cycle'[d].stage = cycle[d].stage
                        /\ cycle'[d].seen = cycle[d].seen
                        /\ cycle'[d].todo \subseteq cycle[d].todo
  BY <1>0, <1>1 DEF CycleLocals
<1> QED
  BY <1>1, <1>2, <1>3

\* Every other step leaves each run as it is, takes it from its cycle, or ends it.
LEMMA RunStays ==
  ASSUME TypeOK, [Next]_vars,
         \A c \in Cycles : ~ StartRule(c),
         \A w \in Runs : ~ SkipRun(w) /\ ~ Act(w) /\ ~ Persist(w) /\ ~ Stamp(w)
  PROVE  /\ UNCHANGED <<lastRunAt, log, attempts>> /\ now <= now' /\ now' \in Nat
         /\ \A w \in Runs :
               \/ run'[w] = IdleRun
               \/ /\ run'[w].stage = run[w].stage /\ run'[w].rule = run[w].rule
                  /\ run'[w].window = run[w].window /\ run'[w].left = run[w].left
                  /\ run'[w].about = run[w].about
<1>0. run \in [Runs -> RunLocals] /\ now \in Nat
  BY ConstantsAssumption DEF TypeOK
<1>1. ASSUME NEW c \in Cycles,
             BeginCycle(c) \/ StartCheckpointFails(c) \/ ReadRules(c) \/ SkipRule(c)
             \/ EndCycle(c)
      PROVE  UNCHANGED <<run, lastRunAt, log, attempts, now>>
  BY <1>1 DEF BeginCycle, StartCheckpointFails, ReadRules, SkipRule, EndCycle
<1>2. ASSUME NEW c \in Cycles, Timeout(c)
      PROVE  /\ UNCHANGED <<lastRunAt, log, attempts, now>>
             /\ \A w \in Runs :
                   /\ run'[w].stage = run[w].stage /\ run'[w].rule = run[w].rule
                   /\ run'[w].window = run[w].window /\ run'[w].left = run[w].left
                   /\ run'[w].about = run[w].about
  <2>1. PICK w \in Runs : run' = [run EXCEPT ![w] = [run[w] EXCEPT !.cycle = NoCycle]]
    BY <1>2 DEF Timeout, RunsFor
  <2> QED
    BY <1>0, <1>2, <2>1 DEF Timeout, RunLocals
<1>3. ASSUME NEW w \in Runs, RunFails(w)
      PROVE  UNCHANGED <<lastRunAt, log, attempts, now>>
             /\ \A v \in Runs : run'[v] = IdleRun \/ run'[v] = run[v]
  BY <1>0, <1>3 DEF RunFails
<1>4. ASSUME NEW p \in Processes, Restart(p)
      PROVE  UNCHANGED <<lastRunAt, log, attempts, now>>
             /\ \A v \in Runs : run'[v] = IdleRun \/ run'[v] = run[v]
  BY <1>0, <1>4 DEF Restart
<1>5. CASE Tick \/ UNCHANGED vars
  BY <1>0, <1>5 DEF Tick, vars
<1> QED
  BY <1>0, <1>1, <1>2, <1>3, <1>4, <1>5 DEF Next, CycleStep, RunStep

LEMMA TroublesStay ==
  ASSUME [Next]_vars
  PROVE  troubles \subseteq troubles'
<1>1. ASSUME NEW c \in Cycles, BeginCycle(c) \/ CycleStep(c)
      PROVE  troubles \subseteq troubles'
  BY <1>1 DEF BeginCycle, CycleStep, StartCheckpointFails, ReadRules, SkipRule, StartRule,
              Timeout, EndCycle, Trouble
<1>2. ASSUME NEW w \in Runs, RunStep(w) PROVE troubles \subseteq troubles'
  BY <1>2 DEF RunStep, SkipRun, Act, Persist, Stamp, RunFails, Trouble
<1>3. ASSUME NEW p \in Processes, Restart(p) PROVE troubles \subseteq troubles'
  BY <1>3 DEF Restart, Trouble
<1>4. CASE Tick \/ UNCHANGED vars
  BY <1>4 DEF Tick, vars
<1> QED
  BY <1>1, <1>2, <1>3, <1>4 DEF Next

LEMMA RunsDatedStep ==
  ASSUME TypeOK, RunsDated, [Next]_vars
  PROVE  RunsDated'
<1>0. /\ run \in [Runs -> RunLocals] /\ now \in 1..MaxNow /\ MaxNow \in Nat
      /\ \A w \in Runs : run[w].window \in Nat
      /\ IdleRun.stage = "idle" /\ IdleRun.window = 0
  BY ConstantsAssumption DEF TypeOK, RunLocals, IdleRun
<1>1. CASE \E c \in Cycles : StartRule(c)
  BY <1>0, <1>1, RuleStarts DEF RunsDated, Busy, StartRule
<1>2. CASE \E w \in Runs : SkipRun(w) \/ Stamp(w)
  <2>1. now' = now
    BY <1>2 DEF SkipRun, Stamp
  <2> QED
    BY <1>0, <1>2, <2>1, ServantDone DEF RunsDated, Busy
<1>3. CASE \E w \in Runs : Act(w) \/ Persist(w)
  <2>1. now' = now
    BY <1>3 DEF Act, Persist
  <2> QED
    BY <1>0, <1>3, <2>1, RunAdvances DEF RunsDated, Busy
<1>4. CASE /\ \A c \in Cycles : ~ StartRule(c)
           /\ \A w \in Runs : ~ SkipRun(w) /\ ~ Act(w) /\ ~ Persist(w) /\ ~ Stamp(w)
  BY <1>0, <1>4, RunStays DEF RunsDated, Busy
<1> QED
  BY <1>1, <1>2, <1>3, <1>4

LEMMA ReadsStep ==
  ASSUME TypeOK, RunsOfRules, CyclesInOrder, RunsInOrder, RunsDated, ReadsStand,
         [Next]_vars
  PROVE  ReadsStand'
<1> SUFFICES ASSUME InOrder'
             PROVE  /\ \A c \in Cycles : cycle'[c].stage = "active" =>
                          \A r \in cycle'[c].todo : cycle'[c].seen[r] = lastRunAt'[r]
                    /\ \A w \in Runs :
                          run'[w].stage = "called" /\ TriggerOf[run'[w].rule] = "TIME" =>
                             LET r == run'[w].rule
                             IN  \/ lastRunAt'[r] = 0
                                 \/ run'[w].window - lastRunAt'[r] >= EveryOf[r]
  BY DEF ReadsStand
<1>0. /\ InOrder /\ LoneRun /\ IdleRun.stage = "idle"
      /\ run \in [Runs -> RunLocals] /\ cycle \in [Cycles -> CycleLocals]
      /\ lastRunAt \in [Rules -> 0..MaxNow]
  BY TroublesStay, OneAtATime DEF InOrder, IdleRun, TypeOK
<1>1. CASE \E c \in Cycles : StartRule(c)
  <2>1. PICK c \in Cycles : StartRule(c)
    BY <1>1
  <2>2. UNCHANGED lastRunAt
    BY <2>1 DEF StartRule
  <2>3. PICK r \in Rules, w \in Runs :
            /\ r \in cycle[c].todo /\ cycle[c].stage = "active"
            /\ TriggerOf[r] = "TIME" => Due(r, cycle[c].seen[r])
            /\ run'[w].rule = r /\ run'[w].window = now
            /\ \A v \in Runs : v # w => run'[v] = run[v]
            /\ \A d \in Cycles : /\ cycle'[d].stage = cycle[d].stage
                                 /\ cycle'[d].seen = cycle[d].seen
                                 /\ cycle'[d].todo \subseteq cycle[d].todo
    BY <2>1, RuleStarts DEF NextUp
  <2>4. cycle[c].seen[r] = lastRunAt[r]
    BY <1>0, <2>3 DEF ReadsStand
  <2> QED
    BY <1>0, <2>2, <2>3, <2>4 DEF ReadsStand, Due
<1>2. CASE \E w \in Runs : Stamp(w)
  <2>1. PICK w \in Runs : Stamp(w)
    BY <1>2
  <2>2. /\ lastRunAt' = [lastRunAt EXCEPT ![run[w].rule] = now]
        /\ UNCHANGED cycle /\ Busy(w)
    BY <2>1 DEF Stamp, Busy
  <2>3. ASSUME NEW c \in Cycles, cycle[c].stage = "active"
        PROVE  run[w].rule \notin cycle[c].todo
    <3>1. run[w].cycle \in Cycles /\ Active(run[w].cycle)
      BY <1>0, <2>2 DEF RunsInOrder, InOrder, RunLocals, Active
    <3>2. run[w].cycle = c
      BY <1>0, <2>3, <3>1 DEF CyclesInOrder, InOrder, Active
    <3> QED
      BY <2>2, <3>1, <3>2, ConstantsAssumption DEF RunsInOrder
  <2>4. ASSUME NEW c \in Cycles, cycle[c].stage = "active", NEW r \in cycle[c].todo
        PROVE  cycle[c].seen[r] = lastRunAt'[r]
    <3>1. r \in Rules /\ r # run[w].rule
      BY <1>0, <2>3, <2>4 DEF CycleLocals
    <3> QED
      BY <1>0, <2>2, <2>4, <3>1 DEF ReadsStand
  <2>5. ASSUME NEW v \in Runs, run'[v].stage = "called"
        PROVE  TriggerOf[run'[v].rule] # "TIME"
    BY <1>0, <2>1, <2>5, ServantDone DEF LoneRun, Busy
  <2> QED
    BY <2>2, <2>4, <2>5
<1>3. CASE \E w \in Runs : SkipRun(w)
  <2>1. UNCHANGED <<lastRunAt, cycle>>
    BY <1>3 DEF SkipRun
  <2> QED
    BY <1>0, <1>3, <2>1, ServantDone DEF ReadsStand
<1>4. CASE \E w \in Runs : Act(w) \/ Persist(w)
  <2>1. UNCHANGED <<lastRunAt, cycle>>
    BY <1>4 DEF Act, Persist
  <2> QED
    BY <1>0, <1>4, <2>1, RunAdvances DEF ReadsStand
<1>5. CASE /\ \A c \in Cycles : ~ StartRule(c)
           /\ \A w \in Runs : ~ SkipRun(w) /\ ~ Act(w) /\ ~ Persist(w) /\ ~ Stamp(w)
  <2>1. ASSUME NEW c \in Cycles, cycle'[c].stage = "active", NEW r \in cycle'[c].todo
        PROVE  \/ cycle'[c].seen[r] = lastRunAt[r]
               \/ /\ cycle[c].stage = "active" /\ r \in cycle[c].todo
                  /\ cycle'[c].seen = cycle[c].seen
    <3>1. ASSUME NEW d \in Cycles,
                 StartCheckpointFails(d) \/ EndCycle(d) \/ BeginCycle(d)
          PROVE  cycle'[c] = cycle[c]
      <4>1. CASE BeginCycle(d)
        BY <1>0, <2>1, <4>1 DEF BeginCycle, CycleLocals
      <4>2. CASE StartCheckpointFails(d)
        BY <1>0, <2>1, <4>2 DEF StartCheckpointFails, IdleCycle
      <4>3. CASE EndCycle(d)
        BY <1>0, <2>1, <4>3 DEF EndCycle, IdleCycle
      <4> QED
        BY <3>1, <4>1, <4>2, <4>3
    <3>2. ASSUME NEW d \in Cycles, ReadRules(d)
          PROVE  cycle'[c] = cycle[c] \/ cycle'[c].seen = lastRunAt
      BY <1>0, <3>2 DEF ReadRules
    <3>3. ASSUME NEW d \in Cycles, SkipRule(d)
          PROVE  /\ cycle[c].stage = cycle'[c].stage /\ cycle'[c].seen = cycle[c].seen
                 /\ cycle'[c].todo \subseteq cycle[c].todo
      BY <1>0, <3>3 DEF SkipRule, CycleLocals
    <3>4. ASSUME NEW d \in Cycles, Timeout(d) PROVE UNCHANGED cycle
      BY <3>4 DEF Timeout
    <3>5. ASSUME NEW w \in Runs, RunFails(w) PROVE UNCHANGED cycle
      BY <3>5 DEF RunFails
    <3>6. ASSUME NEW p \in Processes, Restart(p) PROVE cycle'[c] = cycle[c]
      BY <2>1, <3>6 DEF Restart, IdleCycle
    <3>7. CASE Tick \/ UNCHANGED vars
      BY <2>1, <3>7 DEF Tick, vars
    <3> QED
      BY <1>5, <2>1, <3>1, <3>2, <3>3, <3>4, <3>5, <3>6, <3>7
      DEF Next, CycleStep, RunStep
  <2>2. UNCHANGED lastRunAt
    BY <1>5, RunStays
  <2>3. \A c \in Cycles : cycle'[c].stage = "active" =>
           \A r \in cycle'[c].todo : cycle'[c].seen[r] = lastRunAt'[r]
    BY <1>0, <2>1, <2>2 DEF ReadsStand
  <2>4. \A w \in Runs :
           \/ run'[w].stage = "idle"
           \/ /\ run'[w].stage = run[w].stage /\ run'[w].rule = run[w].rule
              /\ run'[w].window = run[w].window
    BY <1>0, <1>5, RunStays
  <2> QED
    BY <1>0, <2>2, <2>3, <2>4 DEF ReadsStand
<1> QED
  BY <1>1, <1>2, <1>3, <1>4, <1>5

\* The inductive invariant of the scheduler.
IInv ==
    /\ TypeOK /\ RunsOfRules
    /\ CyclesInOrder /\ RunsInOrder
    /\ RunsDated /\ ReadsStand

LEMMA IInvHolds == Spec => []IInv
<1>1. Init => RunsDated /\ ReadsStand
  BY ConstantsAssumption
  DEF Init, RunsDated, ReadsStand, Busy, IdleRun, IdleCycle
<1>2. IInv /\ [Next]_vars => RunsDated' /\ ReadsStand'
  BY RunsDatedStep, ReadsStep DEF IInv
<1> QED
  BY <1>1, <1>2, OrderHolds, PTL DEF Spec, IInv

\* Spacing: a TIME rule is due by the lastRunAt the database has when it acts, not
\* only by the one its cycle has read.
THEOREM DueWhenItActs == Spec => Spacing
<1> DEFINE Spaced ==
      InOrder =>
         \A w \in Runs :
            run[w].stage = "called" /\ run'[w].stage = "logging"
            /\ TriggerOf[run[w].rule] = "TIME"
            => Due(run[w].rule, lastRunAt[run[w].rule])
<1>1. IInv => Spaced
  <2> SUFFICES ASSUME IInv, InOrder, NEW w \in Runs, run[w].stage = "called",
                      TriggerOf[run[w].rule] = "TIME"
               PROVE  Due(run[w].rule, lastRunAt[run[w].rule])
    OBVIOUS
  <2> DEFINE r == run[w].rule
  <2>1. lastRunAt[r] = 0 \/ run[w].window - lastRunAt[r] >= EveryOf[r]
    BY DEF IInv, ReadsStand
  <2>2. run[w].window <= now /\ r \in Rules
    BY DEF IInv, RunsDated, RunsOfRules, Busy
  <2>3. /\ now \in Nat /\ run[w].window \in Nat /\ lastRunAt[r] \in Nat
        /\ EveryOf[r] \in Nat
    BY <2>2, ConstantsAssumption DEF IInv, TypeOK, RunLocals
  <2> QED
    BY <2>1, <2>2, <2>3 DEF Due
<1>2. IInv => [Spaced]_vars
  BY <1>1
<1> QED
  BY <1>2, IInvHolds, PTL DEF Spacing, InOrder

-----------------------------------------------------------------------------
(* Once per key.                                                           *)

LEMMA UntroubledBefore ==
  ASSUME [Next]_vars, Untroubled'
  PROVE  Untroubled /\ InOrder
<1> QED
  BY TroublesStay DEF Untroubled, InOrder

LEMMA AccountedStep ==
  ASSUME IInv, Accounted, [Next]_vars
  PROVE  Accounted'
<1> SUFFICES ASSUME Untroubled', NEW k \in Keys
             PROVE  \/ attempts'[k] = 0
                    \/ /\ attempts'[k] = 1
                       /\ \/ k \in log'
                          \/ \E w \in Runs : run'[w].stage = "logging" /\ KeyOfRun(w)' = k
  BY DEF Accounted
<1>0. /\ Untroubled /\ InOrder /\ LoneRun /\ TypeOK
      /\ attempts \in [Keys -> 0..2] /\ run \in [Runs -> RunLocals]
  BY UntroubledBefore, OneAtATime DEF IInv, TypeOK
<1>1. \/ attempts[k] = 0
      \/ attempts[k] = 1 /\ k \in log
      \/ attempts[k] = 1 /\ \E w \in Runs : run[w].stage = "logging" /\ KeyOfRun(w) = k
  BY <1>0 DEF Accounted
<1>2. CASE \E c \in Cycles : StartRule(c)
  <2>1. UNCHANGED <<log, attempts>>
    BY <1>2 DEF StartRule
  <2>2. \A v \in Runs : run[v].stage = "logging" => run'[v] = run[v]
    BY <1>0, <1>2, RuleStarts DEF Busy
  <2>3. \A v \in Runs : run[v].stage = "logging" => KeyOfRun(v)' = KeyOfRun(v)
    BY <2>2 DEF KeyOfRun
  <2> QED
    BY <1>1, <2>1, <2>2, <2>3
<1>3. CASE \E w \in Runs : SkipRun(w) \/ Stamp(w)
  BY <1>0, <1>1, <1>3, OneAtATime, ServantDone DEF SkipRun, Stamp, LoneRun, Busy, KeyOfRun
<1>4. ASSUME NEW w \in Runs, Act(w)
      PROVE  \/ attempts'[k] = 0
             \/ /\ attempts'[k] = 1
                /\ \/ k \in log'
                   \/ run'[w].stage = "logging" /\ KeyOfRun(w)' = k
  <2>1. PICK servant \in Pending(w) :
           /\ ~ Logged(DedupeKey(About(w, servant).rule, servant, About(w, servant).window))
           /\ run' = [run EXCEPT ![w] = [About(w, servant) EXCEPT !.stage = "logging"]]
           /\ Attempted(DedupeKey(About(w, servant).rule, servant,
                                  About(w, servant).window))
    BY <1>4 DEF Act
  <2>2. /\ About(w, servant) \in RunLocals /\ About(w, servant).about = servant
    BY <1>0, AboutType, AboutRule, PendingType
  <2> DEFINE key == DedupeKey(About(w, servant).rule, servant, About(w, servant).window)
  <2>3. run'[w].stage = "logging" /\ KeyOfRun(w)' = key
    <3>1. /\ run'[w].stage = "logging" /\ run'[w].about = servant
          /\ run'[w].rule = About(w, servant).rule
          /\ run'[w].window = About(w, servant).window
      BY <1>0, <2>1, <2>2 DEF RunLocals
    <3> QED
      BY <3>1 DEF KeyOfRun
  <2>4. attempts' = [attempts EXCEPT ![key] = IF @ < 2 THEN @ + 1 ELSE 2] /\ key \notin log
    BY <1>0, <2>1 DEF Attempted, Logged
  <2>5. log' = log /\ \A v \in Runs : run[v].stage # "logging"
    BY <1>0, <1>4 DEF Act, LoneRun, Busy
  <2>6. CASE k = key
    <3>1. attempts[k] = 0
      BY <1>1, <2>4, <2>5, <2>6
    <3>2. attempts'[k] = 1
      BY <1>0, <2>4, <2>6, <3>1
    <3> QED
      BY <2>3, <2>6, <3>2
  <2>7. CASE k # key
    BY <1>0, <1>1, <2>4, <2>5, <2>7
  <2> QED
    BY <2>6, <2>7
<1>5. ASSUME NEW w \in Runs, Persist(w)
      PROVE  \/ attempts'[k] = 0
             \/ attempts'[k] = 1 /\ k \in log'
  <2>1. KeyOfRun(w) \in log' /\ log \subseteq log' /\ UNCHANGED attempts
        /\ run[w].stage = "logging"
    <3>1. KeyOfRun(w) \in log' /\ log \subseteq log'
      BY <1>5 DEF Persist, Logged
    <3> QED
      BY <1>5, <3>1 DEF Persist
  <2>2. \A v \in Runs : run[v].stage = "logging" => v = w
    BY <1>0, <2>1 DEF LoneRun, Busy
  <2> QED
    BY <1>1, <2>1, <2>2
<1>6. CASE /\ \A c \in Cycles : ~ StartRule(c)
           /\ \A w \in Runs : ~ SkipRun(w) /\ ~ Act(w) /\ ~ Persist(w) /\ ~ Stamp(w)
  <2>1. ASSUME NEW w \in Runs, run[w].stage = "logging"
        PROVE  run'[w].stage = "logging" /\ KeyOfRun(w)' = KeyOfRun(w)
    <3>1. ~ RunFails(w)
      BY <2>1 DEF RunFails, Trouble, Untroubled
    <3>2. \A p \in Processes : ~ Restart(p)
      BY DEF Restart, Trouble, Untroubled
    <3>3. run'[w] = run[w]
      <4>1. ASSUME NEW v \in Runs, RunFails(v) PROVE run'[w] = run[w]
        BY <1>0, <2>1, <3>1, <4>1 DEF RunFails
      <4>2. ASSUME NEW c \in Cycles PROVE ~ Timeout(c)
        BY DEF Timeout, Untroubled
      <4>3. ASSUME NEW c \in Cycles,
                   BeginCycle(c) \/ StartCheckpointFails(c) \/ ReadRules(c) \/ SkipRule(c)
                   \/ EndCycle(c)
            PROVE  run' = run
        BY <4>3 DEF BeginCycle, StartCheckpointFails, ReadRules, SkipRule, EndCycle
      <4>4. CASE Tick \/ UNCHANGED vars
        BY <4>4 DEF Tick, vars
      <4> QED
        BY <1>6, <3>2, <4>1, <4>2, <4>3, <4>4 DEF Next, CycleStep, RunStep
    <3> QED
      BY <2>1, <3>3 DEF KeyOfRun
  <2>2. UNCHANGED <<attempts, log>>
    BY <1>0, <1>6, RunStays
  <2> QED
    BY <1>1, <2>1, <2>2
<1> QED
  BY <1>2, <1>3, <1>4, <1>5, <1>6

\* ActedOnce: while nothing but checkpoints goes wrong, the actions of one dedupe
\* key are done once, though the log is asked before them and written after.
THEOREM OncePerKey == Spec => []ActedOnce
<1>1. Init => Accounted
  BY DEF Init, Accounted
<1>2. Accounted => ActedOnce
  BY DEF Accounted, ActedOnce
<1> QED
  BY <1>1, <1>2, AccountedStep, IInvHolds, PTL DEF Spec

LEMMA LogBehindStep ==
  ASSUME IInv, LogBehind, [Next]_vars, FittingStrategies
  PROVE  LogBehind'
<1> SUFFICES ASSUME Untroubled', NEW k \in log', TriggerOf[k.rule] = "TIME",
                    k.about = NoServant
             PROVE  /\ k.window \in 1..now'
                    /\ \/ k.window <= lastRunAt'[k.rule]
                       \/ \E w \in Runs : run'[w].stage = "stamping" /\ run'[w].rule = k.rule
  BY DEF LogBehind
<1>0. /\ Untroubled /\ InOrder /\ LoneRun /\ TypeOK /\ IdleRun.stage = "idle"
      /\ now \in 1..MaxNow /\ MaxNow \in Nat /\ log \subseteq Keys
      /\ lastRunAt \in [Rules -> 0..MaxNow] /\ run \in [Runs -> RunLocals]
  BY UntroubledBefore, OneAtATime, ConstantsAssumption DEF IInv, TypeOK, IdleRun
<1>1. k \in log => /\ k.window \in 1..now /\ k.rule \in Rules
                   /\ \/ k.window <= lastRunAt[k.rule]
                      \/ \E w \in Runs : run[w].stage = "stamping" /\ run[w].rule = k.rule
  BY <1>0 DEF LogBehind, Keys
<1>2. CASE \E c \in Cycles : StartRule(c)
  <2>1. UNCHANGED <<log, lastRunAt, now>>
    BY <1>2 DEF StartRule
  <2>2. \A v \in Runs : Busy(v) => run'[v] = run[v]
    BY <1>0, <1>2, RuleStarts
  <2> QED
    BY <1>1, <2>1, <2>2 DEF Busy
<1>3. CASE \E w \in Runs : SkipRun(w) \/ Act(w)
  <2>1. UNCHANGED <<log, lastRunAt, now>>
    BY <1>3 DEF SkipRun, Act
  <2>2. \A v \in Runs : run[v].stage # "stamping"
    BY <1>0, <1>3 DEF SkipRun, Act, LoneRun, Busy
  <2> QED
    BY <1>1, <2>1, <2>2
<1>4. ASSUME NEW w \in Runs, Persist(w)
      PROVE  /\ k.window \in 1..now'
             /\ \/ k.window <= lastRunAt'[k.rule]
                \/ run'[w].stage = "stamping" /\ run'[w].rule = k.rule
  <2>1. UNCHANGED <<lastRunAt, now>> /\ run[w].stage = "logging"
    BY <1>4 DEF Persist
  <2>2. \A v \in Runs : run[v].stage # "stamping"
    BY <1>0, <2>1 DEF LoneRun, Busy
  <2>3. CASE k \in log
    BY <1>1, <2>1, <2>2, <2>3
  <2>4. CASE k \notin log
    <3>1. k = KeyOfRun(w) /\ run' = [run EXCEPT ![w].stage = "stamping"]
      BY <1>4, <2>4 DEF Persist
    <3>2. run'[w].stage = "stamping" /\ run'[w].rule = run[w].rule
      BY <1>0, <3>1 DEF RunLocals
    <3>3. /\ run[w].rule \in Rules
          /\ run[w].window \in Nat /\ run[w].window # 0 /\ run[w].window <= now
      BY <1>0, <2>1 DEF IInv, RunsOfRules, RunsDated, Busy, RunLocals
    <3>4. k.rule = run[w].rule
      BY <3>1 DEF KeyOfRun, DedupeKey
    <3>5. k.window = run[w].window
      BY <3>1, <3>3, <3>4 DEF KeyOfRun, DedupeKey, FittingStrategies
    <3> QED
      BY <1>0, <2>1, <3>2, <3>3, <3>4, <3>5
  <2> QED
    BY <2>3, <2>4
<1>5. ASSUME NEW w \in Runs, Stamp(w)
      PROVE  k.window \in 1..now' /\ k.window <= lastRunAt'[k.rule]
  <2>1. /\ UNCHANGED <<log, now>> /\ run[w].stage = "stamping"
        /\ lastRunAt' = [lastRunAt EXCEPT ![run[w].rule] = now]
    BY <1>5 DEF Stamp
  <2>2. \A v \in Runs : run[v].stage = "stamping" => v = w
    BY <1>0, <2>1 DEF LoneRun, Busy
  <2>3. k.rule # run[w].rule => k.window <= lastRunAt[k.rule]
    BY <1>1, <2>1, <2>2
  <2> QED
    BY <1>0, <1>1, <2>1, <2>3
<1>6. CASE /\ \A c \in Cycles : ~ StartRule(c)
           /\ \A w \in Runs : ~ SkipRun(w) /\ ~ Act(w) /\ ~ Persist(w) /\ ~ Stamp(w)
  <2>1. ASSUME NEW w \in Runs, run[w].stage = "stamping"
        PROVE  run'[w] = run[w]
    <3>1. ASSUME NEW v \in Runs, RunFails(v) PROVE run'[w] = run[w]
      <4>1. v # w
        BY <2>1, <3>1 DEF RunFails, Trouble, Untroubled
      <4> QED
        BY <1>0, <3>1, <4>1 DEF RunFails
    <3>2. \A p \in Processes : ~ Restart(p)
      BY DEF Restart, Trouble, Untroubled
    <3>3. \A c \in Cycles : ~ Timeout(c)
      BY DEF Timeout, Untroubled
    <3>4. ASSUME NEW c \in Cycles,
                 BeginCycle(c) \/ StartCheckpointFails(c) \/ ReadRules(c) \/ SkipRule(c)
                 \/ EndCycle(c)
          PROVE  run' = run
      BY <3>4 DEF BeginCycle, StartCheckpointFails, ReadRules, SkipRule, EndCycle
    <3>5. CASE Tick \/ UNCHANGED vars
      BY <3>5 DEF Tick, vars
    <3> QED
      BY <1>6, <3>1, <3>2, <3>3, <3>4, <3>5 DEF Next, CycleStep, RunStep
  <2>2. UNCHANGED <<log, lastRunAt>> /\ now <= now' /\ now' \in Nat
    BY <1>0, <1>6, RunStays
  <2> QED
    BY <1>0, <1>1, <2>1, <2>2
<1> QED
  BY <1>2, <1>3, <1>4, <1>5, <1>6

\* DueRuleIsNoRepeat: with a dedupe strategy that has a window, the key of a TIME
\* rule that is due is not in the log: no due run is dropped as a repetition.
THEOREM DueRunsAreKept ==
  ASSUME FittingStrategies
  PROVE  Spec => []DueRuleIsNoRepeat
<1>1. Init => LogBehind
  BY DEF Init, LogBehind
<1>2. IInv /\ LogBehind /\ [Next]_vars => LogBehind'
  BY LogBehindStep
<1>3. IInv /\ LogBehind => DueRuleIsNoRepeat
  <2> SUFFICES ASSUME IInv, LogBehind, Untroubled, NEW w \in Runs,
                      run[w].stage = "called", TriggerOf[run[w].rule] = "TIME",
                      KeyOfRun(w) \in log
               PROVE  FALSE
    BY DEF DueRuleIsNoRepeat, Logged
  <2> DEFINE r == run[w].rule
  <2>1. /\ r \in Rules /\ run[w].about = NoServant /\ run[w].window \in Nat
        /\ lastRunAt[r] \in Nat /\ EveryOf[r] \in Nat \ {0}
    BY ConstantsAssumption
    DEF IInv, TypeOK, RunsOfRules, RunsDated, Busy, RunLocals
  <2>2. KeyOfRun(w) = [rule |-> r, about |-> NoServant, window |-> run[w].window]
    BY <2>1 DEF KeyOfRun, DedupeKey, FittingStrategies
  <2>3. InOrder /\ \A v \in Runs : run[v].stage # "stamping"
    BY OneAtATime DEF IInv, Untroubled, InOrder, LoneRun, Busy
  <2>4. run[w].window \in 1..now /\ run[w].window <= lastRunAt[r]
    BY <2>2, <2>3 DEF LogBehind
  <2>5. lastRunAt[r] = 0 \/ run[w].window - lastRunAt[r] >= EveryOf[r]
    BY <2>3 DEF IInv, ReadsStand
  <2> QED
    BY <2>1, <2>4, <2>5
<1> QED
  BY <1>1, <1>2, <1>3, IInvHolds, PTL DEF Spec
=============================================================================
