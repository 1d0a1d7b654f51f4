------------------------- MODULE AutomationScheduler -------------------------
(***************************************************************************)
(* The automation rules (modules/automation-rules) of the scheduler: its   *)
(* cycle, AutomationsSchedulerService.runOnce, and the execution of a TIME *)
(* or THRESHOLD rule, AutomationsEngineService.executeRule.                *)
(*                                                                         *)
(* A cycle runs inside the scheduler lock of its scope (ExclusiveSection,  *)
(* what SchedulerLock provides), is refused when its process is already    *)
(* running one, and takes the rules one after the other, each for at most  *)
(* the timeout.  A rule that times out is not stopped: its run goes on     *)
(* beside the next rules and the next cycles.  What keeps a run from being *)
(* repeated is the execution log: it is looked up before the actions and   *)
(* written after them.                                                     *)
(*                                                                         *)
(* Time is counted in the windows of the dedupe keys (an hour, a day or a  *)
(* week, by rule).                                                         *)
(***************************************************************************)
EXTENDS Naturals, Sequences, FiniteSets, Functions

CONSTANTS
    Processes,      \* processes of the backend
    Cycles,         \* calls of runOnce, by the timer or by the admin endpoint
    ProcessOf,      \* [Cycles -> Processes]
    ScopeOf,        \* [Cycles -> scopes], 'global' or a church
    RuleOrder,      \* the rules by createdAt, all of one church
    TriggerOf,      \* [rule -> AutomationTriggerType]
    StrategyOf,     \* [rule -> AutomationDedupeStrategy]
    EveryOf,        \* [rule -> windows between two runs of a TIME rule], one or more
    CooldownOf,     \* [rule -> windows of cooldown, 0 for none]
    Conditional,    \* rules with a conditionConfig
    Servants,       \* servants a THRESHOLD rule may be about
    Runs,           \* bound: runs of executeRule under way, abandoned included
    MaxNow,         \* bound: windows that pass
    MaxTroubles,    \* bound: kinds of trouble, timeouts apart, in a behaviour
    NoServant, NoCycle, NoRule, NoProcess

Rules == Range(RuleOrder)

ASSUME ConstantsAssumption ==
    /\ ProcessOf \in [Cycles -> Processes]
    /\ TriggerOf \in [Rules -> {"TIME", "THRESHOLD"}]
    /\ StrategyOf \in [Rules -> {"BY_EVENT", "BY_ENTITY_WINDOW", "CUSTOM"}]
    /\ EveryOf \in [Rules -> Nat \ {0}]
    /\ CooldownOf \in [Rules -> Nat]
    /\ Conditional \subseteq Rules
    /\ RuleOrder \in Seq(Rules)
    /\ MaxNow \in Nat \ {0} /\ MaxTroubles \in Nat
    /\ NoServant \notin Servants /\ NoCycle \notin Cycles /\ NoRule \notin Rules

VARIABLES
    now,        \* the current window, from 1
    enabled,    \* the rules with AutomationRule.enabled, set when they are made
    inside,     \* the scheduler lock: cycles that hold their scope's
    running,    \* per process: AutomationsSchedulerService.running
    cycle,      \* the local variables of every cycle
    run,        \* the local variables of every run
    lastRunAt,  \* AutomationRule.lastRunAt, 0 for never
    log,        \* AutomationExecutionLog: the dedupe keys of the runs that acted
    attempts,   \* history: how often a key's actions were done (2 for more)
                \* before anything went wrong
    troubles    \* history: what has gone wrong so far

vars == <<now, enabled, inside, running, cycle, run, lastRunAt, log, attempts, troubles>>

Lock == INSTANCE ExclusiveSection WITH Callers <- Cycles, KeyOf <- ScopeOf

-----------------------------------------------------------------------------
(* buildAutomationDedupeKey: of the three strategies only two put a window  *)
(* into the key.                                                            *)

Keys == [rule : Rules, about : Servants \cup {NoServant}, window : 0..MaxNow]

\* Seeded fault: no strategy puts a window into the key.
DedupeKey_NoWindow(rule, servant, window) ==
    [rule |-> rule, about |-> servant, window |-> 0]

DedupeKey(rule, servant, window) ==
    [rule |-> rule, about |-> servant,
     window |-> IF StrategyOf[rule] = "BY_EVENT" THEN 0 ELSE window]

IdleCycle == [stage |-> "idle", todo |-> {}, seen |-> [r \in Rules |-> 0]]

IdleRun ==
    [stage |-> "idle", rule |-> NoRule, seen |-> 0, left |-> {}, about |-> NoServant,
     window |-> 0, cycle |-> NoCycle, process |-> NoProcess]

CycleLocals ==
    [stage : {"idle", "starting", "active"}, todo : SUBSET Rules,
     seen : [Rules -> 0..MaxNow]]

RunLocals ==
    [stage : {"idle", "called", "logging", "stamping"}, rule : Rules \cup {NoRule},
     seen : 0..MaxNow, left : SUBSET Servants, about : Servants \cup {NoServant},
     window : 0..MaxNow, cycle : Cycles \cup {NoCycle},
     process : Processes \cup {NoProcess}]

TypeOK ==
    /\ now \in 1..MaxNow
    /\ enabled \subseteq Rules
    /\ inside \subseteq Cycles
    /\ running \in [Processes -> BOOLEAN]
    /\ cycle \in [Cycles -> CycleLocals]
    /\ run \in [Runs -> RunLocals]
    /\ lastRunAt \in [Rules -> 0..MaxNow]
    /\ log \subseteq Keys
    /\ attempts \in [Keys -> 0..2]
    /\ troubles \subseteq {"checkpoint", "timeout", "scopes", "write", "crash"}

Init ==
    /\ now = 1
    /\ enabled \in (SUBSET Rules) \ {{}}
    /\ inside = {}
    /\ running = [p \in Processes |-> FALSE]
    /\ cycle = [c \in Cycles |-> IdleCycle]
    /\ run = [w \in Runs |-> IdleRun]
    /\ lastRunAt = [r \in Rules |-> 0]
    /\ log = {}
    /\ attempts = [k \in Keys |-> 0]
    /\ troubles = {}

Trouble(kind) ==
    /\ Cardinality(troubles \cup {kind}) <= MaxTroubles
    /\ troubles' = troubles \cup {kind}

-----------------------------------------------------------------------------
(* The cycle.                                                              *)

Active(c) == cycle[c].stage # "idle"
IdleRuns == {w \in Runs : run[w].stage = "idle"}
RunsFor(c) == {w \in Runs : run[w].stage # "idle" /\ run[w].cycle = c}

\* The bound Runs must not be what stops a cycle that has begun.
RunsOwed(c) ==
    CASE cycle[c].stage = "idle" -> 0
      [] cycle[c].stage = "starting" -> Cardinality(enabled)
      [] cycle[c].stage = "active" -> Cardinality(cycle[c].todo)

Room ==
    LET owed == UNION {{c} \X (1..RunsOwed(c)) : c \in Cycles}
    IN  Cardinality(IdleRuns) >= Cardinality(enabled) + Cardinality(owed)

\* Seeded fault: the process does not look at its flag.
BeginCycle_NoGuard(c) ==
    /\ ~ Active(c)
    /\ Lock!Enter(c)
    /\ Room
    /\ running' = [running EXCEPT ![ProcessOf[c]] = TRUE]
    /\ cycle' = [cycle EXCEPT ![c].stage = "starting"]
    /\ IF \E d \in Cycles : ProcessOf[d] # ProcessOf[c] /\ Active(d)
       THEN Trouble("scopes") ELSE UNCHANGED troubles
    /\ UNCHANGED <<now, enabled, run, lastRunAt, log, attempts>>

\* runOnce up to the first await after `running = true`.  (A cycle that does
\* not get the lock, or finds the flag up, changes nothing.)
BeginCycle(c) ==
    /\ ~ Active(c)
    /\ Lock!Enter(c)
    /\ ~ running[ProcessOf[c]]
    /\ Room
    /\ running' = [running EXCEPT ![ProcessOf[c]] = TRUE]
    /\ cycle' = [cycle EXCEPT ![c].stage = "starting"]
    /\ IF \E d \in Cycles : Active(d) THEN Trouble("scopes") ELSE UNCHANGED troubles
    /\ UNCHANGED <<now, enabled, run, lastRunAt, log, attempts>>

\* checkpoint.markStarted throws: it is awaited before the try, so `finally`
\* does not lower the flag; withLock does give back the lock.
StartCheckpointFails(c) ==
    /\ cycle[c].stage = "starting"
    /\ cycle' = [cycle EXCEPT ![c] = IdleCycle]
    /\ Lock!Leave({c})
    /\ Trouble("checkpoint")
    /\ UNCHANGED <<now, enabled, running, run, lastRunAt, log, attempts>>

\* Seeded fault: lastRunAt is left out of what is read.
ReadRules_WithoutLastRunAt(c) ==
    /\ cycle[c].stage = "starting"
    /\ cycle' = [cycle EXCEPT ![c] = [stage |-> "active", todo |-> enabled,
                                      seen |-> [r \in Rules |-> 0]]]
    /\ UNCHANGED <<now, enabled, inside, running, run, lastRunAt, log, attempts, troubles>>

\* The rules are read once, with their lastRunAt.
ReadRules(c) ==
    /\ cycle[c].stage = "starting"
    /\ cycle' = [cycle EXCEPT ![c] = [stage |-> "active", todo |-> enabled,
                                      seen |-> lastRunAt]]
    /\ UNCHANGED <<now, enabled, inside, running, run, lastRunAt, log, attempts, troubles>>

\* shouldRunTimeRule
Due(r, seen) == seen = 0 \/ now - seen >= EveryOf[r]
\* shouldSkipByCooldown
CoolingDown(r, seen) == seen # 0 /\ CooldownOf[r] # 0 /\ now - seen < CooldownOf[r]

\* findMany's orderBy: the loop has come to the first of the rules left.
NextUp(c, r) ==
    /\ cycle[c].stage = "active" /\ RunsFor(c) = {}
    /\ r \in cycle[c].todo
    /\ \E i \in 1..Len(RuleOrder) :
          /\ RuleOrder[i] = r
          /\ \A j \in 1..(i - 1) : RuleOrder[j] \notin cycle[c].todo

\* A TIME rule that is not due, a THRESHOLD rule that concerns nobody.
SkipRule(c) ==
    /\ \E r \in Rules :
          /\ NextUp(c, r)
          /\ TriggerOf[r] = "TIME" => ~ Due(r, cycle[c].seen[r])
          /\ cycle' = [cycle EXCEPT ![c].todo = @ \ {r}]
    /\ UNCHANGED <<now, enabled, inside, running, run, lastRunAt, log, attempts, troubles>>

\* handleTimeRule, or handleThresholdRule with the servants it found over the
\* threshold, up to the first await of executeRule.  (Room sees to it that there
\* is an idle run; which of them is taken makes no difference.)
StartRule(c) ==
    /\ IdleRuns # {}
    /\ \E r \in Rules, servants \in SUBSET Servants :
          LET seen == cycle[c].seen[r]
              w == CHOOSE v \in IdleRuns : TRUE
          IN
          /\ NextUp(c, r)
          /\ TriggerOf[r] = "TIME" => Due(r, seen)
          /\ (TriggerOf[r] = "TIME") <=> (servants = {})
          /\ run' = [run EXCEPT ![w] =
                [stage |-> "called", rule |-> r, seen |-> seen, left |-> servants,
                 about |-> NoServant, window |-> now, cycle |-> c,
                 process |-> ProcessOf[c]]]
          /\ cycle' = [cycle EXCEPT ![c].todo = @ \ {r}]
    /\ UNCHANGED <<now, enabled, inside, running, lastRunAt, log, attempts, troubles>>

\* Seeded fault: the rule is awaited without withTimeout.
Timeout_Never(c) == FALSE /\ UNCHANGED vars

\* withTimeout gives up on the run; the run does not know.
Timeout(c) ==
    /\ \E w \in RunsFor(c) : run' = [run EXCEPT ![w].cycle = NoCycle]
    /\ troubles' = troubles \cup {"timeout"}
    /\ UNCHANGED <<now, enabled, inside, running, cycle, lastRunAt, log, attempts>>

\* The end of the try, or its catch because the rules could not be read:
\* `finally` lowers the flag either way, whatever becomes of the checkpoint.
EndCycle(c) ==
    /\ \/ cycle[c].stage = "starting"
       \/ cycle[c].stage = "active" /\ RunsFor(c) = {} /\ cycle[c].todo = {}
    /\ cycle' = [cycle EXCEPT ![c] = IdleCycle]
    /\ running' = [running EXCEPT ![ProcessOf[c]] = FALSE]
    /\ Lock!Leave({c})
    /\ UNCHANGED <<now, enabled, run, lastRunAt, log, attempts, troubles>>

-----------------------------------------------------------------------------
(* executeRule.                                                            *)

Logged(key) == key \in log
KeyOfRun(w) == DedupeKey(run[w].rule, run[w].about, run[w].window)

\* What executeRule is called for next: the rule itself, or one of its servants.
Pending(w) == IF TriggerOf[run[w].rule] = "TIME" THEN {NoServant} ELSE run[w].left

About(w, servant) == [run[w] EXCEPT !.about = servant, !.left = @ \ {servant}]

\* One servant is done, the rule goes on with the others.
NextServant(local) ==
    IF local.left = {} THEN IdleRun
    ELSE [local EXCEPT !.stage = "called", !.about = NoServant, !.window = now]

\* evaluateRuleConditions: a rule without a tree of conditions passes.  What the
\* leaves of a tree ask (fields, counts, scores, open cases and follow-ups, the
\* scope of an actor) is left open: a rule with one passes or not.
MayBeRefused(rule) == rule \in Conditional

\* Cooling down, a condition that is false, a key in the log (whether that run
\* failed or not): the entry such a run leaves has a key of its own.
SkipRun(w) ==
    /\ run[w].stage = "called"
    /\ \E servant \in Pending(w) :
          LET local == About(w, servant) IN
          /\ \/ CoolingDown(local.rule, local.seen)
             \/ MayBeRefused(local.rule)
             \/ Logged(DedupeKey(local.rule, servant, local.window))
          /\ run' = [run EXCEPT ![w] = NextServant(local)]
    /\ UNCHANGED <<now, enabled, inside, running, cycle, lastRunAt, log, attempts, troubles>>

Untroubled == troubles \subseteq {"checkpoint"}

Attempted(key) ==
    IF Untroubled
    THEN attempts' = [attempts EXCEPT ![key] = IF @ < 2 THEN @ + 1 ELSE 2]
    ELSE UNCHANGED attempts

\* Seeded fault: the log is not asked.
Act_NoDedupe(w) ==
    /\ run[w].stage = "called"
    /\ \E servant \in Pending(w) :
          LET local == About(w, servant) IN
          /\ run' = [run EXCEPT ![w] = [local EXCEPT !.stage = "logging"]]
          /\ Attempted(DedupeKey(local.rule, servant, local.window))
    /\ UNCHANGED <<now, enabled, inside, running, cycle, lastRunAt, log, troubles>>

\* The key is looked up and the actions are done; their failures are caught.
Act(w) ==
    /\ run[w].stage = "called"
    /\ ~ CoolingDown(run[w].rule, run[w].seen)
    /\ \E servant \in Pending(w) :
          LET local == About(w, servant)
              key == DedupeKey(local.rule, servant, local.window)
          IN
          /\ ~ Logged(key)
          /\ run' = [run EXCEPT ![w] = [local EXCEPT !.stage = "logging"]]
          /\ Attempted(key)
    /\ UNCHANGED <<now, enabled, inside, running, cycle, lastRunAt, log, troubles>>

\* persistExecutionLog: (churchId, dedupeKey) is unique, so a run whose key was
\* logged meanwhile throws here, after its actions, and drops its other servants.
Persist(w) ==
    /\ run[w].stage = "logging"
    /\ IF Logged(KeyOfRun(w))
       THEN run' = [run EXCEPT ![w] = IdleRun] /\ UNCHANGED log
       ELSE /\ log' = log \cup {KeyOfRun(w)}
            /\ run' = [run EXCEPT ![w].stage = "stamping"]
    /\ UNCHANGED <<now, enabled, inside, running, cycle, lastRunAt, attempts, troubles>>

\* Seeded fault: the next run is stored, not the last.
Stamp_NextRun(w) ==
    /\ run[w].stage = "stamping"
    /\ lastRunAt' = [lastRunAt EXCEPT ![run[w].rule] = now + EveryOf[run[w].rule]]
    /\ run' = [run EXCEPT ![w] = NextServant(run[w])]
    /\ UNCHANGED <<now, enabled, inside, running, cycle, log, attempts, troubles>>

Stamp(w) ==
    /\ run[w].stage = "stamping"
    /\ lastRunAt' = [lastRunAt EXCEPT ![run[w].rule] = now]
    /\ run' = [run EXCEPT ![w] = NextServant(run[w])]
    /\ UNCHANGED <<now, enabled, inside, running, cycle, log, attempts, troubles>>

\* A query throws: before the actions, or after them, when they leave no trace
\* in the log or none in lastRunAt.
RunFails(w) ==
    /\ run[w].stage # "idle"
    /\ run' = [run EXCEPT ![w] = IdleRun]
    /\ IF run[w].stage = "called" THEN UNCHANGED troubles ELSE Trouble("write")
    /\ UNCHANGED <<now, enabled, inside, running, cycle, lastRunAt, log, attempts>>

-----------------------------------------------------------------------------
(* The environment.                                                        *)

Tick ==
    /\ now < MaxNow
    /\ now' = now + 1
    /\ UNCHANGED <<enabled, inside, running, cycle, run, lastRunAt, log, attempts, troubles>>

\* A process dies and starts again.
Restart(p) ==
    /\ Trouble("crash")
    /\ running' = [running EXCEPT ![p] = FALSE]
    /\ cycle' = [c \in Cycles |-> IF ProcessOf[c] = p THEN IdleCycle ELSE cycle[c]]
    /\ run' = [w \in Runs |-> IF run[w].process = p THEN IdleRun ELSE run[w]]
    /\ Lock!Leave({c \in Cycles : ProcessOf[c] = p})
    /\ UNCHANGED <<now, enabled, lastRunAt, log, attempts>>

CycleStep(c) ==
    \/ StartCheckpointFails(c)
    \/ ReadRules(c)
    \/ SkipRule(c)
    \/ StartRule(c)
    \/ Timeout(c)
    \/ EndCycle(c)

RunStep(w) ==
    \/ SkipRun(w)
    \/ Act(w)
    \/ Persist(w)
    \/ Stamp(w)
    \/ RunFails(w)

Next ==
    \/ \E c \in Cycles : BeginCycle(c) \/ CycleStep(c)
    \/ \E w \in Runs : RunStep(w)
    \/ \E p \in Processes : Restart(p)
    \/ Tick

Spec == Init /\ [][Next]_vars

\* The cycle's own awaits settle and its timeout fires.  Nothing is assumed
\* of the actions of a rule, which may hang.
FairSpec == Spec /\ \A c \in Cycles : WF_vars(CycleStep(c))

-----------------------------------------------------------------------------
(* Properties                                                              *)

\* The flag that makes a process skip its cycles for "overlap" is up only
\* while one of its cycles runs.
OverlapMeansACycle ==
    \A p \in Processes : running[p] => \E c \in Cycles : ProcessOf[c] = p /\ Active(c)

\* ... as long as no cycle has failed to write its first checkpoint.  The flag
\* does keep a second cycle, of another scope, out of the process.  What takes a
\* scheduled run out of the one-at-a-time order: a timeout leaves it behind, and
\* cycles of two scopes, in two processes, take the same rules.  Without them no
\* rule is executed twice at the same time.
ScheduledRunsDoNotOverlap ==
    /\ "checkpoint" \in troubles \/ OverlapMeansACycle
    /\ \A c, d \in Cycles :
          c # d /\ ProcessOf[c] = ProcessOf[d] => ~ (Active(c) /\ Active(d))
    /\ {"timeout", "scopes"} \cap troubles = {} =>
          \A v, w \in Runs :
             v # w /\ run[v].stage # "idle" => run[v].rule # run[w].rule

\* The actions of one dedupe key are done once, unless runs
\* overlapped or the log entry of a finished run was lost.
ActedOnce ==
    Untroubled => \A k \in Keys : attempts[k] <= 1

\* A TIME rule acts no sooner than its interval after it last ran, though the
\* scheduler decides by the lastRunAt it read when the cycle began.
Spacing ==
    [][{"timeout", "scopes"} \cap troubles = {} =>
          \A w \in Runs :
             run[w].stage = "called" /\ run'[w].stage = "logging"
             /\ TriggerOf[run[w].rule] = "TIME"
             => Due(run[w].rule, lastRunAt[run[w].rule])]_vars

\* A TIME rule whose interval has passed is not taken for a repetition of the
\* run before: its run finds no entry under its key.
DueRuleIsNoRepeat ==
    Untroubled =>
       \A w \in Runs :
          run[w].stage = "called" /\ TriggerOf[run[w].rule] = "TIME"
             => ~ Logged(KeyOfRun(w))

\* A cycle comes to an end, though a rule hang for ever: the flag comes down,
\* unless the first checkpoint of a cycle could not be written.
CyclesEnd ==
    \A p \in Processes :
       running[p] ~> (~ running[p] \/ "checkpoint" \in troubles)
=============================================================================
