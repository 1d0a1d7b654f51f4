------------------------------- MODULE Journey -------------------------------
(***************************************************************************)
(* The journey of one servant (modules/journey): what the projector makes  *)
(* of a registered attendance and of the servant's other deeds, what a     *)
(* refresh rebuilds from the attendances, and the daily reconciliation     *)
(* that repairs it.                                                        *)
(*                                                                         *)
(* A check-in (modules/attendances) writes the attendance, counts the      *)
(* servant's absences anew and emits an event, whose handler runs in the   *)
(* same request.  The handler asks the checkpoint whether this event was   *)
(* the last one, appends to the log unless the log has the event, and      *)
(* refreshes the projection: totals, milestones, indicators, next steps.   *)
(* Readers and the reconciliation refresh the same rows.  There is no      *)
(* transaction: every query is a step of its own, and what keeps two       *)
(* requests apart is at most a unique key, which makes the second one      *)
(* throw.                                                                  *)
(*                                                                         *)
(* A request carries the tasks it has still to do.                         *)
(***************************************************************************)
EXTENDS Naturals, Sequences, FiniteSets

CONSTANTS
    Services,       \* services the servant has an attendance for, at most one
    HeldOn,         \* [Services -> day of the month], not two on one day
    Deeds,          \* references of the other events that are projected: a slot
                    \* taken over or filled, help given or received, a training, a
                    \* task or a checklist that is complete
    TaskDeeds,      \* the last two kinds, whose handlers look for the servant
    Requests,       \* requests and jobs in flight at the same time
    Milestones,     \* codes of the catalog
    Needed,         \* [Milestones -> presences that unlock it]
    StepTypes,      \* types of the catalog of next steps
    Below,          \* [StepTypes -> score under which the step is advised]
    MaxCalls,       \* bound on the calls made in a behaviour
    MaxFailures,    \* bound on the queries that throw in a behaviour
    MaxEvents,      \* bound on the two together
    NoJourney, NoService, NoMilestone

ASSUME ConstantsAssumption ==
    /\ IsFiniteSet(Services)
    /\ HeldOn \in [Services -> Nat]
    /\ \A s, t \in Services : HeldOn[s] = HeldOn[t] => s = t
    /\ (Services \cup Deeds) \cap Milestones = {} /\ Services \cap Deeds = {}
    /\ TaskDeeds \subseteq Deeds
    /\ Needed \in [Milestones -> Nat]
    /\ Below \in [StepTypes -> Nat]
    /\ MaxCalls \in Nat /\ MaxFailures \in Nat /\ MaxEvents \in Nat
    /\ NoService \notin Services \cup Deeds
    /\ NoMilestone \notin Milestones /\ NoJourney \notin Nat

VARIABLES
    attendance,     \* the Attendance rows of the servant
    absences,       \* Servant.monthlyAbsences and Servant.consecutiveAbsences
    journey,        \* ServantJourney.totalServices
    logs,           \* how many JourneyLog rows have a referenceId (2 for more)
    milestones,     \* ServantMilestone, unique per milestone
    score,          \* JourneyIndicatorSnapshot.constancyScore
    steps,          \* JourneyNextStep: per type the statuses of its rows, in the
                    \* order they were made
    checkpoints,    \* JourneyProjectionCheckpoint: lastProcessedEventKey of the
                    \* rows of the servant; no unique key keeps them to one
    req,            \* the local variables of every request
    calls,          \* how many calls have been made
    failures,       \* how many queries have thrown
    registered,     \* history: references an event of the servant was emitted for
    spoiled,        \* history: what excuses a wrong row: two handlers of one event
                    \* in flight together, an attendance written while the absences
                    \* were counted, and the unique keys that refused a write
    alone,          \* history: the keys that refused a write of a request which
                    \* no other had overlapped
    fresh           \* history: has a refresh ended that began after the last
                    \* change and overlapped nothing?

tables == <<attendance, absences, journey, logs, milestones, score, steps, checkpoints>>
history == <<registered, spoiled, alone, fresh>>
bounds == <<calls, failures>>
vars == <<tables, req, bounds, history>>

-----------------------------------------------------------------------------
(* The facts and what follows from them.                                   *)

\* A status of ATTENDANCE_POLICY counts as a presence, as an absence or as
\* neither; only the last kind makes no journey event.
AttendanceKinds == {"none", "presence", "absence", "neither"}

Presences == Cardinality({s \in Services : attendance[s] = "presence"})
Absences == Cardinality({s \in Services : attendance[s] = "absence"})

\* The absences of the latest services, back to the first that is none.
Streak ==
    Cardinality({s \in Services :
        /\ attendance[s] = "absence"
        /\ \A t \in Services : HeldOn[t] > HeldOn[s] => attendance[t] \in {"none", "absence"}})

\* Seeded fault: the presences are not divided by the attendances.
Constancy_NoDivision == 100 * Presences

\* computeIndicatorSnapshot: the constancy, in per cent, rounded.
Constancy ==
    LET all == Presences + Absences
    IN  IF all = 0 THEN 0 ELSE (200 * Presences + all) \div (2 * all)

\* The types rebuildNextSteps finds active, by the stored indicators.
ActiveTypes == {t \in StepTypes : score < Below[t]}
RowsWith(t, status) == {i \in DOMAIN steps[t] : steps[t][i] = status}
OpenTypes == {t \in StepTypes : RowsWith(t, "OPEN") # {}}

-----------------------------------------------------------------------------
(* The tasks of the requests.                                              *)

\* Seeded fault: the next steps are rebuilt before the indicators they use.
Refresh_StepsFirst == <<"totals", "milestones", "nextSteps", "indicators">>

\* refreshJourneyProjection.  The totals it begins with are counted once more by
\* evaluateMilestones: the second count alone is kept here, as nothing reads
\* what the first one stored.
Refresh == <<"totals", "milestones", "indicators", "nextSteps">>

\* registerJourneyEvent
Projection == <<"ensure", "log">> \o Refresh

\* getSummary, getMilestones, and getIndicators or getNextSteps when what they
\* read is older than 15 minutes.  getMyJourney makes all of them at once.
Views == {<<"ensure", "totals">>, <<"ensure", "totals", "milestones">>,
          <<"ensure">> \o Refresh}

References == Services \cup Deeds

Kinds == {"none", "project", "record", "reconcile", "rebuild", "view", "dismiss"}
Counting == {"counting", "streaking", "storing"}
Tasks == {"ensure", "log", "totals", "milestones", "indicators", "nextSteps"}
Stages == Counting \cup {"idle", "assigning", "emitted", "next", "creating", "logging",
           "totalling", "unlocking", "awarding", "announcing", "scoring", "comparing", "stepping",
           "marking", "noting", "dismissing"}

Idle ==
    [kind |-> "none", stage |-> "idle", service |-> NoService, todo |-> <<>>, value |-> 0,
     streak |-> 0, due |-> {}, milestone |-> NoMilestone, closing |-> {}, opening |-> {}, row |-> 0,
     undisturbed |-> TRUE]

TypeOK ==
    /\ attendance \in [Services -> AttendanceKinds]
    /\ absences \in [monthly : Nat, consecutive : Nat]
    /\ journey \in Nat \cup {NoJourney}
    /\ logs \in [References \cup Milestones -> 0..2]
    /\ milestones \subseteq Milestones
    /\ score \in 0..100
    /\ DOMAIN steps = StepTypes
    /\ \A t \in StepTypes : steps[t] \in Seq({"OPEN", "DONE", "DISMISSED"})
    /\ checkpoints \in Seq(References \cup {NoService})
    /\ DOMAIN req = Requests
    /\ \A r \in Requests :
          /\ req[r].kind \in Kinds /\ req[r].stage \in Stages
          /\ req[r].service \in References \cup {NoService}
          /\ req[r].todo \in Seq(Tasks)
          /\ req[r].due \subseteq Milestones
          /\ req[r].milestone \in Milestones \cup {NoMilestone}
          /\ req[r].closing \subseteq StepTypes \X Nat
          /\ req[r].opening \subseteq StepTypes
          /\ req[r].value \in Nat /\ req[r].streak \in Nat /\ req[r].row \in Nat
          /\ req[r].undisturbed \in BOOLEAN
    /\ calls \in 0..MaxCalls /\ failures \in 0..MaxFailures
    /\ registered \subseteq References
    /\ spoiled \subseteq {"twins", "absences", "journey", "milestone", "opening", "closing"}
    /\ alone \subseteq {"journey", "milestone", "opening", "closing"}
    /\ fresh \in BOOLEAN

Init ==
    /\ attendance = [s \in Services |-> "none"]
    /\ absences = [monthly |-> 0, consecutive |-> 0]
    /\ journey = NoJourney
    /\ logs = [x \in References \cup Milestones |-> 0]
    /\ milestones = {}
    /\ score = 0
    /\ steps = [t \in StepTypes |-> <<>>]
    /\ checkpoints = <<>>
    /\ req = [r \in Requests |-> Idle]
    /\ calls = 0 /\ failures = 0
    /\ registered = {} /\ spoiled = {} /\ alone = {}
    /\ fresh = FALSE

Room == calls + failures < MaxEvents
Called == Room /\ calls < MaxCalls /\ calls' = calls + 1 /\ UNCHANGED failures
Busy(r) == req[r].stage # "idle"

\* Everybody in flight is disturbed by a change of the facts or by a request.
Disturbed(table) ==
    [q \in Requests |-> IF table[q].stage = "idle" THEN table[q]
                        ELSE [table[q] EXCEPT !.undisturbed = FALSE]]

Begin(r, locals) ==
    /\ ~ Busy(r)
    /\ req' = [Disturbed(req) EXCEPT ![r] =
                 [locals EXCEPT !.undisturbed = \A q \in Requests : ~ Busy(q)]]

Update(r, locals) == req' = [req EXCEPT ![r] = locals]

\* r goes on with its next task.
Popped(r) == [req[r] EXCEPT !.stage = "next", !.todo = Tail(@), !.value = 0]
At(r, task) ==
    /\ req[r].stage = "next"
    /\ req[r].todo # <<>>
    /\ Head(req[r].todo) = task

Marking(r) ==
    [req[r] EXCEPT !.stage = "marking", !.todo = <<>>, !.value = 0, !.due = {},
                   !.milestone = NoMilestone, !.closing = {}, !.opening = {}]

\* Where a request goes that throws.  Projections and the reconciliation catch
\* it and note it in the checkpoint; the rebuilding of one journey does not.
Caught(r) == IF req[r].kind \in {"project", "reconcile"} THEN Marking(r) ELSE Idle

\* A unique key refuses a write of r.
Refused(r, key) ==
    /\ Update(r, Caught(r))
    /\ spoiled' = spoiled \cup {key}
    /\ alone' = IF req[r].undisturbed THEN alone \cup {key} ELSE alone
    /\ UNCHANGED <<tables, bounds, registered, fresh>>

Logged(x) == logs' = [logs EXCEPT ![x] = IF @ < 2 THEN @ + 1 ELSE 2]

-----------------------------------------------------------------------------
(* Attendances.                                                            *)

\* Whoever has read the rows and not yet stored what he counted will store what
\* is not so any more.
Outdated(r) ==
    IF \E q \in Requests \ {r} : req[q].stage \in {"streaking", "storing"}
    THEN spoiled \cup {"absences"} ELSE spoiled

Record(r, s, kind, locals) ==
    /\ Called
    /\ attendance' = [attendance EXCEPT ![s] = kind]
    /\ Begin(r, [locals EXCEPT !.stage = "counting", !.service = s])
    /\ spoiled' = Outdated(r)
    /\ fresh' = FALSE
    /\ UNCHANGED <<absences, journey, logs, milestones, score, steps, checkpoints,
                   registered, alone>>

\* AttendancesService.checkIn; the handler of its event takes no notice of a
\* status that is neither.
CheckIn(r, s, kind) ==
    Record(r, s, kind, [Idle EXCEPT !.kind = IF kind = "neither" THEN "record" ELSE "project"])

\* AttendancesService.update, which emits nothing.
CorrectAttendance(r, s, kind) ==
    /\ attendance[s] # "none"
    /\ Record(r, s, kind, [Idle EXCEPT !.kind = "record"])

\* recalculateServantAbsenceMetrics: two reads and a write.
CountAbsences(r) ==
    /\ req[r].stage = "counting"
    /\ Update(r, [req[r] EXCEPT !.stage = "streaking", !.value = Absences])
    /\ UNCHANGED <<tables, bounds, history>>

CountStreak(r) ==
    /\ req[r].stage = "streaking"
    /\ Update(r, [req[r] EXCEPT !.stage = "storing", !.streak = Streak])
    /\ UNCHANGED <<tables, bounds, history>>

Handled(q, s) ==
    /\ req[q].kind = "project" /\ req[q].service = s
    /\ req[q].stage \notin Counting \cup {"assigning"}

Twins(s) ==
    IF \E q \in Requests : Handled(q, s) THEN spoiled \cup {"twins"} ELSE spoiled

\* The write, and the event.
StoreAbsences(r) ==
    /\ req[r].stage = "storing"
    /\ absences' = [monthly |-> req[r].value, consecutive |-> req[r].streak]
    /\ IF req[r].kind = "record"
       THEN Update(r, Idle) /\ UNCHANGED <<registered, spoiled>>
       ELSE /\ Update(r, [req[r] EXCEPT !.stage = "emitted", !.value = 0, !.streak = 0])
            /\ registered' = registered \cup {req[r].service}
            /\ spoiled' = Twins(req[r].service)
    /\ UNCHANGED <<attendance, journey, logs, milestones, score, steps, checkpoints, bounds,
                   alone, fresh>>

-----------------------------------------------------------------------------
(* The projector.                                                          *)

\* The handlers of SLOT_ASSIGNED (a substitution is two deeds, of two servants;
\* the row of a slot that was simply assigned names no toServantId), of
\* TRAINING_COMPLETED, MINISTRY_TASK_ASSIGNEE_ADDED and of the two task events.
\* What happened can happen again, with the same reference.
RegisterDeed(r, d) ==
    /\ Called
    /\ Begin(r, [Idle EXCEPT !.kind = "project", !.service = d,
                             !.stage = IF d \in TaskDeeds THEN "assigning" ELSE "emitted"])
    /\ IF d \in TaskDeeds THEN UNCHANGED <<registered, spoiled>>
       ELSE registered' = registered \cup {d} /\ spoiled' = Twins(d)
    /\ UNCHANGED <<tables, alone, fresh>>

\* MINISTRY_TASK_COMPLETED and MINISTRY_TASK_PROGRESS_UPDATED do not say whose the
\* task is: its row does, which can have given it to another servant by now.
FindAssignee(r) ==
    /\ req[r].stage = "assigning"
    /\ \/ Update(r, Idle) /\ UNCHANGED <<registered, spoiled>>
       \/ /\ Update(r, [req[r] EXCEPT !.stage = "emitted"])
          /\ registered' = registered \cup {req[r].service}
          /\ spoiled' = Twins(req[r].service)
    /\ UNCHANGED <<tables, bounds, alone, fresh>>

\* The checkpoint findFirst returns, if there is one: no order is asked for.
SomeCheckpoint == IF checkpoints = <<>> THEN {0} ELSE DOMAIN checkpoints

\* wasLastEventProcessed: the key is looked at, not whether it ended well.
CheckLastEvent(r) ==
    /\ req[r].stage = "emitted"
    /\ \E i \in SomeCheckpoint :
          Update(r, IF i # 0 /\ checkpoints[i] = req[r].service THEN Idle
                    ELSE [req[r] EXCEPT !.stage = "next", !.todo = Projection])
    /\ UNCHANGED <<tables, bounds, history>>

EnsureJourney(r) ==
    /\ At(r, "ensure")
    /\ Update(r, IF journey = NoJourney THEN [req[r] EXCEPT !.stage = "creating"]
                 ELSE Popped(r))
    /\ UNCHANGED <<tables, bounds, history>>

CreateJourney(r) ==
    /\ req[r].stage = "creating"
    /\ IF journey # NoJourney
       THEN Refused(r, "journey")
       ELSE /\ journey' = 0
            /\ Update(r, Popped(r))
            /\ UNCHANGED <<attendance, absences, logs, milestones, score, steps, checkpoints,
                           bounds, history>>

\* Seeded fault: the log is not asked for this event but for any.
LookUpLog_AnyEvent(r) ==
    /\ At(r, "log")
    /\ Update(r, IF \E s \in References : logs[s] > 0
                 THEN [req[r] EXCEPT !.stage = "next", !.todo = <<>>]
                 ELSE [req[r] EXCEPT !.stage = "logging"])
    /\ UNCHANGED <<tables, bounds, history>>

\* An event that the log has is not projected again, nor is the projection
\* refreshed.
LookUpLog(r) ==
    /\ At(r, "log")
    /\ Update(r, IF logs[req[r].service] > 0
                 THEN [req[r] EXCEPT !.stage = "next", !.todo = <<>>]
                 ELSE [req[r] EXCEPT !.stage = "logging"])
    /\ UNCHANGED <<tables, bounds, history>>

CreateLog(r) ==
    /\ req[r].stage = "logging"
    /\ Logged(req[r].service)
    /\ Update(r, Popped(r))
    /\ UNCHANGED <<attendance, absences, journey, milestones, score, steps, checkpoints, bounds,
                   history>>

-----------------------------------------------------------------------------
(* refreshJourneyProjection, task by task.                                 *)

CountTotals(r) ==
    /\ At(r, "totals")
    /\ Update(r, [req[r] EXCEPT !.stage = "totalling", !.value = Presences])
    /\ UNCHANGED <<tables, bounds, history>>

\* Seeded fault: the upsert never updates the total of a journey that exists.
StoreTotals_OnlyFirst(r) ==
    /\ req[r].stage = "totalling"
    /\ journey' = IF journey = NoJourney THEN req[r].value ELSE journey
    /\ Update(r, Popped(r))
    /\ UNCHANGED <<attendance, absences, logs, milestones, score, steps, checkpoints, bounds, history>>

StoreTotals(r) ==
    /\ req[r].stage = "totalling"
    /\ journey' = req[r].value
    /\ Update(r, Popped(r))
    /\ UNCHANGED <<attendance, absences, logs, milestones, score, steps, checkpoints, bounds, history>>

\* evaluateMilestones: the conditions are read once, each milestone is looked
\* up before it is given and announced in the log after.
EvaluateMilestones(r) ==
    /\ At(r, "milestones")
    /\ Update(r, [req[r] EXCEPT !.stage = "unlocking",
                                !.due = {m \in Milestones : Presences >= Needed[m]}])
    /\ UNCHANGED <<tables, bounds, history>>

LookUpMilestone(r) ==
    /\ req[r].stage = "unlocking"
    /\ IF req[r].due = {}
       THEN Update(r, Popped(r))
       ELSE \E m \in req[r].due :
               Update(r, IF m \in milestones
                         THEN [req[r] EXCEPT !.due = @ \ {m}]
                         ELSE [req[r] EXCEPT !.stage = "awarding", !.milestone = m])
    /\ UNCHANGED <<tables, bounds, history>>

AwardMilestone(r) ==
    /\ req[r].stage = "awarding"
    /\ IF req[r].milestone \in milestones
       THEN Refused(r, "milestone")
       ELSE /\ milestones' = milestones \cup {req[r].milestone}
            /\ Update(r, [req[r] EXCEPT !.stage = "announcing"])
            /\ UNCHANGED <<attendance, absences, journey, logs, score, steps, checkpoints, bounds,
                           history>>

AnnounceMilestone(r) ==
    /\ req[r].stage = "announcing"
    /\ Logged(req[r].milestone)
    /\ Update(r, [req[r] EXCEPT !.stage = "unlocking", !.due = @ \ {req[r].milestone},
                                !.milestone = NoMilestone])
    /\ UNCHANGED <<attendance, absences, journey, milestones, score, steps, checkpoints, bounds,
                   history>>

ComputeIndicators(r) ==
    /\ At(r, "indicators")
    /\ Update(r, [req[r] EXCEPT !.stage = "scoring", !.value = Constancy])
    /\ UNCHANGED <<tables, bounds, history>>

StoreIndicators(r) ==
    /\ req[r].stage = "scoring"
    /\ score' = req[r].value
    /\ Update(r, Popped(r))
    /\ UNCHANGED <<attendance, absences, journey, logs, milestones, steps, checkpoints, bounds, history>>

\* rebuildNextSteps reads the indicators, which make types active, and then the
\* rows that are open: the ones not active are to close, the active ones that
\* are missing to open.
ReadIndicators(r) ==
    /\ At(r, "nextSteps")
    /\ Update(r, [req[r] EXCEPT !.stage = "comparing", !.opening = ActiveTypes])
    /\ UNCHANGED <<tables, bounds, history>>

ToClose(r) == UNION {{t} \X RowsWith(t, "OPEN") : t \in StepTypes \ req[r].opening}

\* Seeded fault: a step is made without a look at the ones that are open.
ReadOpenSteps_IgnoresOpen(r) ==
    /\ req[r].stage = "comparing"
    /\ Update(r, [req[r] EXCEPT !.stage = "stepping", !.closing = ToClose(r)])
    /\ UNCHANGED <<tables, bounds, history>>

ReadOpenSteps(r) ==
    /\ req[r].stage = "comparing"
    /\ Update(r, [req[r] EXCEPT !.stage = "stepping", !.closing = ToClose(r),
                                !.opening = @ \ OpenTypes])
    /\ UNCHANGED <<tables, bounds, history>>

\* A row that was open gets a status of which its type has no other row.
CloseRow(r, t, i, status) ==
    IF RowsWith(t, status) \ {i} # {}
    THEN Refused(r, "closing")
    ELSE /\ steps' = [steps EXCEPT ![t][i] = status]
         /\ Update(r, IF status = "DONE" THEN [req[r] EXCEPT !.closing = @ \ {<<t, i>>}]
                      ELSE Idle)
         /\ fresh' = IF status = "DONE" THEN fresh ELSE FALSE
         /\ UNCHANGED <<attendance, absences, journey, logs, milestones, score, checkpoints, bounds,
                        registered, spoiled, alone>>

CloseStep(r) ==
    /\ req[r].stage = "stepping"
    /\ \E p \in req[r].closing : CloseRow(r, p[1], p[2], "DONE")

OpenStep(r) ==
    /\ req[r].stage = "stepping"
    /\ req[r].closing = {}
    /\ \E t \in req[r].opening :
          IF t \in OpenTypes
          THEN Refused(r, "opening")
          ELSE /\ steps' = [steps EXCEPT ![t] = Append(@, "OPEN")]
               /\ Update(r, [req[r] EXCEPT !.opening = @ \ {t}])
               /\ UNCHANGED <<attendance, absences, journey, logs, milestones, score, checkpoints,
                              bounds, history>>

StepsRebuilt(r) ==
    /\ req[r].stage = "stepping"
    /\ req[r].closing = {} /\ req[r].opening = {}
    /\ req' = [req EXCEPT ![r] = Popped(r)]
    /\ fresh' = (fresh \/ req[r].undisturbed)
    /\ UNCHANGED <<tables, bounds, registered, spoiled, alone>>

-----------------------------------------------------------------------------
(* The end of a request.                                                   *)

Finish(r) ==
    /\ req[r].stage = "next" /\ req[r].todo = <<>>
    /\ Update(r, IF req[r].kind \in {"project", "reconcile", "rebuild"} THEN Marking(r) ELSE Idle)
    /\ UNCHANGED <<tables, bounds, history>>

\* markProcessed and markReconciled: find the checkpoint, then write it.
FindCheckpoint(r) ==
    /\ req[r].stage = "marking"
    /\ \E i \in SomeCheckpoint : Update(r, [req[r] EXCEPT !.stage = "noting", !.row = i])
    /\ UNCHANGED <<tables, bounds, history>>

WriteCheckpoint(r) ==
    /\ req[r].stage = "noting"
    /\ checkpoints' =
          IF req[r].row = 0 THEN Append(checkpoints, req[r].service)
          ELSE IF req[r].kind = "project"
          THEN [checkpoints EXCEPT ![req[r].row] = req[r].service]
          ELSE checkpoints
    /\ Update(r, Idle)
    /\ UNCHANGED <<attendance, absences, journey, logs, milestones, score, steps, bounds, history>>

\* A query throws: it is caught as Caught says, or not at all before the
\* projector's try, in its catch, and when the process dies.
Fail(r) ==
    /\ Busy(r)
    /\ Room
    /\ failures < MaxFailures
    /\ failures' = failures + 1
    /\ Update(r, Idle) \/ (req[r].stage \notin Counting \cup {"assigning", "emitted", "marking", "noting"}
                           /\ Update(r, Caught(r)))
    /\ UNCHANGED <<tables, calls, history>>

-----------------------------------------------------------------------------
(* Readers, the servant's dismissal of a step, the reconciliation.         *)

View(r) ==
    /\ Called
    /\ \E todo \in Views : Begin(r, [Idle EXCEPT !.kind = "view", !.stage = "next", !.todo = todo])
    /\ UNCHANGED <<tables, history>>

DismissNextStep(r) ==
    /\ Called
    /\ \E t \in StepTypes : \E i \in RowsWith(t, "OPEN") :
          Begin(r, [Idle EXCEPT !.kind = "dismiss", !.stage = "dismissing",
                                !.closing = {<<t, i>>}])
    /\ UNCHANGED <<tables, history>>

CommitDismissal(r) ==
    /\ req[r].stage = "dismissing"
    /\ \E p \in req[r].closing : CloseRow(r, p[1], p[2], "DISMISSED")

BeginRebuild(r, kind) ==
    Begin(r, [Idle EXCEPT !.kind = kind, !.stage = "next", !.todo = Refresh])

\* reconcileDaily by its scheduler, under a lock.
Reconcile(r) ==
    /\ \A q \in Requests : req[q].kind # "reconcile"
    /\ BeginRebuild(r, "reconcile")
    /\ UNCHANGED <<tables, bounds, history>>

\* The calls of an administrator ask for no lock: rebuildAllJourneys, which does
\* for a servant what the reconciliation does, ...
RebuildAll(r) ==
    /\ Called
    /\ BeginRebuild(r, "reconcile")
    /\ UNCHANGED <<tables, history>>

\* ... and rebuildJourneyForServant.
RebuildOne(r) ==
    /\ Called
    /\ BeginRebuild(r, "rebuild")
    /\ UNCHANGED <<tables, history>>

-----------------------------------------------------------------------------
Work(r) ==
    \/ CountAbsences(r)
    \/ CountStreak(r)
    \/ StoreAbsences(r)
    \/ FindAssignee(r)
    \/ CheckLastEvent(r)
    \/ EnsureJourney(r)
    \/ CreateJourney(r)
    \/ LookUpLog(r)
    \/ CreateLog(r)
    \/ CountTotals(r)
    \/ StoreTotals(r)
    \/ EvaluateMilestones(r)
    \/ LookUpMilestone(r)
    \/ AwardMilestone(r)
    \/ AnnounceMilestone(r)
    \/ ComputeIndicators(r)
    \/ StoreIndicators(r)
    \/ ReadIndicators(r)
    \/ ReadOpenSteps(r)
    \/ CloseStep(r)
    \/ OpenStep(r)
    \/ StepsRebuilt(r)
    \/ Finish(r)
    \/ FindCheckpoint(r)
    \/ WriteCheckpoint(r)
    \/ CommitDismissal(r)

Next ==
    \/ \E r \in Requests :
          \/ Work(r)
          \/ Fail(r)
          \/ View(r)
          \/ DismissNextStep(r)
          \/ Reconcile(r)
          \/ RebuildAll(r)
          \/ RebuildOne(r)
          \/ \E d \in Deeds : RegisterDeed(r, d)
          \/ \E s \in Services, kind \in AttendanceKinds \ {"none"} :
                CheckIn(r, s, kind) \/ CorrectAttendance(r, s, kind)

Spec == Init /\ [][Next]_vars

\* Queries are answered, and the reconciliation comes round every day.  It
\* takes 50 servants at a time, so this is fair to all only where the servants
\* that are stale together are fewer.
FairSpec ==
    /\ Spec
    /\ \A r \in Requests : WF_vars(Work(r))
    /\ WF_vars(\E r \in Requests : Reconcile(r))

-----------------------------------------------------------------------------
(* Properties                                                              *)

\* A service whose attendance was registered, or another deed of the servant, has
\* one entry in the log once the projector is done with it, however often it was
\* registered and in whatever order with others: the checkpoint, which knows the
\* last event only, and the log make up for each other.  What breaks it is named:
\* a query that failed, two handlers of one event at the same time, two first
\* events.  A milestone is announced once whatever overlaps: of those that are
\* about to give it only one can.
ProjectedOnce ==
    /\ failures = 0 /\ spoiled \cap {"twins", "journey"} = {} =>
          \A s \in References :
             (\A r \in Requests : req[r].service # s) =>
                logs[s] = IF s \in registered THEN 1 ELSE 0
    /\ \A m \in Milestones :
          /\ logs[m] <= 1
          /\ m \in milestones /\ failures = 0 =>
                logs[m] = 1 \/ \E r \in Requests : req[r].milestone = m

\* A request that runs by itself never meets a unique key, but for the one that
\* keeps a type of step from being closed twice.
LoneRequestsSucceed == alone \subseteq {"closing"}

\* After a refresh that began after the last change and overlapped nothing, the
\* totals, the indicators and the open steps are what the attendances say.
RefreshRepairs ==
    fresh =>
       /\ journey = Presences
       /\ score = Constancy
       /\ OpenTypes = ActiveTypes

\* The absences a servant carries are those of his attendances when nobody is
\* about to write them: every change is counted anew after it, and only a request
\* that counted before the change of another can store what is not so any more.
AbsencesCounted ==
    /\ failures = 0 /\ "absences" \notin spoiled
    /\ \A r \in Requests : req[r].stage \notin Counting
    => absences = [monthly |-> Absences, consecutive |-> Streak]

DerivedAgree == RefreshRepairs /\ AbsencesCounted

\* Whatever was skipped, lost or overwritten, the reconciliation brings the
\* totals back to what the attendances say, for good.
TotalsSettle == <>[](journey = Presences)
=============================================================================
