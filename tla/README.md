# A verification project for WcServus-Back

WcServus-Back is a NestJS/Prisma backend for churches: who serves in which
worship service, the servants' answers, attendance, ministry tasks, pastoral
follow-up, a servant's journey, automation rules and notifications. The state is
in PostgreSQL; several processes of the backend may run against it, each of them
interleaving many requests and four periodic jobs at their `await`s.

This directory holds TLA+ modules that model the parts of it where order,
concurrency and failure decide what happens, the TLC configurations that check
them on small instances, and theorems about them that TLAPS proves for every
instance. `PROJECT.json` lists the components, the runs, the seeded faults that
show each property can fail, the line range behind each definition (`map`), the
hazards of the code and the theorems. Paths below are relative to `src/src/`.

## 1. Inventory

| Component | State | Operations | What is hard |
|---|---|---|---|
| `common/scheduler-lock` | a Set of keys per process, PostgreSQL advisory locks per connection | `withLock` (acquire, execute, release) | crash, lost connection, swallowed errors, a pool that may unlock on another connection |
| `modules/schedules`: slots | `ScheduleSlot` (servant, status, confirmation, blocked, scheduleId), `Schedule` (servant, ministry, response), `WorshipService.locked` | assign, swap, fill, unassign, lock, unlock, respond; three bulk operations; close | read–check–write across awaits; the same fact stored in two tables; a list of slots that grows stale while a bulk job works it off |
| `modules/schedules`: rows, versions, generation, board | `Schedule` rows, `ScheduleVersion`, the board cached per process | create, update, swap; generate a period; draft and publish; read and drop the board | a generation lock given back before the work, publishing concurrently, a cache filled after it was dropped |
| `modules/schedules/eligibility`, `modules/talents` | talents and their review, availability | create, move, approve, reject, review; the rules | five places ask the same question with five queries |
| `modules/me` | `Schedule.responseStatus`, slots | `respondMySchedule`, own profile, availability | the same answer by another endpoint with other guards |
| `modules/attendances` | `Attendance`, the servant's absences, slot status | check-in single and batch, correction | absences counted and stored in three queries, events fired after the write, repeated check-in |
| `modules/worship-services` | `WorshipService` | create, update of any field | reopening a closed schedule |
| `modules/automation-rules` | `AutomationRule.lastRunAt`, execution log with a unique dedupe key, checkpoints, the flag `running` | scheduler cycle, execute rule, actions, dry run, CRUD | abandoned runs, act-then-log, two scopes, checkpoint failure |
| `modules/automation-engine` (legacy) | the same tables | `runTimeAndConditionRules` | none as wired: no module imports `AutomationEngineModule`, its timer never starts |
| `common/events` | handlers by event name | `emit` | handlers run one after the other in the request, errors swallowed |
| `modules/journey` | totals, log, milestones, indicators, next steps, checkpoint of the last event | project, refresh, view, dismiss a step, reconcile | repeated and reordered events; a refresh is a dozen queries that any other may interleave |
| `modules/ministry-tasks` | templates, occurrences, checklist items, assignees | create, generate, assign, progress, complete, sweep, reallocate | two tables say who is responsible; writes by id of what was read; what a change of the rota does to tasks |
| `modules/users`, `modules/auth` | accounts, scopes with bindings, refresh tokens, reset tokens | create, link, role, scope, status, remove; login, refresh, logout, passwords | a session opened while the account changes; a role decided by an old link |
| `modules/servants`, `ministries`, `teams` | servants with ministries, training, team, status; coordinators; leaders | create with account, update, approve, complete training; members, leader | relations written back as they were read; two sides of a membership |
| `scripts/servant-user-integrity`, migration | links of accounts | repair, add the check | runs while the system is live |
| `common/auth/access-scope` | – | what an account may see | reads tables that others change |
| `modules/pastoral-visits` | alerts, cases, follow-ups | raise, open, close, recurring survey | two creators of one alert or case; closing is two queries |
| `modules/timeline` | entries with a dedupe key and a count | publish, aggregate | look-up, then write |
| `modules/analytics`, `pastoral-weekly-follow-ups`, `notifications`, `public-onboarding`, `integrity` | snapshots, records, rows | aggregate, CRUD, send | little that interacts |
| `audit`, `reports`, `dashboard`, `settings`, `church-admin`, `service-templates`, `spiritual-disciplines`, `support-requests` | rows | CRUD, queries | nothing that interacts |

**How they interact.** Controllers call services; services read and write
through Prisma. A request is a sequence of queries with an `await` between any
two. A `$transaction` runs at PostgreSQL's default isolation, READ COMMITTED, and
the code takes no row locks: its writes appear together or not at all, but each
of its statements sees what others have committed by then. A transaction that
reads nothing it decides by is one step of the models; those of `assignSlot` and
`unassignSlot`, which count slots to decide whether a row is deleted, are two (see
*ScheduleSlots*). Attendance, slot
answers and task changes emit events on an in-process bus, whose handlers
(journey, pastoral alerts, automation, timeline) run within the request and
whose errors are logged. The four jobs (automation, ministry tasks, journey
reconciliation, analytics) take the scheduler lock first.

**What makes each component correct**

- *scheduler-lock*: of the calls for one key at most one executes; no path
  leaves a key or a lock behind that shuts a job out for good.
- *slots*: a slot points to the `Schedule` row of its servant whatever interleaves,
  but for one window inside a transaction; a servant is in one slot of a service; the answer shown
  is the answer stored; nothing that looks taken is empty; a closed schedule is
  frozen.
- *bulk operations*: they take a slot from nobody who serves in it.
- *rows, versions, board*: at most one version of a service is published; a
  servant is in one row of a service; a cached board is what the rows say.
- *eligibility*: whoever one path gives work to, the others accept.
- *automation-rules*: scheduled runs of a rule do not overlap; the actions of one
  dedupe key are done once; a TIME rule is neither early nor silently dropped; a
  hanging rule does not stop the scheduler.
- *attendance, events, journey, alerts, timeline*: an event is projected once
  and in order; one open alert per key; what is told is told as often as it
  happened; a repeated check-in is harmless.
- *ministry-tasks*: both tables name the same servant; one open task per servant
  and service; what is finished stays finished; who leaves the rota leaves his
  tasks.
- *accounts*: a SERVO has a servant; a session ends with the password and the
  activity it was opened in; whoever sees a team sees its members.

The hazards, each at its line, are in `PROJECT.json`.

## 2. Modules

### SchedulerLock, implementing ExclusiveSection

`ExclusiveSection` is the promise: of the callers of one key, at most one is
inside. `SchedulerLock` is `SchedulerLockService`:

| TLA+ | Code |
|---|---|
| `localLocks` | the Set of the same name, one per process |
| `held[k][l]` | how often the session of connection `k` holds advisory lock `l` (session locks nest) |
| `pc` | where a call of `withLock` is: before, at the lock query, in `execute`, at the unlock query |
| `SkipLocally`, `EnterLocally` | the synchronous start of `acquire`, with the branch for databases that are not PostgreSQL |
| `TryLockGranted`, `TryLockDenied`, `TryLockError` | the reply of `pg_try_advisory_lock` on some connection of the process's pool, and its `catch` |
| `Finish` | `execute` returns or throws |
| `Unlock`, `UnlockError` | `pg_advisory_unlock` on some connection of the pool, and the swallowed error |
| `DropConnection`, `Restart` | a session ends; a process dies and comes back |

Keys are mapped to lock numbers by a CONSTANT, so the 32-bit hash may collide.
The lock number goes to `$queryRawUnsafe` as a string; if a driver refused to
bind it, every call would take the error path, and what the run `lock_fallback`
shows would be the normal case.

### ScheduleSlots

One worship service: its slots, its `Schedule` rows, and concurrent requests. A
request is a record of the local variables its handler keeps across an `await`
(`slot`, `servant`, `prev`, `wasLocked`, `schedule`, …) with a `stage`. A read
with its guards is one step, a transaction is one step or, where it removes a
servant, two, and anything may happen between them. Reads that follow one another without a write of the
same request in between are merged where their order does not matter.

| TLA+ | Code |
|---|---|
| `AdmitAssign`, `CheckAssign`, `CommitAssign` | `assignSlot`: slot and service guards, early return; eligibility and duplicate check; transaction with the row upsert and the cleanup of the previous servant's row |
| `CountSlots` | the transactions of `assignSlot` and `unassignSlot` up to the count of the leaving servant's other slots (`Others`, remembered as `alone`) |
| `CallSwapOrFill`, `AdmitSwapOrFill`, …, `Relabel` | `swapOrFillSlot`: own guards, `assignSlot` inside, then a second write |
| `CallUnassign`/`CommitUnassign`, `CallLock`/`CommitLock` | `unassignSlot`, `lockSlot`, `unlockSlot` |
| `CallRespond`/`CommitRespond` | `respondSlotConfirmation` |
| `CallMeRespond`/`CommitMeRespond` | `MeService.respondMySchedule` |
| `CallCreate`, `CallMove`, `CallExchange` and their commits | the endpoints on `Schedule` rows: create and duplicate, update and simple swap, swap of two |
| `WriteFails` | a row that is gone (P2025) or exists (P2002), or an open transaction that lasts too long or is in a deadlock: it is rolled back |
| `Unlocked`, `LocksHeld` | PostgreSQL's row locks and unique keys, while a transaction is open |
| `CloseSchedule`, `ReopenService`, `RecordAttendance` | writes of a single statement by `closeScheduleForService`, `PATCH /worship-services/:id`, `AttendancesService` |

**The two transactions that remove a servant.** They update the slot, upsert the
new servant's row (`assignSlot`), count the slots the old servant still has in the
ministry (`schedules.service.ts:955`, `:1289`) and, when there are none, delete his
row by another statement (`:964`, `:1297`). At READ COMMITTED others may commit
between the count and the deletion. `CountSlots` is the transaction up to the count,
`CommitAssign` and `CommitUnassign` the rest with the commit; a transaction that
removes nobody (`Leaves`) counts nothing and is one step. What an open one has
written shows only when it commits, which is why those writes are made there;
until then nobody else can write that slot or that row (`LocksHeld`), another such
transaction on them waits (`Unlocked`), and two that wait for each other are ended
by `WriteFails`. Nothing keeps others from giving the old servant another slot.
`cut`, a history variable, is the set of the slots that lost their row because that
happened.

`Abandoned` is the rule the transactions use to delete a leaving servant's row: all
his rows in the ministry, if none of his slots was counted.
`Unlink` is the foreign key's SetNull. What eligibility says besides the
conflict rule (training, availability, pendencies) is the constant `Members`.
`EMPTY` also stands for `OPEN`, which no modelled code tells apart, and
`Schedule.status = CANCELLED`, which only makes `respondMySchedule` refuse, is
left out. `raced` and `edits` are history variables: has a request written over
a write it had not seen; have the row endpoints made or moved rows. `raced` is
set in exactly the situations the code does nothing about, so a property guarded
by it says what holds as long as requests do not overlap in that harmful way,
and `LinkIntegrity`, which is not guarded by it, what holds always: a slot with a
servant points to his row, a slot without one to none, and a slot that was `cut`
points to no row until it is given or emptied again.

`OperationalStatus` is what the workspace tells of a ministry
(`evaluateServiceOperationalStatus`): it counts slots and rows apart, for any
choice of required slots and of swapped rows.

Three behaviours that the model has as the code has them: declining a slot
blocks it, and swap and fill refuse a blocked slot; confirming a locked slot
unlocks it; `respondMySchedule` does not look whether the schedule is closed.

### AutomationScheduler, over ExclusiveSection

The cycle (`runOnce`), the rules in order with `withTimeout`, and `executeRule`.
The scheduler lock appears as `Lock == INSTANCE ExclusiveSection`: what
`SchedulerLock` is shown to implement is what this module builds on.

| TLA+ | Code |
|---|---|
| `running[p]`, `inside`, `cycle[c]` | the service's flag, the lock, the local variables of a cycle |
| `BeginCycle`, `StartCheckpointFails`, `ReadRules`, `SkipRule`, `StartRule`, `Timeout`, `EndCycle` | `runOnce`: lock and flag; `markStarted`, awaited before the `try`; `findMany`; a rule that is not due; a rule's handler; the timeout; `finally` |
| `SkipRun`, `Act`, `Persist`, `Stamp`, `RunFails` | `executeRule`: cooldown or dedupe says no, or the condition of a rule that has one (`Conditional`, `MayBeRefused`); the actions; the log insert under its unique key; `lastRunAt`; a query that throws |
| `Tick`, `Restart` | time passes; a process dies |

Time is counted in the windows of the dedupe keys, because `Due`, `CoolingDown`
and the keys only compare windows. All rules belong to one church; `enabled` is
chosen at the start. `attempts` and `troubles` are history. `Room` keeps the
bound `Runs` from blocking a cycle that has begun, so that `CyclesEnd` is about
the code and not about the bound. The filter by trigger key and dry runs are left
out, and EVENT rules too: nothing calls `handleEventTrigger`.

### Journey

What is derived from the attendances of one servant: the absences a check-in or a
correction counts, what the check-in's event makes of his journey, what the events
of his other deeds make of it, and every other request that writes the same rows. A request carries the tasks it has still to
do (`todo`) and the locals of the current one; every query that is followed by a
dependent write is a step of its own.

| TLA+ | Code |
|---|---|
| `attendance` | the servant's `Attendance` rows, by whether their status counts as presence, absence or neither |
| `absences` | `Servant.monthlyAbsences`, `Servant.consecutiveAbsences` |
| `CheckIn`, `CorrectAttendance` | the write of `checkIn`, and of `update`, which has no event |
| `CountAbsences`, `CountStreak`, `StoreAbsences` | `recalculateServantAbsenceMetrics`: two reads and a write; then the event |
| `RegisterDeed`, `FindAssignee` | the handlers of the other events; those of tasks and checklists ask the task's row whose it is |
| `CheckLastEvent`, `FindCheckpoint`, `WriteCheckpoint` | `wasLastEventProcessed`, `markProcessed`, `markReconciled` |
| `EnsureJourney`, `CreateJourney` | `ensureJourney`, look-up and create |
| `LookUpLog`, `CreateLog` | `registerJourneyEvent` |
| `CountTotals`, `StoreTotals` | `refreshJourney` |
| `EvaluateMilestones`, `LookUpMilestone`, `AwardMilestone`, `AnnounceMilestone` | `evaluateMilestones` |
| `ComputeIndicators`, `StoreIndicators` | `rebuildIndicatorSnapshots` |
| `ReadIndicators`, `ReadOpenSteps`, `CloseStep`, `OpenStep`, `StepsRebuilt` | `rebuildNextSteps` |
| `View`, `DismissNextStep` | the readers of `JourneyService`, `dismissNextStep` |
| `Reconcile`, `RebuildAll`, `RebuildOne` | `reconcileDaily` by its timer, under the lock; `rebuildAllJourneys` and `rebuildJourneyForServant` by request. `POST journey/internal/reconcile` calls `reconcileDaily` without the lock: for one servant that is `RebuildAll` |
| `Refused`, `Caught`, `Fail` | a unique key throws; where a throwing request goes on (the rebuilding of one journey has no `catch`); a query that throws |

One milestone rule (so many presences), one indicator (constancy) and the next
steps that depend on it stand for the ten, seven and five of the code; the
windows of 30, 60 and 90 days are one, and no attendance leaves it, nor the month
of the absences, nor the last 30. The other events of the projector (`Deeds`) are
told apart by their keys and by whether their handler looks for the servant first
(`TaskDeeds`); the answers to slots are not among them, because no publisher of
them names the servant. `undisturbed` marks a request
that nothing has overlapped, `spoiled`, `alone` and `fresh` are history.

What the model shows of the code beside its properties: `JourneyNextStep` is
unique by servant, type and *status*, so the second time a step of one type is
done (or dismissed) the update throws, and from then on every refresh of the
servant ends there with the step still open. `LoneRequestsSucceed` names this key
as the only one that refuses a request that runs alone. A projection that failed
leaves its key in the checkpoint, so the same event is not tried again; a failure
between giving a milestone and announcing it loses the announcement for good.

### SlotFilling, over ScheduleSlots

`autoGenerateSchedule`, `fillEmptySlotsForService` and `autoGenerateExplained`.
A job lists slots (`StartFill`), and slot by slot looks for a servant with the
slot as it was listed (`PassOver`, `GiveSlot`) and calls `assignSlot`, whose
steps are those of `ScheduleSlots` (`CheckGiven`, `CountGiven`, `CommitGiven`,
`GivenFails`). `Beside` is
everything else, and notes when it changed slots after the list was made
(`overtaken`). The score is left out, so any candidate may win; the list and the
query of the servants already assigned are one step; one job runs at a time.

### Handlers

What the modules of several services have in common: a request is a record of
its local variables with a `stage` and `touches`, what it decides about; `raced`
collects what two requests in flight together decided about. A property that
excuses `raced` things says that *only* such a race breaks it. `Break` is a
process that dies, or a query that throws, after the request has written
something (`HalfDone` names those stages; before them a request leaves no trace).

### Rota

| TLA+ | Code |
|---|---|
| `CallCreate`/`CommitCreate` | `create` of a row: a check in one query, the row in another |
| `CallGenerate`, `ReadRows`, `Choose`, `Win`, `WriteWinner`, `EndGenerate` | `generateBetween` for one service: rows read once, candidate by the rows read (`ServingAfter` is `updateInMemoryMetrics`; `FairPool` the fairness bands and the cap, `Best` the order of the candidates, `Winners` whoever may come first), the conflict asked again, the write |
| `CallSwap`/`CommitSwap`, `CallExchange`/`CommitExchange` | `swap` with one row and with two: two updates in one transaction, the unique key asked after each |
| `CallSlotWrite`, `Invalidate` | a slot's transaction and the drop of the board after it |
| `CallBoard`, `FillBoard`, `BoardExpires` | `serviceBoard`: read, store for 20 s |
| `CallDraft`/`CommitDraft`, `CallPublish`/`CommitPublish` | `createDraftVersion`, `publishVersion` |

Everybody in `Servants` is eligible here; which servants are is in `Fitness`. The
generation orders its candidates by loads and scores it counted over the whole
period, of which this service is only a part: any loads up to `MaxLoad` and any
scores.

### MinistryTasks, over Rota

| TLA+ | Code |
|---|---|
| `CallCreateTask` … `CommitCreateTask`, `Recount` | `createOccurrence` and `recalculateStatus` |
| `CallGenerateTasks`, `SeekOccurrence`, `GenerateOccurrence` | generation from a template, by request or by the recurring job |
| `CallAssign`, `CallReassign`, `CheckServant`, `Apply`, `ClearChecklist` | `assignOccurrence`, `reassignOccurrence`, `applyAssignmentChange` (the one transaction) |
| `CallAddAssignee` … `Promote` | assignees added and removed beside it |
| `CallChecklist`, `StoreStatus`, `CallEnd`, `CommitEnd` | checklist and progress, complete and cancel |
| `DueDatePasses`, `CallSweep`, `MarkOverdue` | the job for overdue tasks |
| `TimerFires` | the timers: the recurring generation and the sweep |
| `CallMove`, `CommitMove`, `ReadImpact`, `Pick`, `MoveTask` | `update` of a row with `reallocateFromRemovedServant` in its three modes |

`Revive` is the rule by which a status is computed. One template, one service;
eligibility is told as one step; occurrences made by hand have a due date;
`updateTemplate` edits or removes the items of one template. A due date passes
between calls, or when those in flight have read what they decide by. The
executor's `createTask`, which has no service, and dry runs are not modelled.

### Accounts, Access

`Accounts` has the tables of users, auth, servants, ministries, teams and the
repair script: `CallCreateUser`, `CallSetServantLink`, `CallLinkUser`,
`CallUpdateRole`, `UpdateScope` (with `Bound`, `replaceUserScopeBindings`),
`CallUpdateStatus`, `CallRemove`; `CallLogin`, `CallRefresh`/`Rotate`,
`OpenSession`, `Logout`, `CallChangePassword`, `ForgotPassword`,
`CallResetPassword`, `AdminResetPassword`; `CreateWithUser`, `CallUpdateServant`,
`CallUpdateProfile`, `CallCompleteTraining`, `CallUpdateApproval`;
`ReplaceMembers`, `Appoint`; `CallSetTeam`, `SetTeamStatus`, `CallUpdateLeader`;
`CallRepair`, `RepairLink`, `RepairProvision`, `ApplyMigration`. A token
remembers the password and the period of activity it was opened in, which the
code does not store: it revokes tokens, and `SessionsEnd` says it revokes all it
should, for accounts about which no two requests were in flight together. `enforced` is whether the database has the check that a SERVO has a
servant. `unguarded` is history: what an operation changed that does not look at
what hangs on it.

`Access` is what an account may see, as operators over those tables
(`SeesServant`, `SeesRow`, `SeesMinistry`, `SeesTeam`, `SeesUser`), each the
conjunction of the filter by role and the filter by scope.

### PastoralCare, Fitness, Timeline, composed by People

| TLA+ | Code |
|---|---|
| `CallSignal`, `Raise`, `SeekCase`, `Follow` | an event raises an alert, opens or finds a case, adds a follow-up |
| `CallSurvey`, `SurveyNext` | the recurring alert job, servant by servant |
| `OpenCase`, `CallOpenFromAlert`, `CallUpdateCase`, `ClearAlerts`, `CallAddFollowUp`, `SettleCase`, `CompleteFollowUp`, `ResolveAlert` | `pastoral-visits.service.ts` |
| `CreateTalent`, `MoveStage`, `CallApproveTalent`/`CommitActive`, `RejectTalent`, `CallReviewRejection`/`CommitReview`, `PutAvailability` | `talents.service.ts`, `me.putMyAvailability` |
| `SlotAccepts`, `RowAccepts`, `Draws`, `TaskAccepts`, `Lists` | what slots, rows, the generation, tasks and lists ask of a servant |
| `CallPublish`, `WriteEntry`, `AddToEntry` | `TimelinePublisherService.publish`: latest entry of the key, then create or add |
| `UserRow`, `TokenRow`, `ServantRow`, `TeamRow`, `AlertRow`, `VisitRow`, `TalentRow`, `EntryRow` | the rows of the tables in `prisma/schema.prisma`, as far as they are modelled |

`People` puts them beside `Accounts` in one database with the requests in
flight shared, so that a repair, an approval and a case may meet.

## 3. Runs

| Run | Bounds | What it shows |
|---|---|---|
| `lock` | 2 processes, 4 calls, 2 keys, one connection per pool, restarts | exclusion (as refinement of `ExclusiveSection`), no orphan lock, every lock comes free again |
| `lock_faults` | pools of 2, colliding keys, every fault | the process's own set is right whatever fails |
| `lock_fallback` | the lock query may fail | **violation**: the fallback lets two processes in |
| `slots` | 3 slots, 2 ministries, 2 servants who belong to both, 3 row ids, 2 requests in flight; 3 calls of single endpoints, or 2 with a bulk job (`MaxFillCalls`) | links (but for the slots that were `cut`), answers, double booking, leftovers, freezing; a bulk job takes a slot from nobody |
| `slots_race` | 2 slots of two ministries, 2 calls, no bulk job | **violation**: two requests put one servant in two ministries of a service |
| `automation` | 2 processes, 3 cycles (two timers, one administrator's), a TIME and a THRESHOLD rule with a windowed dedupe strategy, 2 windows, 2 runs at a time, one kind of trouble beside timeouts | flag, overlap, once-only, spacing, cycles end |
| `automation_wedge` | the same | **violation**: the flag stays up when the first checkpoint fails |
| `journey` | 2 services, 2 other deeds (one of a task), one milestone, one type of step, 2 requests in flight, 2 calls or one and a query that throws, any number of reconciliations | the log has one entry per event and a milestone is announced once (`ProjectedOnce`), a request that runs alone meets no unique key but one, an undisturbed refresh repairs everything and the absences are right unless a count was overtaken (`DerivedAgree`) |
| `journey_faults` | 1 service, no milestone and no step (they are rebuilt after the totals and change none), 2 calls and a query that throws | the totals settle |
| `operations` | 2 servants, 2 ministries, 4 rows, 3 versions, 2 occurrences, 2 items (1 required), 2 requests and calls, one that breaks off | one published version, one row per servant, the board, one task per servant, both tables of a task agree, leavers keep nothing, finished stays finished |
| `people` | 3 accounts, 2 servants, 2 ministries, 2 teams, 3 tokens, 3 alert keys, 4 alerts, 3 cases, 2 talents, 3 entries, 2 requests and calls, one that breaks off | accounts, sessions, teams, care, timeline, the paths to work agree, training and decisions stand |
| `people_training` | the same | **violation**: a slot accepts a servant whose training in its ministry is pending |

**Why the bounds are enough.** For the lock, three calls of one key in two
processes plus one that collides give every pair of roles; exclusion beyond that
is proved. For slots, a harmful interleaving needs two requests, and three calls
let one request meet what two others left (the shortest way to a `cut` slot takes
all three: the unassignment that counts, one that empties its slot before, and the
gift); three slots give a servant two slots
in one ministry and one in another, which `Abandoned` tells apart; ids are never
reused while remembered (`FreshIds`), so three only bound how many rows exist.
Servants, row ids and requests are symmetric: no property and no definition
chooses among them. For automation, the second window is what a rule that
comes back needs, the third cycle what two scopes in one process need; one kind
of trouble at a time keeps causes apart (timeouts are always possible). The
instance has one servant; two servants have been checked as well. For the
journey, the races are of two requests; the reconciliation is not counted as a
call, so any of the two can be one, again and again; two calls are two events of
one service or of two, an event and its correction, or an event and a reader. In
`journey` requests are symmetric, and a failure takes the place of a call
(`MaxEvents`): what comes after it is a reconciliation.
For `operations` and `people`, a race needs two requests, and the initial states
already have what earlier calls would have left (a row or none, drafted versions,
no task or one: of nobody, given to a servant with or without a supporter, or
completed; a servant with an account, a session and a way to a new password, a
coordinator who leads his team, perhaps another servant or an account without one
where the database has no check, or an alert, a case, a rejected talent, a timeline
entry), and two calls go on from there. `people` composes six modules and any two calls
may be of different ones; a reset token is one per account, new servants are
RECRUTAMENTO or ATIVO, and a profile update gives a status or a summary, not
both. In `operations`, servants and occurrences are symmetric, and there is at
most one supporter when a task is made. In `slots`, `MaxFillCalls` bounds the calls of a
behaviour by the time a bulk job ends, its own included.
`CHECK_DEADLOCK FALSE` is set where the bound on calls or runs stops the model,
and where a process whose flag is stuck really does nothing any more.

**Fairness.** In `SchedulerLock`, weak fairness of the steps of a call that has
entered: the database answers (or its query throws), `execute` settles and
`finally` runs. Nothing obliges a job to call again. `lock` lets `execute` end
because the jobs themselves bound their awaits; a job that never returns would
hold its lock for ever. In `AutomationScheduler`, weak fairness of the cycle's
own steps, `Timeout` included, since it is a timer of the process; nothing is
assumed of a rule's run, which may hang. In `Journey`, weak fairness of the steps
of a request and of the reconciliation, a daily job. It takes 50 servants at
most, those whose row changed longest ago, so its fairness to one servant is
justified only while fewer are stale at a time.

### What the violations say

1. `scheduler-lock.service.ts:64` returns `true` on any error of the lock
   query, so a full pool or a lost connection lets two processes run one job; the
   comment calls this a safe fallback for environments without advisory locks.
2. `schedules.service.ts:880` looks for a servant's other slots before the
   transaction, and no unique key covers (service, servant): two requests put a
   servant in two ministries of one service, what an e2e test says is blocked.
3. `automations-scheduler.service.ts:63-74` raises `running` and awaits the first
   checkpoint before the `try` that lowers it: if that write throws, every
   later cycle of the process is skipped as an overlap.
4. `eligibility/rules/training.rule.ts:18` takes the summary of a servant's
   training for that of his main ministry, though the relation of the ministry
   says PENDING; the rows and the generation look at the relation. The unit test
   "blocks assign when ministry training is pending" has the engine mocked.

### Observed, with no property of its own

- `schedules.service.ts:955-971`, `:1289-1304`: an unassignment of p has read who is
  in the slot; another one empties the slot; p is given a second slot of the
  ministry, and that commits after the first has counted p's slots and before it
  deletes p's row. The second slot keeps p and loses its row (SetNull): p serves and
  has nothing to answer, until the slot is given or emptied again. `LinkIntegrity`
  excuses these slots and no others, `cut` tells which they are. No text of the
  repository says that this cannot happen, so it is not listed as a disagreement.

- `automation-policy.ts:156`: with the default strategy `BY_EVENT` the key of a
  TIME rule has no window, so a daily rule acts on its first day and is
  deduplicated ever after. `automation` checks strategies with a window.
- `ministry-tasks.service.ts:823-828, 869-877`: interval templates look for an
  occurrence by an exact `scheduledFor` that never matches, and no unique key
  covers template, service and date. `ministry-tasks.scheduler.ts:36, 54`: the two
  jobs are switched by each other's flags. `AUTO_EQUAL_DISTRIBUTION` draws from
  the rota and eligibility refuses whoever is on it: it finds nobody.
- Tasks ask for no approval of the servant (`TaskAccepts`); slots ignore a
  rejected talent (`SlotAccepts`); someone taken out by a replacement of members
  is still accepted by his main ministry and summary (hence the clause
  `m \in unguarded` of `PathsAgree`).
- A swap of rows leaves the tasks with the servant who leaves, a move does not.
- `autoGenerateSchedule` lists SUBSTITUTE_PENDING slots, though a substitute may be
  there already, and may give a slot back to whoever declined it.
- Bindings of a coordinator survive his demotion and count again when he is
  promoted. A scope EQUIPE with ministries only sees no servant; a coordinator
  given EQUIPE teams sees nobody (the role overrules the scope).
- `servant-user-integrity.ts:423` calls a match unique that is so from one side.
- `me.service.ts` emits without a church, so those answers are never told on the
  timeline; no event carries a subject, so one key serves all servants;
  SCHEDULE_CLOSED has a key per service, so a second closing is never told.
- A talent created as REPROVADO awaits no review and cannot be reviewed.

## 4. Proofs

Eight modules hold theorems, each for every value of the constants that satisfies
the assumptions of its modules: constants have their types, the value that stands
for "no row" is not a row, sets that are counted are finite, and identifiers are
numbers, of which the models take the next one. TLC evaluates the assumptions on
every run. The last step of each proof combines an invariant that holds at first
and is kept by every step. Of the properties the passing runs check, all are
proved but the three of liveness.

| Module | Theorems |
|---|---|
| `SchedulerLock_proofs` | `TypeCorrect`, `NoKeyLeftBehind`, `WithLockExcludes`, `Implementation`, `NoLockWithoutCall` |
| `ScheduleSlots_proofs` | `TypeCorrect`, `LinksHold`, `BookedOnce`, `SlotShowsAnswer`, `NoRowLeftBehind`, `ClosedIsFrozen`, `ConflictIsARefusal`, `ConfirmedIsTrue`; of the module `SlotFilling`, `FillingRefines`, and with it the same for `FillSpec`; `FillTakesNobodyOut` |
| `AutomationScheduler_proofs` | `TypeCorrect`, `NoOverlap`, `DueWhenItActs`, `OncePerKey`, `DueRunsAreKept` |
| `Rota_proofs` | `PoolIsNotEmpty`, `PoolKeepsLevel`, `SomebodyWins`, and the lemmas about the actions of `Rota` |
| `MinistryTasks_proofs` | `TypeCorrect`, `PublishedOnce`, `RotaHasNoDoubles`, `BoardShowsRows`, `ServantHasOneTask`, `RowsSayWhoHasIt`, `NothingLeftWithLeaver`, `FinishedTasksStay` |
| `Handlers_proofs` | lemmas about the records of requests, calls, steps and races, for the three that share `Handlers` (`Rota_proofs`, `MinistryTasks_proofs`, `People_proofs`) |
| `People_proofs` | `PeopleInvariant`, `PeopleTypes`, `PeopleAccounts`, `PeopleSessions`, `PeopleTeams`, `PeopleCare`, `PeopleTimeline`, `PeoplePaths`, `PeopleTraining`, `PeopleDecisions` |
| `Journey_proofs` | `JourneyInvariant`, `TypesAreRight`, `EventsProjectedOnce`, `LoneRequestsAreSafe`, `DerivedRowsAgree` |

**The lock.**

- `NoKeyLeftBehind`: `Spec => []LocalKeyHasOneOwner`, whatever fails. The invariant
  counts owners, so it is not inductive in a form provers can use; `LocalOwners`
  says the same with quantifiers (a busy call's key is in the set, two busy calls
  of one process and key are one, a key in the set has a busy call).
- `WithLockExcludes`: exclusion, assuming `LockKept` (instances with PostgreSQL,
  finitely many callers, no failing lock query, no lost connection). The
  invariant `IInv` adds `OneSession` (one session has a lock) and `Covered` (a
  session of the process has the lock at least as often as calls of the process
  are inside). The count is needed because two keys of one process may collide
  and because an unlock may reach another session of the pool, where it does
  nothing.
- `Implementation`: under `LockKept`, `Spec => ImplementsSection`: initial states
  map to initial states, `EnterLocally` and a granted lock to `Enter`, leaving
  and restarting to `Leave`, the rest to stuttering.
- `NoLockWithoutCall`: `Spec => []NoOrphanLock`, assuming `SinglePools` (one
  connection per process, finitely many callers, unlocks that reach the database).
  `HeldByCalls` is the converse of `Covered`: no session has a lock more often
  than its process has calls that acquired it. With a larger pool it is false, as
  an unlock may reach a session that has nothing to give back.

**Slots.**

- `LinksHold`: `Spec => []LinkIntegrity`, not guarded by `raced`; the slots in `cut`
  are what it excuses, and of them it says that they have no row. It is inductive
  once requests in flight are known to carry what their stage needs (`Ready`, part
  of `IInv`): what they remember of a slot may be stale, and the proof uses only
  its type. `Linked` is the property over given tables and a given set of
  slots that lost their row, so that the intermediate tables of a transaction can be
  spoken of; `FillingKeepsLinks` and `RemovingAbandoned` are the two lemmas that
  carry it: writing a slot with its row keeps the links, and deleting the rows of a
  servant takes the row only from his own slots. When the count had found him
  elsewhere nothing is deleted; otherwise the slots that lose their row are those
  he was given since (`Cut`). `FillKeepsLinks` is the same of `FillSpec`.
- `BookedOnce`, `SlotShowsAnswer`, `NoRowLeftBehind`, `ClosedIsFrozen` rest on
  `UnracedInv`: besides the above, `Known` says that a request nobody has
  overtaken (it is not `stale`) still knows the truth (`Knows`: who is in the
  slot, that the schedule is open, that its servant has no other slot, that the
  answer is pending, that what a transaction counted still stands), and `Sound` is the properties without what they excuse. The
  servant a request is about to assign is in no other slot exactly because a write
  in between would have made the request stale, and a stale request that writes
  sets `raced`.
- `ConflictIsARefusal` and `ConfirmedIsTrue` are about `OperationalStatus`. The
  second rests on the links, and excuses like them the slots in `cut`, whose status
  is all that is counted of them. The first rests on `OneRowEach`: no servant has two rows of one ministry, in any
  interleaving, although no request asks for it; the exchange of two rows keeps
  it only because PostgreSQL asks the unique key after each of its two updates.
  So the second conflict that the code looks for, a servant twice in a ministry,
  never exists, and one in two ministries is not looked for.
- `FillingRefines`: `FillSpec => Spec`. A step of a bulk job is a step of a
  request, or leaves the tables alone; the invariant `Job(fill)` says that the
  request a job waits for is one of `Requests`. So what is proved of
  `ScheduleSlots` holds of the specification the run `slots` checks.
- `FillTakesNobodyOut`: `FillSpec => FillsWhatIsFree`. `FillInv` adds that what a
  job has still on its list, and what it has given to a request, is free
  (`StillFree`) unless it was overtaken. The proof found the property too strong
  as it was first stated: with three calls of single endpoints an unlock that
  raced leaves a slot that looks empty with its servant in it, and a bulk job
  begun after that takes him out. The run had not met it, as its bound lets two
  calls come before a bulk job ends. The property now says `raced`; and
  `NothingLeftOver` says that without a race an empty slot has no servant, which
  the proof needed and nothing had stated.

**Automation.** `CyclesInOrder` is about the flag and the cycles, `RunsInOrder`
about the runs: a run its cycle waits for is the cycle's only one. Together they
leave one run at a time while nothing timed out and no two scopes ran
(`LoneRun`), which is `NoOverlap`. `ReadsStand` (what the cycle read of the rules
still to come is what the database has) gives `DueWhenItActs`; `Accounted` (an
action that was done is in the log, or its run is about to write it) gives
`OncePerKey`; `LogBehind` (the log of a TIME rule does not run ahead of its
`lastRunAt`) gives `DueRunsAreKept`. The last assumes `FittingStrategies`: TIME
rules have a dedupe strategy with a window. It is not true of the default of the
column, and then the theorem is not either (see *Observed*).

**Rota and tasks.** One invariant, `RotaInv /\ TaskInv`, since the requests on
tasks share the rows and the requests of the rota. Its parts are the tables, what
a request carries at its stage (`Carries`, `CarriesTask`), and what it knows that
stays true until it writes, or it has raced: `KnowsRows` (the servant it is
about to write has no row), `KnowsVersions` (it will archive whatever is
published), `KnowsBoard` (the board in its hand is the rows), `GiftIsFree` (the
servant it gives a task to has no other), `FromIsCurrent` (he had it whom it is
taken from), `NotFinished`. `RacesKnown` is what turns each of them into a proof:
two requests in flight that decide about the same thing are in `raced`, so whoever
would make another's knowledge false has raced with it. `NoSecondTask` is
`OneTaskPerService` without counting, `AgreedOrPromoting` is `PrimaryAgrees` at
all times (only a request that sets the servant in a second query leaves the two
tables apart), `LeaversRelieved` says that whoever takes the tasks of a leaver has
all of them on his list.

`PoolIsNotEmpty`, `PoolKeepsLevel` and `SomebodyWins` are about the operators of
the generation for any loads, scores and caps: the fairness bands and the cap
leave somebody in the pool, of which the code takes the first without asking;
whoever of the pool gets a row, nobody comes to be more than two rows ahead of
anybody, if nobody was before.

**Journey.** `JourneyInv` was first checked by TLC as an invariant of the instances
of `journey` and of larger ones (1.2 and 3.1 million states), then proved. Its
parts:

- `RequestsGood`: what a request has still to do is the end of a refresh, of a
  projection or of a view, and its stage fits the task it is at; `TablesGood`,
  `HistoryGood`: types.
- `AbsencesKnown`: whoever counts absences has counted right so far, and if nobody
  does what is stored is right.
- `DeedsKnown`: an event has one handler that may still write to the log, which
  then is without it (`Handled`, `Pending`), and a checkpoint names only events in
  the log. It is why the log may be asked and written in two queries.
- `MilestonesKnown`: of a milestone that is given and not announced there is one
  request about to do so (`Announcing`), because the unique key lets one give it.
- `LoneOnesSure`: a request that nothing has overlapped is the only one, and knows
  what the tables are (`Sure`, and `StepsAhead` of the steps it is about to close
  and open): the totals are stored before the milestones, the indicators before the
  steps that use them.
- `FreshIsKept`: while the projection is fresh, what any request has in hand would
  store what is there already (`Harmless`). That is what `RefreshRepairs` needs to
  be inductive: a refresh that nothing overlapped has repaired all, and those that
  follow it count the same.

**People.** The six modules are one system, since the requests of all share `req`
and `raced`, and so there is one invariant, `PeopleInv` (which TLC finds to hold
on the instance of `people`). None of the properties is inductive by itself: what
a request writes was decided by an earlier read. The invariant adds what a request
in flight has in hand:

- `Carries` (in `TypesInv`): at each stage the request has the rows its write
  needs, and they are there still. Nothing in these services takes away an
  account, a servant, a token, a case or a talent that a request refers to
  (`AccountsGrow` and its like): removing an account is a mark. Hence also the
  links: a token's session is of the account of the token, an account's servant
  exists (`AccountsLinked`, `TokensLinked`), and a servant has one account, which
  holds at all times because of the unique key and not because anybody looked.
- `Knows`: unless it has raced, what the request has read still stands. It has one
  part for every part of the tables: `KnowsLink` (the account it is about to
  unlink or make a SERVO may be that), `KnowsSession` (the token in its hand
  carries the password and the period of activity the account has now, and no
  other token of its session lives but the one it replaces), `KnowsTeam`,
  `KnowsTraining`, `KnowsDecision` (whoever it promotes is not out of service; the
  rejection it reviews stands), `KnowsCare` (there is no open duplicate of the
  alert it raises, no open case beside the one it opens), `KnowsEntries` (the
  entry it adds to is the latest of its key, with the count it read).
- What the tables keep: `SessionsEnd` itself; of `AccountsHold` the first clause
  (the second is about the filters and follows from `LinksInv`); `TeamsInv`, which
  says why the members of a team can be seen, namely that their ministry is the
  team's or was changed without looking; `TrainingInv`, that the main ministry is
  among those of the servant, from which `PathsAgree` and `TeamsHold` follow;
  `CareInv`, in which a covered alert is resolved or there is a request about to
  resolve it (`Settled`); `TimelineTells`.

`Touched` turns this into a proof: who changes what another request knows of
decides about the same thing, so both are in `raced`. Each part has an operator
for what a step may do to the tables (`LinksMove`, `SessionsMove`, `TeamsMove`,
`TrainingMove`, `StatusMove`, `ReviewMove`, `AlertsMove`, `CasesMove`,
`CoverMove`, `TimelineMove`). One lemma says that such steps keep the part, and
one lemma for each operation says that it is such a step; so an operation of
`teams.service.ts` is never weighed against the requests of `auth.service.ts`
directly. `TrainingStands` and `DecisionsStand` are what `TrainingMove`,
`StatusMove` and `ReviewMove` say of a single step, given what its request knows.

The proofs changed the model in a few places. A session is opened only while a
token is free (`Tokens` is a bound, and beyond it the choice of the next one means
nothing). The types of counts, passwords and periods are `Nat`, not the bounds of
an instance. `latest`, the talent of a servant that was written last, has a type.
What the counts of the entries of a key add up to is the size of `Additions(key)`,
the set of the single additions, because sums by recursion cannot be reasoned
about.

**Only model-checked.** Liveness under fairness is out of the prover's reach:
`LockComesFree`, `CyclesEnd`, `TotalsSettle`. The violations are runs of TLC by
nature. The invariants are not vacuous: the runs check the properties they give on
instances in which requests do race, and the seeded faults break them.

## 5. Not modelled

- The read-only parts and record keeping (last rows of the inventory), because
  nothing in them interacts; notifications and audit, which change nothing the
  models relate; churches, and who may ask, which only make a request be refused
  (what an account may *see* is `Access`).
- Action executors, scores and ranking, which are data. Of `automation-rules` also
  dry runs, EVENT rules and the legacy `automation-engine`: the last two never run.
- Other transactions in two steps. Of those the models have, only that of
  `completeTraining` (`servants.service.ts:873`) also reads, inside it, what others
  may change before it writes: the trainings of all ministries, for the summary.
  It is one step: the training of the ministry is written without reading anything,
  and a summary that disagrees with the relations is a state the models have
  anyway, since `PATCH /servants/:id` sets it by itself.
- Of slots: making them from a template, suggestions, read views. Of the rota:
  more than one service of a period and dry runs.
- Of accounts: names, e-mail uniqueness, `users.update`, expiry of tokens, rate
  limits, a second reset token, permission overrides. Of servants: contacts,
  history, creation without an account, `addNote`.
- Of pastoral care: weekly follow-ups, the day in the key of recurring alerts (it
  raises a new alert every day), the time-out of the recurring job,
  `RETURN_AFTER_GAP` (nothing calls `evaluateJourneySignal`). Of the timeline:
  titles and texts, and types that are mapped and never emitted
  (`PASTORAL_CASE_OPENED` and others).
- The hazards without a property: SLOT_CONFIRMED whose payload no publisher fills
  (`journey-projector.service.ts:51`), the order in which the reconciliation
  takes servants (`journey-reconcile.service.ts:39`), and the candidates of
  `AUTO_EQUAL_DISTRIBUTION` (`ministry-tasks.service.ts:767`).

## 6. Plan

1. *A versioned rota as an abstract specification*: one published version, replaced
   atomically; `OnePublished` would be stated as a refinement of it.
2. *Reconciliation over several servants*: the order in which they are taken, and
   whether a servant who is stale is ever reached.
