---------------------------- MODULE MinistryTasks ----------------------------
(***************************************************************************)
(* The tasks of a ministry around one service (modules/ministry-tasks):    *)
(* occurrences, who they are assigned to, their checklists, the jobs that  *)
(* make and sweep them, and what a change of the rota does to them.        *)
(*                                                                         *)
(* Nothing here has a version or a lock.  A request reads an occurrence,   *)
(* asks whether a servant may have it, and writes it by its id whatever it *)
(* has become by then; only the change of an assignment is a transaction.  *)
(* An occurrence holds the servant it is assigned to and, beside it, a     *)
(* table of assignee rows that is to say the same.                         *)
(***************************************************************************)
EXTENDS Rota

CONSTANTS
    Tasks,          \* ids of occurrences: bound on them
    Items,          \* items a checklist may have
    Required,       \* the ones that must be done
    MaxMade,        \* bound on the occurrences there are at first
    NoTask

ASSUME TasksAssumption == Required \subseteq Items /\ NoTask \notin Tasks /\ MaxMade \in Nat

VARIABLES
    template,       \* the MinistryTaskTemplate: live, items, limit per month
    occ,            \* MinistryTaskOccurrence with its checklist
    listed,         \* MinistryTaskOccurrenceAssignee, by servant and role
    active,         \* those of them that are active
    patched,        \* history: occurrences whose servant was set beside the
                    \* change of an assignment
    excused,        \* history: servants given a task without being asked for
    leavers         \* history: servants who left the rota, with nothing given
                    \* to them since

taskTables == <<template, occ, listed, active>>
taskHistory == <<patched, excused, leavers>>
rotaVars == <<rotaTables, rotaHistory>>
vars == <<rotaVars, taskTables, taskHistory, req, calls, failures, raced>>

-----------------------------------------------------------------------------
(* Occurrences.                                                            *)

Roles == {"PRIMARY", "SUPPORT"}
Open == {"PENDING", "ASSIGNED", "IN_PROGRESS"}
Final == {"COMPLETED", "CANCELLED"}
Unused == [status |-> "none", assigned |-> Nobody, items |-> {}, done |-> {},
           dated |-> FALSE, late |-> FALSE, made |-> "none"]

Made(t) == occ[t].status # "none"
Live(t) == Made(t) /\ occ[t].status \notin Final
TasksOf(s) == {t \in Tasks : Live(t) /\ occ[t].assigned = s}
Counted(s) == {t \in Tasks : Made(t) /\ occ[t].status # "CANCELLED" /\ occ[t].assigned = s}

\* Seeded fault: another open task is not looked for.
Eligible_NoConflict(s, t) ==
    /\ ~ OnRota(s)
    /\ Cardinality(Counted(s) \ {t}) < template.limit

\* assertServantEligible of an active, trained servant of the ministry with no
\* pastoral case open: one query after another, told here as one.
Eligible(s, t) ==
    /\ ~ OnRota(s)
    /\ TasksOf(s) \ {t} = {}
    /\ Cardinality(Counted(s) \ {t}) < template.limit

\* recalculateStatus: complete with the required items done, or with all of
\* them if none is required.
AllDone(o) ==
    LET needed == IF o.items \cap Required # {} THEN o.items \cap Required ELSE o.items
    IN  needed # {} /\ needed \subseteq o.done

Progressed(o) ==
    IF AllDone(o) THEN "COMPLETED"
    ELSE IF o.done # {} THEN "IN_PROGRESS"
    ELSE IF o.late THEN "OVERDUE"
    ELSE IF o.assigned # Nobody THEN "ASSIGNED" ELSE "PENDING"

\* A servant who has a task on his hands again is not one who left.
Rejoin(s) == leavers' = leavers \ {s}

-----------------------------------------------------------------------------
(* Templates.                                                              *)

\* updateTemplate and removeTemplate; occurrences keep the items they copied.
UpdateTemplate ==
    /\ template.live /\ calls < MaxCalls
    /\ calls' = calls + 1
    /\ \/ template' = [template EXCEPT !.items = Required, !.limit = 1]
       \/ template' = [template EXCEPT !.live = FALSE]
    /\ UNCHANGED <<rotaVars, occ, listed, active, taskHistory, req, failures, raced>>

-----------------------------------------------------------------------------
(* Making occurrences.                                                     *)

FreeTasks == {t \in Tasks : occ[t].status = "none"}

\* createOccurrence: the servant and the supporters, at most one here, are asked
\* for one after the other before anything is written.
CallCreateTask(r, s, support) ==
    /\ template.live
    /\ s \notin support /\ Cardinality(support) <= 1
    /\ Call(r, [kind |-> "createTask", stage |-> "admitting", to |-> s, support |-> support,
                touches |-> {s} \cap Servants, items |-> template.items])
    /\ UNCHANGED <<rotaVars, taskTables, taskHistory>>

AdmitTask(r) ==
    /\ req[r].stage = "admitting"
    /\ IF \A s \in {req[r].to} \cup req[r].support : s = Nobody \/ Eligible(s, NoTask)
       THEN Step(r, [req[r] EXCEPT !.stage = "adding"])
       ELSE Finish(r)
    /\ UNCHANGED <<rotaVars, taskTables, taskHistory>>

RowsFor(s, support) == (({s} \ {Nobody}) \X {"PRIMARY"}) \cup (support \X {"SUPPORT"})

\* The create, with a due date and the rows of its assignees; recalculateStatus
\* follows.
CommitCreateTask(r) ==
    /\ req[r].stage = "adding"
    /\ \E t \in FreeTasks :
          /\ occ' = [occ EXCEPT ![t] =
                       [Unused EXCEPT !.status = IF req[r].to = Nobody THEN "PENDING" ELSE "ASSIGNED",
                                      !.assigned = req[r].to, !.items = req[r].items,
                                      !.dated = TRUE, !.made = "hand"]]
          /\ listed' = [listed EXCEPT ![t] = RowsFor(req[r].to, req[r].support)]
          /\ active' = [active EXCEPT ![t] = RowsFor(req[r].to, req[r].support)]
          /\ Step(r, [kind |-> "createTask", stage |-> "recounting", task |-> t,
                      touches |-> {t}])
    /\ Rejoin(req[r].to)
    /\ UNCHANGED <<rotaVars, template, patched, excused>>

\* runRecurringGenerationJob, and generateOccurrences for the same dates, of a
\* template that recurs with the service.
CallGenerateTasks(r, job) ==
    /\ template.live
    /\ Call(r, [kind |-> "generateTasks", stage |-> "seeking", touches |-> {"occurrence"},
                items |-> template.items, job |-> job])
    /\ UNCHANGED <<rotaVars, taskTables, taskHistory>>

SeekOccurrence(r) ==
    /\ req[r].stage = "seeking"
    /\ IF \E t \in Tasks : occ[t].made = "recurrence" THEN Finish(r)
       ELSE Step(r, [req[r] EXCEPT !.stage = "generating"])
    /\ UNCHANGED <<rotaVars, taskTables, taskHistory>>

\* Only the job gives it a due date.
GenerateOccurrence(r) ==
    /\ req[r].stage = "generating"
    /\ \E t \in FreeTasks :
          /\ occ' = [occ EXCEPT ![t] = [Unused EXCEPT !.status = "PENDING", !.made = "recurrence",
                                                      !.items = req[r].items, !.dated = req[r].job]]
    /\ Finish(r)
    /\ UNCHANGED <<rotaVars, template, listed, active, taskHistory>>

-----------------------------------------------------------------------------
(* Assignment.                                                             *)

\* assignOccurrence, whatever the status of the occurrence.
CallAssign(r, t, s) ==
    /\ Made(t)
    /\ Call(r, [kind |-> "assign", stage |-> "checking", touches |-> {t, s}, task |-> t,
                from |-> occ[t].assigned, to |-> s])
    /\ UNCHANGED <<rotaVars, taskTables, taskHistory>>

\* reassignOccurrence of one that somebody has, to somebody else.
CallReassign(r, t, s, keep) ==
    /\ Made(t) /\ occ[t].assigned \notin {Nobody, s}
    /\ Call(r, [kind |-> IF keep THEN "reassign" ELSE "restart", stage |-> "checking",
                touches |-> {t, s}, task |-> t, from |-> occ[t].assigned, to |-> s])
    /\ UNCHANGED <<rotaVars, taskTables, taskHistory>>

CheckServant(r) ==
    /\ req[r].stage = "checking"
    /\ IF Eligible(req[r].to, req[r].task)
       THEN Step(r, [req[r] EXCEPT !.stage = IF req[r].kind = "list" THEN "listing"
                                             ELSE "applying"])
       ELSE Finish(r)
    /\ UNCHANGED <<rotaVars, taskTables, taskHistory>>

\* Seeded fault: the row of the servant who had the task stays active.
ChangeAssignment_KeepsRow(t, from, to) ==
    /\ occ' = [occ EXCEPT ![t].assigned = to,
                          ![t].status = IF to = Nobody THEN "PENDING" ELSE "ASSIGNED"]
    /\ active' = [active EXCEPT ![t] = @ \cup RowsFor(to, {})]
    /\ listed' = [listed EXCEPT ![t] = @ \cup RowsFor(to, {})]

\* The transaction of applyAssignmentChange: from is the servant who was read.
ChangeAssignment(t, from, to) ==
    /\ occ' = [occ EXCEPT ![t].assigned = to,
                          ![t].status = IF to = Nobody THEN "PENDING" ELSE "ASSIGNED"]
    /\ active' = [active EXCEPT ![t] = (@ \ RowsFor(from, {})) \cup RowsFor(to, {})]
    /\ listed' = [listed EXCEPT ![t] = @ \cup RowsFor(to, {})]

Apply(r) ==
    /\ req[r].stage = "applying"
    /\ ChangeAssignment(req[r].task, req[r].from, req[r].to)
    /\ IF req[r].kind = "assign" THEN Finish(r)
       ELSE Step(r, [req[r] EXCEPT !.stage = IF req[r].kind = "restart" THEN "clearing"
                                             ELSE "recounting"])
    /\ Rejoin(req[r].to)
    /\ UNCHANGED <<rotaVars, template, patched, excused>>

ClearChecklist(r) ==
    /\ req[r].stage = "clearing"
    /\ occ' = [occ EXCEPT ![req[r].task].done = {}]
    /\ Step(r, [req[r] EXCEPT !.stage = "recounting"])
    /\ UNCHANGED <<rotaVars, template, listed, active, taskHistory>>

\* addAssignee: a row, and for a primary one the occurrence in a second query.
\* The row of whom it was assigned to before stays as it is.
CallAddAssignee(r, t, s, role) ==
    /\ Made(t) /\ <<s, role>> \notin active[t]
    /\ Call(r, [kind |-> "list", stage |-> "checking", touches |-> {t, s}, task |-> t,
                to |-> s, role |-> role])
    /\ UNCHANGED <<rotaVars, taskTables, taskHistory>>

\* The unique key has rows that are not active any more, and refuses them too.
ListAssignee(r) ==
    /\ req[r].stage = "listing"
    /\ LET t == req[r].task
           row == <<req[r].to, req[r].role>>
       IN  IF row \in listed[t]
           THEN Finish(r) /\ UNCHANGED <<listed, active>>
           ELSE /\ listed' = [listed EXCEPT ![t] = @ \cup {row}]
                /\ active' = [active EXCEPT ![t] = @ \cup {row}]
                /\ IF req[r].role = "PRIMARY"
                   THEN Step(r, [req[r] EXCEPT !.stage = "promoting"]) ELSE Finish(r)
    /\ UNCHANGED <<rotaVars, template, occ, taskHistory>>

\* removeAssignee: for a primary row the first supporter of those it has read
\* takes over, with the row he has.
CallRemoveAssignee(r, t, s, role) ==
    /\ <<s, role>> \in active[t]
    /\ \E next \in Servants \cup {Nobody} :
          /\ IF next = Nobody THEN \A q \in Servants : <<q, "SUPPORT">> \notin active[t]
             ELSE <<next, "SUPPORT">> \in active[t]
          /\ Call(r, [kind |-> "unlist", stage |-> "unlisting", touches |-> {t, s}, task |-> t,
                      row |-> <<s, role>>, to |-> next])
    /\ UNCHANGED <<rotaVars, taskTables, taskHistory>>

UnlistAssignee(r) ==
    /\ req[r].stage = "unlisting"
    /\ active' = [active EXCEPT ![req[r].task] = @ \ {req[r].row}]
    /\ IF req[r].row[2] = "PRIMARY" THEN Step(r, [req[r] EXCEPT !.stage = "promoting"])
       ELSE Finish(r)
    /\ UNCHANGED <<rotaVars, template, occ, listed, taskHistory>>

\* The second query of both: the servant, and nothing else.
Promote(r) ==
    /\ req[r].stage = "promoting"
    /\ occ' = [occ EXCEPT ![req[r].task].assigned = req[r].to]
    /\ patched' = patched \cup {req[r].task}
    /\ excused' = IF req[r].kind = "list" THEN excused ELSE excused \cup {req[r].to}
    /\ Rejoin(req[r].to)
    /\ Finish(r)
    /\ UNCHANGED <<rotaVars, template, listed, active>>

\* The action assign_task_to_leader of an automation: of the occurrence as well
\* only the servant, who is asked for nothing.
CallAssignToLeader(r, t, s) ==
    /\ Made(t)
    /\ Call(r, [kind |-> "lead", stage |-> "promoting", touches |-> {t, s}, task |-> t,
                to |-> s])
    /\ UNCHANGED <<rotaVars, taskTables, taskHistory>>

-----------------------------------------------------------------------------
(* Progress.                                                               *)

\* Seeded fault: items of another occurrence are ticked as well.
CallChecklist_AnyItem(r, t, done) ==
    /\ Made(t) /\ done # occ[t].done
    /\ occ' = [occ EXCEPT ![t].done = done]
    /\ Call(r, [kind |-> "checklist", stage |-> "recounting", touches |-> {t}, task |-> t])
    /\ UNCHANGED <<rotaVars, template, listed, active, taskHistory>>

\* updateChecklist: the items in one transaction, then the status is derived.
\* It is open to an occurrence of any status.
CallChecklist(r, t, done) ==
    /\ Made(t) /\ done \subseteq occ[t].items /\ done # occ[t].done
    /\ occ' = [occ EXCEPT ![t].done = done]
    /\ Call(r, [kind |-> "checklist", stage |-> "recounting", touches |-> {t}, task |-> t])
    /\ UNCHANGED <<rotaVars, template, listed, active, taskHistory>>

\* recalculateStatus reads the occurrence, and leaves a cancelled one alone ...
Recount(r) ==
    /\ req[r].stage = "recounting"
    /\ LET o == occ[req[r].task]
       IN  IF o.status = "CANCELLED" THEN Finish(r)
           ELSE Step(r, [kind |-> req[r].kind, stage |-> "storing", touches |-> req[r].touches,
                         task |-> req[r].task, status |-> Progressed(o)])
    /\ UNCHANGED <<rotaVars, taskTables, taskHistory>>

\* A finished occurrence that is open again gives its servant the task back.
Revive(ts, status) ==
    LET back == {occ[t].assigned : t \in {u \in ts : occ[u].status \in Final}}
    IN  IF status \in Final THEN UNCHANGED <<excused, leavers>>
        ELSE excused' = excused \cup back /\ leavers' = leavers \ back

\* ... and writes the status it came to, whatever the status is by now.
StoreStatus(r) ==
    /\ req[r].stage = "storing"
    /\ occ' = [occ EXCEPT ![req[r].task].status = req[r].status]
    /\ Revive({req[r].task}, req[r].status)
    /\ Finish(r)
    /\ UNCHANGED <<rotaVars, template, listed, active, patched>>

\* completeOccurrence with the required items done; cancelOccurrence.
CallEnd(r, t, status) ==
    /\ Made(t)
    /\ status = "COMPLETED" => occ[t].items \cap Required \subseteq occ[t].done
    /\ Call(r, [kind |-> "end", stage |-> "ending", touches |-> {t}, task |-> t,
                status |-> status])
    /\ UNCHANGED <<rotaVars, taskTables, taskHistory>>

CommitEnd(r) ==
    /\ req[r].stage = "ending"
    /\ occ' = [occ EXCEPT ![req[r].task].status = req[r].status]
    /\ Finish(r)
    /\ UNCHANGED <<rotaVars, template, listed, active, taskHistory>>

\* Only the sweep and the recalculation look at the date, once each; it passes
\* here between calls, or when what is in flight has looked already (a bound).
DueDatePasses(t) ==
    /\ Made(t) /\ ~ occ[t].late
    /\ \A r \in Requests : Busy(r) => req[r].stage \in {"storing", "sweeping"}
    /\ occ' = [occ EXCEPT ![t].late = TRUE]
    /\ UNCHANGED <<rotaVars, template, listed, active, taskHistory, req, calls, failures, raced>>

\* Seeded fault: the job takes what is overdue by its date alone.
Overdue_AnyStatus == {t \in Tasks : Made(t) /\ occ[t].dated /\ occ[t].late}

\* markOverdueAndDueSoon reads what is overdue ...
Overdue == {t \in Tasks : occ[t].dated /\ occ[t].late /\ occ[t].status \in Open}

CallSweep(r) ==
    /\ Overdue # {}
    /\ Call(r, [kind |-> "sweep", stage |-> "sweeping", touches |-> Overdue])
    /\ UNCHANGED <<rotaVars, taskTables, taskHistory>>

\* ... and marks it by its ids.
MarkOverdue(r) ==
    /\ req[r].stage = "sweeping"
    /\ occ' = [t \in Tasks |-> IF t \in req[r].touches THEN [occ[t] EXCEPT !.status = "OVERDUE"]
                               ELSE occ[t]]
    /\ Revive(req[r].touches, "OVERDUE")
    /\ Finish(r)
    /\ UNCHANGED <<rotaVars, template, listed, active, patched>>

-----------------------------------------------------------------------------
(* A servant leaves a row of the rota.                                     *)

Modes == {"UNASSIGN", "MANUAL", "AUTO_EQUAL_DISTRIBUTION"}

\* update of a Schedule row, to another servant or ministry.
CallMove(r, i, m, s) ==
    /\ i \in Kept /\ rows[i] # Row(m, s)
    /\ \A j \in Kept \ {i} : rows[j].servant # s
    /\ Call(r, [kind |-> "move", stage |-> "movingRow", touches |-> {"rota"}, row |-> i,
                ministry |-> m, servant |-> s,
                gone |-> IF rows[i].servant = s THEN Nobody ELSE rows[i].servant])
    /\ UNCHANGED <<rotaVars, taskTables, taskHistory>>

\* A change of the ministry alone asks nothing of the tasks.
CommitMove(r) ==
    /\ req[r].stage = "movingRow"
    /\ LET gone == req[r].gone
           refused == \/ req[r].row \notin Kept
                      \/ Taken(req[r].ministry, req[r].servant, req[r].row)
       IN  IF refused THEN Finish(r) /\ UNCHANGED <<rows, silent, leavers>>
           ELSE /\ WriteRow(req[r].row, req[r].ministry, req[r].servant)
                /\ silent' = TRUE
                /\ leavers' = leavers \cup ({gone} \ {Nobody})
                /\ IF gone = Nobody THEN Finish(r)
                   ELSE Step(r, [kind |-> "reallocate", stage |-> "impact",
                                 touches |-> {"rota", gone}, gone |-> gone])
    /\ UNCHANGED <<versions, board, several, taskTables, patched, excused>>

\* reallocateFromRemovedServant has an endpoint of its own.
CallReallocate(r, s) ==
    /\ Call(r, [kind |-> "reallocate", stage |-> "impact", touches |-> {"rota", s},
                gone |-> s])
    /\ UNCHANGED <<rotaVars, taskTables, taskHistory>>

\* Seeded fault: only what is ASSIGNED is taken from the servant.
Impacted_AssignedOnly(s) == {t \in Tasks : occ[t].status = "ASSIGNED" /\ occ[t].assigned = s}

Impacted(s) == TasksOf(s)

\* The tasks are read, and for AUTO_EQUAL_DISTRIBUTION the rota; two queries,
\* told here as one.  The mode came with the call and matters from here on.
ReadImpact(r, mode) ==
    /\ req[r].stage = "impact"
    /\ LET todo == Impacted(req[r].gone)
       IN  IF todo = {} THEN Finish(r)
           ELSE Step(r, [kind |-> "reallocate", stage |-> "picking",
                         touches |-> req[r].touches \cup todo, gone |-> req[r].gone,
                         mode |-> mode, todo |-> todo,
                         pool |-> IF mode = "AUTO_EQUAL_DISTRIBUTION"
                                  THEN Showing \ {req[r].gone} ELSE {}])
    /\ UNCHANGED <<rotaVars, taskTables, taskHistory>>

\* Who gets the task: by the mode nobody, the one the request names, or one of
\* the rota who is eligible, of whom the load picks any.
Picks(r, t) ==
    LET pool == {s \in req[r].pool : Eligible(s, t)}
    IN  CASE req[r].mode = "UNASSIGN" -> {Nobody}
          [] req[r].mode = "MANUAL" -> Servants \cup {Nobody}
          [] OTHER -> IF pool = {} THEN {Nobody} ELSE pool

\* Naming a servant who is not eligible throws: the tasks after this one stay
\* with the servant who left.
Pick(r, t, s) ==
    /\ req[r].stage = "picking" /\ t \in req[r].todo
    /\ s \in Picks(r, t)
    /\ IF s = Nobody \/ Eligible(s, t)
       THEN /\ Step(r, [kind |-> "reallocate", stage |-> "movingTask",
                        touches |-> req[r].touches \cup ({s} \ {Nobody}), gone |-> req[r].gone,
                        mode |-> req[r].mode, todo |-> req[r].todo \ {t}, pool |-> req[r].pool,
                        task |-> t, to |-> s])
            /\ UNCHANGED leavers
       ELSE Finish(r) /\ leavers' = leavers \ {req[r].gone}
    /\ UNCHANGED <<rotaVars, taskTables, patched, excused>>

MoveTask(r) ==
    /\ req[r].stage = "movingTask"
    /\ ChangeAssignment(req[r].task, req[r].gone, req[r].to)
    /\ IF req[r].todo = {} THEN Finish(r)
       ELSE Step(r, [kind |-> "reallocate", stage |-> "picking", touches |-> req[r].touches,
                     gone |-> req[r].gone, mode |-> req[r].mode, todo |-> req[r].todo,
                     pool |-> req[r].pool])
    /\ Rejoin(req[r].to)
    /\ UNCHANGED <<rotaVars, template, patched, excused>>

-----------------------------------------------------------------------------
TypeOK ==
    /\ RotaTypeOK
    /\ template \in [live : BOOLEAN, items : SUBSET Items, limit : 1..2]
    /\ occ \in [Tasks -> [status : Open \cup Final \cup {"none", "OVERDUE"},
                          assigned : Servants \cup {Nobody}, items : SUBSET Items,
                          done : SUBSET Items, dated : BOOLEAN, late : BOOLEAN,
                          made : {"none", "hand", "recurrence"}]]
    /\ \A t \in Tasks : occ[t].done \subseteq occ[t].items
    /\ listed \in [Tasks -> SUBSET (Servants \X Roles)]
    /\ \A t \in Tasks : active[t] \subseteq listed[t]

\* An occurrence as it may stand, with its assignee rows: not made yet, made by
\* hand with or without a servant and supporters, or completed; one of nobody has
\* the items its template had at that time.
Standing(s, support, status) ==
    [occ |-> [Unused EXCEPT !.status = status, !.assigned = s, !.dated = TRUE,
                            !.items = IF s = Nobody THEN Required ELSE Items,
                            !.done = IF status = "COMPLETED" THEN Items ELSE {},
                            !.made = "hand"],
     rows |-> RowsFor(s, support)]
NotMade == [occ |-> Unused, rows |-> {}]
Given == {Standing(s, {}, status) : s \in Servants, status \in {"ASSIGNED", "COMPLETED"}}
Others == {Standing(Nobody, {}, "PENDING")}
          \cup {Standing(s, Servants \ {s}, "ASSIGNED") : s \in Servants}

TasksInit ==
    /\ template = [live |-> TRUE, items |-> Items, limit |-> 2]
    /\ \E standing \in [Tasks -> {NotMade} \cup Given \cup Others] :
          /\ Cardinality({t \in Tasks : standing[t] \in Others}) <= 1
          /\ Cardinality({t \in Tasks : standing[t] # NotMade}) <= MaxMade
          /\ \A t, u \in Tasks : t # u /\ standing[t].occ.status = "ASSIGNED"
                                  /\ standing[u].occ.status = "ASSIGNED" =>
                                  standing[t].occ.assigned # standing[u].occ.assigned
          /\ occ = [t \in Tasks |-> standing[t].occ]
          /\ listed = [t \in Tasks |-> standing[t].rows]
    /\ active = listed
    /\ patched = {} /\ excused = {} /\ leavers = {}

Init == RotaInit /\ TasksInit

CallOnTask(r, t) ==
    \/ \E s \in Servants : CallAssign(r, t, s) \/ CallAssignToLeader(r, t, s)
    \/ \E s \in Servants, keep \in BOOLEAN : CallReassign(r, t, s, keep)
    \/ \E s \in Servants, role \in Roles :
          CallAddAssignee(r, t, s, role) \/ CallRemoveAssignee(r, t, s, role)
    \/ \E done \in SUBSET Items : CallChecklist(r, t, done)
    \/ \E status \in Final : CallEnd(r, t, status)

\* What the timers of MinistryTasksScheduler start, unless an automation rule says
\* not to.  The flag a timer looks at before it asks the rule, and sets after, keeps
\* it from overlapping itself in most runs; nothing keeps two processes apart.  The
\* alerts of the third timer touch no task.
TimerFires(r) == CallGenerateTasks(r, TRUE) \/ CallSweep(r)

TaskCall(r) ==
    \/ \E s \in Servants \cup {Nobody}, support \in SUBSET Servants :
          CallCreateTask(r, s, support)
    \/ CallGenerateTasks(r, FALSE)
    \/ \E t \in Tasks : CallOnTask(r, t)
    \/ TimerFires(r)
    \/ \E i \in RowIds, m \in Ministries, s \in Servants : CallMove(r, i, m, s)
    \/ \E s \in Servants : CallReallocate(r, s)

TaskStep(r) ==
    \/ AdmitTask(r) \/ CommitCreateTask(r)
    \/ SeekOccurrence(r) \/ GenerateOccurrence(r)
    \/ CheckServant(r) \/ Apply(r) \/ ClearChecklist(r)
    \/ ListAssignee(r) \/ UnlistAssignee(r) \/ Promote(r)
    \/ Recount(r) \/ StoreStatus(r) \/ CommitEnd(r)
    \/ MarkOverdue(r)
    \/ CommitMove(r)
    \/ \E mode \in Modes : ReadImpact(r, mode)
    \/ \E t \in Tasks, s \in Servants \cup {Nobody} : Pick(r, t, s)
    \/ MoveTask(r)

\* Stages of a request that has written something already.
HalfDone == {"writing", "choosing", "invalidating", "recounting", "storing", "clearing",
             "promoting", "impact", "picking", "movingTask"}

\* The tables of the tasks stay as they are when the rota takes a step.
RotaOnly == UNCHANGED <<taskTables, taskHistory>>

Next ==
    \/ \E r \in Requests :
          \/ /\ calls < MaxCalls /\ ~ Busy(r)
             /\ \/ TaskCall(r)
                \/ RotaCall(r) /\ RotaOnly
          \/ /\ Busy(r)
             /\ \/ TaskStep(r)
                \/ RotaStep(r) /\ RotaOnly
                \/ Break(r, HalfDone) /\ UNCHANGED rotaVars /\ RotaOnly
    \/ BoardExpires /\ RotaOnly
    \/ UpdateTemplate
    \/ \E t \in Tasks : DueDatePasses(t)

Spec == Init /\ [][Next]_vars

-----------------------------------------------------------------------------
(* Properties                                                              *)

\* What the sweep for overdue tasks, a change of the rota or the recalculation
\* after a creation touch stays finished if it was: a completed or cancelled
\* task is opened only by a request that gives it to somebody or ticks its
\* checklist, or by one that had read it before it was finished.
Reopening == {"assign", "reassign", "restart", "checklist"}
FinishedStays ==
    [][\A t \in Tasks : occ[t].status \in Final /\ occ'[t].status \notin Final =>
          \/ t \in raced'
          \/ \E r \in Requests : /\ req[r].kind \in Reopening /\ req[r].task = t
                                 /\ req'[r] # req[r]]_vars

\* A servant has one open task in a service: whoever gives one asks first, and
\* only two gifts to him in flight together get past, or the ways in which
\* nobody asks: a supporter promoted, a leader chosen by an automation, a
\* finished task opened again.
OneTaskPerService ==
    \A s \in Servants \ (excused \cup raced) : Cardinality(TasksOf(s)) <= 1

\* The assignee table and the occurrence agree on who is responsible, once the
\* requests about the task are done and unless its servant was set beside the
\* transaction that changes both.
PrimaryAgrees ==
    \A t \in Tasks \ (raced \cup patched) :
       failures = 0 /\ (\A r \in Requests : t \notin req[r].touches) =>
          {s \in Servants : <<s, "PRIMARY">> \in active[t]} = {occ[t].assigned} \ {Nobody}

\* A servant who was moved off the rota has no open task of the service when
\* the request is over, unless one was given to him since, or the request named
\* a successor who was refused and stopped there.
LeaverKeepsNothing ==
    failures = 0 =>
       \A s \in leavers :
          \/ TasksOf(s) = {}
          \/ \E r \in Requests : req[r].kind = "reallocate" /\ req[r].gone = s
=============================================================================
