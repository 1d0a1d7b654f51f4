------------------------ MODULE MinistryTasks_proofs ------------------------
(***************************************************************************)
(* Theorems about the rota and the tasks of a service, for any number of   *)
(* servants, ministries, rows, tasks and requests in flight: type          *)
(* correctness, the three invariants of the rota (Rota_proofs has their    *)
(* lemmas) and those of the tasks.                                         *)
(*                                                                         *)
(* As for the rota, a request that has asked something of the tables goes  *)
(* on knowing it until it writes, or has raced: that the servant it gives  *)
(* a task to has no other (GiftIsFree), who had the task (FromIsCurrent),  *)
(* that the task is not finished (NotFinished).                            *)
(***************************************************************************)
EXTENDS MinistryTasks, Rota_proofs

Statuses == Open \cup Final \cup {"none", "OVERDUE"}
MaybeServant == Servants \cup {Nobody}
OccRecord == [status : Statuses, assigned : MaybeServant, items : SUBSET Items,
              done : SUBSET Items, dated : BOOLEAN, late : BOOLEAN,
              made : {"none", "hand", "recurrence"}]

-----------------------------------------------------------------------------
(* What a request on tasks carries at its stage.                           *)

Creation(stage) ==
    [kind : {"createTask"}, stage : {stage}, to : MaybeServant, support : SUBSET Servants,
     touches : SUBSET Servants, items : SUBSET Items]
Recurrence(stage) ==
    [kind : {"generateTasks"}, stage : {stage}, touches : {{"occurrence"}},
     items : SUBSET Items, job : BOOLEAN]
Assignment(stage) ==
    [kind : {"assign", "reassign", "restart"}, stage : {stage},
     touches : SUBSET (Tasks \cup Servants), task : Tasks, from : MaybeServant, to : Servants]
Listing(stage) ==
    [kind : {"list"}, stage : {stage}, touches : SUBSET (Tasks \cup Servants), task : Tasks,
     to : Servants, role : Roles]
Unlisting(stage) ==
    [kind : {"unlist"}, stage : {stage}, touches : SUBSET (Tasks \cup Servants), task : Tasks,
     row : Servants \X Roles, to : MaybeServant]

CarriesTask(q) ==
    /\ q.stage \in {"admitting", "adding"} =>
          q \in Creation(q.stage) /\ {q.to} \cap Servants \subseteq q.touches
    /\ q.stage \in {"seeking", "generating"} => q \in Recurrence(q.stage)
    /\ q.stage \in {"applying", "clearing"} \/ (q.stage = "checking" /\ q.kind # "list") =>
          q \in Assignment(q.stage) /\ {q.task, q.to} \subseteq q.touches
    /\ q.stage = "clearing" => q.kind = "restart"
    /\ q.kind = "list" => q \in Listing(q.stage) /\ {q.task, q.to} \subseteq q.touches
    /\ q.stage = "listing" => q.kind = "list"
    /\ q.kind = "unlist" => q \in Unlisting(q.stage) /\ q.task \in q.touches
    /\ q.stage = "unlisting" => q.kind = "unlist"
    /\ q.stage = "promoting" =>
          /\ q.kind \in {"list", "unlist", "lead"}
          /\ q.task \in Tasks /\ q.to \in MaybeServant /\ q.task \in q.touches
    /\ q.stage \in {"recounting", "storing"} =>
          /\ q.kind \in {"createTask", "reassign", "restart", "checklist"}
          /\ q.task \in Tasks /\ q.task \in q.touches
    /\ q.stage = "storing" => q.status \in Statuses \ {"none"}
    /\ q.stage = "ending" =>
          q \in [kind : {"end"}, stage : {"ending"}, touches : {{t} : t \in Tasks},
                 task : Tasks, status : Final] /\ q.task \in q.touches
    /\ q.stage = "sweeping" =>
          q \in [kind : {"sweep"}, stage : {"sweeping"}, touches : SUBSET Tasks]
    /\ q.stage = "movingRow" =>
          q \in [kind : {"move"}, stage : {"movingRow"}, touches : {{"rota"}}, row : RowIds,
                 ministry : Ministries, servant : Servants, gone : MaybeServant]
    /\ q.stage \in {"impact", "picking", "movingTask"} <=> q.kind = "reallocate"
    /\ q.kind = "reallocate" => q.gone \in Servants
    /\ q.stage \in {"picking", "movingTask"} =>
          q.mode \in Modes /\ q.todo \subseteq Tasks \cap q.touches /\ q.pool \subseteq Servants
    /\ q.stage = "movingTask" =>
          /\ q.task \in Tasks \ q.todo /\ q.to \in MaybeServant
          /\ {q.task} \cup ({q.to} \ {Nobody}) \subseteq q.touches

-----------------------------------------------------------------------------
(* What it knows.                                                          *)

\* The occurrences a request works on.
Handles(q) ==
    IF q.stage = "sweeping" THEN q.touches
    ELSE IF q.stage = "picking" THEN q.todo
    ELSE IF q.stage = "movingTask" THEN q.todo \cup {q.task}
    ELSE IF q.stage \in {"checking", "applying", "clearing", "listing", "unlisting", "promoting",
                         "recounting", "storing", "ending"} THEN {q.task}
    ELSE {}

HandlesMade(q) == \A t \in Handles(q) : Made(t)

\* The servant about to get a task has no other one.
Gives(q) ==
    \/ q.stage \in {"adding", "applying", "listing", "movingTask"}
    \/ q.stage = "promoting" /\ q.kind = "list"
GiftIsFree(q) ==
    Gives(q) /\ q.to \in Servants \ (raced \cup excused) =>
       TasksOf(q.to) \subseteq (IF q.stage = "adding" THEN {} ELSE {q.task})

\* The servant it is taken from has it.
FromIsCurrent(q) ==
    /\ q.stage = "applying" \/ (q.stage = "checking" /\ q.kind # "list") =>
          q.task \in raced \/ occ[q.task].assigned = q.from
    /\ q.stage \in {"picking", "movingTask"} =>
          \A t \in Handles(q) : t \in raced \/ occ[t].assigned = q.gone

\* Whoever is not to open a finished task again has one that is not finished.
KeepsFinished(q) ==
    \/ q.stage \in {"sweeping", "picking", "movingTask"}
    \/ q.kind = "createTask" /\ q.stage \in {"recounting", "storing"}
NotFinished(q) ==
    KeepsFinished(q) => \A t \in Handles(q) : t \in raced \/ occ[t].status \notin Final

KnowsTask(q) == HandlesMade(q) /\ GiftIsFree(q) /\ FromIsCurrent(q) /\ NotFinished(q)

TaskRequestsOK == \A r \in Requests : CarriesTask(req[r]) /\ KnowsTask(req[r])

-----------------------------------------------------------------------------
(* The tables.                                                             *)

TaskTablesOK ==
    /\ template \in [live : BOOLEAN, items : SUBSET Items, limit : 1..2]
    /\ occ \in [Tasks -> OccRecord]
    /\ \A t \in Tasks : occ[t].done \subseteq occ[t].items
    /\ listed \in [Tasks -> SUBSET (Servants \X Roles)]
    /\ active \in [Tasks -> SUBSET (Servants \X Roles)]
    /\ \A t \in Tasks : active[t] \subseteq listed[t]
    /\ \A t \in Tasks : ~ Made(t) => occ[t].assigned = Nobody /\ active[t] = {}
    /\ leavers \subseteq Servants

\* OneTaskPerService without counting.
NoSecondTask ==
    \A s \in Servants \ (excused \cup raced) : \A t, u \in TasksOf(s) : t = u

Agreed(t) == {s \in Servants : <<s, "PRIMARY">> \in active[t]} = {occ[t].assigned} \ {Nobody}

\* PrimaryAgrees at all times: only a request that sets the servant in a second
\* query leaves the two apart.
AgreedOrPromoting ==
    failures = 0 =>
       \A t \in Tasks \ (raced \cup patched) :
          Agreed(t) \/ \E r \in Requests : req[r].stage = "promoting" /\ req[r].task = t

\* The request that takes the tasks of s from him has all of them on its list.
Relieves(r, s) ==
    /\ req[r].kind = "reallocate" /\ req[r].gone = s
    /\ req[r].stage # "impact" => TasksOf(s) \subseteq Handles(req[r])

LeaversRelieved ==
    failures = 0 =>
       \A s \in leavers : TasksOf(s) = {} \/ \E r \in Requests : Relieves(r, s)

TaskInv ==
    /\ TaskTablesOK /\ TaskRequestsOK
    /\ NoSecondTask /\ AgreedOrPromoting /\ LeaversRelieved

IInv == RotaInv /\ TaskInv

-----------------------------------------------------------------------------
(* Requests in flight.                                                     *)

LEMMA HandledAreTouched ==
  ASSUME NEW q, CarriesTask(q)
  PROVE  Handles(q) \subseteq q.touches /\ Handles(q) \subseteq Tasks
<1>1. CASE q.stage = "sweeping"
  BY <1>1 DEF CarriesTask, Handles
<1>2. CASE q.stage = "picking"
  BY <1>2 DEF CarriesTask, Handles
<1>3. CASE q.stage = "movingTask"
  BY <1>3 DEF CarriesTask, Handles
<1>4. CASE q.stage \in {"applying", "clearing"} \/ (q.stage = "checking" /\ q.kind # "list")
  BY <1>4 DEF CarriesTask, Handles, Assignment
<1>5. CASE q.stage \in {"checking", "listing"} /\ q.kind = "list"
  BY <1>5 DEF CarriesTask, Handles, Listing
<1>6. CASE q.stage = "unlisting"
  BY <1>6 DEF CarriesTask, Handles, Unlisting
<1>7. CASE q.stage \in {"promoting", "recounting", "storing"}
  BY <1>7 DEF CarriesTask, Handles
<1>8. CASE q.stage = "ending"
  BY <1>8 DEF CarriesTask, Handles
<1>9. CASE q.stage \notin {"sweeping", "picking", "movingTask", "checking", "applying",
                          "clearing", "listing", "unlisting", "promoting", "recounting",
                          "storing", "ending"}
  BY <1>9 DEF Handles
<1>10. q.stage = "listing" => q.kind = "list"
  BY DEF CarriesTask
<1> QED
  BY <1>1, <1>2, <1>3, <1>4, <1>5, <1>6, <1>7, <1>8, <1>9, <1>10

LEMMA GiftIsTouched ==
  ASSUME NEW q, CarriesTask(q), Gives(q), q.to \in Servants
  PROVE  q.to \in q.touches
<1>1. CASE q.stage = "adding"
  BY <1>1 DEF CarriesTask
<1>2. CASE q.stage = "applying"
  BY <1>2 DEF CarriesTask
<1>3. CASE q.kind = "list"
  BY <1>3 DEF CarriesTask
<1>4. CASE q.stage = "movingTask"
  BY <1>4, RotaAssumption DEF CarriesTask
<1>5. q.stage = "listing" => q.kind = "list"
  BY DEF CarriesTask
<1> QED
  BY <1>1, <1>2, <1>3, <1>4, <1>5 DEF Gives

\* What a request knows stays true through a step that works on other things,
\* or on the same ones with a race on record.
LEMMA KnowledgeLasts ==
  ASSUME NEW q, CarriesTask(q), KnowsTask(q),
         raced \subseteq raced', excused \subseteq excused',
         NEW moved, q.touches \cap moved \subseteq raced',
         \A t \in Tasks : Made(t) => Made(t)',
         \A t \in Tasks : \/ t \in moved
                          \/ ~ Made(t)
                          \/ /\ occ'[t].assigned = occ[t].assigned
                             /\ occ'[t].status = occ[t].status,
         \A s \in Servants : s \in moved \cup excused' \/ TasksOf(s)' \subseteq TasksOf(s)
  PROVE  KnowsTask(q)'
<1>1. Handles(q) \subseteq q.touches /\ Handles(q) \subseteq Tasks
  BY HandledAreTouched
<1>2. HandlesMade(q)'
  BY <1>1 DEF KnowsTask, HandlesMade
<1>3. \A t \in Handles(q) : \/ t \in raced'
                            \/ /\ occ'[t].assigned = occ[t].assigned
                               /\ occ'[t].status = occ[t].status
  BY <1>1 DEF KnowsTask, HandlesMade
<1>4. GiftIsFree(q)'
  <2> SUFFICES ASSUME Gives(q), q.to \in Servants, q.to \notin raced', q.to \notin excused'
               PROVE  TasksOf(q.to)' \subseteq (IF q.stage = "adding" THEN {} ELSE {q.task})
    BY DEF GiftIsFree, Gives
  <2>1. TasksOf(q.to) \subseteq (IF q.stage = "adding" THEN {} ELSE {q.task})
    BY DEF KnowsTask, GiftIsFree
  <2>2. q.to \notin moved
    BY GiftIsTouched
  <2>3. TasksOf(q.to)' \subseteq TasksOf(q.to)
    BY <2>2
  <2> QED
    BY <2>1, <2>3
<1>5. FromIsCurrent(q)'
  <2>1. ASSUME q.stage = "applying" \/ (q.stage = "checking" /\ q.kind # "list")
        PROVE  q.task \in raced' \/ occ'[q.task].assigned = q.from
    <3>1. q.task \in Handles(q)
      BY <2>1 DEF Handles
    <3> QED
      BY <1>3, <2>1, <3>1 DEF KnowsTask, FromIsCurrent
  <2>2. ASSUME q.stage \in {"picking", "movingTask"}, NEW t \in Handles(q)
        PROVE  t \in raced' \/ occ'[t].assigned = q.gone
    BY <1>3, <2>2 DEF KnowsTask, FromIsCurrent
  <2>3. Handles(q)' = Handles(q)
    BY DEF Handles
  <2> QED
    BY <2>1, <2>2, <2>3 DEF FromIsCurrent
<1>6. NotFinished(q)'
  BY <1>3 DEF KnowsTask, NotFinished, KeepsFinished, Handles
<1> QED
  BY <1>2, <1>4, <1>5, <1>6 DEF KnowsTask

LEMMA OthersKnow ==
  ASSUME TaskInv, NEW r \in Requests, Moved(r), excused \subseteq excused',
         \A t \in Tasks : Made(t) => Made(t)',
         \A t \in Tasks : \/ t \in req[r].touches \cup req'[r].touches
                          \/ ~ Made(t)
                          \/ /\ occ'[t].assigned = occ[t].assigned
                             /\ occ'[t].status = occ[t].status,
         \A s \in Servants : \/ s \in (req[r].touches \cup req'[r].touches) \cup excused'
                             \/ TasksOf(s)' \subseteq TasksOf(s),
         RacesKnown,
         NEW q \in Requests \ {r}
  PROVE  CarriesTask(req'[q]) /\ KnowsTask(req[q])' /\ req'[q] = req[q]
<1> DEFINE v == req[q]
           moved == req[r].touches \cup req'[r].touches
<1>1. req'[q] = v /\ raced \subseteq raced'
  BY DEF Moved
<1>2. CarriesTask(v) /\ KnowsTask(v)
  BY DEF TaskInv, TaskRequestsOK
<1>3. v.touches \cap moved \subseteq raced'
  BY <1>1 DEF Moved, RacesKnown
<1>4. \A x : CarriesTask(x) /\ KnowsTask(x) /\ x.touches \cap moved \subseteq raced' => KnowsTask(x)'
  BY <1>1, KnowledgeLasts
<1> HIDE DEF v, moved
<1>5. \A x : x = v => KnowsTask(x)'
  BY <1>2, <1>3, <1>4
<1>6. KnowsTask(req[q])'
  BY <1>1, <1>5 DEF v, KnowsTask, HandlesMade, GiftIsFree, FromIsCurrent, NotFinished, Gives,
                    KeepsFinished, Handles, Made, TasksOf, Live
<1> QED
  BY <1>1, <1>2, <1>6 DEF v

-----------------------------------------------------------------------------
(* Steps that leave the tables alone.                                      *)

TaskStages == {"idle", "admitting", "adding", "seeking", "generating", "checking", "applying",
               "clearing", "listing", "unlisting", "promoting", "recounting", "storing",
               "ending", "sweeping", "movingRow", "impact", "picking", "movingTask"}

LEMMA RotaKept ==
  ASSUME RotaInv, NEW r \in Requests, Moved(r), HandlersTypeOK', UNCHANGED rotaVars,
         failures' = failures \/ failures' # 0,
         req[r].stage \in TaskStages \/ failures' # 0,
         req'[r].stage \in TaskStages \ {"movingRow"}
  PROVE  RotaInv'
<1>1. Carries(req'[r])
  BY DEF Carries, TaskStages
<1>2. req'[r].stage \notin Knowing
  BY DEF Knowing, TaskStages
<1>3. req[r].stage = "invalidating" => failures' # 0
  BY DEF TaskStages
<1> QED
  BY <1>1, <1>2, <1>3, NothingLearnt DEF rotaVars

\* Whatever the tables of the rota do, those of the tasks and their history stay.
LEMMA TablesAlone ==
  ASSUME TaskInv, NEW r \in Requests, Moved(r), RacesKnown,
         failures' = failures \/ failures' # 0,
         UNCHANGED <<occ, listed, active, patched, excused>>, leavers' \subseteq leavers,
         template' \in [live : BOOLEAN, items : SUBSET Items, limit : 1..2],
         NEW v, req'[r] = v, CarriesTask(v), KnowsTask(v),
         req[r].stage # "promoting" \/ failures' # 0,
         \/ failures' # 0
         \/ \A s \in leavers' : Relieves(r, s) => Relieves(r, s)' \/ TasksOf(s) = {}
  PROVE  TaskInv'
<1>1. /\ occ' = occ /\ listed' = listed /\ active' = active
      /\ patched' = patched /\ excused' = excused
  OBVIOUS
<1>2. /\ \A t : Made(t)' = Made(t)
      /\ \A s : TasksOf(s)' = TasksOf(s)
  BY <1>1 DEF Made, TasksOf, Live
<1>3. TaskTablesOK'
  BY <1>1, <1>2 DEF TaskInv, TaskTablesOK
<1>4. ASSUME NEW q \in Requests \ {r} PROVE CarriesTask(req'[q]) /\ KnowsTask(req[q])'
  BY <1>1, <1>2, OthersKnow
<1>5. KnowsTask(req[r])'
  <2>1. raced \subseteq raced' /\ v.touches \cap {} \subseteq raced'
    BY DEF Moved
  <2>2. KnowsTask(v)'
    BY <1>1, <1>2, <2>1, KnowledgeLasts
  <2> QED
    BY <2>2 DEF KnowsTask, HandlesMade, GiftIsFree, FromIsCurrent, NotFinished, Gives,
                KeepsFinished, Handles, Made, TasksOf, Live
<1>6. TaskRequestsOK'
  BY <1>4, <1>5 DEF TaskRequestsOK
<1>7. NoSecondTask'
  BY <1>1, <1>2 DEF TaskInv, NoSecondTask, Moved
<1>8. AgreedOrPromoting'
  <2> SUFFICES ASSUME failures' = 0, NEW t \in Tasks \ (raced' \cup patched)
               PROVE  Agreed(t)' \/ \E q \in Requests : req'[q].stage = "promoting" /\ req'[q].task = t
    BY <1>1 DEF AgreedOrPromoting
  <2>1. Agreed(t) \/ \E q \in Requests : req[q].stage = "promoting" /\ req[q].task = t
    BY DEF TaskInv, AgreedOrPromoting, Moved
  <2>2. Agreed(t) => Agreed(t)'
    BY <1>1 DEF Agreed
  <2> QED
    BY <2>1, <2>2 DEF Moved
<1>9. LeaversRelieved'
  <2> SUFFICES ASSUME failures' = 0, NEW s \in leavers'
               PROVE  TasksOf(s) = {} \/ \E q \in Requests : Relieves(q, s)'
    BY <1>1, <1>2 DEF LeaversRelieved
  <2>1. TasksOf(s) = {} \/ \E q \in Requests : Relieves(q, s)
    BY DEF TaskInv, LeaversRelieved
  <2>2. ASSUME NEW q \in Requests \ {r}, Relieves(q, s) PROVE Relieves(q, s)'
    BY <1>2, <2>2 DEF Relieves, Handles, Moved
  <2> QED
    BY <2>1, <2>2
<1> QED
  BY <1>3, <1>6, <1>7, <1>8, <1>9 DEF TaskInv

LEMMA QuietOK ==
  ASSUME IInv, NEW r \in Requests, Moved(r), HandlersTypeOK', failures' = failures,
         UNCHANGED <<rotaVars, taskTables, taskHistory>>,
         req[r].stage \in TaskStages \ {"promoting"},
         NEW v, req'[r] = v, v.stage \in TaskStages \ {"movingRow"}, CarriesTask(v), KnowsTask(v),
         \A s \in leavers : Relieves(r, s) => Relieves(r, s)' \/ TasksOf(s) = {}
  PROVE  IInv'
<1>1. RotaInv'
  BY RotaKept DEF IInv
<1>2. template' \in [live : BOOLEAN, items : SUBSET Items, limit : 1..2]
  BY DEF IInv, TaskInv, TaskTablesOK, taskTables
<1>3. UNCHANGED <<occ, listed, active, patched, excused, leavers>>
  BY DEF taskTables, taskHistory
<1>4. TaskInv'
  BY <1>2, <1>3, TablesAlone DEF IInv, RotaInv
<1> QED
  BY <1>1, <1>4 DEF IInv

LEMMA IdleKnowsNothing == CarriesTask(Idle) /\ KnowsTask(Idle)
<1>1. Idle.kind = "none" /\ Idle.stage = "idle"
  BY IdleFacts
<1>2. CarriesTask(Idle)
  BY <1>1 DEF CarriesTask
<1>3. Handles(Idle) = {}
  BY <1>1 DEF Handles
<1> QED
  BY <1>1, <1>2, <1>3
     DEF KnowsTask, HandlesMade, GiftIsFree, FromIsCurrent, NotFinished, Gives, KeepsFinished

LEMMA OfRotaKnowsNothing ==
  ASSUME NEW q, OfRota(q) PROVE CarriesTask(q) /\ KnowsTask(q)
<1>1. CASE q = Idle
  BY <1>1, IdleKnowsNothing
<1>2. CASE q.kind \in RotaKinds /\ q.stage \in RotaStages
  <2>1. CarriesTask(q)
    BY <1>2 DEF CarriesTask, RotaKinds, RotaStages
  <2>2. Handles(q) = {}
    BY <1>2 DEF Handles, RotaStages
  <2> QED
    BY <1>2, <2>1, <2>2
       DEF KnowsTask, HandlesMade, GiftIsFree, FromIsCurrent, NotFinished, Gives, KeepsFinished,
           RotaKinds, RotaStages
<1> QED
  BY <1>1, <1>2 DEF OfRota

\* The steps of the rota do not concern the tasks.
LEMMA RotaActionOK ==
  ASSUME IInv, NEW r \in Requests, RotaCall(r) \/ RotaStep(r), RotaOnly
  PROVE  IInv'
<1>1. RotaInv'
  BY RotaCallOK, RotaStepOK DEF IInv
<1>2. Moved(r) /\ failures' = failures /\ OfRota(req[r]) /\ OfRota(req'[r])
  BY RotaCallMoves, RotaStepMoves DEF IInv
<1>3. /\ UNCHANGED <<occ, listed, active, patched, excused, leavers>>
      /\ template' \in [live : BOOLEAN, items : SUBSET Items, limit : 1..2]
  BY DEF RotaOnly, taskTables, taskHistory, IInv, TaskInv, TaskTablesOK
<1>4. req[r].stage # "promoting" /\ req[r].kind # "reallocate"
  BY <1>2, IdleFacts DEF OfRota, RotaKinds, RotaStages
<1>5. \A s \in leavers : ~ Relieves(r, s)
  BY <1>4 DEF Relieves
<1>6. \A v : req'[r] = v => CarriesTask(v) /\ KnowsTask(v)
  BY <1>2, OfRotaKnowsNothing
<1>7. TaskInv'
  BY <1>2, <1>3, <1>4, <1>5, <1>6, TablesAlone DEF IInv, RotaInv
<1> QED
  BY <1>1, <1>7 DEF IInv

\* No request moves: the board expires, a template changes, a due date passes.
LEMMA NobodyMoves ==
  ASSUME TaskInv, UNCHANGED <<req, raced, failures, listed, active, taskHistory>>,
         template' \in [live : BOOLEAN, items : SUBSET Items, limit : 1..2],
         occ' \in [Tasks -> OccRecord],
         \A t \in Tasks : /\ occ'[t].assigned = occ[t].assigned /\ occ'[t].status = occ[t].status
                          /\ occ'[t].done = occ[t].done /\ occ'[t].items = occ[t].items
  PROVE  TaskInv'
<1>1. /\ req' = req /\ raced' = raced /\ failures' = failures
      /\ listed' = listed /\ active' = active
      /\ patched' = patched /\ excused' = excused /\ leavers' = leavers
  BY DEF taskHistory
<1>2. /\ \A t \in Tasks : Made(t)' <=> Made(t)
      /\ \A s : TasksOf(s)' = TasksOf(s)
  BY DEF Made, TasksOf, Live
<1>3. TaskTablesOK'
  BY <1>1, <1>2 DEF TaskInv, TaskTablesOK
<1>4. ASSUME NEW q \in Requests PROVE CarriesTask(req'[q]) /\ KnowsTask(req[q])'
  <2> DEFINE v == req[q]
  <2>1. CarriesTask(v) /\ KnowsTask(v)
    BY DEF TaskInv, TaskRequestsOK
  <2> HIDE DEF v
  <2>2. \A x : CarriesTask(x) /\ KnowsTask(x) => KnowsTask(x)'
    <3> SUFFICES ASSUME NEW x, CarriesTask(x), KnowsTask(x) PROVE KnowsTask(x)'
      OBVIOUS
    <3>1. x.touches \cap {} \subseteq raced'
      OBVIOUS
    <3> QED
      BY <1>1, <1>2, <3>1, KnowledgeLasts
  <2>3. \A x : x = v => KnowsTask(x)'
    BY <2>1, <2>2
  <2>4. KnowsTask(req[q])'
    BY <1>1, <2>3 DEF v, KnowsTask, HandlesMade, GiftIsFree, FromIsCurrent, NotFinished, Gives,
                      KeepsFinished, Handles, Made, TasksOf, Live
  <2> QED
    BY <1>1, <2>1, <2>4 DEF v
<1>5. NoSecondTask'
  BY <1>1, <1>2 DEF TaskInv, NoSecondTask
<1>6. AgreedOrPromoting'
  BY <1>1 DEF TaskInv, AgreedOrPromoting, Agreed
<1>7. LeaversRelieved'
  <2>1. LeaversRelieved
    BY DEF TaskInv
  <2>2. \A q \in Requests, s \in leavers : Relieves(q, s) => Relieves(q, s)'
    BY <1>1, <1>2 DEF Relieves, Handles
  <2> QED
    BY <1>1, <1>2, <2>1, <2>2 DEF LeaversRelieved
<1> QED
  BY <1>3, <1>4, <1>5, <1>6, <1>7 DEF TaskInv, TaskRequestsOK

LEMMA RotaSleeps ==
  ASSUME RotaInv, UNCHANGED <<rotaVars, req, failures, raced>>, calls' \in 0..MaxCalls
  PROVE  RotaInv'
<1>1. /\ rows' = rows /\ versions' = versions /\ req' = req
      /\ failures' = failures /\ raced' = raced /\ several' = several /\ silent' = silent
      /\ board' = board
  BY DEF rotaVars, rotaTables, rotaHistory
<1>2. RotaTypeOK'
  <2>1. HandlersTypeOK'
    <3>1. /\ \A q \in Requests : req[q].kind = "none" <=> req[q] = Idle
          /\ failures \in 0..MaxFailures
      BY DEF RotaInv, RotaTypeOK, HandlersTypeOK
    <3>2. \A q \in Requests : req'[q].kind = "none" <=> req'[q] = Idle
      BY <1>1, <3>1
    <3> QED
      BY <1>1, <3>1, <3>2 DEF HandlersTypeOK
  <2> QED
    BY <1>1, <2>1 DEF RotaInv, RotaTypeOK, VersionNumbers
<1>3. ReqFn' /\ RacesKnown'
  BY <1>1 DEF RotaInv, ReqFn, RacesKnown
<1>4. ASSUME NEW q \in Requests
      PROVE  Carries(req'[q]) /\ KnowsRows(q)' /\ KnowsBoard(q)' /\ KnowsVersions(q)'
  <2>1. Carries(req[q]) /\ KnowsRows(q) /\ KnowsBoard(q) /\ KnowsVersions(q)
    BY DEF RotaInv, RotaRequestsOK
  <2>2. KnowsRows(q)'
    BY <1>1, <2>1 DEF KnowsRows, OnRota, Kept, Existing
  <2>3. KnowsBoard(q)' /\ KnowsVersions(q)'
    BY <1>1, <2>1 DEF KnowsBoard, KnowsVersions, Showing, RowsOf, Kept, Published, VersionNumbers
  <2> QED
    BY <1>1, <2>1, <2>2, <2>3
<1>5. OnePublished' /\ OneRowPerServant' /\ BoardIsCurrent'
  BY <1>1 DEF RotaInv, OnePublished, Published, VersionNumbers, OneRowPerServant, Kept,
              BoardIsCurrent, Showing, RowsOf, InFlight
<1> QED
  BY <1>2, <1>3, <1>4, <1>5 DEF RotaInv, RotaRequestsOK

LEMMA BoardExpiresKeeps ==
  ASSUME IInv, BoardExpires, RotaOnly PROVE IInv'
<1>1. RotaInv'
  BY BoardExpiresOK DEF IInv
<1>2. UNCHANGED <<req, raced, failures, listed, active, taskHistory>> /\ occ' = occ
      /\ template' = template
  BY DEF BoardExpires, RotaOnly, taskTables
<1>3. TaskInv'
  BY <1>2, NobodyMoves DEF IInv, TaskInv, TaskTablesOK
<1> QED
  BY <1>1, <1>3 DEF IInv

LEMMA UpdateTemplateOK ==
  ASSUME IInv, UpdateTemplate PROVE IInv'
<1>1. /\ UNCHANGED <<req, raced, failures, listed, active, taskHistory>> /\ occ' = occ
      /\ UNCHANGED rotaVars /\ calls < MaxCalls /\ calls' = calls + 1
      /\ \/ template' = [template EXCEPT !.items = Required, !.limit = 1]
         \/ template' = [template EXCEPT !.live = FALSE]
  BY DEF UpdateTemplate
<1>2. template' \in [live : BOOLEAN, items : SUBSET Items, limit : 1..2]
  <2>1. template \in [live : BOOLEAN, items : SUBSET Items, limit : 1..2]
    BY DEF IInv, TaskInv, TaskTablesOK
  <2>2. CASE template' = [template EXCEPT !.items = Required, !.limit = 1]
    <3>1. Required \in SUBSET Items /\ 1 \in 1..2
      BY TasksAssumption
    <3>2. template' = [live |-> template.live, items |-> Required, limit |-> 1]
      BY <2>1, <2>2
    <3> QED
      BY <2>1, <3>1, <3>2
  <2>3. CASE template' = [template EXCEPT !.live = FALSE]
    BY <2>1, <2>3
  <2> QED
    BY <1>1, <2>2, <2>3
<1>3. calls' \in 0..MaxCalls
  BY <1>1, HandlersAssumption DEF IInv, RotaInv, RotaTypeOK, HandlersTypeOK
<1>4. RotaInv'
  BY <1>1, <1>3, RotaSleeps DEF IInv
<1>5. TaskInv'
  BY <1>1, <1>2, NobodyMoves DEF IInv, TaskInv, TaskTablesOK
<1> QED
  BY <1>4, <1>5 DEF IInv

LEMMA DueDatePassesOK ==
  ASSUME IInv, NEW t \in Tasks, DueDatePasses(t) PROVE IInv'
<1>1. /\ UNCHANGED <<req, raced, failures, listed, active, taskHistory>>
      /\ template' = template /\ occ' = [occ EXCEPT ![t].late = TRUE]
      /\ UNCHANGED rotaVars /\ calls' = calls
  BY DEF DueDatePasses
<1>2. occ \in [Tasks -> OccRecord]
      /\ template \in [live : BOOLEAN, items : SUBSET Items, limit : 1..2]
  BY DEF IInv, TaskInv, TaskTablesOK
<1>3. /\ occ' \in [Tasks -> OccRecord]
      /\ \A u \in Tasks : /\ occ'[u].assigned = occ[u].assigned /\ occ'[u].status = occ[u].status
                           /\ occ'[u].done = occ[u].done /\ occ'[u].items = occ[u].items
  BY <1>1, <1>2, ZenonT(60) DEF OccRecord
<1>4. RotaInv'
  BY <1>1, RotaSleeps DEF IInv, RotaInv, RotaTypeOK, HandlersTypeOK
<1>5. TaskInv'
  BY <1>1, <1>2, <1>3, NobodyMoves DEF IInv
<1> QED
  BY <1>4, <1>5 DEF IInv

LEMMA StutterOK ==
  ASSUME IInv, UNCHANGED vars PROVE IInv'
<1>1. /\ UNCHANGED <<req, raced, failures, listed, active, taskHistory>>
      /\ template' = template /\ occ' = occ
      /\ UNCHANGED rotaVars /\ calls' = calls
  BY DEF vars, taskTables
<1>2. RotaInv'
  BY <1>1, RotaSleeps DEF IInv, RotaInv, RotaTypeOK, HandlersTypeOK
<1>3. TaskInv'
  BY <1>1, NobodyMoves DEF IInv, TaskInv, TaskTablesOK
<1> QED
  BY <1>2, <1>3 DEF IInv

\* A request that breaks off: what depends on it is said of behaviours without
\* failures only.
LEMMA BreakOK ==
  ASSUME IInv, NEW r \in Requests, Break(r, HalfDone), UNCHANGED rotaVars, RotaOnly
  PROVE  IInv'
<1>1. Moved(r) /\ req'[r] = Idle /\ HandlersTypeOK' /\ failures' # 0
  BY BreakMoves DEF IInv, RotaInv, RotaTypeOK
<1>2. RotaInv'
  BY <1>1, RotaKept, IdleFacts DEF IInv, TaskStages
<1>3. /\ UNCHANGED <<occ, listed, active, patched, excused, leavers>>
      /\ template' \in [live : BOOLEAN, items : SUBSET Items, limit : 1..2]
  BY DEF RotaOnly, taskTables, taskHistory, IInv, TaskInv, TaskTablesOK
<1>4. TaskInv'
  BY <1>1, <1>3, TablesAlone, IdleKnowsNothing DEF IInv, RotaInv
<1> QED
  BY <1>2, <1>4 DEF IInv

-----------------------------------------------------------------------------
(* Calls and steps that only read.                                         *)

\* A request that may go on from here.
Sound(v) ==
    /\ v.stage \in TaskStages \ {"movingRow"} /\ (v.kind # "none" \/ v = Idle)
    /\ CarriesTask(v) /\ KnowsTask(v)

LEMMA IdleIsSound == Sound(Idle)
  BY IdleKnowsNothing, IdleFacts DEF Sound, TaskStages

LEMMA CallOK ==
  ASSUME IInv, NEW r \in Requests, NEW v, Sound(v), v.kind # "none", Call(r, v),
         UNCHANGED <<rotaVars, taskTables, taskHistory>>
  PROVE  IInv'
<1>1. Moved(r) /\ req'[r] = v /\ HandlersTypeOK' /\ failures' = failures /\ req[r] = Idle
  BY CallMoves DEF IInv, RotaInv, RotaTypeOK
<1>2. req[r].stage \in TaskStages \ {"promoting"} /\ req[r].kind # "reallocate"
  BY <1>1, IdleFacts DEF TaskStages
<1>3. \A s \in leavers : ~ Relieves(r, s)
  BY <1>2 DEF Relieves
<1> QED
  BY <1>1, <1>2, <1>3, QuietOK DEF Sound

LEMMA StepOK ==
  ASSUME IInv, NEW r \in Requests, NEW v, Sound(v), Step(r, v),
         req[r].stage \in TaskStages \ {"promoting"},
         UNCHANGED <<rotaVars, taskTables, taskHistory>>,
         \A s \in leavers : Relieves(r, s) => Relieves(r, s)' \/ TasksOf(s) = {}
  PROVE  IInv'
<1>1. Moved(r) /\ req'[r] = v /\ HandlersTypeOK' /\ failures' = failures
  BY StepMoves DEF IInv, RotaInv, RotaTypeOK, Sound
<1> QED
  BY <1>1, QuietOK DEF Sound

LEMMA StepsRelieve ==
  ASSUME TaskInv, NEW r \in Requests,
         req[r].stage \in TaskStages \ {"impact", "picking", "movingTask"}
  PROVE  \A s : ~ Relieves(r, s)
<1>1. CarriesTask(req[r])
  BY DEF TaskInv, TaskRequestsOK
<1>2. req[r].kind # "reallocate"
  BY <1>1 DEF CarriesTask
<1> QED
  BY <1>2 DEF Relieves

\* Stages at which a request has nothing to know.
LEMMA Carefree ==
  \A w : w.stage \in {"idle", "admitting", "seeking", "generating", "movingRow", "impact"} =>
     KnowsTask(w)
<1> SUFFICES ASSUME NEW w, w.stage \in {"idle", "admitting", "seeking", "generating",
                                       "movingRow", "impact"}
             PROVE  KnowsTask(w)
  OBVIOUS
<1>1. Handles(w) = {}
  BY DEF Handles
<1> QED
  BY <1>1 DEF KnowsTask, HandlesMade, GiftIsFree, FromIsCurrent, NotFinished, Gives, KeepsFinished

LEMMA CallCreateTaskOK ==
  ASSUME IInv, NEW r \in Requests, NEW s \in MaybeServant, NEW support \in SUBSET Servants,
         CallCreateTask(r, s, support)
  PROVE  IInv'
<1> DEFINE locals == [kind |-> "createTask", stage |-> "admitting", to |-> s, support |-> support,
                      touches |-> {s} \cap Servants, items |-> template.items]
<1>1. Call(r, locals) /\ UNCHANGED <<rotaVars, taskTables, taskHistory>>
  BY DEF CallCreateTask
<1>2. template.items \subseteq Items
  BY DEF IInv, TaskInv, TaskTablesOK
<1>3. ASSUME NEW v, v = locals PROVE Sound(v) /\ v.kind # "none"
  <2>1. v.stage = "admitting" /\ v.kind = "createTask"
    BY <1>3
  <2>2. v \in Creation("admitting") /\ {v.to} \cap Servants \subseteq v.touches
    BY <1>2, <1>3 DEF Creation
  <2>3. CarriesTask(v)
    BY <2>1, <2>2 DEF CarriesTask
  <2>9. KnowsTask(v)
    BY <2>1, Carefree
  <2> QED
    BY <2>1, <2>3, <2>9 DEF Sound, TaskStages
<1> QED
  BY <1>1, <1>3, CallOK

LEMMA AdmitTaskOK ==
  ASSUME IInv, NEW r \in Requests, AdmitTask(r)
  PROVE  IInv'
<1> DEFINE q == req[r]
           locals == [q EXCEPT !.stage = "adding"]
<1>1. /\ q.stage = "admitting" /\ UNCHANGED <<rotaVars, taskTables, taskHistory>>
      /\ IF \A s \in {q.to} \cup q.support : s = Nobody \/ Eligible(s, NoTask)
         THEN Step(r, locals) ELSE Finish(r)
  BY DEF AdmitTask
<1>2. q \in Creation("admitting") /\ {q.to} \cap Servants \subseteq q.touches
  BY <1>1 DEF IInv, TaskInv, TaskRequestsOK, CarriesTask
<1>3. \A s : ~ Relieves(r, s)
  BY <1>1, StepsRelieve DEF IInv, TaskStages
<1>4. CASE Finish(r)
  BY <1>1, <1>3, <1>4, StepOK, IdleIsSound DEF Finish, TaskStages
<1>5. CASE Step(r, locals) /\ (q.to = Nobody \/ Eligible(q.to, NoTask))
  <2>1. ASSUME NEW v, v = locals PROVE Sound(v)
    <3>1. /\ v \in Creation("adding") /\ v.to = q.to /\ v.touches = q.touches
          /\ v.stage = "adding" /\ v.kind = "createTask"
      BY <1>2, <2>1 DEF Creation
    <3>2. CarriesTask(v)
      BY <1>2, <3>1 DEF CarriesTask
    <3>3. Handles(v) = {}
      BY <3>1 DEF Handles
    <3>4. GiftIsFree(v)
      <4> SUFFICES ASSUME v.to \in Servants PROVE TasksOf(v.to) = {}
        BY <3>1 DEF GiftIsFree
      <4>1. TasksOf(v.to) \ {NoTask} = {}
        BY <1>5, <3>1, RotaAssumption DEF Eligible
      <4> QED
        BY <4>1, TasksAssumption DEF TasksOf
    <3>5. KnowsTask(v)
      BY <3>1, <3>3, <3>4 DEF KnowsTask, HandlesMade, FromIsCurrent, NotFinished, KeepsFinished
    <3> QED
      BY <3>1, <3>2, <3>5 DEF Sound, TaskStages
  <2> QED
    BY <1>1, <1>3, <1>5, <2>1, StepOK DEF TaskStages
<1> QED
  BY <1>1, <1>4, <1>5

LEMMA CallGenerateTasksOK ==
  ASSUME IInv, NEW r \in Requests, NEW job \in BOOLEAN, CallGenerateTasks(r, job)
  PROVE  IInv'
<1> DEFINE locals == [kind |-> "generateTasks", stage |-> "seeking", touches |-> {"occurrence"},
                      items |-> template.items, job |-> job]
<1>1. Call(r, locals) /\ UNCHANGED <<rotaVars, taskTables, taskHistory>>
  BY DEF CallGenerateTasks
<1>2. template.items \subseteq Items
  BY DEF IInv, TaskInv, TaskTablesOK
<1>3. ASSUME NEW v, v = locals PROVE Sound(v) /\ v.kind # "none"
  <2>1. v.stage = "seeking" /\ v.kind = "generateTasks" /\ v \in Recurrence("seeking")
    BY <1>2, <1>3 DEF Recurrence
  <2>2. CarriesTask(v)
    BY <2>1 DEF CarriesTask
  <2>9. KnowsTask(v)
    BY <2>1, Carefree
  <2> QED
    BY <2>1, <2>2, <2>9 DEF Sound, TaskStages
<1> QED
  BY <1>1, <1>3, CallOK

LEMMA SeekOccurrenceOK ==
  ASSUME IInv, NEW r \in Requests, SeekOccurrence(r)
  PROVE  IInv'
<1> DEFINE q == req[r]
           locals == [q EXCEPT !.stage = "generating"]
<1>1. /\ q.stage = "seeking" /\ UNCHANGED <<rotaVars, taskTables, taskHistory>>
      /\ Step(r, locals) \/ Finish(r)
  BY DEF SeekOccurrence
<1>2. q \in Recurrence("seeking")
  BY <1>1 DEF IInv, TaskInv, TaskRequestsOK, CarriesTask
<1>3. \A s : ~ Relieves(r, s)
  BY <1>1, StepsRelieve DEF IInv, TaskStages
<1>4. ASSUME NEW v, v = locals PROVE Sound(v)
  <2>1. v.stage = "generating" /\ v.kind = "generateTasks" /\ v \in Recurrence("generating")
    BY <1>2, <1>4 DEF Recurrence
  <2>2. CarriesTask(v)
    BY <2>1 DEF CarriesTask
  <2>9. KnowsTask(v)
    BY <2>1, Carefree
  <2> QED
    BY <2>1, <2>2, <2>9 DEF Sound, TaskStages
<1> QED
  BY <1>1, <1>3, <1>4, StepOK, IdleIsSound DEF Finish, TaskStages

-----------------------------------------------------------------------------
(* Assignment: the steps that only read.                                   *)

\* A request on one task that is about to give it to nobody.
LEMMA OneTask ==
  ASSUME NEW v, v.stage \in {"checking", "applying", "clearing", "listing", "unlisting",
                            "promoting", "recounting", "storing", "ending"},
         Made(v.task), GiftIsFree(v),
         v.stage = "applying" \/ (v.stage = "checking" /\ v.kind # "list") =>
            v.task \in raced \/ occ[v.task].assigned = v.from,
         v.kind = "createTask" => v.task \in raced \/ occ[v.task].status \notin Final
  PROVE  KnowsTask(v)
<1>1. Handles(v) = {v.task}
  BY DEF Handles
<1>2. HandlesMade(v)
  BY <1>1 DEF HandlesMade
<1>3. FromIsCurrent(v)
  BY <1>1 DEF FromIsCurrent
<1>4. NotFinished(v)
  BY <1>1 DEF NotFinished, KeepsFinished
<1> QED
  BY <1>2, <1>3, <1>4 DEF KnowsTask

LEMMA CallAssignOK ==
  ASSUME IInv, NEW r \in Requests, NEW t \in Tasks, NEW s \in Servants, CallAssign(r, t, s)
  PROVE  IInv'
<1> DEFINE locals == [kind |-> "assign", stage |-> "checking", touches |-> {t, s}, task |-> t,
                      from |-> occ[t].assigned, to |-> s]
<1>1. Call(r, locals) /\ Made(t) /\ UNCHANGED <<rotaVars, taskTables, taskHistory>>
  BY DEF CallAssign
<1>2. occ[t].assigned \in MaybeServant
  BY DEF IInv, TaskInv, TaskTablesOK, OccRecord
<1>3. ASSUME NEW v, v = locals PROVE Sound(v) /\ v.kind # "none"
  <2>1. /\ v.stage = "checking" /\ v.kind = "assign" /\ v.task = t /\ v.from = occ[t].assigned
        /\ {v.task, v.to} \subseteq v.touches
    BY <1>3
  <2>2. v \in Assignment("checking")
    BY <1>2, <1>3 DEF Assignment
  <2>3. CarriesTask(v)
    BY <2>1, <2>2 DEF CarriesTask
  <2>4. GiftIsFree(v)
    BY <2>1 DEF GiftIsFree, Gives
  <2>5. KnowsTask(v)
    BY <1>1, <2>1, <2>4, OneTask
  <2> QED
    BY <2>1, <2>3, <2>5 DEF Sound, TaskStages
<1> QED
  BY <1>1, <1>3, CallOK

LEMMA CallReassignOK ==
  ASSUME IInv, NEW r \in Requests, NEW t \in Tasks, NEW s \in Servants, NEW keep \in BOOLEAN,
         CallReassign(r, t, s, keep)
  PROVE  IInv'
<1> DEFINE locals == [kind |-> IF keep THEN "reassign" ELSE "restart", stage |-> "checking",
                      touches |-> {t, s}, task |-> t, from |-> occ[t].assigned, to |-> s]
<1>1. Call(r, locals) /\ Made(t) /\ UNCHANGED <<rotaVars, taskTables, taskHistory>>
  BY DEF CallReassign
<1>2. occ[t].assigned \in MaybeServant
  BY DEF IInv, TaskInv, TaskTablesOK, OccRecord
<1>3. ASSUME NEW v, v = locals PROVE Sound(v) /\ v.kind # "none"
  <2>1. /\ v.stage = "checking" /\ v.kind \in {"reassign", "restart"} /\ v.task = t
        /\ v.from = occ[t].assigned /\ {v.task, v.to} \subseteq v.touches
    BY <1>3
  <2>2. v \in Assignment("checking")
    BY <1>2, <1>3 DEF Assignment
  <2>3. CarriesTask(v)
    BY <2>1, <2>2 DEF CarriesTask
  <2>4. GiftIsFree(v)
    BY <2>1 DEF GiftIsFree, Gives
  <2>5. KnowsTask(v)
    BY <1>1, <2>1, <2>4, OneTask
  <2> QED
    BY <2>1, <2>3, <2>5 DEF Sound, TaskStages
<1> QED
  BY <1>1, <1>3, CallOK

\* The servant was asked for: he has no other task.
LEMMA CheckServantOK ==
  ASSUME IInv, NEW r \in Requests, CheckServant(r)
  PROVE  IInv'
<1> DEFINE q == req[r]
           next == IF q.kind = "list" THEN "listing" ELSE "applying"
           locals == [q EXCEPT !.stage = next]
<1>1. /\ q.stage = "checking" /\ UNCHANGED <<rotaVars, taskTables, taskHistory>>
      /\ IF Eligible(q.to, q.task) THEN Step(r, locals) ELSE Finish(r)
  BY DEF CheckServant
<1>2. CarriesTask(q) /\ KnowsTask(q)
  BY DEF IInv, TaskInv, TaskRequestsOK
<1>3. \A s : ~ Relieves(r, s)
  BY <1>1, StepsRelieve DEF IInv, TaskStages
<1>4. CASE Finish(r)
  BY <1>1, <1>3, <1>4, StepOK, IdleIsSound DEF Finish, TaskStages
<1>5. CASE Step(r, locals) /\ Eligible(q.to, q.task)
  <2>1. Handles(q) = {q.task}
    BY <1>1 DEF Handles
  <2>2. Made(q.task) /\ TasksOf(q.to) \subseteq {q.task}
    BY <1>2, <1>5, <2>1 DEF KnowsTask, HandlesMade, Eligible
  <2>3. ASSUME NEW v, v = locals PROVE Sound(v)
    <3>1. CASE q.kind = "list"
      <4>1. q \in Listing("checking") /\ {q.task, q.to} \subseteq q.touches
        BY <1>1, <1>2, <3>1 DEF CarriesTask
      <4>2. /\ v \in Listing("listing") /\ v.task = q.task /\ v.to = q.to
            /\ v.touches = q.touches /\ v.stage = "listing" /\ v.kind = "list"
        BY <2>3, <3>1, <4>1 DEF Listing
      <4>3. CarriesTask(v)
        BY <4>1, <4>2 DEF CarriesTask
      <4>4. GiftIsFree(v)
        BY <2>2, <4>2 DEF GiftIsFree, Gives
      <4>5. KnowsTask(v)
        BY <2>2, <4>2, <4>4, OneTask
      <4> QED
        BY <4>2, <4>3, <4>5 DEF Sound, TaskStages
    <3>2. CASE q.kind # "list"
      <4>1. q \in Assignment("checking") /\ {q.task, q.to} \subseteq q.touches
        BY <1>1, <1>2, <3>2 DEF CarriesTask
      <4>2. /\ v \in Assignment("applying") /\ v.task = q.task /\ v.to = q.to
            /\ v.touches = q.touches /\ v.stage = "applying" /\ v.from = q.from
            /\ v.kind = q.kind /\ q.kind \in {"assign", "reassign", "restart"}
        BY <2>3, <3>2, <4>1 DEF Assignment
      <4>3. CarriesTask(v)
        BY <4>1, <4>2 DEF CarriesTask
      <4>4. GiftIsFree(v)
        BY <2>2, <4>2 DEF GiftIsFree, Gives
      <4>5. q.task \in raced \/ occ[q.task].assigned = q.from
        BY <1>1, <1>2, <3>2 DEF KnowsTask, FromIsCurrent
      <4>6. KnowsTask(v)
        BY <2>2, <4>2, <4>4, <4>5, OneTask
      <4> QED
        BY <4>2, <4>3, <4>6 DEF Sound, TaskStages
    <3> QED
      BY <3>1, <3>2
  <2> QED
    BY <1>1, <1>3, <1>5, <2>3, StepOK DEF TaskStages
<1> QED
  BY <1>1, <1>4, <1>5

LEMMA CallAddAssigneeOK ==
  ASSUME IInv, NEW r \in Requests, NEW t \in Tasks, NEW s \in Servants, NEW role \in Roles,
         CallAddAssignee(r, t, s, role)
  PROVE  IInv'
<1> DEFINE locals == [kind |-> "list", stage |-> "checking", touches |-> {t, s}, task |-> t,
                      to |-> s, role |-> role]
<1>1. Call(r, locals) /\ Made(t) /\ UNCHANGED <<rotaVars, taskTables, taskHistory>>
  BY DEF CallAddAssignee
<1>2. ASSUME NEW v, v = locals PROVE Sound(v) /\ v.kind # "none"
  <2>1. /\ v.stage = "checking" /\ v.kind = "list" /\ v.task = t
        /\ {v.task, v.to} \subseteq v.touches
    BY <1>2
  <2>2. v \in Listing("checking")
    BY <1>2 DEF Listing
  <2>3. CarriesTask(v)
    BY <2>1, <2>2 DEF CarriesTask
  <2>4. GiftIsFree(v)
    BY <2>1 DEF GiftIsFree, Gives
  <2>5. KnowsTask(v)
    BY <1>1, <2>1, <2>4, OneTask
  <2> QED
    BY <2>1, <2>3, <2>5 DEF Sound, TaskStages
<1> QED
  BY <1>1, <1>2, CallOK

\* Nobody is listed for a task before it is made.
LEMMA UnmadeIsBare ==
  ASSUME TaskInv, NEW t \in Tasks, NEW row \in active[t]
  PROVE  Made(t)
  BY DEF TaskInv, TaskTablesOK

LEMMA CallRemoveAssigneeOK ==
  ASSUME IInv, NEW r \in Requests, NEW t \in Tasks, NEW s \in Servants, NEW role \in Roles,
         CallRemoveAssignee(r, t, s, role)
  PROVE  IInv'
<1>1. <<s, role>> \in active[t] /\ UNCHANGED <<rotaVars, taskTables, taskHistory>>
  BY DEF CallRemoveAssignee
<1>2. PICK next \in Servants \cup {Nobody} :
         Call(r, [kind |-> "unlist", stage |-> "unlisting", touches |-> {t, s}, task |-> t,
                  row |-> <<s, role>>, to |-> next])
  BY DEF CallRemoveAssignee
<1> DEFINE locals == [kind |-> "unlist", stage |-> "unlisting", touches |-> {t, s}, task |-> t,
                      row |-> <<s, role>>, to |-> next]
<1>3. Made(t)
  BY <1>1, UnmadeIsBare DEF IInv
<1>4. ASSUME NEW v, v = locals PROVE Sound(v) /\ v.kind # "none"
  <2>1. v.stage = "unlisting" /\ v.kind = "unlist" /\ v.task = t /\ v.task \in v.touches
    BY <1>4
  <2>2. v \in Unlisting("unlisting")
    BY <1>4 DEF Unlisting, MaybeServant
  <2>3. CarriesTask(v)
    BY <2>1, <2>2 DEF CarriesTask
  <2>4. GiftIsFree(v)
    BY <2>1 DEF GiftIsFree, Gives
  <2>5. KnowsTask(v)
    BY <1>3, <2>1, <2>4, OneTask
  <2> QED
    BY <2>1, <2>3, <2>5 DEF Sound, TaskStages
<1> QED
  BY <1>1, <1>2, <1>4, CallOK

LEMMA CallAssignToLeaderOK ==
  ASSUME IInv, NEW r \in Requests, NEW t \in Tasks, NEW s \in Servants,
         CallAssignToLeader(r, t, s)
  PROVE  IInv'
<1> DEFINE locals == [kind |-> "lead", stage |-> "promoting", touches |-> {t, s}, task |-> t,
                      to |-> s]
<1>1. Call(r, locals) /\ Made(t) /\ UNCHANGED <<rotaVars, taskTables, taskHistory>>
  BY DEF CallAssignToLeader
<1>2. ASSUME NEW v, v = locals PROVE Sound(v) /\ v.kind # "none"
  <2>1. /\ v.stage = "promoting" /\ v.kind = "lead" /\ v.task = t /\ v.to \in MaybeServant
        /\ v.task \in v.touches
    BY <1>2 DEF MaybeServant
  <2>2. CarriesTask(v)
    BY <2>1 DEF CarriesTask
  <2>3. GiftIsFree(v)
    BY <2>1 DEF GiftIsFree, Gives
  <2>4. KnowsTask(v)
    BY <1>1, <2>1, <2>3, OneTask
  <2> QED
    BY <2>1, <2>2, <2>4 DEF Sound, TaskStages
<1> QED
  BY <1>1, <1>2, CallOK

-----------------------------------------------------------------------------
(* Progress and the rota: the steps that only read.                        *)

LEMMA RecountOK ==
  ASSUME IInv, NEW r \in Requests, Recount(r)
  PROVE  IInv'
<1> DEFINE q == req[r]
           o == occ[q.task]
           locals == [kind |-> q.kind, stage |-> "storing", touches |-> q.touches,
                      task |-> q.task, status |-> Progressed(o)]
<1>1. /\ q.stage = "recounting" /\ UNCHANGED <<rotaVars, taskTables, taskHistory>>
      /\ Finish(r) \/ Step(r, locals)
  BY DEF Recount
<1>2. CarriesTask(q) /\ KnowsTask(q)
  BY DEF IInv, TaskInv, TaskRequestsOK
<1>3. \A s : ~ Relieves(r, s)
  BY <1>1, StepsRelieve DEF IInv, TaskStages
<1>4. /\ q.kind \in {"createTask", "reassign", "restart", "checklist"}
      /\ q.task \in Tasks /\ q.task \in q.touches
  BY <1>1, <1>2 DEF CarriesTask
<1>5. Handles(q) = {q.task}
  BY <1>1 DEF Handles
<1>6. /\ Made(q.task)
      /\ q.kind = "createTask" => q.task \in raced \/ occ[q.task].status \notin Final
  BY <1>1, <1>2, <1>5 DEF KnowsTask, HandlesMade, NotFinished, KeepsFinished
<1>7. Progressed(o) \in Statuses \ {"none"}
  BY DEF Progressed, Statuses, Open, Final
<1>8. ASSUME NEW v, v = locals PROVE Sound(v)
  <2>1. /\ v.kind = q.kind /\ v.stage = "storing" /\ v.task = q.task /\ v.touches = q.touches
        /\ v.status \in Statuses \ {"none"}
    BY <1>7, <1>8
  <2>2. CarriesTask(v)
    BY <1>4, <2>1 DEF CarriesTask
  <2>3. GiftIsFree(v)
    BY <2>1 DEF GiftIsFree, Gives
  <2>4. KnowsTask(v)
    BY <1>6, <2>1, <2>3, OneTask
  <2> QED
    BY <1>4, <2>1, <2>2, <2>4 DEF Sound, TaskStages
<1> QED
  BY <1>1, <1>3, <1>8, StepOK, IdleIsSound DEF Finish, TaskStages

LEMMA CallEndOK ==
  ASSUME IInv, NEW r \in Requests, NEW t \in Tasks, NEW status \in Final, CallEnd(r, t, status)
  PROVE  IInv'
<1> DEFINE locals == [kind |-> "end", stage |-> "ending", touches |-> {t}, task |-> t,
                      status |-> status]
<1>1. Call(r, locals) /\ Made(t) /\ UNCHANGED <<rotaVars, taskTables, taskHistory>>
  BY DEF CallEnd
<1>2. ASSUME NEW v, v = locals PROVE Sound(v) /\ v.kind # "none"
  <2>1. v.stage = "ending" /\ v.kind = "end" /\ v.task = t /\ v.task \in v.touches
    BY <1>2
  <2>2. v \in [kind : {"end"}, stage : {"ending"}, touches : {{u} : u \in Tasks},
               task : Tasks, status : Final]
    BY <1>2
  <2>3. CarriesTask(v)
    BY <2>1, <2>2 DEF CarriesTask
  <2>4. GiftIsFree(v)
    BY <2>1 DEF GiftIsFree, Gives
  <2>5. KnowsTask(v)
    BY <1>1, <2>1, <2>4, OneTask
  <2> QED
    BY <2>1, <2>3, <2>5 DEF Sound, TaskStages
<1> QED
  BY <1>1, <1>2, CallOK

LEMMA CallSweepOK ==
  ASSUME IInv, NEW r \in Requests, CallSweep(r)
  PROVE  IInv'
<1> DEFINE locals == [kind |-> "sweep", stage |-> "sweeping", touches |-> Overdue]
<1>1. Call(r, locals) /\ UNCHANGED <<rotaVars, taskTables, taskHistory>>
  BY DEF CallSweep
<1>2. \A t \in Overdue : t \in Tasks /\ Made(t) /\ occ[t].status \notin Final
  BY DEF Overdue, Made, Open, Final
<1> HIDE DEF Overdue
<1>3. ASSUME NEW v, v = locals PROVE Sound(v) /\ v.kind # "none"
  <2>1. v.stage = "sweeping" /\ v.kind = "sweep" /\ v.touches = Overdue
    BY <1>3
  <2>2. v \in [kind : {"sweep"}, stage : {"sweeping"}, touches : SUBSET Tasks]
    BY <1>2, <1>3
  <2>3. CarriesTask(v)
    BY <2>1, <2>2 DEF CarriesTask
  <2>4. Handles(v) = Overdue
    BY <2>1 DEF Handles
  <2>5. KnowsTask(v)
    BY <1>2, <2>1, <2>4 DEF KnowsTask, HandlesMade, GiftIsFree, Gives, FromIsCurrent, NotFinished
  <2> QED
    BY <2>1, <2>3, <2>5 DEF Sound, TaskStages
<1> QED
  BY <1>1, <1>3, CallOK

LEMMA CallMoveOK ==
  ASSUME IInv, NEW r \in Requests, NEW i \in RowIds, NEW m \in Ministries, NEW s \in Servants,
         CallMove(r, i, m, s)
  PROVE  IInv'
<1> DEFINE gone == IF rows[i].servant = s THEN Nobody ELSE rows[i].servant
           locals == [kind |-> "move", stage |-> "movingRow", touches |-> {"rota"}, row |-> i,
                      ministry |-> m, servant |-> s, gone |-> gone]
<1>1. /\ Call(r, locals) /\ i \in Kept /\ \A j \in Kept \ {i} : rows[j].servant # s
      /\ UNCHANGED <<rotaVars, taskTables, taskHistory>>
  BY DEF CallMove
<1>2. gone \in MaybeServant
  BY <1>1, KeptRows DEF IInv, RotaInv, RowRecord, MaybeServant
<1> HIDE DEF gone
<1>3. ASSUME NEW v, v = locals
      PROVE  /\ v.kind # "none" /\ v.stage = "movingRow" /\ v.row = i /\ v.servant = s
             /\ "rota" \in v.touches /\ CarriesTask(v) /\ KnowsTask(v)
  <2>1. v.stage = "movingRow" /\ v.kind = "move" /\ v.row = i /\ v.servant = s
        /\ "rota" \in v.touches
    BY <1>3
  <2>2. v \in [kind : {"move"}, stage : {"movingRow"}, touches : {{"rota"}}, row : RowIds,
               ministry : Ministries, servant : Servants, gone : MaybeServant]
    BY <1>2, <1>3
  <2>3. CarriesTask(v)
    BY <2>1, <2>2 DEF CarriesTask
  <2>4. KnowsTask(v)
    BY <2>1, Carefree
  <2> QED
    BY <2>1, <2>3, <2>4
<1>4. locals.kind # "none"
  OBVIOUS
<1> HIDE DEF locals
<1>5. /\ Moved(r) /\ req'[r] = locals /\ HandlersTypeOK' /\ failures' = failures /\ req[r] = Idle
  BY <1>1, <1>4, CallMoves DEF IInv, RotaInv, RotaTypeOK
<1>6. /\ req'[r].stage = "movingRow" /\ req'[r].row = i /\ req'[r].servant = s
      /\ "rota" \in req'[r].touches /\ CarriesTask(locals) /\ KnowsTask(locals)
  BY <1>3, <1>5
<1>7. RotaInv'
  <2>1. UNCHANGED <<rotaTables, rotaHistory>> /\ Kept' = Kept /\ rows' = rows
    BY <1>1 DEF rotaVars, rotaTables, Kept
  <2>2. Carries(req'[r])
    BY <1>6 DEF Carries
  <2>3. KnowsRows(r)' /\ KnowsBoard(r)' /\ KnowsVersions(r)'
    BY <1>1, <1>6, <2>1 DEF KnowsRows, KnowsBoard, KnowsVersions
  <2> QED
    BY <1>5, <2>1, <2>2, <2>3, TablesStay, IdleFacts DEF IInv
<1>8. req[r].stage # "promoting" /\ req[r].kind # "reallocate"
  BY <1>5, IdleFacts
<1>9. \A x \in leavers : ~ Relieves(r, x)
  BY <1>8 DEF Relieves
<1>10. /\ UNCHANGED <<occ, listed, active, patched, excused, leavers>>
       /\ template' \in [live : BOOLEAN, items : SUBSET Items, limit : 1..2]
  BY <1>1 DEF taskTables, taskHistory, IInv, TaskInv, TaskTablesOK
<1>11. TaskInv'
  BY <1>5, <1>6, <1>8, <1>9, <1>10, TablesAlone DEF IInv, RotaInv
<1> QED
  BY <1>7, <1>11 DEF IInv

LEMMA CallReallocateOK ==
  ASSUME IInv, NEW r \in Requests, NEW s \in Servants, CallReallocate(r, s)
  PROVE  IInv'
<1> DEFINE locals == [kind |-> "reallocate", stage |-> "impact", touches |-> {"rota", s},
                      gone |-> s]
<1>1. Call(r, locals) /\ UNCHANGED <<rotaVars, taskTables, taskHistory>>
  BY DEF CallReallocate
<1>2. ASSUME NEW v, v = locals PROVE Sound(v) /\ v.kind # "none"
  <2>1. v.stage = "impact" /\ v.kind = "reallocate" /\ v.gone \in Servants
    BY <1>2
  <2>2. CarriesTask(v)
    BY <2>1 DEF CarriesTask
  <2>3. KnowsTask(v)
    BY <2>1, Carefree
  <2> QED
    BY <2>1, <2>2, <2>3 DEF Sound, TaskStages
<1> QED
  BY <1>1, <1>2, CallOK

\* The servants a board shows are servants.
LEMMA ShowingServes == ASSUME RotaTypeOK PROVE Showing \subseteq Servants
  BY KeptRows DEF Showing, RowsOf, RowRecord

LEMMA ReadImpactOK ==
  ASSUME IInv, NEW r \in Requests, NEW mode \in Modes, ReadImpact(r, mode)
  PROVE  IInv'
<1> DEFINE q == req[r]
           todo == TasksOf(q.gone)
           pool == IF mode = "AUTO_EQUAL_DISTRIBUTION" THEN Showing \ {q.gone} ELSE {}
           locals == [kind |-> "reallocate", stage |-> "picking", touches |-> q.touches \cup todo,
                      gone |-> q.gone, mode |-> mode, todo |-> todo, pool |-> pool]
<1>1. /\ q.stage = "impact" /\ UNCHANGED <<rotaVars, taskTables, taskHistory>>
      /\ IF todo = {} THEN Finish(r) ELSE Step(r, locals)
  BY DEF ReadImpact, Impacted
<1>2. q.kind = "reallocate" /\ q.gone \in Servants
  BY <1>1 DEF IInv, TaskInv, TaskRequestsOK, CarriesTask
<1>3. \A s : Relieves(r, s) => s = q.gone
  BY DEF Relieves
<1>4. CASE Finish(r) /\ todo = {}
  BY <1>1, <1>3, <1>4, StepOK, IdleIsSound DEF Finish, TaskStages
<1>5. CASE Step(r, locals)
  <2>1. \A t \in todo : t \in Tasks /\ Made(t) /\ occ[t].assigned = q.gone
                        /\ occ[t].status \notin Final
    BY DEF TasksOf, Live
  <2>2. pool \subseteq Servants
    BY ShowingServes DEF IInv, RotaInv
  <2>3. \A x : TasksOf(x)' = TasksOf(x)
    BY <1>1 DEF TasksOf, Live, Made, taskTables
  <2> HIDE DEF todo, pool
  <2>4. ASSUME NEW v, v = locals
        PROVE  Sound(v) /\ v.kind = "reallocate" /\ v.gone = q.gone /\ Handles(v) = todo
    <3>1. /\ v.stage = "picking" /\ v.kind = "reallocate" /\ v.gone = q.gone /\ v.mode = mode
          /\ v.todo = todo /\ v.pool = pool /\ todo \subseteq v.touches
      BY <2>4
    <3>2. CarriesTask(v)
      BY <1>2, <2>1, <2>2, <3>1 DEF CarriesTask
    <3>3. Handles(v) = todo
      BY <3>1 DEF Handles
    <3>4. KnowsTask(v)
      BY <2>1, <3>1, <3>3
         DEF KnowsTask, HandlesMade, GiftIsFree, Gives, FromIsCurrent, NotFinished
    <3> QED
      BY <3>1, <3>2, <3>3, <3>4 DEF Sound, TaskStages
  <2> HIDE DEF locals
  <2>5. req'[r] = locals
    BY <1>5, <2>4, StepMoves DEF IInv, RotaInv, RotaTypeOK
  <2>6. \A x : Relieves(r, x) => Relieves(r, x)'
    BY <1>3, <2>3, <2>4, <2>5 DEF Relieves, todo, Handles
  <2> QED
    BY <1>1, <1>5, <2>4, <2>6, StepOK DEF TaskStages
<1> QED
  BY <1>1, <1>4, <1>5

\* The servant who gets the next task was asked for, unless it is nobody; the
\* list stays the same.
LEMMA PickOK ==
  ASSUME IInv, NEW r \in Requests, NEW t \in Tasks, NEW s \in MaybeServant, Pick(r, t, s)
  PROVE  IInv'
<1> DEFINE q == req[r]
           locals == [kind |-> "reallocate", stage |-> "movingTask",
                      touches |-> q.touches \cup ({s} \ {Nobody}), gone |-> q.gone,
                      mode |-> q.mode, todo |-> q.todo \ {t}, pool |-> q.pool,
                      task |-> t, to |-> s]
<1>1. /\ q.stage = "picking" /\ t \in q.todo
      /\ UNCHANGED <<rotaVars, taskTables, patched, excused>>
      /\ \/ (s = Nobody \/ Eligible(s, t)) /\ Step(r, locals) /\ UNCHANGED leavers
         \/ Finish(r) /\ leavers' = leavers \ {q.gone}
  BY DEF Pick
<1>2. CarriesTask(q) /\ KnowsTask(q)
  BY DEF IInv, TaskInv, TaskRequestsOK
<1>3. \A x : Relieves(r, x) => x = q.gone
  BY DEF Relieves
<1>4. /\ q.kind = "reallocate" /\ q.gone \in Servants /\ q.mode \in Modes
      /\ q.todo \subseteq Tasks \cap q.touches /\ q.pool \subseteq Servants
  BY <1>1, <1>2 DEF CarriesTask
<1>5. Handles(q) = q.todo
  BY <1>1 DEF Handles
<1>6. CASE Finish(r) /\ leavers' = leavers \ {q.gone}
  <2>1. Moved(r) /\ req'[r] = Idle /\ HandlersTypeOK' /\ failures' = failures
    BY <1>6, FinishMoves DEF IInv, RotaInv, RotaTypeOK
  <2>2. RotaInv'
    BY <1>1, <2>1, RotaKept, IdleFacts DEF IInv, TaskStages
  <2>3. /\ UNCHANGED <<occ, listed, active, patched, excused>> /\ leavers' \subseteq leavers
        /\ template' \in [live : BOOLEAN, items : SUBSET Items, limit : 1..2]
        /\ \A x \in leavers' : ~ Relieves(r, x)
    BY <1>1, <1>3, <1>6 DEF taskTables, IInv, TaskInv, TaskTablesOK
  <2>4. TaskInv'
    BY <1>1, <2>1, <2>3, TablesAlone, IdleKnowsNothing DEF IInv, RotaInv
  <2> QED
    BY <2>2, <2>4 DEF IInv
<1>7. CASE (s = Nobody \/ Eligible(s, t)) /\ Step(r, locals) /\ UNCHANGED leavers
  <2>1. s \in Servants => TasksOf(s) \subseteq {t}
    BY <1>7, RotaAssumption DEF Eligible
  <2>2. ASSUME NEW v, v = locals
        PROVE  Sound(v) /\ v.kind = "reallocate" /\ v.gone = q.gone /\ Handles(v) = q.todo
    <3>1. /\ v.stage = "movingTask" /\ v.kind = "reallocate" /\ v.gone = q.gone
          /\ v.mode = q.mode /\ v.todo = q.todo \ {t} /\ v.pool = q.pool
          /\ v.task = t /\ v.to = s /\ v.touches = q.touches \cup ({s} \ {Nobody})
      BY <2>2
    <3>2. CarriesTask(v)
      BY <1>1, <1>4, <3>1 DEF CarriesTask, MaybeServant
    <3>3. Handles(v) = q.todo
      BY <1>1, <3>1 DEF Handles
    <3>4. HandlesMade(v)
      BY <1>2, <1>5, <3>3 DEF KnowsTask, HandlesMade
    <3>5. GiftIsFree(v)
      BY <2>1, <3>1 DEF GiftIsFree
    <3>6. FromIsCurrent(v)
      BY <1>1, <1>2, <1>5, <3>1, <3>3 DEF KnowsTask, FromIsCurrent
    <3>7. NotFinished(v)
      BY <1>1, <1>2, <1>5, <3>1, <3>3 DEF KnowsTask, NotFinished, KeepsFinished
    <3> QED
      BY <3>1, <3>2, <3>3, <3>4, <3>5, <3>6, <3>7 DEF Sound, KnowsTask, TaskStages
  <2> HIDE DEF locals
  <2>3. req'[r] = locals
    BY <1>7, <2>2, StepMoves DEF IInv, RotaInv, RotaTypeOK
  <2>4. \A x : TasksOf(x)' = TasksOf(x)
    BY <1>1 DEF TasksOf, Live, Made, taskTables
  <2>5. \A x : Relieves(r, x) => Relieves(r, x)'
    BY <1>1, <1>3, <1>5, <2>2, <2>3, <2>4 DEF Relieves, Handles
  <2>6. UNCHANGED <<rotaVars, taskTables, taskHistory>>
    BY <1>1, <1>7 DEF taskHistory
  <2> QED
    BY <1>1, <1>7, <2>2, <2>5, <2>6, StepOK DEF TaskStages
<1> QED
  BY <1>1, <1>6, <1>7

-----------------------------------------------------------------------------
(* Steps that write tasks.                                                 *)

\* What a step has to show that writes occurrences or their assignee rows.
LEMMA TaskWritten ==
  ASSUME TaskInv, RacesKnown, NEW r \in Requests, Moved(r), failures' = failures,
         TaskTablesOK', excused \subseteq excused', patched \subseteq patched',
         NEW v, req'[r] = v, CarriesTask(v), KnowsTask(v)',
         \A t \in Tasks : Made(t) => Made(t)',
         \A t \in Tasks : \/ t \in req[r].touches \cup v.touches
                          \/ ~ Made(t)
                          \/ /\ occ'[t].assigned = occ[t].assigned
                             /\ occ'[t].status = occ[t].status,
         \A s \in Servants : \/ s \in (req[r].touches \cup v.touches) \cup excused'
                             \/ TasksOf(s)' \subseteq TasksOf(s),
         \A s \in Servants \ (excused' \cup raced') : \/ TasksOf(s)' \subseteq TasksOf(s)
                                                      \/ \E t : TasksOf(s)' \subseteq {t},
         failures # 0 \/ \A t \in Tasks \ (raced' \cup patched') :
            \/ Agreed(t)'
            \/ v.stage = "promoting" /\ v.task = t
            \/ /\ occ'[t].assigned = occ[t].assigned /\ active'[t] = active[t]
               /\ ~ (req[r].stage = "promoting" /\ req[r].task = t),
         \A s \in leavers' : \/ TasksOf(s)' = {} \/ Relieves(r, s)'
                             \/ /\ s \in leavers /\ TasksOf(s)' \subseteq TasksOf(s)
                                /\ ~ Relieves(r, s)
  PROVE  TaskInv'
<1>1. ASSUME NEW q \in Requests \ {r} PROVE CarriesTask(req'[q]) /\ KnowsTask(req[q])'
  BY OthersKnow
<1>2. KnowsTask(req[r])'
  BY DEF KnowsTask, HandlesMade, GiftIsFree, FromIsCurrent, NotFinished, Gives, KeepsFinished,
         Handles, Made, TasksOf, Live
<1>3. TaskRequestsOK'
  BY <1>1, <1>2 DEF TaskRequestsOK
<1>4. NoSecondTask'
  <2> SUFFICES ASSUME NEW s \in Servants \ (excused' \cup raced'),
                      NEW t \in TasksOf(s)', NEW u \in TasksOf(s)'
               PROVE  t = u
    BY DEF NoSecondTask
  <2>1. CASE TasksOf(s)' \subseteq TasksOf(s)
    BY <2>1 DEF TaskInv, NoSecondTask, Moved
  <2>2. CASE \E x : TasksOf(s)' \subseteq {x}
    BY <2>2
  <2> QED
    BY <2>1, <2>2
<1>5. AgreedOrPromoting'
  <2> SUFFICES ASSUME failures = 0, NEW t \in Tasks \ (raced' \cup patched')
               PROVE  \/ Agreed(t)'
                      \/ \E q \in Requests : req'[q].stage = "promoting" /\ req'[q].task = t
    BY DEF AgreedOrPromoting
  <2>1. CASE v.stage = "promoting" /\ v.task = t
    BY <2>1
  <2>2. CASE /\ occ'[t].assigned = occ[t].assigned /\ active'[t] = active[t]
             /\ ~ (req[r].stage = "promoting" /\ req[r].task = t)
    <3>1. Agreed(t) \/ \E q \in Requests : req[q].stage = "promoting" /\ req[q].task = t
      BY DEF TaskInv, AgreedOrPromoting, Moved
    <3>2. Agreed(t) => Agreed(t)'
      BY <2>2 DEF Agreed
    <3> QED
      BY <2>2, <3>1, <3>2 DEF Moved
  <2> QED
    BY <2>1, <2>2
<1>6. LeaversRelieved'
  <2> SUFFICES ASSUME failures = 0, NEW s \in leavers'
               PROVE  TasksOf(s)' = {} \/ \E q \in Requests : Relieves(q, s)'
    BY DEF LeaversRelieved
  <2>1. CASE s \in leavers /\ TasksOf(s)' \subseteq TasksOf(s) /\ ~ Relieves(r, s)
    <3>1. TasksOf(s) = {} \/ \E q \in Requests : Relieves(q, s)
      BY <2>1 DEF TaskInv, LeaversRelieved
    <3>2. ASSUME NEW q \in Requests \ {r}, Relieves(q, s) PROVE Relieves(q, s)'
      BY <2>1, <3>2 DEF Relieves, Handles, Moved
    <3> QED
      BY <2>1, <3>1, <3>2
  <2> QED
    BY <2>1
<1> QED
  BY <1>3, <1>4, <1>5, <1>6 DEF TaskInv

\* Assignee rows of t alone may have changed.
RowsOfOne(t) ==
    /\ listed' \in [Tasks -> SUBSET (Servants \X Roles)]
    /\ active' \in [Tasks -> SUBSET (Servants \X Roles)]
    /\ active'[t] \subseteq listed'[t]
    /\ \A u \in Tasks \ {t} : listed'[u] = listed[u] /\ active'[u] = active[u]

LEMMA RowsOfOneAre ==
  ASSUME IInv, NEW t \in Tasks,
         NEW l \in SUBSET (Servants \X Roles), listed' = [listed EXCEPT ![t] = l],
         NEW a \in SUBSET (Servants \X Roles), active' = [active EXCEPT ![t] = a],
         a \subseteq l
  PROVE  RowsOfOne(t) /\ active'[t] = a
  BY DEF RowsOfOne, IInv, TaskInv, TaskTablesOK

LEMMA RowsOfNone ==
  ASSUME IInv, NEW t \in Tasks, UNCHANGED <<listed, active>>
  PROVE  RowsOfOne(t) /\ active'[t] = active[t]
  BY DEF RowsOfOne, IInv, TaskInv, TaskTablesOK

\* The same of a step of r that writes occurrence t as o and goes on as v.
WritesTask(r, v, t, o) ==
    /\ Moved(r) /\ HandlersTypeOK' /\ failures' = failures
    /\ UNCHANGED rotaVars /\ template' = template
    /\ req[r].stage \in TaskStages
    /\ req'[r] = v /\ v.stage \in TaskStages \ {"movingRow"} /\ CarriesTask(v)
    /\ t \in Tasks /\ (t \in req[r].touches \cup v.touches \/ ~ Made(t))
    /\ o \in OccRecord /\ occ' = [occ EXCEPT ![t] = o]
    /\ o.status # "none" /\ o.done \subseteq o.items
    /\ RowsOfOne(t)
    /\ excused \subseteq excused' /\ patched \subseteq patched' /\ leavers' \subseteq leavers
    /\ \/ o.status \in Final \/ t \in TasksOf(o.assigned)
       \/ /\ o.assigned \in req[r].touches \cup v.touches \cup excused' \cup {Nobody}
          /\ o.assigned \in Servants \ (excused' \cup raced') => TasksOf(o.assigned) \subseteq {t}
          /\ o.assigned \notin leavers'
    /\ req[r].stage = "promoting" => req[r].task = t
    /\ \A s \in leavers' : Relieves(r, s) => Relieves(r, s)' \/ TasksOf(s)' = {}

StaysAgreed(r, v, t, o) ==
    \/ failures # 0 \/ Agreed(t)' \/ t \in raced' \cup patched'
    \/ v.stage = "promoting" /\ v.task = t
    \/ o.assigned = occ[t].assigned /\ active'[t] = active[t] /\ req[r].stage # "promoting"

LEMMA OneTaskWritten ==
  ASSUME IInv, NEW r \in Requests, NEW v, NEW t, NEW o,
         WritesTask(r, v, t, o), KnowsTask(v)', StaysAgreed(r, v, t, o)
  PROVE  IInv'
<1>a. /\ Moved(r) /\ HandlersTypeOK' /\ failures' = failures
      /\ UNCHANGED rotaVars /\ template' = template
      /\ req[r].stage \in TaskStages
      /\ req'[r] = v /\ v.stage \in TaskStages \ {"movingRow"} /\ CarriesTask(v)
      /\ t \in Tasks /\ (t \in req[r].touches \cup v.touches \/ ~ Made(t))
      /\ o \in OccRecord /\ occ' = [occ EXCEPT ![t] = o]
      /\ o.status # "none" /\ o.done \subseteq o.items
      /\ RowsOfOne(t)
      /\ excused \subseteq excused' /\ patched \subseteq patched' /\ leavers' \subseteq leavers
      /\ req[r].stage = "promoting" => req[r].task = t
      /\ \A s \in leavers' : Relieves(r, s) => Relieves(r, s)' \/ TasksOf(s)' = {}
  BY DEF WritesTask
<1>b. \/ o.status \in Final \/ t \in TasksOf(o.assigned)
       \/ /\ o.assigned \in req[r].touches \cup v.touches \cup excused' \cup {Nobody}
          /\ o.assigned \in Servants \ (excused' \cup raced') => TasksOf(o.assigned) \subseteq {t}
          /\ o.assigned \notin leavers'
  BY DEF WritesTask
<1>1. RotaInv'
  BY <1>a, RotaKept DEF IInv
<1>2. /\ template \in [live : BOOLEAN, items : SUBSET Items, limit : 1..2]
      /\ occ \in [Tasks -> OccRecord]
      /\ \A u \in Tasks : occ[u].done \subseteq occ[u].items
      /\ listed \in [Tasks -> SUBSET (Servants \X Roles)]
      /\ active \in [Tasks -> SUBSET (Servants \X Roles)]
      /\ \A u \in Tasks : active[u] \subseteq listed[u]
      /\ \A u \in Tasks : ~ Made(u) => occ[u].assigned = Nobody /\ active[u] = {}
      /\ leavers \subseteq Servants
  BY DEF IInv, TaskInv, TaskTablesOK
<1>3. /\ occ' \in [Tasks -> OccRecord] /\ occ'[t] = o
      /\ \A u \in Tasks \ {t} : occ'[u] = occ[u]
      /\ active' \in [Tasks -> SUBSET (Servants \X Roles)]
      /\ \A u \in Tasks \ {t} : active'[u] = active[u]
      /\ listed' \in [Tasks -> SUBSET (Servants \X Roles)]
      /\ \A u \in Tasks \ {t} : listed'[u] = listed[u]
      /\ active'[t] \subseteq listed'[t]
  BY <1>a, <1>2 DEF RowsOfOne
<1>4. /\ \A u \in Tasks \ {t} : Made(u)' <=> Made(u)
      /\ Made(t)'
  BY <1>a, <1>3 DEF Made
<1>5. TaskTablesOK'
  BY <1>a, <1>2, <1>3, <1>4 DEF TaskTablesOK
<1>6. ASSUME NEW s
      PROVE  /\ TasksOf(s)' \subseteq TasksOf(s) \cup {t}
             /\ TasksOf(s)' \subseteq TasksOf(s) \/ (o.status \notin Final /\ o.assigned = s /\ t \notin TasksOf(s))
  BY <1>3, <1>4 DEF TasksOf, Live
<1>7. \A s \in Servants : \/ s \in (req[r].touches \cup v.touches) \cup excused'
                          \/ TasksOf(s)' \subseteq TasksOf(s)
  BY <1>6, <1>b, RotaAssumption
<1>8. ASSUME NEW s \in Servants \ (excused' \cup raced')
      PROVE  TasksOf(s)' \subseteq TasksOf(s) \/ \E u : TasksOf(s)' \subseteq {u}
  BY <1>6, <1>b
<1>9. failures # 0 \/ \A u \in Tasks \ (raced' \cup patched') :
         \/ Agreed(u)'
         \/ v.stage = "promoting" /\ v.task = u
         \/ /\ occ'[u].assigned = occ[u].assigned /\ active'[u] = active[u]
            /\ ~ (req[r].stage = "promoting" /\ req[r].task = u)
  BY <1>a, <1>3 DEF StaysAgreed
<1>10. \A s \in leavers' : \/ TasksOf(s)' = {} \/ Relieves(r, s)'
                           \/ /\ s \in leavers /\ TasksOf(s)' \subseteq TasksOf(s)
                              /\ ~ Relieves(r, s)
  BY <1>a, <1>6, <1>b
<1>11. /\ \A u \in Tasks : Made(u) => Made(u)'
       /\ \A u \in Tasks : \/ u \in req[r].touches \cup v.touches
                           \/ ~ Made(u)
                           \/ /\ occ'[u].assigned = occ[u].assigned
                              /\ occ'[u].status = occ[u].status
  BY <1>a, <1>3, <1>4
<1>12. TaskInv /\ RacesKnown
  BY DEF IInv, RotaInv
<1>13. TaskInv'
  BY <1>a, <1>5, <1>7, <1>8, <1>9, <1>10, <1>11, <1>12, TaskWritten
<1> QED
  BY <1>1, <1>13 DEF IInv

LEMMA IdleNext ==
  \A w : w = Idle => w.stage \in TaskStages \ {"movingRow"} /\ CarriesTask(w) /\ KnowsTask(w)'
<1> SUFFICES ASSUME NEW w, w = Idle
             PROVE  w.stage \in TaskStages \ {"movingRow"} /\ CarriesTask(w) /\ KnowsTask(w)'
  OBVIOUS
<1>1. w.stage = "idle" /\ w.kind = "none" /\ CarriesTask(w)
  BY IdleKnowsNothing, IdleFacts
<1>2. Handles(w)' = {}
  BY <1>1 DEF Handles
<1> QED
  BY <1>1, <1>2
     DEF KnowsTask, HandlesMade, GiftIsFree, FromIsCurrent, NotFinished, Gives, KeepsFinished,
         TaskStages

LEMMA OccurrencesOK ==
  ASSUME IInv, NEW t \in Tasks
  PROVE  /\ occ \in [Tasks -> OccRecord] /\ occ[t] \in OccRecord
         /\ occ[t].done \subseteq occ[t].items
         /\ listed \in [Tasks -> SUBSET (Servants \X Roles)]
         /\ active \in [Tasks -> SUBSET (Servants \X Roles)]
         /\ active[t] \subseteq listed[t]
         /\ ~ Made(t) => occ[t].assigned = Nobody /\ active[t] = {}
  BY DEF IInv, TaskInv, TaskTablesOK

\* The rows of a servant and his supporters have him as the only primary one.
LEMMA RowsForOne ==
  ASSUME NEW s \in MaybeServant, NEW support \in SUBSET Servants
  PROVE  /\ RowsFor(s, support) \subseteq Servants \X Roles
         /\ \A x \in Servants : <<x, "PRIMARY">> \in RowsFor(s, support) <=> x = s
  BY RotaAssumption DEF RowsFor, MaybeServant, Roles

LEMMA AgreesWith ==
  ASSUME NEW t, occ'[t].assigned \in MaybeServant,
         \A x \in Servants : <<x, "PRIMARY">> \in active'[t] <=> x = occ'[t].assigned
  PROVE  Agreed(t)'
  BY RotaAssumption DEF Agreed, MaybeServant

\* A task of nobody disturbs none; the servant of a new one has no other.
LEMMA CommitCreateTaskOK ==
  ASSUME IInv, NEW r \in Requests, CommitCreateTask(r)
  PROVE  IInv'
<1> DEFINE q == req[r]
           given == RowsFor(q.to, q.support)
           o == [Unused EXCEPT !.status = IF q.to = Nobody THEN "PENDING" ELSE "ASSIGNED",
                               !.assigned = q.to, !.items = q.items,
                               !.dated = TRUE, !.made = "hand"]
<1>1. PICK t \in FreeTasks :
         /\ occ' = [occ EXCEPT ![t] = o]
         /\ listed' = [listed EXCEPT ![t] = given]
         /\ active' = [active EXCEPT ![t] = given]
         /\ Step(r, [kind |-> "createTask", stage |-> "recounting", task |-> t,
                     touches |-> {t}])
  BY DEF CommitCreateTask
<1> DEFINE locals == [kind |-> "createTask", stage |-> "recounting", task |-> t,
                      touches |-> {t}]
<1>2. /\ q.stage = "adding" /\ leavers' = leavers \ {q.to}
      /\ UNCHANGED <<rotaVars, template, patched, excused>>
  BY DEF CommitCreateTask, Rejoin
<1>3. q \in Creation("adding") /\ {q.to} \cap Servants \subseteq q.touches /\ KnowsTask(q)
  BY <1>2 DEF IInv, TaskInv, TaskRequestsOK, CarriesTask
<1>4. t \in Tasks /\ ~ Made(t)
  BY DEF FreeTasks, Made
<1>5. given \in SUBSET (Servants \X Roles)
      /\ \A x \in Servants : <<x, "PRIMARY">> \in given <=> x = q.to
  BY <1>3, RowsForOne DEF Creation
<1>6. /\ o \in OccRecord /\ o.status \in {"PENDING", "ASSIGNED"} /\ o.done = {}
      /\ o.assigned = q.to /\ q.to \in MaybeServant
  BY <1>3 DEF Unused, OccRecord, Creation, Statuses, Open, Final, MaybeServant
<1> HIDE DEF given, o
<1>7. occ'[t] = o /\ active'[t] = given /\ RowsOfOne(t)
  BY <1>1, <1>4, <1>5, OccurrencesOK, RowsOfOneAre
<1>8. ASSUME NEW v, v = locals
      PROVE  /\ v.kind # "none" /\ v.stage \in TaskStages \ {"movingRow"} /\ v.touches = {t}
             /\ v.stage # "promoting" /\ CarriesTask(v) /\ KnowsTask(v)'
  <2>1. v.stage = "recounting" /\ v.kind = "createTask" /\ v.task = t /\ v.touches = {t}
    BY <1>8
  <2>2. CarriesTask(v)
    BY <1>4, <2>1 DEF CarriesTask
  <2>3. Handles(v)' = {t}
    BY <2>1 DEF Handles
  <2>4. KnowsTask(v)'
    BY <1>6, <1>7, <2>1, <2>3
       DEF KnowsTask, HandlesMade, GiftIsFree, Gives, FromIsCurrent, NotFinished, Made, Final
  <2> QED
    BY <2>1, <2>2, <2>4 DEF TaskStages
<1> HIDE DEF locals
<1>9. /\ Moved(r) /\ req'[r] = locals /\ HandlersTypeOK' /\ failures' = failures
  BY <1>1, <1>8, StepMoves DEF IInv, RotaInv, RotaTypeOK, locals
<1>10. q.to \in Servants \ (excused' \cup raced') => TasksOf(q.to) = {}
  BY <1>2, <1>3, <1>9 DEF KnowsTask, GiftIsFree, Gives, Moved
<1>11. Agreed(t)'
  BY <1>5, <1>6, <1>7, AgreesWith
<1>12. TaskInv /\ q.stage \in TaskStages \ {"impact", "picking", "movingTask"}
  BY <1>2 DEF IInv, TaskStages
<1>13. \A s \in leavers' : ~ Relieves(r, s)
  BY <1>12, StepsRelieve
<1>14. /\ o.assigned \in (q.touches \cup locals.touches) \cup excused' \cup {Nobody}
       /\ o.assigned \in Servants \ (excused' \cup raced') => TasksOf(o.assigned) \subseteq {t}
       /\ o.assigned \notin leavers'
  BY <1>2, <1>3, <1>6, <1>10 DEF MaybeServant
<1>15. q.stage \in TaskStages /\ q.stage # "promoting"
       /\ t \in q.touches \cup locals.touches
  BY <1>2, <1>8 DEF TaskStages
<1>16. /\ o.status # "none" /\ o.done \subseteq o.items
       /\ excused \subseteq excused' /\ patched \subseteq patched' /\ leavers' \subseteq leavers
       /\ template' = template /\ UNCHANGED rotaVars
  BY <1>2, <1>6
<1>17. /\ RowsOfOne(t) /\ occ' = [occ EXCEPT ![t] = o] /\ t \in Tasks
       /\ locals.stage \in TaskStages \ {"movingRow"} /\ CarriesTask(locals)
  BY <1>1, <1>4, <1>7, <1>8
<1>18. \A v : v = locals => KnowsTask(v)'
  BY <1>8
<1> QED
  BY <1>6, <1>9, <1>11, <1>13, <1>14, <1>15, <1>16, <1>17, <1>18, OneTaskWritten
     DEF WritesTask, StaysAgreed

\* Between two requests on a task nothing is left apart.
LEMMA AgreedUnlessPromoting ==
  ASSUME TaskInv, RacesKnown, failures = 0, NEW r \in Requests, req[r].stage # "promoting",
         NEW t \in Tasks \ (raced \cup patched), t \in req[r].touches
  PROVE  Agreed(t)
<1>1. ASSUME NEW q \in Requests, req[q].stage = "promoting", req[q].task = t PROVE FALSE
  <2>1. t \in req[q].touches
    BY <1>1 DEF TaskInv, TaskRequestsOK, CarriesTask
  <2> QED
    BY <1>1, <2>1 DEF RacesKnown
<1> QED
  BY <1>1 DEF TaskInv, AgreedOrPromoting

\* A request on one task that has it made, whatever else it wrote.
LEMMA OneTaskNext ==
  ASSUME NEW v, v.stage \in {"clearing", "promoting", "recounting", "storing"},
         v.kind # "createTask", Made(v.task)', GiftIsFree(v)'
  PROVE  KnowsTask(v)'
<1>1. Handles(v)' = {v.task}
  BY DEF Handles
<1>2. HandlesMade(v)'
  BY <1>1 DEF HandlesMade
<1>3. FromIsCurrent(v)' /\ NotFinished(v)'
  BY DEF FromIsCurrent, NotFinished, KeepsFinished
<1> QED
  BY <1>2, <1>3 DEF KnowsTask

LEMMA GenerateOccurrenceOK ==
  ASSUME IInv, NEW r \in Requests, GenerateOccurrence(r)
  PROVE  IInv'
<1> DEFINE q == req[r]
           o == [Unused EXCEPT !.status = "PENDING", !.made = "recurrence",
                               !.items = q.items, !.dated = q.job]
<1>1. PICK t \in FreeTasks : occ' = [occ EXCEPT ![t] = o]
  BY DEF GenerateOccurrence
<1>2. /\ q.stage = "generating" /\ Finish(r)
      /\ UNCHANGED <<rotaVars, template, listed, active, taskHistory>>
  BY DEF GenerateOccurrence
<1>3. q \in Recurrence("generating")
  BY <1>2 DEF IInv, TaskInv, TaskRequestsOK, CarriesTask
<1>4. t \in Tasks /\ ~ Made(t)
  BY DEF FreeTasks, Made
<1>5. /\ o \in OccRecord /\ o.status = "PENDING" /\ o.done = {} /\ o.assigned = Nobody
  BY <1>3 DEF Unused, OccRecord, Recurrence, Statuses, Open, Final, MaybeServant
<1> HIDE DEF o
<1>6. occ'[t] = o /\ active'[t] = {} /\ active[t] \subseteq listed[t]
  BY <1>1, <1>2, <1>4, OccurrencesOK
<1>7. /\ Moved(r) /\ req'[r] = Idle /\ HandlersTypeOK' /\ failures' = failures
  BY <1>2, FinishMoves DEF IInv, RotaInv, RotaTypeOK
<1>8. Agreed(t)'
  BY <1>5, <1>6, RotaAssumption DEF Agreed
<1>9. TaskInv /\ q.stage \in TaskStages \ {"impact", "picking", "movingTask"}
      /\ q.stage # "promoting" /\ leavers \subseteq Servants
  BY <1>2 DEF IInv, TaskInv, TaskTablesOK, TaskStages
<1>10. \A s \in leavers' : ~ Relieves(r, s)
  BY <1>9, StepsRelieve
<1>11. /\ excused \subseteq excused' /\ patched \subseteq patched' /\ leavers' \subseteq leavers
       /\ template' = template /\ UNCHANGED rotaVars /\ RowsOfOne(t)
  BY <1>2, <1>4, RowsOfNone DEF taskHistory
<1>12. /\ Nobody \notin Servants /\ Nobody \notin leavers'
  BY <1>9, <1>11, RotaAssumption
<1>13. /\ Idle.stage \in TaskStages \ {"movingRow"} /\ CarriesTask(Idle)
       /\ \A v : v = Idle => KnowsTask(v)'
  BY IdleNext
<1>14. /\ t \in q.touches \cup Idle.touches \/ ~ Made(t)
       /\ t \in Tasks /\ o \in OccRecord /\ occ' = [occ EXCEPT ![t] = o]
       /\ o.status # "none" /\ o.done \subseteq o.items
  BY <1>1, <1>4, <1>5, <1>6
<1>15. /\ o.assigned \in q.touches \cup Idle.touches \cup excused' \cup {Nobody}
       /\ o.assigned \in Servants \ (excused' \cup raced') => TasksOf(o.assigned) \subseteq {t}
       /\ o.assigned \notin leavers'
  BY <1>5, <1>12
<1>16. q.stage \in TaskStages /\ q.stage # "promoting"
  BY <1>9
<1>17. ASSUME NEW v, v = Idle PROVE IInv'
  <2>1. /\ req'[r] = v /\ v.stage \in TaskStages \ {"movingRow"} /\ CarriesTask(v) /\ KnowsTask(v)'
        /\ t \in q.touches \cup v.touches \/ ~ Made(t)
        /\ o.assigned \in q.touches \cup v.touches \cup excused' \cup {Nobody}
    BY <1>7, <1>13, <1>14, <1>15, <1>17
  <2> HIDE <1>17
  <2> QED
    BY <1>7, <1>8, <1>10, <1>11, <1>14, <1>15, <1>16, <2>1, OneTaskWritten DEF WritesTask, StaysAgreed
<1> QED
  BY <1>17

\* The occurrence as applyAssignmentChange writes it.
Reassigned(t, to) ==
    [occ[t] EXCEPT !.assigned = to, !.status = IF to = Nobody THEN "PENDING" ELSE "ASSIGNED"]

\* applyAssignmentChange leaves the occurrence and its rows in agreement when
\* the servant who was read is still the one who has it.
LEMMA ChangeAgrees ==
  ASSUME IInv, NEW r \in Requests, req[r].stage # "promoting", Moved(r), patched' = patched,
         NEW t \in Tasks, t \in req[r].touches, NEW from \in MaybeServant, NEW to \in MaybeServant,
         t \in raced \/ occ[t].assigned = from,
         NEW o, o = Reassigned(t, to),
         ChangeAssignment(t, from, to)
  PROVE  /\ occ' = [occ EXCEPT ![t] = o] /\ o \in OccRecord
         /\ o.assigned = to /\ o.status \in {"PENDING", "ASSIGNED"} /\ o.done \subseteq o.items
         /\ RowsOfOne(t) /\ occ'[t] = o /\ \A u \in Tasks \ {t} : occ'[u] = occ[u]
         /\ failures # 0 \/ Agreed(t)' \/ t \in raced' \cup patched'
<1> DEFINE a == (active[t] \ RowsFor(from, {})) \cup RowsFor(to, {})
           l == listed[t] \cup RowsFor(to, {})
<1>1. /\ occ \in [Tasks -> OccRecord] /\ occ[t] \in OccRecord
      /\ occ[t].done \subseteq occ[t].items
      /\ listed \in [Tasks -> SUBSET (Servants \X Roles)]
      /\ active \in [Tasks -> SUBSET (Servants \X Roles)]
      /\ active[t] \subseteq listed[t]
  BY OccurrencesOK
<1>2. o \in OccRecord /\ o.assigned = to /\ o.status \in {"PENDING", "ASSIGNED"}
      /\ o.done = occ[t].done /\ o.items = occ[t].items
  BY <1>1 DEF OccRecord, Statuses, Open, Final, Reassigned
<1>3. occ' = [occ EXCEPT ![t] = o]
  BY <1>1 DEF ChangeAssignment, OccRecord, Reassigned
<1>4. RowsFor(from, {}) \subseteq Servants \X Roles /\ RowsFor(to, {}) \subseteq Servants \X Roles
      /\ \A x \in Servants : /\ <<x, "PRIMARY">> \in RowsFor(from, {}) <=> x = from
                             /\ <<x, "PRIMARY">> \in RowsFor(to, {}) <=> x = to
  BY RowsForOne
<1>5. /\ active' = [active EXCEPT ![t] = a] /\ listed' = [listed EXCEPT ![t] = l]
  BY DEF ChangeAssignment
<1>6. /\ a \in SUBSET (Servants \X Roles) /\ l \in SUBSET (Servants \X Roles) /\ a \subseteq l
  BY <1>1, <1>4
<1> HIDE DEF a, l
<1>7. /\ occ'[t] = o /\ active'[t] = a /\ \A u \in Tasks \ {t} : occ'[u] = occ[u]
      /\ RowsOfOne(t)
  <2>1. occ'[t] = o /\ \A u \in Tasks \ {t} : occ'[u] = occ[u]
    BY <1>1, <1>3
  <2>2. RowsOfOne(t) /\ active'[t] = a
    BY <1>5, <1>6, RowsOfOneAre
  <2> QED
    BY <2>1, <2>2
<1>8. ASSUME failures = 0, t \notin raced' \cup patched' PROVE Agreed(t)'
  <2>1. t \notin raced \cup patched
    BY <1>8 DEF Moved
  <2>2. {s \in Servants : <<s, "PRIMARY">> \in active[t]} = {from} \ {Nobody}
    BY <1>8, <2>1, AgreedUnlessPromoting DEF IInv, RotaInv, Agreed
  <2>3. \A x \in Servants : <<x, "PRIMARY">> \in active[t] => x = from
    BY <2>2
  <2>4. \A x \in Servants : <<x, "PRIMARY">> \in a <=> x = to
    BY <1>4, <2>3 DEF a
  <2> QED
    BY <1>2, <1>7, <2>4, AgreesWith
<1> QED
  BY <1>1, <1>2, <1>3, <1>7, <1>8

\* A step of a request that writes the occurrence it works on, but no rows of it.
LEMMA OccWritten ==
  ASSUME IInv, NEW r \in Requests, Moved(r), HandlersTypeOK', failures' = failures,
         UNCHANGED <<rotaVars, template, listed, active>>,
         req[r].stage \in TaskStages \ {"impact", "picking", "movingTask"},
         NEW v, req'[r] = v, v.stage \in TaskStages \ {"movingRow"}, CarriesTask(v), KnowsTask(v)',
         NEW t \in Tasks, t \in req[r].touches \cup v.touches, Made(t),
         NEW o \in OccRecord, occ' = [occ EXCEPT ![t] = o],
         o.status # "none", o.done \subseteq o.items,
         excused \subseteq excused', patched \subseteq patched', leavers' \subseteq leavers,
         \/ o.status \in Final \/ t \in TasksOf(o.assigned)
         \/ /\ o.assigned \in req[r].touches \cup v.touches \cup excused' \cup {Nobody}
            /\ o.assigned \in Servants \ (excused' \cup raced') => TasksOf(o.assigned) \subseteq {t}
            /\ o.assigned \notin leavers',
         \/ t \in patched' /\ (req[r].stage = "promoting" => req[r].task = t)
         \/ o.assigned = occ[t].assigned /\ req[r].stage # "promoting"
  PROVE  IInv'
<1>1. /\ template' = template /\ UNCHANGED rotaVars /\ req[r].stage \in TaskStages
      /\ req[r].stage = "promoting" => req[r].task = t
  OBVIOUS
<1>2. \A s \in leavers' : ~ Relieves(r, s)
  BY StepsRelieve DEF IInv
<1>3. RowsOfOne(t) /\ active'[t] = active[t]
  BY RowsOfNone
<1>4. \/ failures # 0 \/ Agreed(t)' \/ t \in raced' \cup patched'
      \/ v.stage = "promoting" /\ v.task = t
      \/ o.assigned = occ[t].assigned /\ active'[t] = active[t] /\ req[r].stage # "promoting"
  BY <1>3
<1>5. t \in req[r].touches \cup v.touches \/ ~ Made(t)
  OBVIOUS
<1>6. \A s \in leavers' : Relieves(r, s) => Relieves(r, s)' \/ TasksOf(s)' = {}
  BY <1>2
<1> QED
  BY <1>1, <1>3, <1>4, <1>5, <1>6, OneTaskWritten DEF WritesTask, StaysAgreed

\* A request on one task has it made, and touches it.
LEMMA WorksOnOne ==
  ASSUME IInv, NEW r \in Requests,
         req[r].stage \in {"checking", "applying", "clearing", "listing", "unlisting", "promoting",
                           "recounting", "storing", "ending"}
  PROVE  /\ req[r].task \in Tasks /\ req[r].task \in req[r].touches /\ Made(req[r].task)
         /\ req[r].stage \in TaskStages \ {"impact", "picking", "movingTask"}
         /\ CarriesTask(req[r]) /\ KnowsTask(req[r])
<1>1. CarriesTask(req[r]) /\ KnowsTask(req[r])
  BY DEF IInv, TaskInv, TaskRequestsOK
<1>2. Handles(req[r]) = {req[r].task}
  BY DEF Handles
<1>3. req[r].task \in Tasks /\ req[r].task \in req[r].touches
  BY <1>1, <1>2, HandledAreTouched
<1> QED
  BY <1>1, <1>2, <1>3 DEF KnowsTask, HandlesMade, TaskStages

LEMMA ClearChecklistOK ==
  ASSUME IInv, NEW r \in Requests, ClearChecklist(r)
  PROVE  IInv'
<1> DEFINE q == req[r]
           locals == [q EXCEPT !.stage = "recounting"]
<1>1. /\ q.stage = "clearing" /\ Step(r, locals) /\ occ' = [occ EXCEPT ![q.task].done = {}]
      /\ UNCHANGED <<rotaVars, template, listed, active>>
      /\ patched' = patched /\ excused' = excused /\ leavers' = leavers
  BY DEF ClearChecklist, taskHistory
<1>2. /\ q.task \in Tasks /\ q.task \in q.touches /\ Made(q.task)
      /\ q.stage \in TaskStages \ {"impact", "picking", "movingTask"}
      /\ CarriesTask(q) /\ KnowsTask(q)
  BY <1>1, WorksOnOne
<1>3. q \in Assignment("clearing")
  BY <1>1, <1>2 DEF CarriesTask
<1>4. ASSUME NEW t, t = q.task, NEW v, v = locals, NEW o, o = [occ[t] EXCEPT !.done = {}]
      PROVE  IInv'
  <2>1. /\ occ \in [Tasks -> OccRecord] /\ occ[t] \in OccRecord /\ t \in Tasks
        /\ Made(t) /\ t \in q.touches
    BY <1>2, <1>4, OccurrencesOK
  <2>2. /\ o \in OccRecord /\ occ' = [occ EXCEPT ![t] = o] /\ o.done \subseteq o.items
        /\ o.status = occ[t].status /\ o.assigned = occ[t].assigned
    BY <1>1, <1>4, <2>1 DEF OccRecord
  <2>3. o.status # "none" /\ occ'[t] = o
    BY <2>1, <2>2 DEF Made
  <2>4. o.status \in Final \/ t \in TasksOf(o.assigned)
    BY <2>1, <2>2 DEF TasksOf, Live
  <2>5. /\ v.stage = "recounting" /\ v.kind = q.kind /\ v.task = t /\ v.touches = q.touches
        /\ q.kind = "restart" /\ v.kind # "none"
    BY <1>1, <1>2, <1>3, <1>4 DEF Assignment, CarriesTask
  <2>6. CarriesTask(v)
    BY <2>1, <2>5 DEF CarriesTask
  <2>7. /\ Moved(r) /\ req'[r] = v /\ HandlersTypeOK' /\ failures' = failures
    BY <1>1, <1>4, <2>5, StepMoves DEF IInv, RotaInv, RotaTypeOK
  <2>8. KnowsTask(v)'
    <3>1. Made(v.task)' /\ GiftIsFree(v)'
      BY <2>3, <2>5 DEF Made, GiftIsFree, Gives
    <3> QED
      BY <2>5, <3>1, OneTaskNext
  <2>9. UNCHANGED <<rotaVars, template, listed, active>>
    BY <1>1
  <2>10. /\ q.stage # "promoting" /\ v.stage \in TaskStages \ {"movingRow"}
         /\ t \in q.touches \cup v.touches
         /\ excused \subseteq excused' /\ patched \subseteq patched' /\ leavers' \subseteq leavers
    BY <1>1, <2>1, <2>5 DEF TaskStages
  <2> HIDE <1>4
  <2> QED
    BY <1>2, <2>1, <2>2, <2>3, <2>4, <2>6, <2>7, <2>8, <2>9, <2>10, OccWritten
<1> QED
  BY <1>4

\* The servant was asked for: no other task of his is in the way.
LEMMA ApplyOK ==
  ASSUME IInv, NEW r \in Requests, Apply(r)
  PROVE  IInv'
<1> DEFINE q == req[r]
           next == IF q.kind = "restart" THEN "clearing" ELSE "recounting"
           locals == [q EXCEPT !.stage = next]
<1>1. /\ q.stage = "applying" /\ ChangeAssignment(q.task, q.from, q.to)
      /\ IF q.kind = "assign" THEN Finish(r) ELSE Step(r, locals)
      /\ leavers' = leavers \ {q.to}
      /\ UNCHANGED <<rotaVars, template, patched, excused>>
  BY DEF Apply, Rejoin
<1>2. /\ q.task \in Tasks /\ q.task \in q.touches /\ Made(q.task)
      /\ q.stage \in TaskStages \ {"impact", "picking", "movingTask"}
      /\ CarriesTask(q) /\ KnowsTask(q)
  BY <1>1, WorksOnOne
<1>3. q \in Assignment("applying") /\ {q.task, q.to} \subseteq q.touches
  BY <1>1, <1>2 DEF CarriesTask
<1>4. ASSUME NEW t, t = q.task, NEW from, from = q.from, NEW to, to = q.to,
             NEW v, v = IF q.kind = "assign" THEN Idle ELSE locals,
             NEW o, o = Reassigned(t, to)
      PROVE  IInv'
  <2>1. /\ t \in Tasks /\ t \in q.touches /\ Made(t) /\ from \in MaybeServant
        /\ to \in Servants /\ to \in MaybeServant /\ to \in q.touches
    BY <1>2, <1>3, <1>4 DEF Assignment, MaybeServant
  <2>2. t \in raced \/ occ[t].assigned = from
    BY <1>1, <1>2, <1>4 DEF KnowsTask, FromIsCurrent
  <2>3. TasksOf(to) \subseteq {t} \/ to \in raced \cup excused
    BY <1>1, <1>2, <1>4, <2>1 DEF KnowsTask, GiftIsFree, Gives
  <2>5. /\ v.stage \in TaskStages \ {"movingRow"} /\ v.stage # "promoting" /\ CarriesTask(v)
        /\ Step(r, v) /\ (v.kind # "none" \/ v = Idle)
        /\ v = Idle \/ (v.stage \in {"clearing", "recounting"} /\ v.task = t /\ v.kind # "createTask")
    <3>1. CASE q.kind = "assign"
      <4>1. v = Idle
        BY <1>4, <3>1
      <4> QED
        BY <1>1, <3>1, <4>1, IdleNext, IdleFacts DEF Finish
    <3>2. CASE q.kind # "assign"
      <4>1. /\ q.kind \in {"reassign", "restart"} /\ v = locals
        BY <1>3, <1>4, <3>2 DEF Assignment
      <4>2. /\ v.kind = q.kind /\ v.task = t /\ v.touches = q.touches /\ v.to = q.to
            /\ v.stage = next /\ v \in Assignment(next)
        BY <1>3, <1>4, <4>1 DEF Assignment
      <4>3. CarriesTask(v)
        BY <1>3, <2>1, <4>1, <4>2 DEF CarriesTask
      <4> QED
        BY <1>1, <3>2, <4>1, <4>2, <4>3 DEF TaskStages
    <3> QED
      BY <3>1, <3>2
  <2>6. /\ Moved(r) /\ req'[r] = v /\ HandlersTypeOK' /\ failures' = failures
    BY <2>5, StepMoves DEF IInv, RotaInv, RotaTypeOK
  <2>7. /\ ChangeAssignment(t, from, to) /\ patched' = patched /\ q.stage # "promoting"
        /\ o = Reassigned(t, to)
    BY <1>1, <1>4
  <2>8. /\ occ' = [occ EXCEPT ![t] = o] /\ o \in OccRecord
        /\ o.assigned = to /\ o.status \in {"PENDING", "ASSIGNED"} /\ o.done \subseteq o.items
        /\ RowsOfOne(t) /\ occ'[t] = o
        /\ failures # 0 \/ Agreed(t)' \/ t \in raced' \cup patched'
    BY <2>1, <2>2, <2>6, <2>7, ChangeAgrees
  <2>9. KnowsTask(v)'
    <3>1. CASE v = Idle
      BY <3>1, IdleNext
    <3>2. CASE v # Idle
      <4>1. Made(v.task)' /\ GiftIsFree(v)'
        BY <2>5, <2>8, <3>2 DEF Made, GiftIsFree, Gives
      <4> QED
        BY <2>5, <3>2, <4>1, OneTaskNext
    <3> QED
      BY <3>1, <3>2
  <2>10. /\ o.assigned \in q.touches \cup v.touches \cup excused' \cup {Nobody}
         /\ o.assigned \in Servants \ (excused' \cup raced') => TasksOf(o.assigned) \subseteq {t}
         /\ o.assigned \notin leavers'
    BY <1>1, <1>4, <2>1, <2>3, <2>6, <2>8 DEF Moved
  <2>11. \A s \in leavers' : Relieves(r, s) => Relieves(r, s)' \/ TasksOf(s)' = {}
    BY <1>2, StepsRelieve DEF IInv
  <2>12. /\ excused \subseteq excused' /\ patched \subseteq patched' /\ leavers' \subseteq leavers
         /\ template' = template /\ UNCHANGED rotaVars
         /\ q.stage \in TaskStages /\ q.stage # "promoting"
         /\ t \in q.touches \cup v.touches \/ ~ Made(t)
    BY <1>1, <1>2, <2>1
  <2>13. /\ o \in OccRecord /\ occ' = [occ EXCEPT ![t] = o]
         /\ o.status # "none" /\ o.done \subseteq o.items /\ RowsOfOne(t) /\ t \in Tasks
         /\ v.stage \in TaskStages \ {"movingRow"} /\ CarriesTask(v)
    BY <2>1, <2>5, <2>8
  <2>14. failures # 0 \/ Agreed(t)' \/ t \in raced' \cup patched'
    BY <2>8
  <2> HIDE <1>4
  <2> QED
    BY <2>6, <2>9, <2>10, <2>11, <2>12, <2>13, <2>14, OneTaskWritten DEF WritesTask, StaysAgreed
<1> QED
  BY <1>4

\* A step that writes rows of a task, and not the task.
LEMMA AssigneesWritten ==
  ASSUME IInv, NEW r \in Requests, req[r].stage \in {"listing", "unlisting"},
         Moved(r), HandlersTypeOK', failures' = failures,
         UNCHANGED <<rotaVars, template, occ, taskHistory>>,
         NEW v, req'[r] = v, v.stage \in TaskStages \ {"movingRow"}, CarriesTask(v), KnowsTask(v)',
         NEW t, t = req[r].task, RowsOfOne(t),
         \/ v.stage = "promoting" /\ v.task = t
         \/ \A x \in Servants : <<x, "PRIMARY">> \in active'[t] <=> <<x, "PRIMARY">> \in active[t]
  PROVE  IInv'
<1>1. /\ t \in Tasks /\ t \in req[r].touches /\ Made(t)
      /\ req[r].stage \in TaskStages \ {"impact", "picking", "movingTask"}
      /\ req[r].stage # "promoting"
  BY WorksOnOne
<1>2. ASSUME NEW o, o = occ[t] PROVE IInv'
  <2>1. /\ o \in OccRecord /\ o.status # "none" /\ o.done \subseteq o.items
        /\ occ' = [occ EXCEPT ![t] = o]
    BY <1>1, <1>2, OccurrencesOK DEF Made
  <2>2. o.status \in Final \/ t \in TasksOf(o.assigned)
    BY <1>1, <1>2 DEF TasksOf, Live
  <2>3. \/ failures # 0 \/ Agreed(t)' \/ t \in raced' \cup patched'
        \/ v.stage = "promoting" /\ v.task = t
    <3> SUFFICES ASSUME failures = 0, t \notin raced' \cup patched',
                        \A x \in Servants :
                           <<x, "PRIMARY">> \in active'[t] <=> <<x, "PRIMARY">> \in active[t]
                 PROVE  Agreed(t)'
      OBVIOUS
    <3>1. t \notin raced \cup patched
      BY DEF Moved, taskHistory
    <3>2. Agreed(t)
      BY <1>1, <3>1, AgreedUnlessPromoting DEF IInv, RotaInv
    <3> QED
      BY <3>2 DEF Agreed
  <2>4. /\ excused \subseteq excused' /\ patched \subseteq patched' /\ leavers' \subseteq leavers
        /\ template' = template /\ UNCHANGED rotaVars
        /\ req[r].stage \in TaskStages
        /\ t \in req[r].touches \cup v.touches \/ ~ Made(t)
    BY <1>1 DEF taskHistory
  <2>5. \A s \in leavers' : Relieves(r, s) => Relieves(r, s)' \/ TasksOf(s)' = {}
    BY <1>1, StepsRelieve DEF IInv
  <2>6. \/ failures # 0 \/ Agreed(t)' \/ t \in raced' \cup patched'
        \/ v.stage = "promoting" /\ v.task = t
        \/ o.assigned = occ[t].assigned /\ active'[t] = active[t] /\ req[r].stage # "promoting"
    BY <2>3
  <2>7. t \in Tasks /\ (req[r].stage = "promoting" => req[r].task = t)
    BY <1>1
  <2>8. \/ o.status \in Final \/ t \in TasksOf(o.assigned)
        \/ /\ o.assigned \in req[r].touches \cup v.touches \cup excused' \cup {Nobody}
           /\ o.assigned \in Servants \ (excused' \cup raced') => TasksOf(o.assigned) \subseteq {t}
           /\ o.assigned \notin leavers'
    BY <2>2
  <2> HIDE <1>2
  <2> QED
    BY <2>1, <2>4, <2>5, <2>6, <2>7, <2>8, OneTaskWritten, ZenonT(60) DEF WritesTask, StaysAgreed
<1> QED
  BY <1>2

LEMMA ListAssigneeOK ==
  ASSUME IInv, NEW r \in Requests, ListAssignee(r)
  PROVE  IInv'
<1> DEFINE q == req[r]
           locals == [q EXCEPT !.stage = "promoting"]
<1>1. /\ q.stage = "listing" /\ UNCHANGED <<rotaVars, template, occ, taskHistory>>
      /\ \/ Finish(r) /\ UNCHANGED <<listed, active>>
         \/ /\ listed' = [listed EXCEPT ![q.task] = @ \cup {<<q.to, q.role>>}]
            /\ active' = [active EXCEPT ![q.task] = @ \cup {<<q.to, q.role>>}]
            /\ IF q.role = "PRIMARY" THEN Step(r, locals) ELSE Finish(r)
  BY DEF ListAssignee
<1>2. /\ q.task \in Tasks /\ q.task \in q.touches /\ Made(q.task)
      /\ q.stage \in TaskStages \ {"impact", "picking", "movingTask"}
      /\ CarriesTask(q) /\ KnowsTask(q)
  BY <1>1, WorksOnOne
<1>3. q.kind = "list" /\ q \in Listing("listing") /\ {q.task, q.to} \subseteq q.touches
  BY <1>1, <1>2 DEF CarriesTask
<1>4. CASE Finish(r) /\ UNCHANGED <<listed, active>>
  <2>1. UNCHANGED <<rotaVars, taskTables, taskHistory>> /\ q.stage \in TaskStages \ {"promoting"}
    BY <1>1, <1>4 DEF taskTables, TaskStages
  <2>2. \A s : ~ Relieves(r, s)
    BY <1>2, StepsRelieve DEF IInv
  <2> QED
    BY <1>4, <2>1, <2>2, StepOK, IdleIsSound DEF Finish
<1>5. ASSUME NEW t, t = q.task, NEW row, row = <<q.to, q.role>>,
             NEW v, v = IF q.role = "PRIMARY" THEN locals ELSE Idle,
             listed' = [listed EXCEPT ![t] = @ \cup {row}],
             active' = [active EXCEPT ![t] = @ \cup {row}],
             Step(r, v)
      PROVE  IInv'
  <2>1. /\ t \in Tasks /\ Made(t) /\ row \in Servants \X Roles
        /\ q.to \in Servants /\ q.role \in {"PRIMARY", "SUPPORT"}
    BY <1>2, <1>3, <1>5 DEF Listing, Roles
  <2>2. RowsOfOne(t) /\ active'[t] = active[t] \cup {row}
    <3>1. /\ listed[t] \in SUBSET (Servants \X Roles) /\ active[t] \in SUBSET (Servants \X Roles)
          /\ active[t] \subseteq listed[t]
      BY <2>1, OccurrencesOK
    <3>2. ASSUME NEW l, l = listed[t] \cup {row}, NEW a, a = active[t] \cup {row}
          PROVE  RowsOfOne(t) /\ active'[t] = a
      <4>1. /\ l \in SUBSET (Servants \X Roles) /\ a \in SUBSET (Servants \X Roles)
            /\ a \subseteq l /\ listed' = [listed EXCEPT ![t] = l]
            /\ active' = [active EXCEPT ![t] = a]
        BY <1>5, <2>1, <3>1, <3>2
      <4> QED
        BY <2>1, <4>1, RowsOfOneAre
    <3> QED
      BY <3>2
  <2>3. TasksOf(q.to) \subseteq {t} \/ q.to \in raced \cup excused
    BY <1>1, <1>2, <1>5, <2>1 DEF KnowsTask, GiftIsFree, Gives
  <2>4. /\ \A x : TasksOf(x)' = TasksOf(x)
        /\ Made(t)' /\ excused' = excused
    BY <1>1, <2>1 DEF TasksOf, Live, Made, taskHistory
  <2>5. /\ v.stage \in TaskStages \ {"movingRow"} /\ CarriesTask(v)
        /\ v.kind # "none" \/ v = Idle
        /\ \/ v = Idle /\ q.role = "SUPPORT"
           \/ v.stage = "promoting" /\ v.task = t /\ v.kind = "list" /\ v.to = q.to
    <3>1. CASE q.role = "PRIMARY"
      <4>1. /\ v.kind = "list" /\ v.task = t /\ v.touches = q.touches /\ v.to = q.to
            /\ v.stage = "promoting" /\ v \in Listing("promoting")
        BY <1>3, <1>5, <3>1 DEF Listing
      <4>2. CarriesTask(v)
        BY <1>3, <1>5, <2>1, <4>1 DEF CarriesTask, MaybeServant
      <4> QED
        BY <4>1, <4>2 DEF TaskStages
    <3>2. CASE q.role = "SUPPORT"
      <4>1. v = Idle
        BY <1>5, <3>2
      <4> QED
        BY <3>2, <4>1, IdleNext
    <3> QED
      BY <2>1, <3>1, <3>2
  <2>6. /\ Moved(r) /\ req'[r] = v /\ HandlersTypeOK' /\ failures' = failures
    BY <1>5, <2>5, StepMoves DEF IInv, RotaInv, RotaTypeOK
  <2>7. KnowsTask(v)'
    <3>1. CASE v = Idle
      BY <3>1, IdleNext
    <3>2. CASE v.stage = "promoting" /\ v.task = t /\ v.kind = "list" /\ v.to = q.to
      <4>1. GiftIsFree(v)'
        BY <2>3, <2>4, <2>6, <3>2 DEF GiftIsFree, Moved
      <4> QED
        BY <2>4, <3>2, <4>1, OneTaskNext
    <3> QED
      BY <2>5, <3>1, <3>2
  <2>8. \/ v.stage = "promoting" /\ v.task = t
        \/ \A x \in Servants : <<x, "PRIMARY">> \in active'[t] <=> <<x, "PRIMARY">> \in active[t]
    BY <1>5, <2>2, <2>5
  <2>9. q.stage \in {"listing", "unlisting"} /\ t = q.task
        /\ UNCHANGED <<rotaVars, template, occ, taskHistory>>
    BY <1>1, <1>5
  <2> HIDE <1>5
  <2> QED
    BY <2>2, <2>5, <2>6, <2>7, <2>8, <2>9, AssigneesWritten
<1> QED
  BY <1>1, <1>4, <1>5 DEF Finish

LEMMA UnlistAssigneeOK ==
  ASSUME IInv, NEW r \in Requests, UnlistAssignee(r)
  PROVE  IInv'
<1> DEFINE q == req[r]
           locals == [q EXCEPT !.stage = "promoting"]
<1>1. /\ q.stage = "unlisting" /\ UNCHANGED <<rotaVars, template, occ, taskHistory>>
      /\ active' = [active EXCEPT ![q.task] = @ \ {q.row}] /\ listed' = listed
      /\ IF q.row[2] = "PRIMARY" THEN Step(r, locals) ELSE Finish(r)
  BY DEF UnlistAssignee
<1>2. /\ q.task \in Tasks /\ q.task \in q.touches /\ Made(q.task)
      /\ q.stage \in TaskStages \ {"impact", "picking", "movingTask"}
      /\ CarriesTask(q) /\ KnowsTask(q)
  BY <1>1, WorksOnOne
<1>3. q.kind = "unlist" /\ q \in Unlisting("unlisting") /\ q.task \in q.touches
  BY <1>1, <1>2 DEF CarriesTask
<1>4. ASSUME NEW t, t = q.task, NEW row, row = q.row,
             NEW v, v = IF row[2] = "PRIMARY" THEN locals ELSE Idle
      PROVE  IInv'
  <2>1. /\ t \in Tasks /\ Made(t) /\ row \in Servants \X Roles /\ Step(r, v)
        /\ active' = [active EXCEPT ![t] = @ \ {row}]
    BY <1>1, <1>2, <1>3, <1>4 DEF Unlisting, Finish
  <2>2. RowsOfOne(t) /\ active'[t] = active[t] \ {row}
    <3>1. /\ listed \in [Tasks -> SUBSET (Servants \X Roles)]
          /\ active \in [Tasks -> SUBSET (Servants \X Roles)]
          /\ active[t] \subseteq listed[t]
      BY <2>1, OccurrencesOK
    <3>2. active[t] \ {row} \in SUBSET (Servants \X Roles)
      BY <2>1, <3>1
    <3>3. /\ active' \in [Tasks -> SUBSET (Servants \X Roles)]
          /\ active'[t] = active[t] \ {row}
          /\ \A u \in Tasks \ {t} : active'[u] = active[u]
      BY <2>1, <3>1, <3>2
    <3> QED
      BY <1>1, <3>1, <3>3 DEF RowsOfOne
  <2>3. Made(t)'
    BY <1>1, <2>1 DEF Made
  <2>4. /\ v.stage \in TaskStages \ {"movingRow"} /\ CarriesTask(v)
        /\ v.kind # "none" \/ v = Idle
        /\ \/ v = Idle /\ row[2] # "PRIMARY"
           \/ v.stage = "promoting" /\ v.task = t /\ v.kind = "unlist"
    <3>1. CASE row[2] = "PRIMARY"
      <4>1. /\ v.kind = "unlist" /\ v.task = t /\ v.touches = q.touches /\ v.to = q.to
            /\ v.stage = "promoting" /\ v \in Unlisting("promoting") /\ q.to \in MaybeServant
        BY <1>3, <1>4, <3>1 DEF Unlisting
      <4>2. CarriesTask(v)
        BY <1>3, <1>4, <2>1, <4>1 DEF CarriesTask
      <4> QED
        BY <4>1, <4>2 DEF TaskStages
    <3>2. CASE row[2] # "PRIMARY"
      <4>1. v = Idle
        BY <1>4, <3>2
      <4> QED
        BY <3>2, <4>1, IdleNext
    <3> QED
      BY <3>1, <3>2
  <2>5. /\ Moved(r) /\ req'[r] = v /\ HandlersTypeOK' /\ failures' = failures
    BY <2>1, <2>4, StepMoves DEF IInv, RotaInv, RotaTypeOK
  <2>6. KnowsTask(v)'
    <3>1. CASE v = Idle
      BY <3>1, IdleNext
    <3>2. CASE v.stage = "promoting" /\ v.task = t /\ v.kind = "unlist"
      <4>1. GiftIsFree(v)'
        BY <3>2 DEF GiftIsFree, Gives
      <4> QED
        BY <2>3, <3>2, <4>1, OneTaskNext
    <3> QED
      BY <2>4, <3>1, <3>2
  <2>7. \/ v.stage = "promoting" /\ v.task = t
        \/ \A x \in Servants : <<x, "PRIMARY">> \in active'[t] <=> <<x, "PRIMARY">> \in active[t]
    BY <2>2, <2>4
  <2>8. q.stage \in {"listing", "unlisting"} /\ t = q.task
        /\ UNCHANGED <<rotaVars, template, occ, taskHistory>>
    BY <1>1, <1>4
  <2> HIDE <1>4
  <2> QED
    BY <2>2, <2>4, <2>5, <2>6, <2>7, <2>8, AssigneesWritten
<1> QED
  BY <1>4

\* The servant is set in a second query, and only whom a listing promotes was
\* asked for.
LEMMA PromoteOK ==
  ASSUME IInv, NEW r \in Requests, Promote(r)
  PROVE  IInv'
<1> DEFINE q == req[r]
<1>1. /\ q.stage = "promoting" /\ Finish(r) /\ occ' = [occ EXCEPT ![q.task].assigned = q.to]
      /\ UNCHANGED <<rotaVars, template, listed, active>>
      /\ patched' = patched \cup {q.task} /\ leavers' = leavers \ {q.to}
      /\ excused' = IF q.kind = "list" THEN excused ELSE excused \cup {q.to}
  BY DEF Promote, Rejoin
<1>2. /\ q.task \in Tasks /\ q.task \in q.touches /\ Made(q.task)
      /\ q.stage \in TaskStages \ {"impact", "picking", "movingTask"}
      /\ CarriesTask(q) /\ KnowsTask(q)
  BY <1>1, WorksOnOne
<1>3. q.to \in MaybeServant
  BY <1>1, <1>2 DEF CarriesTask
<1>4. \/ q.to \in excused' \cup {Nobody}
      \/ q.to \in q.touches /\ (TasksOf(q.to) \subseteq {q.task} \/ q.to \in raced \cup excused)
  BY <1>1, <1>2, <1>3, GiftIsTouched DEF KnowsTask, GiftIsFree, Gives, MaybeServant
<1>5. ASSUME NEW t, t = q.task, NEW to, to = q.to, NEW v, v = Idle,
             NEW o, o = [occ[t] EXCEPT !.assigned = to]
      PROVE  IInv'
  <2>1. /\ occ \in [Tasks -> OccRecord] /\ occ[t] \in OccRecord /\ t \in Tasks
        /\ occ[t].done \subseteq occ[t].items
        /\ Made(t) /\ t \in q.touches
    BY <1>2, <1>5, OccurrencesOK
  <2>2. /\ o \in OccRecord /\ occ' = [occ EXCEPT ![t] = o] /\ o.done \subseteq o.items
        /\ o.status = occ[t].status /\ o.assigned = to
    BY <1>1, <1>3, <1>5, <2>1 DEF OccRecord
  <2>3. o.status # "none"
    BY <2>1, <2>2 DEF Made
  <2>4. /\ Moved(r) /\ req'[r] = v /\ HandlersTypeOK' /\ failures' = failures
    BY <1>1, <1>5, FinishMoves DEF IInv, RotaInv, RotaTypeOK
  <2>5. v.stage \in TaskStages \ {"movingRow"} /\ CarriesTask(v) /\ KnowsTask(v)'
    BY <1>5, IdleNext
  <2>6. /\ o.assigned \in q.touches \cup v.touches \cup excused' \cup {Nobody}
        /\ o.assigned \in Servants \ (excused' \cup raced') => TasksOf(o.assigned) \subseteq {t}
        /\ o.assigned \notin leavers'
    BY <1>1, <1>4, <1>5, <2>2, <2>4, RotaAssumption DEF Moved
  <2>7. t \in patched' /\ (q.stage = "promoting" => q.task = t)
    BY <1>1, <1>5
  <2>8. /\ UNCHANGED <<rotaVars, template, listed, active>>
        /\ t \in q.touches \cup v.touches
        /\ excused \subseteq excused' /\ patched \subseteq patched' /\ leavers' \subseteq leavers
    BY <1>1, <2>1
  <2> HIDE <1>5
  <2> QED
    BY <1>2, <2>1, <2>2, <2>3, <2>4, <2>5, <2>6, <2>7, <2>8, OccWritten
<1> QED
  BY <1>5

LEMMA CallChecklistOK ==
  ASSUME IInv, NEW r \in Requests, NEW t \in Tasks, NEW done \in SUBSET Items,
         CallChecklist(r, t, done)
  PROVE  IInv'
<1>1. /\ Made(t) /\ done \subseteq occ[t].items /\ occ' = [occ EXCEPT ![t].done = done]
      /\ Call(r, [kind |-> "checklist", stage |-> "recounting", touches |-> {t}, task |-> t])
      /\ UNCHANGED <<rotaVars, template, listed, active>>
      /\ patched' = patched /\ excused' = excused /\ leavers' = leavers
  BY DEF CallChecklist, taskHistory
<1>2. ASSUME NEW v, v = [kind |-> "checklist", stage |-> "recounting", touches |-> {t}, task |-> t],
             NEW o, o = [occ[t] EXCEPT !.done = done]
      PROVE  IInv'
  <2>1. /\ occ \in [Tasks -> OccRecord] /\ occ[t] \in OccRecord
    BY OccurrencesOK
  <2>2. /\ o \in OccRecord /\ occ' = [occ EXCEPT ![t] = o] /\ o.done \subseteq o.items
        /\ o.status = occ[t].status /\ o.assigned = occ[t].assigned
    BY <1>1, <1>2, <2>1 DEF OccRecord
  <2>3. o.status # "none" /\ occ'[t] = o
    BY <1>1, <2>1, <2>2 DEF Made
  <2>4. o.status \in Final \/ t \in TasksOf(o.assigned)
    BY <1>1, <2>2 DEF TasksOf, Live
  <2>5. v.stage = "recounting" /\ v.kind = "checklist" /\ v.task = t /\ v.touches = {t}
    BY <1>2
  <2>6. CarriesTask(v)
    BY <2>5 DEF CarriesTask
  <2>7. /\ Moved(r) /\ req'[r] = v /\ HandlersTypeOK' /\ failures' = failures /\ req[r] = Idle
    BY <1>1, <1>2, <2>5, CallMoves DEF IInv, RotaInv, RotaTypeOK
  <2>8. KnowsTask(v)'
    <3>1. Made(v.task)' /\ GiftIsFree(v)'
      BY <2>3, <2>5 DEF Made, GiftIsFree, Gives
    <3> QED
      BY <2>5, <3>1, OneTaskNext
  <2>9. /\ UNCHANGED <<rotaVars, template, listed, active>>
        /\ req[r].stage \in TaskStages \ {"impact", "picking", "movingTask"}
        /\ req[r].stage # "promoting" /\ v.stage \in TaskStages \ {"movingRow"}
        /\ t \in req[r].touches \cup v.touches
        /\ excused \subseteq excused' /\ patched \subseteq patched' /\ leavers' \subseteq leavers
    BY <1>1, <2>5, <2>7, IdleFacts DEF TaskStages
  <2>10. Moved(r) /\ req'[r] = v /\ HandlersTypeOK' /\ failures' = failures /\ Made(t)
    BY <1>1, <2>7
  <2>11. o \in OccRecord /\ occ' = [occ EXCEPT ![t] = o] /\ o.status # "none" /\ o.done \subseteq o.items
    BY <2>2, <2>3
  <2>12. \/ t \in patched' /\ (req[r].stage = "promoting" => req[r].task = t)
         \/ o.assigned = occ[t].assigned /\ req[r].stage # "promoting"
    BY <2>2, <2>9
  <2> HIDE <1>2
  <2> QED
    BY <2>4, <2>6, <2>8, <2>9, <2>10, <2>11, <2>12, OccWritten
<1> QED
  BY <1>2

\* A finished task that is open again: its servant counts as excused, and is
\* not one who left.
LEMMA StoreStatusOK ==
  ASSUME IInv, NEW r \in Requests, StoreStatus(r)
  PROVE  IInv'
<1> DEFINE q == req[r]
<1>1. /\ q.stage = "storing" /\ Finish(r) /\ occ' = [occ EXCEPT ![q.task].status = q.status]
      /\ UNCHANGED <<rotaVars, template, listed, active>> /\ patched' = patched
      /\ Revive({q.task}, q.status)
  BY DEF StoreStatus
<1>2. /\ q.task \in Tasks /\ q.task \in q.touches /\ Made(q.task)
      /\ q.stage \in TaskStages \ {"impact", "picking", "movingTask"}
      /\ CarriesTask(q) /\ KnowsTask(q)
  BY <1>1, WorksOnOne
<1>3. q.status \in Statuses \ {"none"}
  BY <1>1, <1>2 DEF CarriesTask
<1>4. /\ excused \subseteq excused' /\ leavers' \subseteq leavers
      /\ q.status \notin Final /\ occ[q.task].status \in Final =>
            occ[q.task].assigned \in excused' /\ occ[q.task].assigned \notin leavers'
  BY <1>1 DEF Revive
<1>5. ASSUME NEW t, t = q.task, NEW v, v = Idle, NEW o, o = [occ[t] EXCEPT !.status = q.status]
      PROVE  IInv'
  <2>1. /\ occ \in [Tasks -> OccRecord] /\ occ[t] \in OccRecord /\ t \in Tasks
        /\ occ[t].done \subseteq occ[t].items
        /\ Made(t) /\ t \in q.touches
    BY <1>2, <1>5, OccurrencesOK
  <2>2. /\ o \in OccRecord /\ occ' = [occ EXCEPT ![t] = o] /\ o.done \subseteq o.items
        /\ o.status = q.status /\ o.status # "none" /\ o.assigned = occ[t].assigned
    BY <1>1, <1>3, <1>5, <2>1 DEF OccRecord
  <2>3. /\ Moved(r) /\ req'[r] = v /\ HandlersTypeOK' /\ failures' = failures
    BY <1>1, <1>5, FinishMoves DEF IInv, RotaInv, RotaTypeOK
  <2>4. v.stage \in TaskStages \ {"movingRow"} /\ CarriesTask(v) /\ KnowsTask(v)'
    BY <1>5, IdleNext
  <2>5. \/ o.status \in Final \/ t \in TasksOf(o.assigned)
        \/ /\ o.assigned \in q.touches \cup v.touches \cup excused' \cup {Nobody}
           /\ o.assigned \in Servants \ (excused' \cup raced') => TasksOf(o.assigned) \subseteq {t}
           /\ o.assigned \notin leavers'
    BY <1>4, <1>5, <2>1, <2>2 DEF TasksOf, Live
  <2>6. /\ UNCHANGED <<rotaVars, template, listed, active>>
        /\ q.stage # "promoting" /\ t \in q.touches \cup v.touches
        /\ excused \subseteq excused' /\ patched \subseteq patched' /\ leavers' \subseteq leavers
    BY <1>1, <1>4, <2>1
  <2> HIDE <1>5
  <2> QED
    BY <1>2, <2>1, <2>2, <2>3, <2>4, <2>5, <2>6, OccWritten
<1> QED
  BY <1>5

LEMMA CommitEndOK ==
  ASSUME IInv, NEW r \in Requests, CommitEnd(r)
  PROVE  IInv'
<1> DEFINE q == req[r]
<1>1. /\ q.stage = "ending" /\ Finish(r) /\ occ' = [occ EXCEPT ![q.task].status = q.status]
      /\ UNCHANGED <<rotaVars, template, listed, active>>
      /\ patched' = patched /\ excused' = excused /\ leavers' = leavers
  BY DEF CommitEnd, taskHistory
<1>2. /\ q.task \in Tasks /\ q.task \in q.touches /\ Made(q.task)
      /\ q.stage \in TaskStages \ {"impact", "picking", "movingTask"}
      /\ CarriesTask(q) /\ KnowsTask(q)
  BY <1>1, WorksOnOne
<1>3. q.status \in Final
  BY <1>1, <1>2 DEF CarriesTask
<1>4. ASSUME NEW t, t = q.task, NEW v, v = Idle, NEW o, o = [occ[t] EXCEPT !.status = q.status]
      PROVE  IInv'
  <2>1. /\ occ \in [Tasks -> OccRecord] /\ occ[t] \in OccRecord /\ t \in Tasks
        /\ occ[t].done \subseteq occ[t].items
        /\ Made(t) /\ t \in q.touches
    BY <1>2, <1>4, OccurrencesOK
  <2>2. /\ o \in OccRecord /\ occ' = [occ EXCEPT ![t] = o] /\ o.done \subseteq o.items
        /\ o.status \in Final /\ o.status # "none" /\ o.assigned = occ[t].assigned
    BY <1>1, <1>3, <1>4, <2>1 DEF OccRecord, Statuses, Final
  <2>3. /\ Moved(r) /\ req'[r] = v /\ HandlersTypeOK' /\ failures' = failures
    BY <1>1, <1>4, FinishMoves DEF IInv, RotaInv, RotaTypeOK
  <2>4. v.stage \in TaskStages \ {"movingRow"} /\ CarriesTask(v) /\ KnowsTask(v)'
    BY <1>4, IdleNext
  <2>5. /\ UNCHANGED <<rotaVars, template, listed, active>>
        /\ q.stage # "promoting" /\ t \in q.touches \cup v.touches
        /\ excused \subseteq excused' /\ patched \subseteq patched' /\ leavers' \subseteq leavers
    BY <1>1, <2>1
  <2> HIDE <1>4
  <2> QED
    BY <1>2, <2>1, <2>2, <2>3, <2>4, <2>5, OccWritten
<1> QED
  BY <1>4

\* The transaction of a reallocation: the servant who left has one task less,
\* and the request the others on its list.
LEMMA MoveTaskOK ==
  ASSUME IInv, NEW r \in Requests, MoveTask(r)
  PROVE  IInv'
<1> DEFINE q == req[r]
           rest == [kind |-> "reallocate", stage |-> "picking", touches |-> q.touches,
                    gone |-> q.gone, mode |-> q.mode, todo |-> q.todo, pool |-> q.pool]
<1>1. /\ q.stage = "movingTask" /\ ChangeAssignment(q.task, q.gone, q.to)
      /\ IF q.todo = {} THEN Finish(r) ELSE Step(r, rest)
      /\ leavers' = leavers \ {q.to}
      /\ UNCHANGED <<rotaVars, template, patched, excused>>
  BY DEF MoveTask, Rejoin
<1>2. CarriesTask(q) /\ KnowsTask(q)
  BY DEF IInv, TaskInv, TaskRequestsOK
<1>3. /\ q.kind = "reallocate" /\ q.gone \in Servants /\ q.mode \in Modes
      /\ q.todo \subseteq Tasks /\ q.todo \subseteq q.touches /\ q.pool \subseteq Servants
      /\ q.task \in Tasks /\ q.task \notin q.todo /\ q.to \in MaybeServant
      /\ q.task \in q.touches /\ (q.to = Nobody \/ q.to \in q.touches)
  BY <1>1, <1>2 DEF CarriesTask
<1>4. Handles(q) = q.todo \cup {q.task}
  BY <1>1 DEF Handles
<1>5. \A u \in q.todo \cup {q.task} : /\ Made(u)
                                      /\ u \in raced \/ occ[u].assigned = q.gone
                                      /\ u \in raced \/ occ[u].status \notin Final
  BY <1>1, <1>2, <1>4 DEF KnowsTask, HandlesMade, FromIsCurrent, NotFinished, KeepsFinished
<1>6. q.to \in Servants \ (raced \cup excused) => TasksOf(q.to) \subseteq {q.task}
  BY <1>1, <1>2 DEF KnowsTask, GiftIsFree, Gives
<1>7. \A s : Relieves(r, s) => s = q.gone /\ TasksOf(s) \subseteq q.todo \cup {q.task}
  BY <1>1, <1>4 DEF Relieves
<1>8. ASSUME NEW t, t = q.task, NEW gone, gone = q.gone, NEW to, to = q.to,
             NEW todo, todo = q.todo, NEW touches, touches = q.touches,
             NEW v, v = IF todo = {} THEN Idle ELSE rest,
             NEW o, o = Reassigned(t, to)
      PROVE  IInv'
  <2>1. /\ t \in Tasks /\ t \in q.touches /\ Made(t) /\ gone \in MaybeServant /\ gone # Nobody
        /\ to \in MaybeServant /\ (to = Nobody \/ to \in q.touches)
        /\ todo \subseteq Tasks /\ todo \subseteq touches /\ t \notin todo
        /\ t \in raced \/ occ[t].assigned = gone
    BY <1>3, <1>5, <1>8, RotaAssumption DEF MaybeServant
  <2>2. /\ ChangeAssignment(t, gone, to) /\ patched' = patched /\ q.stage # "promoting"
    BY <1>1, <1>8
  <2>3. Step(r, v) /\ (v.kind # "none" \/ v = Idle)
    BY <1>1, <1>8, IdleFacts DEF Finish
  <2>4. /\ Moved(r) /\ req'[r] = v /\ HandlersTypeOK' /\ failures' = failures
    BY <2>3, StepMoves DEF IInv, RotaInv, RotaTypeOK
  <2>5. /\ occ' = [occ EXCEPT ![t] = o] /\ o \in OccRecord
        /\ o.assigned = to /\ o.status \in {"PENDING", "ASSIGNED"} /\ o.done \subseteq o.items
        /\ RowsOfOne(t) /\ occ'[t] = o /\ \A u \in Tasks \ {t} : occ'[u] = occ[u]
        /\ failures # 0 \/ Agreed(t)' \/ t \in raced' \cup patched'
    BY <1>8, <2>1, <2>2, <2>4, ChangeAgrees
  <2>6. /\ v.stage \in TaskStages \ {"movingRow"} /\ CarriesTask(v) /\ KnowsTask(v)'
        /\ \A s \in leavers' : Relieves(r, s) => Relieves(r, s)' \/ TasksOf(s)' = {}
    <3>1. ASSUME NEW s, s # to, TasksOf(s) \subseteq todo \cup {t}
          PROVE  TasksOf(s)' \subseteq todo
      BY <2>5, <3>1 DEF TasksOf, Live, Made
    <3>2. \A s \in leavers' : Relieves(r, s) => s = gone /\ TasksOf(s)' \subseteq todo
      BY <1>1, <1>7, <1>8, <3>1
    <3>3. CASE todo = {}
      <4>1. v = Idle
        BY <1>8, <3>3
      <4>2. v.stage \in TaskStages \ {"movingRow"} /\ CarriesTask(v) /\ KnowsTask(v)'
        BY <4>1, IdleNext
      <4>3. \A s \in leavers' : Relieves(r, s) => TasksOf(s)' = {}
        BY <3>2, <3>3
      <4> QED
        BY <4>2, <4>3
    <3>4. CASE todo # {}
      <4>1. /\ v.kind = "reallocate" /\ v.stage = "picking" /\ v.touches = touches
            /\ v.gone = gone /\ v.gone \in Servants /\ v.mode \in Modes
            /\ v.todo = todo /\ v.pool \subseteq Servants
        BY <1>3, <1>8, <3>4
      <4>2. CarriesTask(v)
        BY <2>1, <4>1 DEF CarriesTask
      <4>3. Handles(v)' = todo
        BY <4>1 DEF Handles
      <4>4. \A u \in todo : /\ Made(u)'
                            /\ u \in raced' \/ occ'[u].assigned = gone
                            /\ u \in raced' \/ occ'[u].status \notin Final
        BY <1>5, <1>8, <2>1, <2>4, <2>5 DEF Made, Moved
      <4>5. /\ HandlesMade(v)' /\ GiftIsFree(v)' /\ FromIsCurrent(v)' /\ NotFinished(v)'
        <5>1. HandlesMade(v)'
          BY <4>3, <4>4 DEF HandlesMade
        <5>2. GiftIsFree(v)'
          BY <4>1 DEF GiftIsFree, Gives
        <5>3. FromIsCurrent(v)'
          BY <4>1, <4>3, <4>4 DEF FromIsCurrent
        <5>4. NotFinished(v)'
          BY <4>3, <4>4 DEF NotFinished
        <5> QED
          BY <5>1, <5>2, <5>3, <5>4
      <4>6. KnowsTask(v)'
        BY <4>5 DEF KnowsTask
      <4>7. \A s : s = gone /\ TasksOf(s)' \subseteq todo => Relieves(r, s)'
        BY <2>4, <4>1, <4>3 DEF Relieves, Handles
      <4>8. \A s \in leavers' : Relieves(r, s) => Relieves(r, s)'
        BY <3>2, <4>7
      <4> QED
        BY <4>1, <4>2, <4>6, <4>8 DEF TaskStages
    <3> QED
      BY <3>3, <3>4
  <2>7. /\ o.assigned \in q.touches \cup v.touches \cup excused' \cup {Nobody}
        /\ o.assigned \in Servants \ (excused' \cup raced') => TasksOf(o.assigned) \subseteq {t}
        /\ o.assigned \notin leavers'
    BY <1>1, <1>6, <1>8, <2>1, <2>4, <2>5 DEF Moved
  <2>8. /\ excused \subseteq excused' /\ patched \subseteq patched' /\ leavers' \subseteq leavers
        /\ template' = template /\ UNCHANGED rotaVars
        /\ q.stage \in TaskStages /\ q.stage # "promoting"
        /\ t \in q.touches \cup v.touches \/ ~ Made(t)
    BY <1>1, <2>1 DEF TaskStages
  <2>9. /\ o \in OccRecord /\ occ' = [occ EXCEPT ![t] = o]
        /\ o.status # "none" /\ o.done \subseteq o.items /\ RowsOfOne(t) /\ t \in Tasks
        /\ v.stage \in TaskStages \ {"movingRow"} /\ CarriesTask(v)
    BY <2>1, <2>5, <2>6
  <2>10. failures # 0 \/ Agreed(t)' \/ t \in raced' \cup patched'
    BY <2>5
  <2> HIDE <1>8
  <2> QED
    BY <2>4, <2>6, <2>7, <2>8, <2>9, <2>10, OneTaskWritten DEF WritesTask, StaysAgreed
<1> QED
  BY <1>8

\* The sweep writes many tasks at once; of those finished since it read them the
\* servants count as excused.
LEMMA MarkOverdueOK ==
  ASSUME IInv, NEW r \in Requests, MarkOverdue(r)
  PROVE  IInv'
<1> DEFINE q == req[r]
           back == {occ[t].assigned : t \in {u \in q.touches : occ[u].status \in Final}}
<1>1. /\ q.stage = "sweeping" /\ Finish(r)
      /\ occ' = [t \in Tasks |-> IF t \in q.touches THEN [occ[t] EXCEPT !.status = "OVERDUE"]
                                 ELSE occ[t]]
      /\ Revive(q.touches, "OVERDUE") /\ UNCHANGED <<rotaVars, template, listed, active, patched>>
  BY DEF MarkOverdue
<1>2. /\ excused' = excused \cup back /\ leavers' = leavers \ back
  BY <1>1 DEF Revive, Final
<1>3. CarriesTask(q) /\ KnowsTask(q)
  BY DEF IInv, TaskInv, TaskRequestsOK
<1>4. q.touches \subseteq Tasks
  BY <1>1, <1>3 DEF CarriesTask
<1>5. \A t \in q.touches : Made(t)
  BY <1>1, <1>3 DEF KnowsTask, HandlesMade, Handles
<1>6. /\ Moved(r) /\ req'[r] = Idle /\ HandlersTypeOK' /\ failures' = failures
  BY <1>1, FinishMoves DEF IInv, RotaInv, RotaTypeOK
<1>7. \A w : w = Idle => w.stage \in TaskStages \ {"movingRow"} /\ CarriesTask(w) /\ KnowsTask(w)'
  BY IdleNext
<1>8. RotaInv'
  BY <1>1, <1>6, <1>7, RotaKept DEF IInv, TaskStages
<1>9. ASSUME NEW touches, touches = q.touches, NEW v, v = Idle
      PROVE  TaskInv'
  <2>1. ASSUME NEW t \in Tasks
        PROVE  /\ occ'[t] \in OccRecord /\ occ'[t].assigned = occ[t].assigned
               /\ occ'[t].done = occ[t].done /\ occ'[t].items = occ[t].items
               /\ IF t \in touches THEN occ'[t].status = "OVERDUE" ELSE occ'[t].status = occ[t].status
    BY <1>1, <1>9, OccurrencesOK DEF OccRecord, Statuses
  <2>2. ASSUME NEW t \in Tasks PROVE Made(t)' <=> Made(t)
    BY <1>5, <1>9, <2>1 DEF Made
  <2>3. /\ occ' \in [Tasks -> OccRecord] /\ listed' = listed /\ active' = active
        /\ template' = template /\ leavers' \subseteq leavers
    BY <1>1, <1>2, <2>1
  <2>4. TaskTablesOK'
    BY <2>1, <2>2, <2>3 DEF IInv, TaskInv, TaskTablesOK
  <2>5. ASSUME NEW s PROVE TasksOf(s)' \subseteq TasksOf(s) \/ s \in back
    BY <1>4, <1>5, <1>9, <2>1, <2>2 DEF TasksOf, Live
  <2>6. /\ \A s \in Servants : \/ s \in (q.touches \cup v.touches) \cup excused'
                               \/ TasksOf(s)' \subseteq TasksOf(s)
        /\ \A s \in Servants \ (excused' \cup raced') : \/ TasksOf(s)' \subseteq TasksOf(s)
                                                       \/ \E t : TasksOf(s)' \subseteq {t}
    BY <1>2, <2>5
  <2>7. \A s \in leavers' : \/ TasksOf(s)' = {} \/ Relieves(r, s)'
                            \/ /\ s \in leavers /\ TasksOf(s)' \subseteq TasksOf(s)
                               /\ ~ Relieves(r, s)
    <3>1. \A s : ~ Relieves(r, s)
      BY <1>1, StepsRelieve DEF IInv, TaskStages
    <3> QED
      BY <1>2, <2>5, <3>1
  <2>8. failures # 0 \/ \A t \in Tasks \ (raced' \cup patched') :
           \/ Agreed(t)'
           \/ v.stage = "promoting" /\ v.task = t
           \/ /\ occ'[t].assigned = occ[t].assigned /\ active'[t] = active[t]
              /\ ~ (q.stage = "promoting" /\ q.task = t)
    BY <1>1, <2>1, <2>3
  <2>9. /\ \A t \in Tasks : Made(t) => Made(t)'
        /\ \A t \in Tasks : \/ t \in q.touches \cup v.touches
                            \/ ~ Made(t)
                            \/ /\ occ'[t].assigned = occ[t].assigned
                               /\ occ'[t].status = occ[t].status
    BY <1>9, <2>1, <2>2
  <2>10. /\ TaskInv /\ RacesKnown /\ Moved(r) /\ failures' = failures
         /\ excused \subseteq excused' /\ patched \subseteq patched'
         /\ req'[r] = v /\ CarriesTask(v) /\ KnowsTask(v)'
    BY <1>1, <1>2, <1>6, <1>7, <1>9 DEF IInv, RotaInv
  <2> HIDE <1>9 DEF back
  <2> QED
    BY <2>4, <2>6, <2>7, <2>8, <2>9, <2>10, TaskWritten
<1> QED
  BY <1>8, <1>9 DEF IInv

\* The row of a servant goes to another one, and he is one who left.
LEMMA CommitMoveOK ==
  ASSUME IInv, NEW r \in Requests, CommitMove(r)
  PROVE  IInv'
<1> DEFINE q == req[r]
           refused == q.row \notin Kept \/ Taken(q.ministry, q.servant, q.row)
           rest == [kind |-> "reallocate", stage |-> "impact", touches |-> {"rota", q.gone},
                    gone |-> q.gone]
<1>1. /\ q.stage = "movingRow" /\ UNCHANGED <<versions, board, several, taskTables, patched, excused>>
  BY DEF CommitMove
<1>2. CarriesTask(q) /\ Carries(q) /\ KnowsRows(r)
  BY DEF IInv, TaskInv, TaskRequestsOK, RotaInv, RotaRequestsOK
<1>3. q \in [kind : {"move"}, stage : {"movingRow"}, touches : {{"rota"}}, row : RowIds,
             ministry : Ministries, servant : Servants, gone : MaybeServant]
  BY <1>1, <1>2 DEF CarriesTask
<1>4. /\ q.row \in RowIds /\ q.ministry \in Ministries /\ q.servant \in Servants
      /\ q.gone \in MaybeServant /\ q.touches = {"rota"}
  BY <1>3
<1>5. CASE refused
  <2>1. Finish(r) /\ UNCHANGED <<rows, silent, leavers>>
    BY <1>5 DEF CommitMove
  <2>2. UNCHANGED <<rotaVars, taskTables, taskHistory>>
    BY <1>1, <2>1 DEF rotaVars, rotaTables, rotaHistory, taskHistory
  <2>3. \A s : ~ Relieves(r, s)
    BY <1>1, StepsRelieve DEF IInv, TaskStages
  <2> QED
    BY <1>1, <2>1, <2>2, <2>3, IdleIsSound, StepOK DEF Finish, TaskStages
<1>6. CASE ~ refused
  <2>1. /\ rows' = [rows EXCEPT ![q.row] = Row(q.ministry, q.servant)] /\ silent' = TRUE
        /\ leavers' = leavers \cup ({q.gone} \ {Nobody})
        /\ IF q.gone = Nobody THEN Finish(r) ELSE Step(r, rest)
    BY <1>6 DEF CommitMove, WriteRow
  <2>2. ASSUME NEW gone, gone = q.gone, NEW v, v = IF gone = Nobody THEN Idle ELSE rest
        PROVE  IInv'
    <3>1. Step(r, v) /\ (v.kind # "none" \/ v = Idle)
      BY <2>1, <2>2 DEF Finish
    <3>2. /\ Moved(r) /\ req'[r] = v /\ HandlersTypeOK' /\ failures' = failures
      BY <3>1, <2>1, <2>2, StepMoves DEF IInv, RotaInv, RotaTypeOK, Finish
    <3>3. /\ v.stage \in TaskStages \ {"movingRow"} /\ v.stage \in {"idle", "impact"}
          /\ CarriesTask(v)
          /\ gone # Nobody => v.kind = "reallocate" /\ v.gone = gone /\ v.stage = "impact"
      <4>1. CASE gone = Nobody
        BY <2>2, <4>1, IdleNext, IdleFacts
      <4>2. CASE gone # Nobody
        <5>1. /\ v.kind = "reallocate" /\ v.stage = "impact" /\ v.gone = gone /\ gone \in Servants
          BY <1>4, <2>2, <4>2 DEF MaybeServant
        <5> QED
          BY <5>1 DEF CarriesTask, TaskStages
      <4> QED
        BY <4>1, <4>2
    <3>4. KnowsTask(v)'
      <4>1. Handles(v)' = {}
        BY <3>3 DEF Handles
      <4> QED
        BY <3>3, <4>1
           DEF KnowsTask, HandlesMade, GiftIsFree, FromIsCurrent, NotFinished, Gives, KeepsFinished
    <3>5. RotaInv'
      <4>1. /\ rows' \in [RowIds -> RowRecord \cup {NoRow, GoneRow}] /\ OneRowPerServant'
        <5>1. "rota" \notin raced' => \A j \in Kept \ {q.row} : rows[j].servant # q.servant
          BY <1>1, <1>2, <3>2 DEF KnowsRows, Moved
        <5>2. several' = several
          BY <1>1
        <5> QED
          BY <1>4, <2>1, <3>2, <5>1, <5>2, RowWritten DEF IInv, RotaInv, Moved
      <4>2. Carries(v) /\ v.stage \notin Knowing
        BY <3>3 DEF Carries, Knowing
      <4>3. UNCHANGED <<versions, board>> /\ several' \subseteq Servants /\ "rota" \in req[r].touches
        BY <1>1, <1>4 DEF IInv, RotaInv, RotaTypeOK
      <4> QED
        BY <2>1, <3>2, <4>1, <4>2, <4>3, RowsWritten DEF IInv
    <3>6. /\ occ' = occ /\ listed' = listed /\ active' = active /\ template' = template
          /\ patched' = patched /\ excused' = excused
      BY <1>1 DEF taskTables
    <3>7. /\ \A t : Made(t)' = Made(t)
          /\ \A s : TasksOf(s)' = TasksOf(s)
      BY <3>6 DEF Made, TasksOf, Live
    <3>8. TaskTablesOK'
      BY <1>4, <2>1, <3>6, <3>7 DEF IInv, TaskInv, TaskTablesOK, MaybeServant
    <3>9. /\ \A t \in Tasks : Made(t) => Made(t)'
          /\ \A t \in Tasks : \/ t \in req[r].touches \cup v.touches
                              \/ ~ Made(t)
                              \/ /\ occ'[t].assigned = occ[t].assigned
                                 /\ occ'[t].status = occ[t].status
          /\ \A s \in Servants : \/ s \in (req[r].touches \cup v.touches) \cup excused'
                                 \/ TasksOf(s)' \subseteq TasksOf(s)
          /\ \A s \in Servants \ (excused' \cup raced') : \/ TasksOf(s)' \subseteq TasksOf(s)
                                                          \/ \E t : TasksOf(s)' \subseteq {t}
      BY <3>6, <3>7
    <3>10. failures # 0 \/ \A t \in Tasks \ (raced' \cup patched') :
             \/ Agreed(t)'
             \/ v.stage = "promoting" /\ v.task = t
             \/ /\ occ'[t].assigned = occ[t].assigned /\ active'[t] = active[t]
                /\ ~ (req[r].stage = "promoting" /\ req[r].task = t)
      BY <1>1, <3>6
    <3>11. \A s \in leavers' : \/ TasksOf(s)' = {} \/ Relieves(r, s)'
                               \/ /\ s \in leavers /\ TasksOf(s)' \subseteq TasksOf(s)
                                  /\ ~ Relieves(r, s)
      <4>1. \A s : ~ Relieves(r, s)
        BY <1>1, StepsRelieve DEF IInv, TaskStages
      <4>2. gone # Nobody => Relieves(r, gone)'
        BY <3>2, <3>3 DEF Relieves
      <4>3. \A s \in leavers' : s \in leavers \/ (s = gone /\ gone # Nobody)
        BY <2>1, <2>2
      <4> QED
        BY <3>7, <4>1, <4>2, <4>3
    <3>12. /\ TaskInv /\ RacesKnown /\ Moved(r) /\ failures' = failures
           /\ excused \subseteq excused' /\ patched \subseteq patched'
           /\ req'[r] = v /\ CarriesTask(v) /\ KnowsTask(v)'
      BY <3>2, <3>3, <3>4, <3>6 DEF IInv, RotaInv
    <3> HIDE <2>2
    <3>13. TaskInv'
      BY <3>8, <3>9, <3>10, <3>11, <3>12, TaskWritten
    <3> QED
      BY <3>5, <3>13 DEF IInv
  <2> QED
    BY <2>2
<1> QED
  BY <1>5, <1>6

-----------------------------------------------------------------------------
(* The invariant.                                                          *)

\* An occurrence as it may stand at first agrees with its rows.
Fits(x) ==
    /\ x.occ \in OccRecord /\ x.occ.done \subseteq x.occ.items
    /\ x.rows \subseteq Servants \X Roles
    /\ \A s \in Servants : <<s, "PRIMARY">> \in x.rows <=> s = x.occ.assigned
    /\ x.occ.status = "none" => x.rows = {}
    /\ x.occ.status \in {"none", "PENDING"} => x.occ.assigned = Nobody
    /\ x.occ.status \in {"none", "PENDING", "ASSIGNED", "COMPLETED"}

LEMMA StandingFits ==
  ASSUME NEW s \in MaybeServant, NEW support \in SUBSET Servants,
         NEW status \in {"PENDING", "ASSIGNED", "COMPLETED"},
         status = "PENDING" <=> s = Nobody
  PROVE  Fits(Standing(s, support, status))
<1>1. ASSUME NEW o, o = Standing(s, support, status).occ
      PROVE  /\ o \in OccRecord /\ o.done \subseteq o.items /\ o.assigned = s /\ o.status = status
  <2>1. o = [status |-> status, assigned |-> s, items |-> IF s = Nobody THEN Required ELSE Items,
             done |-> IF status = "COMPLETED" THEN Items ELSE {}, dated |-> TRUE,
             late |-> FALSE, made |-> "hand"]
    BY <1>1 DEF Standing, Unused
  <2>2. Required \subseteq Items /\ (status = "COMPLETED" => s # Nobody)
    BY TasksAssumption
  <2> QED
    BY <2>1, <2>2 DEF OccRecord, Statuses, Open, Final
<1>2. Standing(s, support, status).rows = RowsFor(s, support)
  BY DEF Standing
<1> QED
  BY <1>1, <1>2, RowsForOne DEF Fits

LEMMA NotMadeFits == Fits(NotMade)
<1>1. Unused \in OccRecord /\ Unused.done \subseteq Unused.items
  BY DEF Unused, OccRecord, Statuses, MaybeServant
<1> QED
  BY <1>1, RotaAssumption DEF Fits, NotMade, Unused

LEMMA InitOK == ASSUME Init PROVE IInv
<1>1. RotaInv
  BY RotaInitOK DEF Init
<1>2. /\ req = [r \in Requests |-> Idle] /\ raced = {} /\ failures = 0
  BY DEF Init, RotaInit, HandlersInit
<1>3. PICK standing \in [Tasks -> {NotMade} \cup Given \cup Others] :
         /\ \A t, u \in Tasks : t # u /\ standing[t].occ.status = "ASSIGNED"
                                /\ standing[u].occ.status = "ASSIGNED" =>
                                standing[t].occ.assigned # standing[u].occ.assigned
         /\ occ = [t \in Tasks |-> standing[t].occ]
         /\ listed = [t \in Tasks |-> standing[t].rows]
  BY DEF Init, TasksInit
<1>4. /\ template = [live |-> TRUE, items |-> Items, limit |-> 2]
      /\ active = listed /\ patched = {} /\ excused = {} /\ leavers = {}
  BY DEF Init, TasksInit
<1>5. \A x \in {NotMade} \cup Given \cup Others : Fits(x)
  <2>1. \A x \in Given : Fits(x)
    <3> SUFFICES ASSUME NEW s \in Servants, NEW status \in {"ASSIGNED", "COMPLETED"}
                 PROVE  Fits(Standing(s, {}, status))
      BY DEF Given
    <3>1. s \in MaybeServant /\ s # Nobody /\ {} \in SUBSET Servants
          /\ status \in {"PENDING", "ASSIGNED", "COMPLETED"} /\ status # "PENDING"
      BY RotaAssumption DEF MaybeServant
    <3> QED
      BY <3>1, StandingFits
  <2>2. Fits(Standing(Nobody, {}, "PENDING"))
    <3>1. Nobody \in MaybeServant /\ {} \in SUBSET Servants
      BY DEF MaybeServant
    <3> QED
      BY <3>1, StandingFits
  <2>3. ASSUME NEW s \in Servants PROVE Fits(Standing(s, Servants \ {s}, "ASSIGNED"))
    <3>1. s \in MaybeServant /\ s # Nobody /\ Servants \ {s} \in SUBSET Servants
      BY RotaAssumption DEF MaybeServant
    <3> QED
      BY <3>1, StandingFits
  <2> QED
    BY <2>1, <2>2, <2>3, NotMadeFits DEF Others
<1> HIDE DEF Fits
<1>6. ASSUME NEW t \in Tasks
      PROVE  /\ occ[t] \in OccRecord /\ occ[t].done \subseteq occ[t].items
             /\ active[t] = listed[t] /\ listed[t] \subseteq Servants \X Roles
             /\ \A s \in Servants : <<s, "PRIMARY">> \in active[t] <=> s = occ[t].assigned
             /\ occ[t].status = "none" => active[t] = {}
             /\ occ[t].status \in {"none", "PENDING"} => occ[t].assigned = Nobody
             /\ occ[t].status \in {"none", "PENDING", "ASSIGNED", "COMPLETED"}
  <2>1. Fits(standing[t]) /\ occ[t] = standing[t].occ /\ listed[t] = standing[t].rows
    BY <1>3, <1>5
  <2> QED
    BY <1>4, <2>1 DEF Fits
<1>7. TaskTablesOK
  BY <1>3, <1>4, <1>6 DEF TaskTablesOK, Made
<1>8. TaskRequestsOK
  BY <1>2, IdleKnowsNothing DEF TaskRequestsOK
<1>9. NoSecondTask
  <2> SUFFICES ASSUME NEW s \in Servants, NEW t \in TasksOf(s), NEW u \in TasksOf(s)
               PROVE  t = u
    BY DEF NoSecondTask
  <2>1. ASSUME NEW x \in TasksOf(s) PROVE x \in Tasks /\ standing[x].occ.status = "ASSIGNED"
                                          /\ standing[x].occ.assigned = s
    BY <1>3, <1>6, RotaAssumption DEF TasksOf, Live, Made, Final
  <2> QED
    BY <1>3, <2>1
<1>10. AgreedOrPromoting
  <2>1. \A t \in Tasks : occ[t].assigned \in MaybeServant
    BY <1>6 DEF OccRecord
  <2> QED
    BY <1>6, <2>1, RotaAssumption DEF AgreedOrPromoting, Agreed, MaybeServant
<1>11. LeaversRelieved
  BY <1>4 DEF LeaversRelieved
<1> QED
  BY <1>1, <1>7, <1>8, <1>9, <1>10, <1>11 DEF IInv, TaskInv

LEMMA TaskCallOK == ASSUME IInv, NEW r \in Requests, TaskCall(r) PROVE IInv'
<1>1. ASSUME NEW t \in Tasks, CallOnTask(r, t) PROVE IInv'
  BY <1>1, CallAssignOK, CallAssignToLeaderOK, CallReassignOK, CallAddAssigneeOK,
     CallRemoveAssigneeOK, CallChecklistOK, CallEndOK DEF CallOnTask
<1> QED
  BY <1>1, CallCreateTaskOK, CallGenerateTasksOK, CallSweepOK, CallMoveOK, CallReallocateOK
     DEF TaskCall, TimerFires, MaybeServant

LEMMA TaskStepOK == ASSUME IInv, NEW r \in Requests, TaskStep(r) PROVE IInv'
<1>1. CASE \/ AdmitTask(r) \/ CommitCreateTask(r) \/ SeekOccurrence(r) \/ GenerateOccurrence(r)
           \/ CheckServant(r) \/ Apply(r) \/ ClearChecklist(r)
  BY <1>1, AdmitTaskOK, CommitCreateTaskOK, SeekOccurrenceOK, GenerateOccurrenceOK,
     CheckServantOK, ApplyOK, ClearChecklistOK
<1>2. CASE \/ ListAssignee(r) \/ UnlistAssignee(r) \/ Promote(r) \/ Recount(r)
           \/ StoreStatus(r) \/ CommitEnd(r) \/ MarkOverdue(r) \/ CommitMove(r) \/ MoveTask(r)
  BY <1>2, ListAssigneeOK, UnlistAssigneeOK, PromoteOK, RecountOK, StoreStatusOK, CommitEndOK,
     MarkOverdueOK, CommitMoveOK, MoveTaskOK
<1>3. CASE \E mode \in Modes : ReadImpact(r, mode)
  BY <1>3, ReadImpactOK
<1>4. CASE \E t \in Tasks, s \in Servants \cup {Nobody} : Pick(r, t, s)
  BY <1>4, PickOK DEF MaybeServant
<1> QED
  BY <1>1, <1>2, <1>3, <1>4 DEF TaskStep

LEMMA NextOK == ASSUME IInv, [Next]_vars PROVE IInv'
<1>1. ASSUME NEW r \in Requests, TaskCall(r) \/ TaskStep(r) PROVE IInv'
  BY <1>1, TaskCallOK, TaskStepOK
<1>2. ASSUME NEW r \in Requests, RotaCall(r) \/ RotaStep(r), RotaOnly PROVE IInv'
  BY <1>2, RotaActionOK
<1>3. ASSUME NEW r \in Requests, Break(r, HalfDone), UNCHANGED rotaVars, RotaOnly PROVE IInv'
  BY <1>3, BreakOK
<1> QED
  BY <1>1, <1>2, <1>3, BoardExpiresKeeps, UpdateTemplateOK, DueDatePassesOK, StutterOK DEF Next

LEMMA Invariant == Spec => []IInv
  BY InitOK, NextOK, PTL DEF Spec

-----------------------------------------------------------------------------
(* Theorems.                                                               *)

\* The tables of the rota and of the tasks, the requests and the histories have
\* their types in every reachable state, whatever requests interleave or break
\* off; a checklist is ticked only where it has items, and an active assignee
\* row is one that was listed.
THEOREM TypeCorrect == Spec => []TypeOK
<1>1. IInv => TypeOK
  BY DEF IInv, RotaInv, TaskInv, TaskTablesOK, TypeOK, OccRecord, Statuses, MaybeServant
<1> QED
  BY <1>1, Invariant, PTL

\* publishVersion archives what was published before it: with any number of
\* versions a service has one published, unless two publications were in flight
\* together.
THEOREM PublishedOnce == Spec => []OnePublished
<1>1. IInv => OnePublished
  BY DEF IInv, RotaInv
<1> QED
  BY <1>1, Invariant, PTL

\* Whoever writes a row of the rota (create, the generation, a swap, a slot, a
\* move) has asked first: with any number of servants, ministries and rows a
\* servant is in one row of a service, unless two of them were in flight
\* together or the generation was told to allow it.
THEOREM RotaHasNoDoubles == Spec => []OneRowPerServant
<1>1. IInv => OneRowPerServant
  BY DEF IInv, RotaInv
<1> QED
  BY <1>1, Invariant, PTL

\* The cached board of a service is what its rows say, for any number of rows
\* and requests, once the writers that drop it have done so: apart from rows
\* written without dropping it, and from a board read during a write.
THEOREM BoardShowsRows == Spec => []BoardIsCurrent
<1>1. IInv => BoardIsCurrent
  BY DEF IInv, RotaInv
<1> QED
  BY <1>1, Invariant, PTL

\* The question assertServantEligible asks is enough to keep a servant at one
\* open task of a service, for any number of tasks and servants, as long as
\* nobody gives him another one at the same time or without asking.
THEOREM ServantHasOneTask == Spec => []OneTaskPerService
<1>1. IInv => OneTaskPerService
  <2> SUFFICES ASSUME IInv, NEW s \in Servants \ (excused \cup raced)
               PROVE  Cardinality(TasksOf(s)) <= 1
    BY DEF OneTaskPerService
  <2>1. \A t, u \in TasksOf(s) : t = u
    BY DEF IInv, TaskInv, NoSecondTask
  <2>2. TasksOf(s) = {} \/ \E t : TasksOf(s) = {t}
    BY <2>1
  <2>3. Cardinality(TasksOf(s)) \in {0, 1}
    <3>1. CASE TasksOf(s) = {}
      BY <3>1, FS_EmptySet, Zenon
    <3>2. ASSUME NEW t, TasksOf(s) = {t} PROVE Cardinality(TasksOf(s)) = 1
      BY <3>2, FS_Singleton, Zenon
    <3> QED
      BY <2>2, <3>1, <3>2
  <2> QED
    BY <2>3
<1> QED
  BY <1>1, Invariant, PTL

\* Once the requests about a task are done, its assignee rows and the servant
\* on the occurrence agree, for any number of requests and servants, unless two
\* of them raced or the servant was set beside applyAssignmentChange.
THEOREM RowsSayWhoHasIt == Spec => []PrimaryAgrees
<1>1. IInv => PrimaryAgrees
  <2> SUFFICES ASSUME IInv, failures = 0, NEW t \in Tasks \ (raced \cup patched),
                      \A r \in Requests : t \notin req[r].touches
               PROVE  Agreed(t)
    BY DEF PrimaryAgrees, Agreed
  <2>1. ASSUME NEW r \in Requests, req[r].stage = "promoting", req[r].task = t PROVE FALSE
    BY <2>1 DEF IInv, TaskInv, TaskRequestsOK, CarriesTask
  <2> QED
    BY <2>1 DEF IInv, TaskInv, AgreedOrPromoting
<1> QED
  BY <1>1, Invariant, PTL

\* reallocateFromRemovedServant leaves nothing behind: a servant who was moved
\* off the rota has no open task when the request is over, for any number of
\* tasks, unless one was given to him since or the request stopped half way.
THEOREM NothingLeftWithLeaver == Spec => []LeaverKeepsNothing
<1>1. IInv => LeaverKeepsNothing
  BY DEF IInv, TaskInv, LeaversRelieved, Relieves, LeaverKeepsNothing
<1> QED
  BY <1>1, Invariant, PTL

\* What a step does to finished tasks.
KeepsFinal ==
    \A t \in Tasks : occ[t].status \in Final /\ occ'[t].status \notin Final =>
       \/ t \in raced'
       \/ \E r \in Requests : /\ req[r].kind \in Reopening /\ req[r].task = t
                              /\ req'[r] # req[r]

LEMMA StatusStays ==
  ASSUME \A t \in Tasks : occ'[t].status = occ[t].status \/ occ'[t].status \in Final
  PROVE  KeepsFinal
  BY DEF KeepsFinal

\* A step of r that writes the task it works on.
LEMMA WrittenBy ==
  ASSUME NEW r \in Requests, NEW t,
         \A u \in Tasks \ {t} : occ'[u] = occ[u],
         \/ t \in raced' \/ occ[t].status \notin Final
         \/ req[r].kind \in Reopening /\ req[r].task = t /\ req'[r] # req[r]
  PROVE  KeepsFinal
  BY DEF KeepsFinal

LEMMA FinalKept == ASSUME IInv, [Next]_vars PROVE KeepsFinal
<1>1. occ \in [Tasks -> OccRecord]
  BY DEF IInv, TaskInv, TaskTablesOK
<1>2. CASE occ' = occ
  BY <1>2, StatusStays
<1>3. ASSUME NEW r \in Requests, CommitCreateTask(r) PROVE KeepsFinal
  <2>1. PICK t \in FreeTasks : \E o : occ' = [occ EXCEPT ![t] = o]
    BY <1>3 DEF CommitCreateTask
  <2>2. occ[t].status \notin Final
    BY <2>1 DEF FreeTasks, Final
  <2> QED
    BY <1>1, <2>1, <2>2, WrittenBy
<1>4. ASSUME NEW r \in Requests, GenerateOccurrence(r) PROVE KeepsFinal
  <2>1. PICK t \in FreeTasks : \E o : occ' = [occ EXCEPT ![t] = o]
    BY <1>4 DEF GenerateOccurrence
  <2>2. occ[t].status \notin Final
    BY <2>1 DEF FreeTasks, Final
  <2> QED
    BY <1>1, <2>1, <2>2, WrittenBy
<1>5. ASSUME NEW r \in Requests, Apply(r) PROVE KeepsFinal
  <2> DEFINE t == req[r].task
             next == IF req[r].kind = "restart" THEN "clearing" ELSE "recounting"
  <2>1. req[r] \in Assignment("applying")
    BY <1>5 DEF Apply, IInv, TaskInv, TaskRequestsOK, CarriesTask
  <2>2. /\ req[r].kind \in Reopening /\ req[r].stage = "applying" /\ t \in Tasks
        /\ [req[r] EXCEPT !.stage = next].stage \in {"clearing", "recounting"}
    BY <2>1 DEF Assignment, Reopening
  <2>3. Moved(r) /\ req'[r] # req[r]
    <3>1. \E v : /\ Step(r, v) /\ (v.kind # "none" \/ v = Idle)
                 /\ v.stage # "applying"
      BY <1>5, <2>1, <2>2, IdleFacts DEF Apply, Finish, Assignment
    <3>2. ReqFn /\ RacesKnown /\ HandlersTypeOK
      BY DEF IInv, RotaInv, RotaTypeOK
    <3> QED
      BY <2>2, <3>1, <3>2, StepMoves
  <2>4. \E o : occ' = [occ EXCEPT ![t] = o]
    BY <1>1, <1>5, <2>2 DEF Apply, ChangeAssignment, OccRecord
  <2> QED
    BY <1>1, <2>2, <2>3, <2>4, WrittenBy
<1>6. ASSUME NEW r \in Requests, MoveTask(r) PROVE KeepsFinal
  <2> DEFINE t == req[r].task
  <2>1. /\ CarriesTask(req[r]) /\ KnowsTask(req[r]) /\ req[r].stage = "movingTask"
    BY <1>6 DEF MoveTask, IInv, TaskInv, TaskRequestsOK
  <2>2. t \in Handles(req[r])
    BY <2>1 DEF Handles
  <2>3. t \in raced \/ occ[t].status \notin Final
    BY <2>1, <2>2 DEF KnowsTask, NotFinished, KeepsFinished
  <2>4. raced \subseteq raced'
    BY <1>6 DEF MoveTask, Finish, Step, Update
  <2>5. \E o : occ' = [occ EXCEPT ![t] = o]
    BY <1>1, <1>6, <2>1 DEF MoveTask, ChangeAssignment, OccRecord, CarriesTask
  <2> QED
    BY <1>1, <2>3, <2>4, <2>5, WrittenBy
<1>7. ASSUME NEW r \in Requests, ClearChecklist(r) PROVE KeepsFinal
  <2>1. \A t \in Tasks : occ'[t].status = occ[t].status
    BY <1>1, <1>7 DEF ClearChecklist, OccRecord
  <2> QED
    BY <2>1, StatusStays
<1>8. ASSUME NEW r \in Requests, Promote(r) PROVE KeepsFinal
  <2>1. \A t \in Tasks : occ'[t].status = occ[t].status
    BY <1>1, <1>8 DEF Promote, OccRecord
  <2> QED
    BY <2>1, StatusStays
<1>9. ASSUME NEW r \in Requests, NEW t \in Tasks, NEW done \in SUBSET Items,
             CallChecklist(r, t, done)
      PROVE  KeepsFinal
  <2>1. \A u \in Tasks : occ'[u].status = occ[u].status
    BY <1>1, <1>9 DEF CallChecklist, OccRecord
  <2> QED
    BY <2>1, StatusStays
<1>10. ASSUME NEW r \in Requests, StoreStatus(r) PROVE KeepsFinal
  <2> DEFINE t == req[r].task
  <2>1. /\ CarriesTask(req[r]) /\ KnowsTask(req[r]) /\ req[r].stage = "storing"
    BY <1>10 DEF StoreStatus, IInv, TaskInv, TaskRequestsOK
  <2>2. req[r].kind \in {"createTask"} \cup Reopening
    BY <2>1 DEF CarriesTask, Reopening
  <2>3. req[r].kind = "createTask" => t \in raced \/ occ[t].status \notin Final
    BY <2>1 DEF KnowsTask, NotFinished, KeepsFinished, Handles
  <2>4. Moved(r) /\ req'[r] # req[r]
    <3>1. Moved(r) /\ req'[r] = Idle
      BY <1>10, FinishMoves DEF StoreStatus, IInv, RotaInv, RotaTypeOK
    <3> QED
      BY <2>1, <3>1, IdleFacts
  <2>5. \A u \in Tasks \ {t} : occ'[u] = occ[u]
    BY <1>1, <1>10 DEF StoreStatus
  <2> QED
    BY <2>2, <2>3, <2>4, <2>5, WrittenBy DEF Moved
<1>11. ASSUME NEW r \in Requests, CommitEnd(r) PROVE KeepsFinal
  <2>1. req[r].status \in Final /\ req[r].task \in Tasks
    BY <1>11 DEF CommitEnd, IInv, TaskInv, TaskRequestsOK, CarriesTask
  <2>2. \A t \in Tasks : occ'[t].status = occ[t].status \/ occ'[t].status \in Final
    BY <1>1, <1>11, <2>1 DEF CommitEnd, OccRecord
  <2> QED
    BY <2>2, StatusStays
<1>12. ASSUME NEW r \in Requests, MarkOverdue(r) PROVE KeepsFinal
  <2>1. /\ KnowsTask(req[r]) /\ req[r].stage = "sweeping"
    BY <1>12 DEF MarkOverdue, IInv, TaskInv, TaskRequestsOK
  <2>2. \A t \in req[r].touches : t \in raced \/ occ[t].status \notin Final
    BY <2>1 DEF KnowsTask, NotFinished, KeepsFinished, Handles
  <2>3. raced \subseteq raced'
    BY <1>12 DEF MarkOverdue, Finish, Step, Update
  <2>4. \A t \in Tasks \ req[r].touches : occ'[t] = occ[t]
    BY <1>12 DEF MarkOverdue
  <2> QED
    BY <2>2, <2>3, <2>4 DEF KeepsFinal
<1>13. ASSUME NEW t \in Tasks, DueDatePasses(t) PROVE KeepsFinal
  <2>1. \A u \in Tasks : occ'[u].status = occ[u].status
    BY <1>1, <1>13 DEF DueDatePasses, OccRecord
  <2> QED
    BY <2>1, StatusStays
<1>14. ASSUME NEW r \in Requests, TaskCall(r) PROVE KeepsFinal
  <2>1. ASSUME NEW t \in Tasks, CallOnTask(r, t) PROVE KeepsFinal
    BY <1>2, <1>9, <2>1
       DEF CallOnTask, CallAssign, CallAssignToLeader, CallReassign, CallAddAssignee,
           CallRemoveAssignee, CallEnd, taskTables
  <2> QED
    BY <1>2, <1>14, <2>1
       DEF TaskCall, TimerFires, CallCreateTask, CallGenerateTasks, CallSweep, CallMove,
           CallReallocate,
           taskTables
<1>15. ASSUME NEW r \in Requests, TaskStep(r) PROVE KeepsFinal
  <2>1. ASSUME \/ AdmitTask(r) \/ SeekOccurrence(r) \/ CheckServant(r) \/ ListAssignee(r)
               \/ UnlistAssignee(r) \/ Recount(r) \/ CommitMove(r)
               \/ (\E mode \in Modes : ReadImpact(r, mode))
               \/ (\E t \in Tasks, s \in Servants \cup {Nobody} : Pick(r, t, s))
        PROVE  occ' = occ
    BY <2>1 DEF AdmitTask, SeekOccurrence, CheckServant, ListAssignee, UnlistAssignee, Recount,
                CommitMove, ReadImpact, Pick, taskTables
  <2> QED
    BY <1>2, <1>3, <1>4, <1>5, <1>6, <1>7, <1>8, <1>10, <1>11, <1>12, <1>15, <2>1 DEF TaskStep
<1> QED
  BY <1>2, <1>13, <1>14, <1>15
     DEF Next, RotaOnly, UpdateTemplate, vars, taskTables

\* The sweep, a change of the rota and the recalculation after a creation never
\* open a finished task again, for any number of tasks and requests, unless they
\* had read it before it was finished; so whoever opens one gives it to somebody
\* or ticks its checklist.
THEOREM FinishedTasksStay == Spec => FinishedStays
<1>1. IInv /\ [Next]_vars => [KeepsFinal]_vars
  BY FinalKept
<1>2. FinishedStays <=> [][KeepsFinal]_vars
  BY DEF FinishedStays, KeepsFinal
<1> QED
  BY <1>1, <1>2, Invariant, PTL DEF Spec
=============================================================================
