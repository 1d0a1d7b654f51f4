---------------------------- MODULE ScheduleSlots ----------------------------
(***************************************************************************)
(* The schedule of one worship service (modules/schedules, the responses   *)
(* of modules/me, the slot update of modules/attendances).                 *)
(*                                                                         *)
(* Who serves is stored twice.  A ScheduleSlot is a position to fill: its  *)
(* servant, status, confirmation and lock.  A Schedule row says that a     *)
(* servant serves in a ministry at this service and holds the answer; a    *)
(* slot points to it by scheduleId.  Every endpoint reads, checks in       *)
(* memory what it read and writes later, in a transaction that checks      *)
(* nothing again, and the process serves many requests at once: a request  *)
(* here is a few steps with its local variables between them.              *)
(*                                                                         *)
(* A transaction runs at READ COMMITTED.  One that reads nothing it decides*)
(* by is one step.  The two that take a servant out of a slot count the    *)
(* other slots of the servant before they delete the servant's row, by     *)
(* separate statements: the count is a step of its own, what others commit *)
(* after it is not counted, and until the transaction ends what it has     *)
(* written is locked and seen by nobody.                                   *)
(***************************************************************************)
EXTENDS Naturals, FiniteSets

CONSTANTS
    Slots, Ministries, Servants, ScheduleIds,
    Requests,           \* requests in flight at the same time
    MinistryOf,         \* [Slots -> Ministries]
    Members,            \* <<servant, ministry>>: active, trained, available,
                        \* no pastoral pendency, not blocked by any other rule
    AttendanceStatuses, \* what an attendance may set on a slot
    MaxCalls,           \* bound on the calls made in a behaviour
    NoServant, NoSchedule, NoSlot, NoMinistry

ASSUME ConstantsAssumption ==
    /\ MinistryOf \in [Slots -> Ministries]
    /\ Members \subseteq Servants \X Ministries
    /\ AttendanceStatuses \subseteq {"COMPLETED", "NO_SHOW"}
    /\ MaxCalls \in Nat
    /\ NoServant \notin Servants
    /\ NoSchedule \notin ScheduleIds
    /\ NoSlot \notin Slots

VARIABLES
    closed,     \* WorshipService.locked
    slots,      \* the ScheduleSlot rows
    rows,       \* the Schedule rows that exist, by id
    req,        \* the local variables of every request
    calls,      \* how many calls have been made
    raced,      \* history: has a request written after another one had
                \* written since it began to read?
    edits,      \* history: have endpoints of /schedules made rows of their
                \* own or moved rows to another servant?
    cut         \* history: the slots whose row was deleted because they were
                \* given to their servant after the servant's slots had been
                \* counted and before the row was deleted

vars == <<closed, slots, rows, req, calls, raced, edits, cut>>

-----------------------------------------------------------------------------
(* EMPTY also stands for OPEN, the status of a slot created by hand: no     *)
(* code here tells them apart.  ASSIGNED, PENDING_CONFIRMATION and SWAPPED  *)
(* are never written.                                                       *)
SlotStatuses == {"EMPTY", "FILLED", "CONFIRMED", "DECLINED", "COMPLETED",
                 "NO_SHOW", "SUBSTITUTE_PENDING", "REPLACED", "LOCKED"}
Answers == {"PENDING", "CONFIRMED", "DECLINED"}

ScheduleSlot ==
    [servant : Servants \cup {NoServant}, schedule : ScheduleIds \cup {NoSchedule},
     status : SlotStatuses, confirmation : Answers, blocked : BOOLEAN]

Schedule ==
    [servant : Servants, ministry : Ministries, response : Answers]

Operations == {"none", "assign", "swap", "fill", "unassign", "lock", "unlock",
               "confirm", "decline", "meConfirm", "meDecline", "create", "move",
               "exchange"}
Stages == {"idle", "called", "admitted", "checked", "counted", "relabel",
           "writing"}

Request ==
    [op : Operations, stage : Stages, slot : Slots \cup {NoSlot},
     servant : Servants \cup {NoServant}, prev : Servants \cup {NoServant},
     wasLocked : BOOLEAN, schedule : ScheduleIds \cup {NoSchedule},
     other : ScheduleIds \cup {NoSchedule},
     ministry : Ministries \cup {NoMinistry}, alone : BOOLEAN, stale : BOOLEAN]

Idle ==
    [op |-> "none", stage |-> "idle", slot |-> NoSlot, servant |-> NoServant,
     prev |-> NoServant, wasLocked |-> FALSE, schedule |-> NoSchedule,
     other |-> NoSchedule, ministry |-> NoMinistry, alone |-> FALSE,
     stale |-> FALSE]

TypeOK ==
    /\ closed \in BOOLEAN
    /\ slots \in [Slots -> ScheduleSlot]
    /\ DOMAIN rows \subseteq ScheduleIds
    /\ \A id \in DOMAIN rows : rows[id] \in Schedule
    /\ req \in [Requests -> Request]
    /\ calls \in 0..MaxCalls
    /\ raced \in BOOLEAN
    /\ edits \subseteq {"created", "moved"}
    /\ cut \subseteq Slots

EmptySlot ==
    [servant |-> NoServant, schedule |-> NoSchedule, status |-> "EMPTY",
     confirmation |-> "PENDING", blocked |-> FALSE]

AssignedSlot(servant, id) ==
    [servant |-> servant, schedule |-> id, status |-> "FILLED",
     confirmation |-> "PENDING", blocked |-> FALSE]

NewRow(servant, ministry) ==
    [servant |-> servant, ministry |-> ministry, response |-> "PENDING"]

\* A schedule some slots of which have been assigned, one call at a time: who
\* was put where, and the row that made.
Init ==
    /\ closed = FALSE
    /\ \E assigned \in SUBSET Slots :
       \E who \in [assigned -> Servants], id \in [assigned -> ScheduleIds] :
          /\ \A s \in assigned : <<who[s], MinistryOf[s]>> \in Members
          /\ \A s, t \in assigned : s # t => who[s] # who[t] /\ id[s] # id[t]
          /\ slots = [s \in Slots |-> IF s \in assigned THEN AssignedSlot(who[s], id[s])
                                      ELSE EmptySlot]
          /\ rows = [i \in {id[s] : s \in assigned} |->
                        LET s == CHOOSE t \in assigned : id[t] = i
                        IN  NewRow(who[s], MinistryOf[s])]
    /\ req = [r \in Requests |-> Idle]
    /\ calls = 0
    /\ raced = FALSE
    /\ edits = {}
    /\ cut = {}

-----------------------------------------------------------------------------
(* The tables.                                                             *)

RowsOf(servant, ministry) ==
    {id \in DOMAIN rows : rows[id].servant = servant /\ rows[id].ministry = ministry}

\* Rows never reuse an id: one that a request still remembers is not fresh.
FreshIds ==
    (ScheduleIds \ DOMAIN rows) \
        UNION {{req[r].schedule, req[r].other} : r \in Requests}

Remove(table, ids) == [id \in DOMAIN table \ ids |-> table[id]]

Insert(table, id, row) ==
    [i \in DOMAIN table \cup {id} |-> IF i = id THEN row ELSE table[i]]

\* ScheduleSlot.schedule has onDelete: SetNull.
Unlink(table, ids) ==
    [s \in Slots |-> IF table[s].schedule \in ids
                     THEN [table[s] EXCEPT !.schedule = NoSchedule]
                     ELSE table[s]]

-----------------------------------------------------------------------------
(* Requests.                                                               *)

Called == calls < MaxCalls /\ calls' = calls + 1

Begin(r, locals) ==
    /\ req[r].stage = "idle"
    /\ Called
    /\ req' = [req EXCEPT ![r] = locals]
    /\ UNCHANGED <<closed, slots, rows, raced, edits, cut>>

Advance(r, stage) ==
    /\ req' = [req EXCEPT ![r].stage = stage]
    /\ UNCHANGED <<closed, slots, rows, calls, raced, edits, cut>>

End(r) ==
    /\ req' = [req EXCEPT ![r] = Idle]
    /\ UNCHANGED <<closed, slots, rows, calls, raced, edits, cut>>

\* r has written: what the others in flight have read may be out of date.
Wrote(r, next) ==
    /\ req' = [q \in Requests |->
                 IF q = r THEN next
                 ELSE IF req[q].stage = "idle" THEN req[q]
                 ELSE [req[q] EXCEPT !.stale = TRUE]]
    /\ raced' = (raced \/ req[r].stale)
    /\ UNCHANGED calls

-----------------------------------------------------------------------------
(* The transactions that take a servant out of a slot.                     *)

Leaves(q) == q.prev \notin {NoServant, q.servant}

\* Seeded fault: the servant's other slots are not looked for.
Others_None(q) == {}

\* The other slots in the ministry of the servant who leaves.
Others(q) ==
    {s \in Slots \ {q.slot} :
        slots[s].servant = q.prev /\ MinistryOf[s] = MinistryOf[q.slot]}

\* An update or upsert of what another open transaction has written waits.
Unlocked(r) ==
    \A o \in Requests \ {r} :
       req[o].stage = "counted" =>
          /\ req[o].slot # req[r].slot
          /\ req[o].servant # NoServant =>
                <<req[o].servant, MinistryOf[req[o].slot]>>
                   # <<req[r].servant, MinistryOf[req[r].slot]>>

\* The transaction up to the count.  Its writes show when it commits.
CountSlots(r) ==
    LET q == req[r] IN
    /\ q.stage = "checked" \/ (q.stage = "writing" /\ q.op = "unassign")
    /\ Leaves(q)
    /\ Unlocked(r)
    /\ req' = [req EXCEPT ![r].stage = "counted", ![r].alone = (Others(q) = {})]
    /\ UNCHANGED <<closed, slots, rows, calls, raced, edits, cut>>

\* What it deletes: the servant's row in the ministry, when no other slot there
\* was counted.  Those are the slots that are left without it all the same.
Abandoned(q) == IF q.alone THEN RowsOf(q.prev, MinistryOf[q.slot]) ELSE {}
Cut(q) == IF q.alone THEN Others(q) ELSE {}

-----------------------------------------------------------------------------
(* assignSlot: read and guards, eligibility and duplicate check, then the  *)
(* transaction.                                                            *)

\* Seeded fault: a closed schedule is not looked at.
Assignable_WhenClosed(s) == slots[s].status # "LOCKED" /\ ~ slots[s].blocked

Assignable(s) ==
    /\ ~ closed
    /\ slots[s].status # "LOCKED"
    /\ ~ slots[s].blocked

\* Repeating an assignment that stands changes nothing.
Repeats(s, x) ==
    /\ slots[s].servant = x
    /\ slots[s].status \in {"FILLED", "CONFIRMED"}

\* ConflictRule over the rows of the service, for a slot that had `current`
\* when it was read.
NoConflict(x, ministry, current) ==
    /\ \A id \in DOMAIN rows : rows[id].servant = x => rows[id].ministry = ministry
    /\ RowsOf(x, ministry) # {} => current \in {NoServant, x}

Eligible(x, ministry, current) ==
    /\ <<x, ministry>> \in Members
    /\ NoConflict(x, ministry, current)

ElsewhereInService(x, s) == \E t \in Slots \ {s} : slots[t].servant = x

AdmitAssign(r, s, x) ==
    /\ Assignable(s)
    /\ ~ Repeats(s, x)
    /\ Begin(r, [Idle EXCEPT !.op = "assign", !.stage = "admitted", !.slot = s,
                             !.servant = x, !.prev = slots[s].servant])

\* Seeded fault: the duplicate check of assignSlot is left to ConflictRule.
CheckAssign_NoDuplicateCheck(r) ==
    LET q == req[r] IN
    /\ q.stage = "admitted"
    /\ IF Eligible(q.servant, MinistryOf[q.slot], q.prev)
       THEN Advance(r, "checked")
       ELSE End(r)

CheckAssign(r) ==
    LET q == req[r] IN
    /\ q.stage = "admitted"
    /\ IF /\ Eligible(q.servant, MinistryOf[q.slot], q.prev)
          /\ ~ ElsewhereInService(q.servant, q.slot)
       THEN Advance(r, "checked")
       ELSE End(r)

CommitAssign(r) ==
    LET q == req[r]
        ministry == MinistryOf[q.slot]
        existing == RowsOf(q.servant, ministry)
        filled(id) ==
            [slots EXCEPT ![q.slot] = AssignedSlot(q.servant, id)]
    IN
    /\ q.stage = (IF Leaves(q) THEN "counted" ELSE "checked") /\ q.op # "unassign"
    /\ Unlocked(r)
    /\ \E id \in IF existing # {} THEN existing ELSE FreshIds :
          /\ rows' = Remove(Insert(rows, id, NewRow(q.servant, ministry)), Abandoned(q))
          /\ slots' = Unlink(filled(id), Abandoned(q))
    /\ cut' = (cut \ {q.slot}) \cup Cut(q)
    /\ Wrote(r, IF q.op = "assign" THEN Idle
                ELSE [q EXCEPT !.stage = "relabel", !.alone = FALSE])
    /\ UNCHANGED <<closed, edits>>

-----------------------------------------------------------------------------
(* swapOrFillSlot: its own guards, then assignSlot as above, which reads   *)
(* the slot again, then a second write that relabels the slot.             *)

CallSwapOrFill(r, s, x, op) ==
    /\ Assignable(s)
    /\ op = "swap" => slots[s].servant # NoServant
    /\ slots[s].servant # x
    /\ Eligible(x, MinistryOf[s], slots[s].servant)
    /\ Begin(r, [Idle EXCEPT !.op = op, !.stage = "called", !.slot = s, !.servant = x])

AdmitSwapOrFill(r) ==
    LET q == req[r] IN
    /\ q.stage = "called"
    /\ IF Assignable(q.slot) /\ ~ Repeats(q.slot, q.servant)
       THEN /\ req' = [req EXCEPT ![r].stage = "admitted",
                                  ![r].prev = slots[q.slot].servant]
            /\ UNCHANGED <<closed, slots, rows, calls, raced, edits, cut>>
       ELSE IF Assignable(q.slot) /\ Eligible(q.servant, MinistryOf[q.slot], q.servant)
       THEN Advance(r, "relabel")  \* assignSlot returned early
       ELSE End(r)

\* Seeded fault: a status the code reserves and never writes.
Relabel_Swapped(r) ==
    LET q == req[r] IN
    /\ q.stage = "relabel"
    /\ slots' = [slots EXCEPT ![q.slot].status = "SWAPPED",
                              ![q.slot].confirmation = "PENDING"]
    /\ Wrote(r, Idle)
    /\ UNCHANGED <<closed, rows, edits, cut>>

Relabel(r) ==
    LET q == req[r] IN
    /\ q.stage = "relabel"
    /\ slots' = [slots EXCEPT
          ![q.slot].status = IF q.op = "fill" THEN "SUBSTITUTE_PENDING" ELSE "REPLACED",
          ![q.slot].confirmation = "PENDING"]
    /\ Wrote(r, Idle)
    /\ UNCHANGED <<closed, rows, edits, cut>>

-----------------------------------------------------------------------------
(* unassignSlot                                                            *)

CallUnassign(r, s) ==
    /\ ~ closed
    /\ Begin(r, [Idle EXCEPT !.op = "unassign", !.stage = "writing", !.slot = s,
                             !.prev = slots[s].servant,
                             !.wasLocked = (slots[s].status = "LOCKED")])

Emptied(q) ==
    [slots EXCEPT ![q.slot] =
       [@ EXCEPT !.servant = NoServant, !.schedule = NoSchedule,
                 !.status = IF q.wasLocked THEN "LOCKED" ELSE "EMPTY",
                 !.confirmation = "PENDING"]]

\* Seeded fault: the Schedule row of the servant who leaves is kept.
CommitUnassign_KeepsRow(r) ==
    LET q == req[r] IN
    /\ q.stage = (IF Leaves(q) THEN "counted" ELSE "writing") /\ q.op = "unassign"
    /\ slots' = Emptied(q)
    /\ cut' = cut \ {q.slot}
    /\ Wrote(r, Idle)
    /\ UNCHANGED <<closed, rows, edits>>

CommitUnassign(r) ==
    LET q == req[r] IN
    /\ q.stage = (IF Leaves(q) THEN "counted" ELSE "writing") /\ q.op = "unassign"
    /\ Unlocked(r)
    /\ rows' = Remove(rows, Abandoned(q))
    /\ slots' = Unlink(Emptied(q), Abandoned(q))
    /\ cut' = (cut \ {q.slot}) \cup Cut(q)
    /\ Wrote(r, Idle)
    /\ UNCHANGED <<closed, edits>>

-----------------------------------------------------------------------------
(* lockSlot and unlockSlot                                                 *)

CallLock(r, s, op) ==
    /\ ~ closed
    /\ Begin(r, [Idle EXCEPT !.op = op, !.stage = "writing", !.slot = s,
                             !.prev = slots[s].servant])

CommitLock(r) ==
    LET q == req[r] IN
    /\ q.stage = "writing" /\ q.op \in {"lock", "unlock"}
    /\ slots' = [slots EXCEPT
          ![q.slot].blocked = (q.op = "lock"),
          ![q.slot].status = IF q.op = "lock" THEN "LOCKED"
                             ELSE IF q.prev # NoServant THEN "FILLED" ELSE "EMPTY"]
    /\ Wrote(r, Idle)
    /\ UNCHANGED <<closed, rows, edits, cut>>

-----------------------------------------------------------------------------
(* respondSlotConfirmation: the answer for one slot.                       *)

CallRespond(r, s, op) ==
    LET id == slots[s].schedule IN
    /\ id # NoSchedule
    /\ slots[s].servant # NoServant
    /\ slots[s].servant = rows[id].servant
    /\ ~ closed
    /\ Begin(r, [Idle EXCEPT !.op = op, !.stage = "writing", !.slot = s,
                             !.schedule = id])

CommitRespond(r) ==
    LET q == req[r]
        answer == IF q.op = "confirm" THEN "CONFIRMED" ELSE "DECLINED"
    IN
    /\ q.stage = "writing" /\ q.op \in {"confirm", "decline"}
    /\ q.schedule \in DOMAIN rows
    /\ rows' = [rows EXCEPT ![q.schedule].response = answer]
    /\ slots' = [slots EXCEPT
          ![q.slot].status = IF q.op = "confirm" THEN "CONFIRMED" ELSE "SUBSTITUTE_PENDING",
          ![q.slot].confirmation = answer,
          ![q.slot].blocked = (q.op = "decline")]
    /\ Wrote(r, Idle)
    /\ UNCHANGED <<closed, edits, cut>>

-----------------------------------------------------------------------------
(* MeService.respondMySchedule: the answer for a Schedule row, with no look *)
(* at the service.  (It refuses rows whose ScheduleStatus is CANCELLED; that*)
(* field is left out: a refused request has no effect.)                     *)

CallMeRespond(r, id, op) ==
    /\ id \in DOMAIN rows
    /\ Begin(r, [Idle EXCEPT !.op = op, !.stage = "writing", !.schedule = id])

\* Seeded fault: the slots of the row are not told the answer.
CommitMeRespond_RowOnly(r) ==
    LET q == req[r] IN
    /\ q.stage = "writing" /\ q.op \in {"meConfirm", "meDecline"}
    /\ q.schedule \in DOMAIN rows
    /\ rows' = [rows EXCEPT ![q.schedule].response =
                   IF q.op = "meConfirm" THEN "CONFIRMED" ELSE "DECLINED"]
    /\ Wrote(r, Idle)
    /\ UNCHANGED <<closed, slots, edits, cut>>

CommitMeRespond(r) ==
    LET q == req[r]
        answer == IF q.op = "meConfirm" THEN "CONFIRMED" ELSE "DECLINED"
    IN
    /\ q.stage = "writing" /\ q.op \in {"meConfirm", "meDecline"}
    /\ q.schedule \in DOMAIN rows
    /\ rows' = [rows EXCEPT ![q.schedule].response = answer]
    /\ slots' = [s \in Slots |->
          IF slots[s].schedule = q.schedule
          THEN [slots[s] EXCEPT !.status = answer, !.confirmation = answer]
          ELSE slots[s]]
    /\ Wrote(r, Idle)
    /\ UNCHANGED <<closed, edits, cut>>
-----------------------------------------------------------------------------
(* The Schedule rows by themselves: POST /schedules and the duplication of  *)
(* a row of another service (create), PATCH /schedules/:id and the simple   *)
(* swap (move), the swap of two rows (exchange).  None touches a slot.      *)

\* duplicate asks only for no row in the same ministry, create for none at all.
CallCreate(r, x, m) ==
    /\ <<x, m>> \in Members
    /\ RowsOf(x, m) = {}
    /\ Begin(r, [Idle EXCEPT !.op = "create", !.stage = "writing", !.servant = x,
                             !.ministry = m])

CommitCreate(r) ==
    LET q == req[r] IN
    /\ q.stage = "writing" /\ q.op = "create"
    /\ RowsOf(q.servant, q.ministry) = {}
    /\ \E id \in FreshIds :
          rows' = Insert(rows, id, NewRow(q.servant, q.ministry))
    /\ edits' = edits \cup {"created"}
    /\ Wrote(r, Idle)
    /\ UNCHANGED <<closed, slots, cut>>

CallMove(r, id, x, m) ==
    /\ id \in DOMAIN rows
    /\ <<rows[id].servant, rows[id].ministry>> # <<x, m>>
    /\ <<x, m>> \in Members
    /\ \A other \in DOMAIN rows \ {id} : rows[other].servant # x
    /\ Begin(r, [Idle EXCEPT !.op = "move", !.stage = "writing", !.schedule = id,
                             !.servant = x, !.ministry = m])

CommitMove(r) ==
    LET q == req[r] IN
    /\ q.stage = "writing" /\ q.op = "move"
    /\ q.schedule \in DOMAIN rows
    /\ RowsOf(q.servant, q.ministry) \subseteq {q.schedule}
    /\ rows' = [rows EXCEPT ![q.schedule].servant = q.servant,
                            ![q.schedule].ministry = q.ministry]
    /\ edits' = edits \cup {"moved"}
    /\ Wrote(r, Idle)
    /\ UNCHANGED <<closed, slots, cut>>

CallExchange(r, from, to) ==
    /\ {from, to} \subseteq DOMAIN rows
    /\ from # to
    /\ <<rows[to].servant, rows[from].ministry>> \in Members
    /\ <<rows[from].servant, rows[to].ministry>> \in Members
    /\ RowsOf(rows[to].servant, rows[from].ministry) \subseteq {from}
    /\ RowsOf(rows[from].servant, rows[to].ministry) \subseteq {to}
    /\ Begin(r, [Idle EXCEPT !.op = "exchange", !.stage = "writing",
                             !.schedule = from, !.servant = rows[to].servant,
                             !.other = to, !.prev = rows[from].servant])

\* One row after the other: the unique key is asked once per update, first of the
\* rows as they are, then of the rows as the first update left them.
Exchanged(q) == [rows EXCEPT ![q.schedule].servant = q.servant,
                             ![q.other].servant = q.prev]

ExchangeClashes(q) ==
    \/ ~ RowsOf(q.servant, rows[q.schedule].ministry) \subseteq {q.schedule}
    \/ \E id \in DOMAIN rows \ {q.other} :
          /\ Exchanged(q)[id].servant = q.prev
          /\ rows[id].ministry = rows[q.other].ministry

CommitExchange(r) ==
    LET q == req[r] IN
    /\ q.stage = "writing" /\ q.op = "exchange"
    /\ {q.schedule, q.other} \subseteq DOMAIN rows
    /\ ~ ExchangeClashes(q)
    /\ rows' = Exchanged(q)
    /\ edits' = edits \cup {"moved"}
    /\ Wrote(r, Idle)
    /\ UNCHANGED <<closed, slots, cut>>

-----------------------------------------------------------------------------
(* A write that meets a row that is gone (P2025) or a row that already      *)
(* exists (P2002) fails, the transaction is rolled back; so is an open one  *)
(* that lasts too long for Prisma or that PostgreSQL finds in a deadlock.   *)

WriteFails(r) ==
    LET q == req[r]
        gone == {q.schedule, q.other} \ {NoSchedule}
        taken ==
            CASE q.op = "create" -> RowsOf(q.servant, q.ministry) # {}
              [] q.op = "move" -> ~ RowsOf(q.servant, q.ministry) \subseteq {q.schedule}
              [] q.op = "exchange" -> ExchangeClashes(q)
              [] OTHER -> FALSE
    IN
    /\ \/ q.stage = "counted"
       \/ q.stage = "writing" /\ (gone \subseteq DOMAIN rows => taken)
    /\ End(r)

-----------------------------------------------------------------------------
(* Writes of a single statement.                                           *)

WroteAtOnce ==
    /\ req' = [q \in Requests |->
                 IF req[q].stage = "idle" THEN req[q]
                 ELSE [req[q] EXCEPT !.stale = TRUE]]
    /\ Called
    /\ UNCHANGED <<raced, edits, cut>>

\* closeScheduleForService: what is still pending only makes warnings.
CloseSchedule ==
    /\ ~ closed
    /\ closed' = TRUE
    /\ WroteAtOnce
    /\ UNCHANGED <<slots, rows>>

\* PATCH /worship-services/:id may set locked back to false.
ReopenService ==
    /\ closed
    /\ closed' = FALSE
    /\ WroteAtOnce
    /\ UNCHANGED <<slots, rows>>

RecordAttendance(x, status) ==
    /\ \E s \in Slots : slots[s].servant = x /\ slots[s].status # status
    /\ slots' = [s \in Slots |-> IF slots[s].servant = x
                                 THEN [slots[s] EXCEPT !.status = status]
                                 ELSE slots[s]]
    /\ WroteAtOnce
    /\ UNCHANGED <<closed, rows>>

-----------------------------------------------------------------------------
SlotRequest(r) ==
    \/ \E s \in Slots, x \in Servants : AdmitAssign(r, s, x)
    \/ \E s \in Slots, x \in Servants, op \in {"swap", "fill"} : CallSwapOrFill(r, s, x, op)
    \/ AdmitSwapOrFill(r)
    \/ CheckAssign(r)
    \/ CountSlots(r)
    \/ CommitAssign(r)
    \/ Relabel(r)
    \/ \E s \in Slots : CallUnassign(r, s)
    \/ CommitUnassign(r)
    \/ \E s \in Slots, op \in {"lock", "unlock"} : CallLock(r, s, op)
    \/ CommitLock(r)

ResponseRequest(r) ==
    \/ \E s \in Slots, op \in {"confirm", "decline"} : CallRespond(r, s, op)
    \/ CommitRespond(r)
    \/ \E id \in ScheduleIds, op \in {"meConfirm", "meDecline"} : CallMeRespond(r, id, op)
    \/ CommitMeRespond(r)

RowRequest(r) ==
    \/ \E x \in Servants, m \in Ministries : CallCreate(r, x, m)
    \/ CommitCreate(r)
    \/ \E id \in ScheduleIds, x \in Servants, m \in Ministries : CallMove(r, id, x, m)
    \/ CommitMove(r)
    \/ \E from, to \in ScheduleIds : CallExchange(r, from, to)
    \/ CommitExchange(r)

\* Until an open transaction ends nobody else changes the slot and the row of the
\* servant it has written.
LocksHeld ==
    \A r \in Requests :
       LET q == req[r]
           row(table) == {i \in DOMAIN table : table[i].servant = q.servant
                                                /\ table[i].ministry = MinistryOf[q.slot]}
       IN  q.stage = "counted" /\ req'[r].stage = "counted" =>
              /\ slots'[q.slot] = slots[q.slot]
              /\ row(rows') = row(rows)
              /\ \A i \in row(rows) : rows'[i] = rows[i]

Next ==
    /\ \/ \E r \in Requests :
             \/ SlotRequest(r)
             \/ ResponseRequest(r)
             \/ RowRequest(r)
             \/ WriteFails(r)
       \/ CloseSchedule
       \/ ReopenService
       \/ \E x \in Servants, status \in AttendanceStatuses : RecordAttendance(x, status)
    /\ LocksHeld

Spec == Init /\ [][Next]_vars

-----------------------------------------------------------------------------
(* What the workspace and the board tell of a ministry in the service, of  *)
(* slots and rows that were read at the same moment.                       *)

SlotsOf(m) == {s \in Slots : MinistryOf[s] = m}
RowsIn(m) == {id \in DOMAIN rows : rows[id].ministry = m}

\* evaluateServiceOperationalStatus of a service that is not cancelled: which slots
\* are required is not kept here, nor the status SWAPPED of a row, which only the
\* endpoints that move rows write.
OperationalStatus(m, required, swapped) ==
    LET missing == \E s \in SlotsOf(m) \cap required :
                      slots[s].servant = NoServant /\ ~ slots[s].blocked
        conflict == \/ \E s \in SlotsOf(m) : slots[s].status = "DECLINED"
                    \/ \E i, j \in RowsIn(m) : i # j /\ rows[i].servant = rows[j].servant
        needsSwap == \/ \E i \in RowsIn(m) : i \in swapped \/ rows[i].response = "DECLINED"
                     \/ \E s \in SlotsOf(m) : slots[s].status = "REPLACED"
        pending == \/ \E s \in SlotsOf(m) : slots[s].status \in {"FILLED", "SUBSTITUTE_PENDING"}
                   \/ \E i \in RowsIn(m) : rows[i].response = "PENDING"
    IN  IF SlotsOf(m) = {} /\ RowsIn(m) = {} THEN "SEM_ESCALA"
        ELSE IF conflict THEN "COM_CONFLITO"
        ELSE IF missing THEN "INCOMPLETA"
        ELSE IF needsSwap THEN "TROCADA"
        ELSE IF pending THEN "PENDENTE"
        ELSE "CONFIRMADA"

-----------------------------------------------------------------------------
(* Properties                                                              *)

\* However requests interleave, a slot with a servant points to the Schedule
\* row of that servant in the slot's ministry, and a slot without one points
\* to none: the row the servant answers, sees and is counted by is the row of
\* the slot.  One interleaving parts them: a transaction that takes the servant
\* out of another slot counts the servant's slots, then the servant is given
\* this one, then the transaction deletes the row (cut).  The slot points to no
\* row then, until it is given or emptied again, and to nobody else's.  The
\* endpoints that rewrite rows behind the slots' back void the property.
LinkIntegrity ==
    "moved" \notin edits =>
       \A s \in Slots :
          IF slots[s].servant = NoServant \/ s \in cut
          THEN slots[s].schedule = NoSchedule
          ELSE slots[s].schedule \in RowsOf(slots[s].servant, MinistryOf[s])

\* A servant is in one slot of the service at most, unless a request has
\* written on top of a write it had not seen.
NoDoubleBooking == \A s \in Slots : slots[s].servant # NoServant
                                       => ~ ElsewhereInService(slots[s].servant, s)
NoDoubleBookingUnlessRaced == raced \/ NoDoubleBooking

\* The slot shows the answer its row holds.
AnswersAgree ==
    ~ raced /\ "moved" \notin edits =>
       \A s \in Slots : slots[s].schedule # NoSchedule
                          => slots[s].confirmation = rows[slots[s].schedule].response

\* Nobody is left with a Schedule row, which makes the conflict rule refuse
\* them elsewhere, without a slot to serve in; a slot that looks taken has a
\* servant, and one that looks empty has none.
NothingLeftOver ==
    ~ raced =>
       /\ edits = {} => \A id \in DOMAIN rows : \E s \in Slots : slots[s].schedule = id
       /\ \A s \in Slots :
             /\ slots[s].status \notin {"EMPTY", "LOCKED"} => slots[s].servant # NoServant
             /\ slots[s].status = "EMPTY" => slots[s].servant = NoServant

\* A ministry shown as CONFIRMADA has everybody it needs, and everybody in a slot
\* of it has said yes: slots and rows are counted apart, and only their links make
\* the sum true.  A slot whose row was cut is counted by its status alone.
ConfirmedTellsTrue ==
    "moved" \notin edits =>
       \A m \in Ministries, required \in SUBSET Slots, swapped \in SUBSET ScheduleIds :
          OperationalStatus(m, required, swapped) = "CONFIRMADA" =>
             \A s \in SlotsOf(m) :
                /\ slots[s].servant # NoServant /\ s \notin cut
                      => rows[slots[s].schedule].response = "CONFIRMED"
                /\ s \in required => slots[s].servant # NoServant \/ slots[s].blocked

\* Of the two conflicts that COM_CONFLITO counts one never occurs: a servant has
\* no two rows of one ministry, which the unique key sees to, and the rows of
\* another ministry, where a second one would be, are not looked at.
ConflictIsRefusal ==
    \A m \in Ministries, required \in SUBSET Slots, swapped \in SUBSET ScheduleIds :
       OperationalStatus(m, required, swapped) = "COM_CONFLITO" =>
          \E s \in SlotsOf(m) : slots[s].status = "DECLINED"

\* Once the schedule is closed nobody is put in a slot or taken out of one,
\* but by a request that had looked before.
FrozenOnceClosed ==
    [][closed /\ closed' /\ ~ raced' =>
          \A s \in Slots : slots'[s].servant = slots[s].servant]_vars
=============================================================================
