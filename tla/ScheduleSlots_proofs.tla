------------------------ MODULE ScheduleSlots_proofs ------------------------
(***************************************************************************)
(* Theorems about ScheduleSlots, for any number of slots, servants,        *)
(* ministries and concurrent requests.                                     *)
(*                                                                         *)
(* LinkIntegrity is inductive once the requests in flight are known to     *)
(* carry what their stage needs (Ready): what they remember of a slot, its *)
(* old servant and whether he was counted elsewhere above all, may be out  *)
(* of date, and the proof uses nothing of it but its type.  That a         *)
(* transaction deletes a row which a slot points to by now is what cut is  *)
(* for.                                                                    *)
(*                                                                         *)
(* The properties that hold unless requests raced need more (UnracedInv):  *)
(* a request nobody has overtaken still knows what it has read (Knows).    *)
(*                                                                         *)
(* The bulk operations of SlotFilling come last: they write slots only     *)
(* through these requests.                                                 *)
(***************************************************************************)
EXTENDS SlotFilling, TLAPS

\* What a request carries at a stage.
Ready(q) ==
    /\ q.stage \in {"called", "admitted", "checked", "relabel"} =>
          q.slot \in Slots /\ q.servant \in Servants
    /\ q.stage = "counted" =>
          q.slot \in Slots /\ (q.op # "unassign" => q.servant \in Servants)
    /\ q.alone => q.stage = "counted"
    /\ q.op = "unassign" => q.servant = NoServant
    /\ q.stage = "writing" /\ q.op \in {"unassign", "lock", "unlock", "confirm", "decline"} =>
          q.slot \in Slots
    /\ q.stage = "writing" /\ q.op \in {"create", "move"} =>
          q.servant \in Servants /\ q.ministry \in Ministries
    /\ q.stage = "writing" /\ q.op = "exchange" =>
          q.servant \in Servants /\ q.prev \in Servants

RequestsOK ==
    /\ req \in [Requests -> Request]
    /\ \A r \in Requests : Ready(req[r])

TablesOK ==
    /\ slots \in [Slots -> ScheduleSlot]
    /\ DOMAIN rows \subseteq ScheduleIds
    /\ \A id \in DOMAIN rows : rows[id] \in Schedule

FlagsOK ==
    /\ closed \in BOOLEAN
    /\ calls \in 0..MaxCalls
    /\ raced \in BOOLEAN
    /\ edits \subseteq {"created", "moved"}
    /\ cut \subseteq Slots

IInv == RequestsOK /\ TablesOK /\ FlagsOK

LEMMA IInvIsTyped == IInv => TypeOK
  BY DEF IInv, RequestsOK, TablesOK, FlagsOK, TypeOK

-----------------------------------------------------------------------------
(* The bookkeeping of requests.                                            *)

LEMMA BeginOK ==
  ASSUME IInv, NEW r \in Requests, NEW locals \in Request, Ready(locals),
         Begin(r, locals)
  PROVE  IInv' /\ slots' = slots /\ rows' = rows /\ edits' = edits /\ cut' = cut
<1>1. RequestsOK'
  BY DEF IInv, RequestsOK, Begin
<1>2. FlagsOK'
  BY ConstantsAssumption DEF IInv, FlagsOK, Begin, Called
<1> QED
  BY <1>1, <1>2 DEF IInv, TablesOK, Begin

LEMMA IdleOK == Idle \in Request /\ Ready(Idle)
  BY DEF Idle, Request, Ready, Operations, Stages

LEMMA EndOK ==
  ASSUME IInv, NEW r \in Requests, End(r)
  PROVE  IInv' /\ slots' = slots /\ rows' = rows /\ edits' = edits /\ cut' = cut
<1>1. RequestsOK'
  BY IdleOK DEF IInv, RequestsOK, End
<1> QED
  BY <1>1 DEF IInv, TablesOK, FlagsOK, End

\* Moving on within the stages of assignSlot asks for nothing more.
LEMMA AdvanceOK ==
  ASSUME IInv, NEW r \in Requests, NEW stage \in {"admitted", "checked", "relabel"},
         req[r].stage \in {"called", "admitted"}, Advance(r, stage)
  PROVE  IInv' /\ slots' = slots /\ rows' = rows /\ edits' = edits /\ cut' = cut
<1>1. RequestsOK'
  BY DEF IInv, RequestsOK, Advance, Ready, Request, Stages
<1> QED
  BY <1>1 DEF IInv, TablesOK, FlagsOK, Advance

LEMMA WroteOK ==
  ASSUME IInv, NEW r \in Requests, NEW next \in Request, Ready(next), Wrote(r, next)
  PROVE  RequestsOK' /\ raced' \in BOOLEAN /\ calls' = calls
<1>1. ASSUME NEW q \in Requests
      PROVE  req'[q] \in Request /\ Ready(req'[q])
  BY ZenonT(60) DEF IInv, RequestsOK, Wrote, Ready, Request
<1> QED
  BY <1>1 DEF IInv, RequestsOK, FlagsOK, Wrote, Request

LEMMA WroteAtOnceOK ==
  ASSUME IInv, WroteAtOnce
  PROVE  /\ RequestsOK' /\ calls' \in 0..MaxCalls
         /\ raced' = raced /\ edits' = edits /\ cut' = cut
<1>1. ASSUME NEW q \in Requests
      PROVE  req'[q] \in Request /\ Ready(req'[q])
  BY DEF IInv, RequestsOK, WroteAtOnce, Ready, Request
<1> QED
  BY <1>1, ConstantsAssumption DEF IInv, RequestsOK, FlagsOK, WroteAtOnce, Called

-----------------------------------------------------------------------------
(* The tables.                                                             *)

LEMMA RowsOfAreRows ==
  ASSUME TablesOK, NEW x, NEW m
  PROVE  RowsOf(x, m) \subseteq DOMAIN rows /\ RowsOf(x, m) \subseteq ScheduleIds
  BY DEF TablesOK, RowsOf

LEMMA FreshIdsAreFree == \A id \in FreshIds : id \in ScheduleIds /\ id \notin DOMAIN rows
  BY DEF FreshIds

\* Links that hold for a table of slots and one of rows, but for the slots that
\* are cut.
Linked(table, rowTable, lost) ==
    \A s \in Slots :
       IF table[s].servant = NoServant \/ s \in lost
       THEN table[s].schedule = NoSchedule
       ELSE /\ table[s].schedule \in DOMAIN rowTable
            /\ rowTable[table[s].schedule].servant = table[s].servant
            /\ rowTable[table[s].schedule].ministry = MinistryOf[s]

LEMMA LinkedIsIntegrity == LinkIntegrity <=> ("moved" \in edits \/ Linked(slots, rows, cut))
  BY DEF LinkIntegrity, Linked, RowsOf

\* The rows, and the slots, of a servant in a ministry.
HoldsRows(ids, rowTable, x, m) ==
    \A id \in DOMAIN rowTable :
       id \in ids <=> rowTable[id].servant = x /\ rowTable[id].ministry = m
HoldsSlots(places, table, x, m) ==
    \A s \in Slots : s \in places <=> table[s].servant = x /\ MinistryOf[s] = m

\* Deleting the rows of a servant in a ministry breaks the links of the slots the
\* servant has there, and no other.
LEMMA RemovingAbandoned ==
  ASSUME NEW table \in [Slots -> ScheduleSlot], NEW rowTable, NEW lost,
         Linked(table, rowTable, lost), DOMAIN rowTable \subseteq ScheduleIds,
         NEW x \in Servants, NEW m, NEW left, left \subseteq ScheduleIds,
         HoldsRows(left, rowTable, x, m), NEW others, HoldsSlots(others, table, x, m)
  PROVE  Linked(Unlink(table, left), Remove(rowTable, left), lost \cup others)
<1> SUFFICES ASSUME NEW s \in Slots
             PROVE  LET new == Unlink(table, left)[s]
                        rem == Remove(rowTable, left)
                    IN  IF new.servant = NoServant \/ s \in lost \cup others
                        THEN new.schedule = NoSchedule
                        ELSE /\ new.schedule \in DOMAIN rem
                             /\ rem[new.schedule].servant = new.servant
                             /\ rem[new.schedule].ministry = MinistryOf[s]
  BY DEF Linked
<1>1. table[s] \in ScheduleSlot
  OBVIOUS
<1>2. CASE table[s].servant = NoServant \/ s \in lost
  <2>1. table[s].schedule = NoSchedule /\ table[s].schedule \notin left
    BY <1>2, ConstantsAssumption DEF Linked
  <2>2. Unlink(table, left)[s] = table[s]
    BY <2>1 DEF Unlink
  <2>3. table[s].servant = NoServant => s \notin others
    BY ConstantsAssumption DEF HoldsSlots
  <2> QED
    BY <1>2, <2>1, <2>2, <2>3
<1>3. CASE table[s].servant # NoServant /\ s \notin lost
  <2> DEFINE id == table[s].schedule
  <2>1. /\ id \in DOMAIN rowTable
        /\ rowTable[id].servant = table[s].servant
        /\ rowTable[id].ministry = MinistryOf[s]
    BY <1>3 DEF Linked
  <2>2. CASE s \in others
    <3>1. id \in left
      BY <2>1, <2>2 DEF HoldsRows, HoldsSlots
    <3>2. Unlink(table, left)[s].schedule = NoSchedule
      BY <1>1, <3>1 DEF Unlink, ScheduleSlot
    <3> QED
      BY <2>2, <3>2
  <2>3. CASE s \notin others
    <3>1. id \notin left
      BY <2>1, <2>3 DEF HoldsRows, HoldsSlots
    <3>2. Unlink(table, left)[s] = table[s]
      BY <3>1 DEF Unlink
    <3>3. id \in DOMAIN Remove(rowTable, left) /\ Remove(rowTable, left)[id] = rowTable[id]
      BY <2>1, <3>1 DEF Remove
    <3> QED
      BY <1>3, <2>1, <2>3, <3>2, <3>3
  <2> QED
    BY <2>2, <2>3
<1> QED
  BY <1>2, <1>3

\* Unlink keeps a table of slots one.
LEMMA UnlinkType ==
  ASSUME NEW table \in [Slots -> ScheduleSlot], NEW left
  PROVE  Unlink(table, left) \in [Slots -> ScheduleSlot]
  BY DEF Unlink, ScheduleSlot

-----------------------------------------------------------------------------
(* The steps, in the order of the specification.  "Quiet" steps only move  *)
(* a request along.                                                        *)

Quiet == slots' = slots /\ rows' = rows /\ edits' = edits /\ cut' = cut

LinkKept == LinkIntegrity => LinkIntegrity'

LEMMA QuietKeepsLinks == ASSUME Quiet PROVE LinkKept
  BY DEF Quiet, LinkKept, LinkIntegrity, RowsOf

LEMMA CallsOK ==
  ASSUME IInv, NEW r \in Requests,
         \/ \E s \in Slots, x \in Servants : AdmitAssign(r, s, x)
         \/ \E s \in Slots, x \in Servants, op \in {"swap", "fill"} :
               CallSwapOrFill(r, s, x, op)
         \/ \E s \in Slots : CallUnassign(r, s)
         \/ \E s \in Slots, op \in {"lock", "unlock"} : CallLock(r, s, op)
         \/ \E s \in Slots, op \in {"confirm", "decline"} : CallRespond(r, s, op)
         \/ \E id \in ScheduleIds, op \in {"meConfirm", "meDecline"} :
               CallMeRespond(r, id, op)
         \/ \E x \in Servants, m \in Ministries : CallCreate(r, x, m)
         \/ \E id \in ScheduleIds, x \in Servants, m \in Ministries :
               CallMove(r, id, x, m)
         \/ \E from, to \in ScheduleIds : CallExchange(r, from, to)
  PROVE  IInv' /\ Quiet
<1> USE DEF Quiet
<1>0. /\ \A s \in Slots : slots[s] \in ScheduleSlot
      /\ \A id \in DOMAIN rows : rows[id] \in Schedule
  BY DEF IInv, TablesOK
<1>1. ASSUME NEW s \in Slots, NEW x \in Servants, AdmitAssign(r, s, x)
      PROVE  IInv' /\ Quiet
  <2> DEFINE q == [Idle EXCEPT !.op = "assign", !.stage = "admitted", !.slot = s,
                               !.servant = x, !.prev = slots[s].servant]
  <2>1. q \in Request /\ Ready(q)
    BY <1>0, IdleOK DEF Idle, Request, Ready, Operations, Stages, ScheduleSlot
  <2> QED
    BY <1>1, <2>1, BeginOK DEF AdmitAssign
<1>2. ASSUME NEW s \in Slots, NEW x \in Servants, NEW op \in {"swap", "fill"},
             CallSwapOrFill(r, s, x, op)
      PROVE  IInv' /\ Quiet
  <2> DEFINE q == [Idle EXCEPT !.op = op, !.stage = "called", !.slot = s, !.servant = x]
  <2>1. q \in Request /\ Ready(q)
    BY DEF Idle, Request, Ready, Operations, Stages
  <2> QED
    BY <1>2, <2>1, BeginOK DEF CallSwapOrFill
<1>3. ASSUME NEW s \in Slots, CallUnassign(r, s) PROVE IInv' /\ Quiet
  <2> DEFINE q == [Idle EXCEPT !.op = "unassign", !.stage = "writing", !.slot = s,
                               !.prev = slots[s].servant,
                               !.wasLocked = (slots[s].status = "LOCKED")]
  <2>1. q \in Request /\ Ready(q)
    BY <1>0 DEF Idle, Request, Ready, Operations, Stages, ScheduleSlot
  <2> QED
    BY <1>3, <2>1, BeginOK DEF CallUnassign
<1>4. ASSUME NEW s \in Slots, NEW op \in {"lock", "unlock"}, CallLock(r, s, op)
      PROVE  IInv' /\ Quiet
  <2> DEFINE q == [Idle EXCEPT !.op = op, !.stage = "writing", !.slot = s,
                               !.prev = slots[s].servant]
  <2>1. q \in Request /\ Ready(q)
    BY <1>0 DEF Idle, Request, Ready, Operations, Stages, ScheduleSlot
  <2> QED
    BY <1>4, <2>1, BeginOK DEF CallLock
<1>5. ASSUME NEW s \in Slots, NEW op \in {"confirm", "decline"}, CallRespond(r, s, op)
      PROVE  IInv' /\ Quiet
  <2> DEFINE q == [Idle EXCEPT !.op = op, !.stage = "writing", !.slot = s,
                               !.schedule = slots[s].schedule]
  <2>1. q \in Request /\ Ready(q)
    BY <1>0 DEF Idle, Request, Ready, Operations, Stages, ScheduleSlot
  <2> QED
    BY <1>5, <2>1, BeginOK DEF CallRespond
<1>6. ASSUME NEW id \in ScheduleIds, NEW op \in {"meConfirm", "meDecline"},
             CallMeRespond(r, id, op)
      PROVE  IInv' /\ Quiet
  <2> DEFINE q == [Idle EXCEPT !.op = op, !.stage = "writing", !.schedule = id]
  <2>1. q \in Request /\ Ready(q)
    BY DEF Idle, Request, Ready, Operations, Stages
  <2> QED
    BY <1>6, <2>1, BeginOK DEF CallMeRespond
<1>7. ASSUME NEW x \in Servants, NEW m \in Ministries, CallCreate(r, x, m)
      PROVE  IInv' /\ Quiet
  <2> DEFINE q == [Idle EXCEPT !.op = "create", !.stage = "writing", !.servant = x,
                               !.ministry = m]
  <2>1. q \in Request /\ Ready(q)
    BY DEF Idle, Request, Ready, Operations, Stages
  <2> QED
    BY <1>7, <2>1, BeginOK DEF CallCreate
<1>8. ASSUME NEW id \in ScheduleIds, NEW x \in Servants, NEW m \in Ministries,
             CallMove(r, id, x, m)
      PROVE  IInv' /\ Quiet
  <2> DEFINE q == [Idle EXCEPT !.op = "move", !.stage = "writing", !.schedule = id,
                               !.servant = x, !.ministry = m]
  <2>1. q \in Request /\ Ready(q)
    BY DEF Idle, Request, Ready, Operations, Stages
  <2> QED
    BY <1>8, <2>1, BeginOK DEF CallMove
<1>9. ASSUME NEW from \in ScheduleIds, NEW to \in ScheduleIds, CallExchange(r, from, to)
      PROVE  IInv' /\ Quiet
  <2> DEFINE q == [Idle EXCEPT !.op = "exchange", !.stage = "writing",
                               !.schedule = from, !.servant = rows[to].servant,
                               !.other = to, !.prev = rows[from].servant]
  <2>1. from \in DOMAIN rows /\ to \in DOMAIN rows /\ Begin(r, q)
    BY <1>9 DEF CallExchange
  <2>2. q \in Request /\ Ready(q)
    BY <1>0, <2>1 DEF Idle, Request, Ready, Operations, Stages, Schedule
  <2> QED
    BY <2>1, <2>2, BeginOK
<1> QED
  BY <1>1, <1>2, <1>3, <1>4, <1>5, <1>6, <1>7, <1>8, <1>9

LEMMA MovesAlongOK ==
  ASSUME IInv, NEW r \in Requests,
         CheckAssign(r) \/ AdmitSwapOrFill(r) \/ CountSlots(r) \/ WriteFails(r)
  PROVE  IInv' /\ Quiet
<1>1. CASE CheckAssign(r)
  BY <1>1, EndOK, AdvanceOK DEF CheckAssign, Quiet
<1>2. CASE AdmitSwapOrFill(r)
  <2>1. CASE Assignable(req[r].slot) /\ ~ Repeats(req[r].slot, req[r].servant)
    <3>1. /\ req' = [req EXCEPT ![r].stage = "admitted",
                               ![r].prev = slots[req[r].slot].servant]
          /\ UNCHANGED <<closed, slots, rows, calls, raced, edits, cut>>
          /\ req[r].stage = "called"
      BY <1>2, <2>1 DEF AdmitSwapOrFill
    <3>2. req[r] \in Request /\ Ready(req[r]) /\ req[r].slot \in Slots
      BY <3>1 DEF IInv, RequestsOK, Ready
    <3>3. slots[req[r].slot].servant \in Servants \cup {NoServant}
      BY <3>2 DEF IInv, TablesOK, ScheduleSlot
    <3> DEFINE q == [req[r] EXCEPT !.stage = "admitted",
                                   !.prev = slots[req[r].slot].servant]
    <3>4. q \in Request /\ Ready(q)
      BY <3>1, <3>2, <3>3 DEF Request, Ready, Stages
    <3>5. req' = [req EXCEPT ![r] = q]
      BY <3>1 DEF IInv, RequestsOK
    <3>6. RequestsOK'
      BY <3>4, <3>5 DEF IInv, RequestsOK
    <3> QED
      BY <3>1, <3>6 DEF IInv, TablesOK, FlagsOK, Quiet
  <2>2. CASE ~ (Assignable(req[r].slot) /\ ~ Repeats(req[r].slot, req[r].servant))
    <3>1. req[r].stage = "called" /\ (Advance(r, "relabel") \/ End(r))
      BY <1>2, <2>2 DEF AdmitSwapOrFill
    <3> QED
      BY <3>1, AdvanceOK, EndOK DEF Quiet
  <2> QED
    BY <2>1, <2>2
<1>3. CASE WriteFails(r)
  BY <1>3, EndOK DEF WriteFails, Quiet
<1>4. CASE CountSlots(r)
  <2> DEFINE q == [req[r] EXCEPT !.stage = "counted", !.alone = (Others(req[r]) = {})]
  <2>1. req[r] \in Request /\ Ready(req[r])
    BY DEF IInv, RequestsOK
  <2>2. q \in Request /\ Ready(q)
    BY <1>4, <2>1 DEF CountSlots, Request, Ready, Stages
  <2>3. req' = [req EXCEPT ![r] = q]
    BY <1>4 DEF CountSlots, IInv, RequestsOK
  <2>4. RequestsOK'
    BY <2>2, <2>3 DEF IInv, RequestsOK
  <2> QED
    BY <1>4, <2>4 DEF CountSlots, IInv, TablesOK, FlagsOK, Quiet
<1> QED
  BY <1>1, <1>2, <1>3, <1>4

-----------------------------------------------------------------------------
(* The transactions.                                                       *)

RowsTyped(table) ==
    DOMAIN table \subseteq ScheduleIds /\ \A id \in DOMAIN table : table[id] \in Schedule

LEMMA InsertType ==
  ASSUME NEW table, RowsTyped(table), NEW id \in ScheduleIds, NEW row \in Schedule
  PROVE  RowsTyped(Insert(table, id, row))
  BY DEF RowsTyped, Insert

LEMMA RemoveType ==
  ASSUME NEW table, RowsTyped(table), NEW ids
  PROVE  RowsTyped(Remove(table, ids))
  BY DEF RowsTyped, Remove

LEMMA NewRowType ==
  ASSUME NEW x \in Servants, NEW m \in Ministries
  PROVE  /\ NewRow(x, m) \in Schedule
         /\ NewRow(x, m).servant = x /\ NewRow(x, m).ministry = m
  BY DEF NewRow, Schedule, Answers

LEMMA AssignedSlotType ==
  ASSUME NEW x \in Servants, NEW id \in ScheduleIds
  PROVE  /\ AssignedSlot(x, id) \in ScheduleSlot
         /\ AssignedSlot(x, id).servant = x /\ AssignedSlot(x, id).schedule = id
  BY DEF AssignedSlot, ScheduleSlot, SlotStatuses, Answers

\* Writing the assigned slot and its row keeps the links: the row is the one
\* the servant had in the ministry, or a new one.  The slot is cut no longer.
LEMMA FillingKeepsLinks ==
  ASSUME TablesOK, Linked(slots, rows, cut), NEW s \in Slots, NEW x \in Servants,
         NEW id \in ScheduleIds, id \in RowsOf(x, MinistryOf[s]) \/ id \notin DOMAIN rows
  PROVE  Linked([slots EXCEPT ![s] = AssignedSlot(x, id)],
                Insert(rows, id, NewRow(x, MinistryOf[s])), cut \ {s})
<1> DEFINE new == [slots EXCEPT ![s] = AssignedSlot(x, id)]
           table == Insert(rows, id, NewRow(x, MinistryOf[s]))
<1>1. x # NoServant /\ MinistryOf[s] \in Ministries
  BY ConstantsAssumption
<1>2. /\ DOMAIN table = DOMAIN rows \cup {id}
      /\ table[id] = NewRow(x, MinistryOf[s])
      /\ \A e \in DOMAIN rows \ {id} : table[e] = rows[e]
  BY DEF Insert
<1>3. \A e \in DOMAIN rows :
         table[e].servant = rows[e].servant /\ table[e].ministry = rows[e].ministry
  BY <1>1, <1>2, NewRowType DEF RowsOf
<1>4. ASSUME NEW t \in Slots
      PROVE  IF new[t].servant = NoServant \/ t \in cut \ {s}
             THEN new[t].schedule = NoSchedule
             ELSE /\ new[t].schedule \in DOMAIN table
                  /\ table[new[t].schedule].servant = new[t].servant
                  /\ table[new[t].schedule].ministry = MinistryOf[t]
  <2>1. CASE t = s
    BY <2>1, <1>1, <1>2, NewRowType, AssignedSlotType DEF TablesOK
  <2>2. CASE t # s
    <3>1. new[t] = slots[t] /\ (t \in cut \ {s} <=> t \in cut)
      BY <2>2 DEF TablesOK
    <3>2. IF slots[t].servant = NoServant \/ t \in cut
          THEN slots[t].schedule = NoSchedule
          ELSE /\ slots[t].schedule \in DOMAIN rows
               /\ rows[slots[t].schedule].servant = slots[t].servant
               /\ rows[slots[t].schedule].ministry = MinistryOf[t]
      BY DEF Linked
    <3> HIDE DEF new, table
    <3> QED
      BY <3>1, <3>2, <1>2, <1>3
  <2> QED
    BY <2>1, <2>2
<1> QED
  BY <1>4 DEF Linked

\* What the two transactions take away: nothing, or the rows the servant who
\* leaves has in the ministry, and with them the links of the servant's slots.
LEMMA LeavingKeepsLinks ==
  ASSUME IInv, NEW q \in Request, Ready(q), q.slot \in Slots,
         q.stage = "counted" => q.prev \in Servants,
         NEW table \in [Slots -> ScheduleSlot], NEW rowTable, RowsTyped(rowTable),
         Linked(table, rowTable, cut \ {q.slot}),
         \A s \in Slots \ {q.slot} : table[s] = slots[s],
         q.stage = "counted" => table[q.slot].servant # q.prev,
         q.stage = "counted" =>
            HoldsRows(RowsOf(q.prev, MinistryOf[q.slot]), rowTable, q.prev, MinistryOf[q.slot])
  PROVE  Linked(Unlink(table, Abandoned(q)), Remove(rowTable, Abandoned(q)),
                (cut \ {q.slot}) \cup Cut(q))
<1>1. CASE q.alone
  <2>1. q.stage = "counted" /\ q.prev \in Servants
    BY <1>1 DEF Ready
  <2>2. Abandoned(q) = RowsOf(q.prev, MinistryOf[q.slot]) /\ Cut(q) = Others(q)
    BY <1>1 DEF Abandoned, Cut
  <2>3. HoldsSlots(Others(q), table, q.prev, MinistryOf[q.slot])
    BY <2>1 DEF Others, HoldsSlots
  <2>4. RowsOf(q.prev, MinistryOf[q.slot]) \subseteq ScheduleIds
    BY RowsOfAreRows DEF IInv
  <2>5. DOMAIN rowTable \subseteq ScheduleIds
    BY DEF RowsTyped
  <2> QED
    BY <2>1, <2>2, <2>3, <2>4, <2>5, RemovingAbandoned
<1>2. CASE ~ q.alone
  <2>1. Abandoned(q) = {} /\ Cut(q) = {}
    BY <1>2 DEF Abandoned, Cut
  <2>2. Unlink(table, {}) = table
    BY DEF Unlink
  <2>3. \A id \in DOMAIN rowTable : id \in DOMAIN Remove(rowTable, {})
                                    /\ Remove(rowTable, {})[id] = rowTable[id]
    BY DEF Remove
  <2> QED
    BY <2>1, <2>2, <2>3 DEF Linked
<1> QED
  BY <1>1, <1>2 DEF Request

LEMMA AbandonedAreRows ==
  ASSUME NEW q
  PROVE  Abandoned(q) \subseteq RowsOf(q.prev, MinistryOf[q.slot])
  BY DEF Abandoned

LEMMA CutIsSlots ==
  ASSUME IInv, NEW q
  PROVE  (cut \ {q.slot}) \cup Cut(q) \subseteq Slots
  BY DEF IInv, FlagsOK, Cut, Others

LEMMA CommitAssignOK ==
  ASSUME IInv, NEW r \in Requests, CommitAssign(r)
  PROVE  IInv' /\ LinkKept
<1> DEFINE q == req[r]
           x == req[r].servant
           m == MinistryOf[req[r].slot]
           new(id) == [slots EXCEPT ![req[r].slot] = AssignedSlot(x, id)]
           table(id) == Insert(rows, id, NewRow(x, m))
           next == [q EXCEPT !.stage = "relabel", !.alone = FALSE]
<1>1. /\ q \in Request /\ Ready(q)
      /\ q.op # "unassign" /\ q.stage \in {"counted", "checked"}
      /\ q.stage = "counted" => q.prev \notin {NoServant, x}
  BY DEF IInv, RequestsOK, CommitAssign, Leaves
<1>2. /\ q.slot \in Slots /\ x \in Servants /\ m \in Ministries
      /\ q.prev \in Servants \cup {NoServant}
  BY <1>1, ConstantsAssumption DEF Ready, Request
<1>3. PICK id \in IF RowsOf(x, m) # {} THEN RowsOf(x, m) ELSE FreshIds :
         /\ rows' = Remove(table(id), Abandoned(q))
         /\ slots' = Unlink(new(id), Abandoned(q))
  BY DEF CommitAssign
<1>4. /\ Wrote(r, IF q.op = "assign" THEN Idle ELSE next)
      /\ UNCHANGED <<closed, edits>>
      /\ cut' = (cut \ {q.slot}) \cup Cut(q)
  BY DEF CommitAssign
<1>5. id \in ScheduleIds /\ (id \in RowsOf(x, m) \/ id \notin DOMAIN rows)
  BY <1>3, RowsOfAreRows, FreshIdsAreFree DEF IInv
<1>6. new(id) \in [Slots -> ScheduleSlot]
  BY <1>2, <1>5, AssignedSlotType DEF IInv, TablesOK
<1>7. RowsTyped(table(id))
  BY <1>2, <1>5, InsertType, NewRowType DEF IInv, TablesOK, RowsTyped
<1>8. TablesOK'
  BY <1>3, <1>6, <1>7, UnlinkType, RemoveType DEF TablesOK, RowsTyped
<1>9. RequestsOK' /\ FlagsOK'
  <2>1. next \in Request /\ Ready(next)
    BY <1>1, <1>2 DEF Request, Ready, Stages
  <2>2. cut' \subseteq Slots
    BY <1>4, CutIsSlots
  <2> HIDE DEF next
  <2> QED
    BY <1>4, <2>1, <2>2, IdleOK, WroteOK DEF IInv, FlagsOK
<1>10. ASSUME Linked(slots, rows, cut) PROVE Linked(slots', rows', cut')
  <2>1. Linked(new(id), table(id), cut \ {q.slot})
    BY <1>2, <1>5, <1>10, FillingKeepsLinks DEF IInv
  <2>2. \A s \in Slots \ {q.slot} : new(id)[s] = slots[s]
    BY <1>2 DEF IInv, TablesOK
  <2>3. new(id)[q.slot].servant = x
    BY <1>2, <1>5, AssignedSlotType DEF IInv, TablesOK
  <2>4. q.stage = "counted" => HoldsRows(RowsOf(q.prev, m), table(id), q.prev, m)
    <3> SUFFICES ASSUME q.stage = "counted", NEW e \in DOMAIN table(id)
                 PROVE  e \in RowsOf(q.prev, m)
                           <=> table(id)[e].servant = q.prev /\ table(id)[e].ministry = m
      BY DEF HoldsRows
    <3>1. CASE e = id
      <4>1. table(id)[e].servant = x
        BY <1>2, <3>1, NewRowType DEF Insert
      <4> QED
        BY <1>1, <1>5, <3>1, <4>1 DEF RowsOf
    <3>2. CASE e # id
      BY <3>2 DEF Insert, RowsOf
    <3> QED
      BY <3>1, <3>2
  <2> HIDE DEF new, table
  <2> QED
    BY <1>1, <1>2, <1>3, <1>4, <1>6, <1>7, <2>1, <2>2, <2>3, <2>4, LeavingKeepsLinks
<1>11. LinkKept
  BY <1>4, <1>10, LinkedIsIntegrity DEF LinkKept, LinkIntegrity, Linked, RowsOf
<1> QED
  BY <1>8, <1>9, <1>11 DEF IInv

\* What a write to the marks of a slot leaves alone.
LEMMA MarkType ==
  ASSUME NEW table \in [Slots -> ScheduleSlot], NEW s \in Slots,
         NEW row \in ScheduleSlot, row.servant = table[s].servant,
         row.schedule = table[s].schedule
  PROVE  /\ [table EXCEPT ![s] = row] \in [Slots -> ScheduleSlot]
         /\ \A t \in Slots : /\ [table EXCEPT ![s] = row][t].servant = table[t].servant
                             /\ [table EXCEPT ![s] = row][t].schedule = table[t].schedule
  OBVIOUS

LEMMA RelabelOK ==
  ASSUME IInv, NEW r \in Requests, Relabel(r)
  PROVE  IInv' /\ LinkKept
<1> DEFINE status == IF req[r].op = "fill" THEN "SUBSTITUTE_PENDING" ELSE "REPLACED"
<1>1. /\ slots' = [slots EXCEPT ![req[r].slot].status = status,
                                ![req[r].slot].confirmation = "PENDING"]
      /\ Wrote(r, Idle)
      /\ UNCHANGED <<closed, rows, edits, cut>>
  BY DEF Relabel
<1>2. slots \in [Slots -> ScheduleSlot] /\ status \in SlotStatuses
  BY DEF IInv, TablesOK, SlotStatuses
<1>3. /\ slots' \in [Slots -> ScheduleSlot]
      /\ \A s \in Slots : /\ slots'[s].servant = slots[s].servant
                          /\ slots'[s].schedule = slots[s].schedule
  <2> DEFINE slot == req[r].slot
             row == [slots[slot] EXCEPT !.status = status, !.confirmation = "PENDING"]
  <2>1. slot \in Slots
    BY DEF IInv, RequestsOK, Ready, Relabel
  <2>2. slots' = [slots EXCEPT ![slot] = row]
    BY <1>1, <1>2, <2>1
  <2>3. /\ row \in ScheduleSlot
        /\ row.servant = slots[slot].servant /\ row.schedule = slots[slot].schedule
    <3> HIDE DEF status
    <3> QED
      BY <1>2, <2>1 DEF ScheduleSlot, Answers
  <2> HIDE DEF row, slot
  <2> QED
    BY <1>2, <2>1, <2>2, <2>3, MarkType
<1>4. IInv'
  BY <1>1, <1>3, IdleOK, WroteOK DEF IInv, TablesOK, FlagsOK
<1>5. Linked(slots, rows, cut) => Linked(slots', rows', cut')
  BY <1>1, <1>3, SMTT(30) DEF Linked
<1> QED
  BY <1>1, <1>4, <1>5 DEF LinkKept, LinkIntegrity, Linked, RowsOf

LEMMA EmptiedSlotType ==
  ASSUME NEW old \in ScheduleSlot, NEW status \in SlotStatuses
  PROVE  LET row == [old EXCEPT !.servant = NoServant, !.schedule = NoSchedule,
                                !.status = status, !.confirmation = "PENDING"]
         IN  row \in ScheduleSlot /\ row.servant = NoServant /\ row.schedule = NoSchedule
<1>1. "PENDING" \in Answers
  BY DEF Answers
<1> QED
  BY <1>1 DEF ScheduleSlot

LEMMA EmptiedType ==
  ASSUME IInv, NEW q \in Request, q.slot \in Slots
  PROVE  /\ Emptied(q) \in [Slots -> ScheduleSlot]
         /\ Emptied(q)[q.slot].servant = NoServant
         /\ Emptied(q)[q.slot].schedule = NoSchedule
         /\ \A s \in Slots \ {q.slot} : Emptied(q)[s] = slots[s]
<1> DEFINE status == IF q.wasLocked THEN "LOCKED" ELSE "EMPTY"
           row == [slots[q.slot] EXCEPT !.servant = NoServant, !.schedule = NoSchedule,
                                        !.status = status, !.confirmation = "PENDING"]
<1>1. slots \in [Slots -> ScheduleSlot] /\ status \in SlotStatuses
  BY DEF IInv, TablesOK, SlotStatuses
<1>2. row \in ScheduleSlot /\ row.servant = NoServant /\ row.schedule = NoSchedule
  BY <1>1, EmptiedSlotType
<1>3. Emptied(q) = [slots EXCEPT ![q.slot] = row]
  BY DEF Emptied
<1> HIDE DEF row
<1> QED
  BY <1>1, <1>2, <1>3

LEMMA CommitUnassignOK ==
  ASSUME IInv, NEW r \in Requests, CommitUnassign(r)
  PROVE  IInv' /\ LinkKept
<1> DEFINE q == req[r]
<1>1. /\ rows' = Remove(rows, Abandoned(q))
      /\ slots' = Unlink(Emptied(q), Abandoned(q))
      /\ cut' = (cut \ {q.slot}) \cup Cut(q)
      /\ Wrote(r, Idle)
      /\ UNCHANGED <<closed, edits>>
  BY DEF CommitUnassign
<1>2. /\ q \in Request /\ Ready(q) /\ q.slot \in Slots
      /\ q.stage = "counted" => q.prev \in Servants
  BY DEF IInv, RequestsOK, Ready, Request, CommitUnassign, Leaves
<1>3. /\ Emptied(q) \in [Slots -> ScheduleSlot]
      /\ Emptied(q)[q.slot].servant = NoServant /\ Emptied(q)[q.slot].schedule = NoSchedule
      /\ \A s \in Slots \ {q.slot} : Emptied(q)[s] = slots[s]
  BY <1>2, EmptiedType
<1>4. RowsTyped(rows)
  BY DEF IInv, TablesOK, RowsTyped
<1>5. TablesOK'
  BY <1>1, <1>3, <1>4, UnlinkType, RemoveType, ZenonT(60) DEF TablesOK, RowsTyped
<1>6. cut' \subseteq Slots
  BY <1>1, CutIsSlots
<1>7. IInv'
  BY <1>1, <1>5, <1>6, IdleOK, WroteOK DEF IInv, FlagsOK
<1>8. ASSUME Linked(slots, rows, cut) PROVE Linked(slots', rows', cut')
  <2>1. Linked(Emptied(q), rows, cut \ {q.slot})
    BY <1>2, <1>3, <1>8 DEF Linked
  <2>2. q.stage = "counted" => Emptied(q)[q.slot].servant # q.prev
    BY <1>2, <1>3, ConstantsAssumption
  <2>3. HoldsRows(RowsOf(q.prev, MinistryOf[q.slot]), rows, q.prev, MinistryOf[q.slot])
    BY DEF RowsOf, HoldsRows
  <2> QED
    BY <1>1, <1>2, <1>3, <1>4, <2>1, <2>2, <2>3, LeavingKeepsLinks
<1> QED
  BY <1>1, <1>7, <1>8, LinkedIsIntegrity DEF LinkKept, LinkIntegrity, Linked, RowsOf

LEMMA CommitLockOK ==
  ASSUME IInv, NEW r \in Requests, CommitLock(r)
  PROVE  IInv' /\ LinkKept
<1> DEFINE blocked == req[r].op = "lock"
           status == IF req[r].op = "lock" THEN "LOCKED"
                     ELSE IF req[r].prev # NoServant THEN "FILLED" ELSE "EMPTY"
<1>1. /\ slots' = [slots EXCEPT ![req[r].slot].blocked = blocked,
                                ![req[r].slot].status = status]
      /\ Wrote(r, Idle)
      /\ UNCHANGED <<closed, rows, edits, cut>>
  BY DEF CommitLock
<1>2. /\ slots \in [Slots -> ScheduleSlot]
      /\ status \in SlotStatuses /\ blocked \in BOOLEAN
  BY DEF IInv, TablesOK, SlotStatuses
<1>3. /\ slots' \in [Slots -> ScheduleSlot]
      /\ \A s \in Slots : /\ slots'[s].servant = slots[s].servant
                          /\ slots'[s].schedule = slots[s].schedule
  <2> DEFINE slot == req[r].slot
             row == [slots[slot] EXCEPT !.blocked = blocked, !.status = status]
  <2>1. slot \in Slots
    BY DEF IInv, RequestsOK, Ready, CommitLock
  <2>2. slots' = [slots EXCEPT ![slot] = row]
    BY <1>1, <1>2, <2>1
  <2>3. /\ row \in ScheduleSlot
        /\ row.servant = slots[slot].servant /\ row.schedule = slots[slot].schedule
    <3> HIDE DEF status, blocked
    <3> QED
      BY <1>2, <2>1 DEF ScheduleSlot
  <2> HIDE DEF row, slot
  <2> QED
    BY <1>2, <2>1, <2>2, <2>3, MarkType
<1>4. IInv'
  BY <1>1, <1>3, IdleOK, WroteOK DEF IInv, TablesOK, FlagsOK
<1>5. Linked(slots, rows, cut) => Linked(slots', rows', cut')
  BY <1>1, <1>3, SMTT(30) DEF Linked
<1> QED
  BY <1>1, <1>4, <1>5 DEF LinkKept, LinkIntegrity, Linked, RowsOf

-----------------------------------------------------------------------------
(* The answers: a row keeps its servant and ministry, a slot its links.    *)

LEMMA SameLinks ==
  ASSUME cut' = cut, DOMAIN rows' = DOMAIN rows,
         \A s \in Slots : /\ slots'[s].servant = slots[s].servant
                          /\ slots'[s].schedule = slots[s].schedule,
         \A e \in DOMAIN rows : /\ rows'[e].servant = rows[e].servant
                                /\ rows'[e].ministry = rows[e].ministry
  PROVE  Linked(slots, rows, cut) => Linked(slots', rows', cut')
<1> SUFFICES ASSUME Linked(slots, rows, cut), NEW s \in Slots
             PROVE  IF slots'[s].servant = NoServant \/ s \in cut'
                    THEN slots'[s].schedule = NoSchedule
                    ELSE /\ slots'[s].schedule \in DOMAIN rows'
                         /\ rows'[slots'[s].schedule].servant = slots'[s].servant
                         /\ rows'[slots'[s].schedule].ministry = MinistryOf[s]
  BY DEF Linked
<1>1. IF slots[s].servant = NoServant \/ s \in cut
      THEN slots[s].schedule = NoSchedule
      ELSE /\ slots[s].schedule \in DOMAIN rows
           /\ rows[slots[s].schedule].servant = slots[s].servant
           /\ rows[slots[s].schedule].ministry = MinistryOf[s]
  BY DEF Linked
<1> QED
  BY <1>1

LEMMA CommitRespondOK ==
  ASSUME IInv, NEW r \in Requests, CommitRespond(r)
  PROVE  IInv' /\ LinkKept
<1> DEFINE q == req[r]
           slot == req[r].slot
           answer == IF q.op = "confirm" THEN "CONFIRMED" ELSE "DECLINED"
           status == IF q.op = "confirm" THEN "CONFIRMED" ELSE "SUBSTITUTE_PENDING"
           blocked == q.op = "decline"
           row == [slots[slot] EXCEPT !.status = status, !.confirmation = answer,
                                      !.blocked = blocked]
<1>1. /\ rows' = [rows EXCEPT ![q.schedule].response = answer]
      /\ slots' = [slots EXCEPT ![slot].status = status,
                                ![slot].confirmation = answer,
                                ![slot].blocked = blocked]
      /\ Wrote(r, Idle)
      /\ UNCHANGED <<closed, edits, cut>>
  BY DEF CommitRespond
<1>2. slot \in Slots
  BY DEF IInv, RequestsOK, Ready, CommitRespond
<1>3. /\ slots \in [Slots -> ScheduleSlot] /\ RowsTyped(rows)
      /\ status \in SlotStatuses /\ answer \in Answers /\ blocked \in BOOLEAN
  BY DEF IInv, TablesOK, RowsTyped, SlotStatuses, Answers
<1>4. slots' = [slots EXCEPT ![slot] = row]
  BY <1>1, <1>2, <1>3
<1>5. row \in ScheduleSlot /\ row.servant = slots[slot].servant
                           /\ row.schedule = slots[slot].schedule
  <2>1. slots[slot] \in ScheduleSlot
    BY <1>2, <1>3
  <2> HIDE DEF status, answer, blocked, slot
  <2> QED
    BY <1>3, <2>1 DEF ScheduleSlot
<1>6. /\ slots' \in [Slots -> ScheduleSlot]
      /\ \A s \in Slots : /\ slots'[s].servant = slots[s].servant
                          /\ slots'[s].schedule = slots[s].schedule
  <2> HIDE DEF row, slot
  <2> QED
    BY <1>2, <1>3, <1>4, <1>5, MarkType
<1>7. /\ RowsTyped(rows') /\ DOMAIN rows' = DOMAIN rows
      /\ \A e \in DOMAIN rows : /\ rows'[e].servant = rows[e].servant
                                /\ rows'[e].ministry = rows[e].ministry
  <2> HIDE DEF answer
  <2> QED
    BY <1>1, <1>3 DEF RowsTyped, Schedule
<1>8. IInv'
  BY <1>1, <1>6, <1>7, IdleOK, WroteOK DEF IInv, TablesOK, FlagsOK, RowsTyped
<1>9. Linked(slots, rows, cut) => Linked(slots', rows', cut')
  BY <1>1, <1>6, <1>7, SameLinks
<1> QED
  BY <1>1, <1>8, <1>9 DEF LinkKept, LinkIntegrity, Linked, RowsOf

LEMMA CommitMeRespondOK ==
  ASSUME IInv, NEW r \in Requests, CommitMeRespond(r)
  PROVE  IInv' /\ LinkKept
<1> DEFINE id == req[r].schedule
           answer == IF req[r].op = "meConfirm" THEN "CONFIRMED" ELSE "DECLINED"
           row(s) == [slots[s] EXCEPT !.status = answer, !.confirmation = answer]
<1>1. /\ rows' = [rows EXCEPT ![id].response = answer]
      /\ slots' = [s \in Slots |-> IF slots[s].schedule = id THEN row(s) ELSE slots[s]]
      /\ Wrote(r, Idle)
      /\ UNCHANGED <<closed, edits, cut>>
  BY DEF CommitMeRespond
<1>2. /\ slots \in [Slots -> ScheduleSlot] /\ RowsTyped(rows)
      /\ answer \in SlotStatuses /\ answer \in Answers
  BY DEF IInv, TablesOK, RowsTyped, SlotStatuses, Answers
<1>3. ASSUME NEW s \in Slots
      PROVE  /\ row(s) \in ScheduleSlot
             /\ row(s).servant = slots[s].servant /\ row(s).schedule = slots[s].schedule
  <2> HIDE DEF answer
  <2> QED
    BY <1>2 DEF ScheduleSlot
<1>4. /\ slots' \in [Slots -> ScheduleSlot]
      /\ \A s \in Slots : /\ slots'[s].servant = slots[s].servant
                          /\ slots'[s].schedule = slots[s].schedule
  <2> HIDE DEF row
  <2> QED
    BY <1>1, <1>2, <1>3
<1>5. /\ RowsTyped(rows') /\ DOMAIN rows' = DOMAIN rows
      /\ \A e \in DOMAIN rows : /\ rows'[e].servant = rows[e].servant
                                /\ rows'[e].ministry = rows[e].ministry
  <2> HIDE DEF answer
  <2> QED
    BY <1>1, <1>2 DEF RowsTyped, Schedule
<1>6. IInv'
  BY <1>1, <1>4, <1>5, IdleOK, WroteOK DEF IInv, TablesOK, FlagsOK, RowsTyped
<1>7. Linked(slots, rows, cut) => Linked(slots', rows', cut')
  BY <1>1, <1>4, <1>5, SameLinks
<1> QED
  BY <1>1, <1>6, <1>7 DEF LinkKept, LinkIntegrity, Linked, RowsOf

-----------------------------------------------------------------------------
(* The rows by themselves.  A new row breaks no link; a moved one may, and  *)
(* then "moved" is in edits.                                                *)

LEMMA CommitCreateOK ==
  ASSUME IInv, NEW r \in Requests, CommitCreate(r)
  PROVE  IInv' /\ LinkKept
<1> DEFINE row == NewRow(req[r].servant, req[r].ministry)
<1>1. PICK id \in FreshIds : rows' = Insert(rows, id, row)
  BY DEF CommitCreate
<1>2. /\ edits' = edits \cup {"created"}
      /\ Wrote(r, Idle)
      /\ UNCHANGED <<closed, slots, cut>>
  BY DEF CommitCreate
<1>3. row \in Schedule
  BY NewRowType DEF IInv, RequestsOK, Ready, CommitCreate
<1>4. id \in ScheduleIds /\ id \notin DOMAIN rows
  BY <1>1, FreshIdsAreFree
<1>5. TablesOK'
  <2>1. RowsTyped(Insert(rows, id, row))
    BY <1>3, <1>4, InsertType DEF IInv, TablesOK, RowsTyped
  <2> QED
    BY <1>1, <1>2, <2>1 DEF IInv, TablesOK, RowsTyped
<1>6. IInv'
  BY <1>2, <1>5, IdleOK, WroteOK DEF IInv, FlagsOK
<1>7. /\ DOMAIN rows \subseteq DOMAIN rows'
      /\ \A e \in DOMAIN rows : rows'[e] = rows[e]
  BY <1>1, <1>4 DEF Insert
<1>8. Linked(slots, rows, cut) => Linked(slots', rows', cut')
  BY <1>2, <1>7 DEF Linked
<1>9. "moved" \in edits => "moved" \in edits'
  BY <1>2
<1> QED
  BY <1>6, <1>8, <1>9 DEF LinkKept, LinkIntegrity, Linked, RowsOf

LEMMA CommitMoveOK ==
  ASSUME IInv, NEW r \in Requests, CommitMove(r)
  PROVE  IInv' /\ LinkKept
<1>1. /\ rows' = [rows EXCEPT ![req[r].schedule].servant = req[r].servant,
                              ![req[r].schedule].ministry = req[r].ministry]
      /\ edits' = edits \cup {"moved"}
      /\ Wrote(r, Idle)
      /\ UNCHANGED <<closed, slots, cut>>
  BY DEF CommitMove
<1>2. req[r].servant \in Servants /\ req[r].ministry \in Ministries
  BY DEF IInv, RequestsOK, Ready, CommitMove
<1>3. RowsTyped(rows')
  BY <1>1, <1>2 DEF IInv, TablesOK, RowsTyped, Schedule
<1>4. IInv'
  BY <1>1, <1>3, IdleOK, WroteOK DEF IInv, TablesOK, FlagsOK, RowsTyped
<1> QED
  BY <1>1, <1>4 DEF LinkKept, LinkIntegrity

LEMMA CommitExchangeOK ==
  ASSUME IInv, NEW r \in Requests, CommitExchange(r)
  PROVE  IInv' /\ LinkKept
<1>1. /\ rows' = [rows EXCEPT ![req[r].schedule].servant = req[r].servant,
                              ![req[r].other].servant = req[r].prev]
      /\ edits' = edits \cup {"moved"}
      /\ Wrote(r, Idle)
      /\ UNCHANGED <<closed, slots, cut>>
  BY DEF CommitExchange, Exchanged
<1>2. req[r].servant \in Servants /\ req[r].prev \in Servants
  BY DEF IInv, RequestsOK, Ready, CommitExchange
<1>3. RowsTyped(rows')
  BY <1>1, <1>2 DEF IInv, TablesOK, RowsTyped, Schedule
<1>4. IInv'
  BY <1>1, <1>3, IdleOK, WroteOK DEF IInv, TablesOK, FlagsOK, RowsTyped
<1> QED
  BY <1>1, <1>4 DEF LinkKept, LinkIntegrity

-----------------------------------------------------------------------------
(* The single statements.                                                  *)

LEMMA CloseOrReopenOK ==
  ASSUME IInv, CloseSchedule \/ ReopenService
  PROVE  IInv' /\ LinkKept
<1>1. /\ closed' \in BOOLEAN /\ WroteAtOnce
      /\ slots' = slots /\ rows' = rows /\ edits' = edits /\ cut' = cut
  BY DEF CloseSchedule, ReopenService, WroteAtOnce
<1>2. IInv'
  BY <1>1, WroteAtOnceOK DEF IInv, TablesOK, FlagsOK
<1> QED
  BY <1>1, <1>2, QuietKeepsLinks DEF Quiet

LEMMA RecordAttendanceOK ==
  ASSUME IInv, NEW x \in Servants, NEW status \in AttendanceStatuses,
         RecordAttendance(x, status)
  PROVE  IInv' /\ LinkKept
<1>1. /\ slots' = [s \in Slots |-> IF slots[s].servant = x
                                   THEN [slots[s] EXCEPT !.status = status]
                                   ELSE slots[s]]
      /\ WroteAtOnce
      /\ UNCHANGED <<closed, rows>>
  BY DEF RecordAttendance
<1>2. slots \in [Slots -> ScheduleSlot] /\ status \in SlotStatuses
  BY ConstantsAssumption DEF IInv, TablesOK, SlotStatuses
<1>3. /\ slots' \in [Slots -> ScheduleSlot]
      /\ \A s \in Slots : /\ slots'[s].servant = slots[s].servant
                          /\ slots'[s].schedule = slots[s].schedule
  BY <1>1, <1>2 DEF ScheduleSlot
<1>4. IInv'
  BY <1>1, <1>3, WroteAtOnceOK DEF IInv, TablesOK, FlagsOK
<1>5. edits' = edits /\ cut' = cut
  BY <1>1, WroteAtOnceOK
<1>6. Linked(slots, rows, cut) => Linked(slots', rows', cut')
  BY <1>1, <1>3, <1>5 DEF Linked
<1> QED
  BY <1>4, <1>5, <1>6 DEF LinkKept, LinkIntegrity, Linked, RowsOf

-----------------------------------------------------------------------------
(* The theorems.                                                           *)

LEMMA InitOK == Init => IInv /\ LinkIntegrity
<1> SUFFICES ASSUME Init PROVE IInv /\ LinkIntegrity
  OBVIOUS
<1>0. PICK assigned \in SUBSET Slots :
         \E who \in [assigned -> Servants], id \in [assigned -> ScheduleIds] :
            /\ \A s \in assigned : <<who[s], MinistryOf[s]>> \in Members
            /\ \A s, t \in assigned : s # t => who[s] # who[t] /\ id[s] # id[t]
            /\ slots = [s \in Slots |-> IF s \in assigned THEN AssignedSlot(who[s], id[s])
                                        ELSE EmptySlot]
            /\ rows = [i \in {id[s] : s \in assigned} |->
                          LET s == CHOOSE t \in assigned : id[t] = i
                          IN  NewRow(who[s], MinistryOf[s])]
  BY DEF Init
<1>1. PICK who \in [assigned -> Servants], id \in [assigned -> ScheduleIds] :
         /\ \A s, t \in assigned : s # t => who[s] # who[t] /\ id[s] # id[t]
         /\ slots = [s \in Slots |-> IF s \in assigned THEN AssignedSlot(who[s], id[s])
                                     ELSE EmptySlot]
         /\ rows = [i \in {id[s] : s \in assigned} |->
                       LET s == CHOOSE t \in assigned : id[t] = i
                       IN  NewRow(who[s], MinistryOf[s])]
  BY <1>0
<1>2. EmptySlot \in ScheduleSlot
  BY DEF EmptySlot, ScheduleSlot, SlotStatuses, Answers
<1>3. slots \in [Slots -> ScheduleSlot]
  <2>1. ASSUME NEW s \in assigned PROVE AssignedSlot(who[s], id[s]) \in ScheduleSlot
    BY AssignedSlotType
  <2> QED
    BY <1>1, <1>2, <2>1
<1>4. ASSUME NEW s \in assigned
      PROVE  /\ id[s] \in DOMAIN rows
             /\ rows[id[s]] = NewRow(who[s], MinistryOf[s])
  <2>1. (CHOOSE t \in assigned : id[t] = id[s]) = s
    <3>1. \E t \in assigned : id[t] = id[s]
      OBVIOUS
    <3>2. \A t \in assigned : id[t] = id[s] => t = s
      BY <1>1
    <3> QED
      BY <3>1, <3>2
  <2> QED
    BY <1>1, <2>1
<1>5. RowsTyped(rows)
  <2>1. DOMAIN rows = {id[s] : s \in assigned}
    BY <1>1
  <2>2. ASSUME NEW i \in DOMAIN rows PROVE i \in ScheduleIds /\ rows[i] \in Schedule
    <3>1. PICK s \in assigned : i = id[s]
      BY <2>1
    <3>2. who[s] \in Servants /\ MinistryOf[s] \in Ministries /\ id[s] \in ScheduleIds
      BY ConstantsAssumption
    <3> QED
      BY <3>1, <3>2, <1>4, NewRowType
  <2> QED
    BY <2>2 DEF RowsTyped
<1>6. RequestsOK /\ FlagsOK
  <2>1. /\ req = [r \in Requests |-> Idle] /\ calls = 0
        /\ closed = FALSE /\ raced = FALSE /\ edits = {} /\ cut = {}
    BY DEF Init
  <2>2. RequestsOK
    BY <2>1, IdleOK DEF RequestsOK
  <2>3. FlagsOK
    <3>1. calls \in 0..MaxCalls
      BY <2>1, ConstantsAssumption
    <3>2. closed \in BOOLEAN /\ raced \in BOOLEAN
      BY <2>1
    <3>3. edits \subseteq {"created", "moved"} /\ cut \subseteq Slots
      BY <2>1
    <3> QED
      BY <3>1, <3>2, <3>3 DEF FlagsOK
  <2> QED
    BY <2>2, <2>3
<1>7. Linked(slots, rows, cut)
  <2> SUFFICES ASSUME NEW s \in Slots
               PROVE  IF slots[s].servant = NoServant \/ s \in cut
                      THEN slots[s].schedule = NoSchedule
                      ELSE /\ slots[s].schedule \in DOMAIN rows
                           /\ rows[slots[s].schedule].servant = slots[s].servant
                           /\ rows[slots[s].schedule].ministry = MinistryOf[s]
    BY DEF Linked
  <2>1. CASE s \in assigned
    <3>1. /\ who[s] \in Servants /\ MinistryOf[s] \in Ministries
          /\ id[s] \in ScheduleIds /\ who[s] # NoServant
      BY <2>1, ConstantsAssumption
    <3>2. slots[s].servant = who[s] /\ slots[s].schedule = id[s]
      BY <1>1, <2>1, <3>1, AssignedSlotType
    <3>3. s \notin cut
      BY DEF Init
    <3> QED
      BY <2>1, <3>1, <3>2, <3>3, <1>4, NewRowType
  <2>2. CASE s \notin assigned
    BY <1>1, <2>2 DEF EmptySlot, Init
  <2> QED
    BY <2>1, <2>2
<1> QED
  BY <1>3, <1>5, <1>6, <1>7, LinkedIsIntegrity DEF IInv, TablesOK, RowsTyped

\* Every step keeps IInv, and the links with it.
LEMMA NextOK ==
  ASSUME IInv, [Next]_vars
  PROVE  IInv' /\ LinkKept
<1>1. ASSUME NEW r \in Requests, SlotRequest(r) PROVE IInv' /\ LinkKept
  BY <1>1, CallsOK, MovesAlongOK, QuietKeepsLinks, CommitAssignOK, RelabelOK,
     CommitUnassignOK, CommitLockOK DEF SlotRequest
<1>2. ASSUME NEW r \in Requests, ResponseRequest(r) PROVE IInv' /\ LinkKept
  BY <1>2, CallsOK, QuietKeepsLinks, CommitRespondOK, CommitMeRespondOK
  DEF ResponseRequest
<1>3. ASSUME NEW r \in Requests, RowRequest(r) PROVE IInv' /\ LinkKept
  BY <1>3, CallsOK, QuietKeepsLinks, CommitCreateOK, CommitMoveOK, CommitExchangeOK
  DEF RowRequest
<1>4. ASSUME NEW r \in Requests, WriteFails(r) PROVE IInv' /\ LinkKept
  BY <1>4, MovesAlongOK, QuietKeepsLinks
<1>5. CASE UNCHANGED vars
  BY <1>5, QuietKeepsLinks
  DEF vars, Quiet, IInv, RequestsOK, TablesOK, FlagsOK
<1> QED
  BY <1>1, <1>2, <1>3, <1>4, <1>5, CloseOrReopenOK, RecordAttendanceOK DEF Next

\* Type correctness, for any number of concurrent requests.
THEOREM TypeCorrect == Spec => []TypeOK
<1>1. Init => IInv
  BY InitOK
<1>2. IInv /\ [Next]_vars => IInv'
  BY NextOK
<1> QED
  BY <1>1, <1>2, IInvIsTyped, PTL DEF Spec

\* However assign, swap, fill, unassign, lock, answers, new rows and attendance
\* interleave, and however stale what the requests have read, a slot is parted
\* from the Schedule row of its servant only if the slot was given between the
\* count and the deletion of another transaction, and then it has no row; but
\* for the endpoints that move rows.
THEOREM LinksHold == Spec => []LinkIntegrity
<1>1. Init => IInv /\ LinkIntegrity
  BY InitOK
<1>2. IInv /\ LinkIntegrity /\ [Next]_vars => IInv' /\ LinkIntegrity'
  BY NextOK DEF LinkKept
<1> QED
  BY <1>1, <1>2, PTL DEF Spec

-----------------------------------------------------------------------------
(* What holds as long as no request writes over a write it has not seen.    *)
(* The invariant says what a request that nobody overtook still knows of    *)
(* what it has read; a write by another request makes it stale, and a       *)
(* stale request that writes sets raced.                                    *)

Knows(q, shut, table, rowTable) ==
    \/ q.stage = "idle"
    \/ q.stale
    \/ /\ q.stage = "called" => table[q.slot].servant # q.servant
       /\ q.stage \in {"admitted", "checked", "counted"} =>
             ~ shut /\ q.prev = table[q.slot].servant
       /\ q.stage = "checked" \/ (q.stage = "counted" /\ q.op # "unassign") =>
             \A t \in Slots \ {q.slot} : table[t].servant # q.servant
       /\ q.stage = "counted" =>
             (q.alone <=> \A t \in Slots \ {q.slot} :
                             ~ (table[t].servant = q.prev /\ MinistryOf[t] = MinistryOf[q.slot]))
       /\ q.stage = "relabel" =>
             /\ table[q.slot].servant # NoServant
             /\ table[q.slot].schedule \in DOMAIN rowTable
             /\ rowTable[table[q.slot].schedule].response = "PENDING"
       /\ q.stage = "writing" /\ q.op = "unassign" => ~ shut /\ q.prev = table[q.slot].servant
       /\ q.stage = "writing" /\ q.op \in {"lock", "unlock"} => q.prev = table[q.slot].servant
       /\ q.stage = "writing" /\ q.op \in {"confirm", "decline"} =>
             /\ table[q.slot].servant # NoServant
             /\ table[q.slot].schedule = q.schedule

Known == \A r \in Requests : Knows(req[r], closed, slots, rows)

\* The parts of the properties, of a table of slots and one of rows.
OneSlotEach(table) ==
    \A s, t \in Slots : s # t /\ table[s].servant # NoServant
                           => table[s].servant # table[t].servant

LooksTaken(table) ==
    \A s \in Slots :
       /\ table[s].status \notin {"EMPTY", "LOCKED"} => table[s].servant # NoServant
       /\ table[s].status = "EMPTY" => table[s].servant = NoServant

AnswersShown(table, rowTable) ==
    \A s \in Slots : table[s].schedule # NoSchedule
                       => table[s].confirmation = rowTable[table[s].schedule].response

NoneLeft(table, rowTable) ==
    \A id \in DOMAIN rowTable : \E s \in Slots : table[s].schedule = id

\* Raced or not, a slot without a servant points to no row.
LinkNeedsServant(table) ==
    \A s \in Slots : table[s].servant = NoServant => table[s].schedule = NoSchedule

Sound ==
    /\ OneSlotEach(slots)
    /\ LooksTaken(slots)
    /\ "moved" \notin edits => AnswersShown(slots, rows)
    /\ edits = {} => NoneLeft(slots, rows)

UnracedInv ==
    /\ IInv /\ LinkIntegrity
    /\ Known
    /\ LinkNeedsServant(slots)
    /\ raced \/ Sound

\* Nobody is put in a slot or taken out of one.
SameServants == \A s \in Slots : slots'[s].servant = slots[s].servant

\* What a step owes beyond IInv and the links.
Kept ==
    /\ Known'
    /\ LinkNeedsServant(slots')
    /\ raced' \/ Sound'
    /\ closed /\ closed' /\ ~ raced' => SameServants

LEMMA SoundIsEnough ==
  ASSUME UnracedInv
  PROVE  NoDoubleBookingUnlessRaced /\ AnswersAgree /\ NothingLeftOver
  BY DEF UnracedInv, Sound, OneSlotEach, LooksTaken, AnswersShown, NoneLeft,
         NoDoubleBookingUnlessRaced, NoDoubleBooking, ElsewhereInService, AnswersAgree,
         NothingLeftOver

\* Steps that move one request along.
LEMMA QuietKeepsSound ==
  ASSUME UnracedInv, Quiet, UNCHANGED <<closed, raced>>, NEW r \in Requests, NEW locals,
         req' = [req EXCEPT ![r] = locals], Knows(locals, closed, slots, rows)
  PROVE  Kept
<1>1. Known'
  <2> SUFFICES ASSUME NEW q \in Requests
               PROVE  Knows(req'[q], closed, slots, rows)
    BY DEF Known, Quiet
  <2>1. req'[q] = IF q = r THEN locals ELSE req[q]
    BY DEF UnracedInv, IInv, RequestsOK
  <2> QED
    BY <2>1 DEF UnracedInv, Known
<1>2. Sound' <=> Sound
  BY DEF Sound, Quiet
<1> QED
  BY <1>1, <1>2 DEF UnracedInv, Kept, Quiet, SameServants

LEMMA IdleKnows ==
  ASSUME NEW shut, NEW table, NEW rowTable
  PROVE  Knows(Idle, shut, table, rowTable)
  BY DEF Knows, Idle

\* Writes: what the others have read is out of date, and the request that wrote
\* is done, or knows what it needs.
LEMMA WroteKnows ==
  ASSUME UnracedInv, NEW r \in Requests, NEW next, Wrote(r, next),
         Knows(next, closed', slots', rows')
  PROVE  Known' /\ (~ raced' => ~ raced /\ ~ req[r].stale)
<1>1. ASSUME NEW q \in Requests
      PROVE  Knows(req'[q], closed', slots', rows')
  <2>1. CASE q = r
    BY <2>1 DEF Wrote
  <2>2. CASE q # r /\ req[q].stage = "idle"
    <3>1. req'[q] = req[q]
      BY <2>2 DEF Wrote
    <3> QED
      BY <2>2, <3>1 DEF Knows
  <2>3. CASE q # r /\ req[q].stage # "idle"
    <3>1. req'[q] = [req[q] EXCEPT !.stale = TRUE] /\ req[q] \in Request
      BY <2>3 DEF Wrote, UnracedInv, IInv, RequestsOK
    <3>2. req'[q].stale
      BY <3>1 DEF Request
    <3> QED
      BY <3>2 DEF Knows
  <2> QED
    BY <2>1, <2>2, <2>3
<1> QED
  BY <1>1 DEF Known, Wrote, UnracedInv, IInv, FlagsOK

LEMMA WroteAtOnceKnows ==
  ASSUME UnracedInv, WroteAtOnce
  PROVE  Known'
<1>1. ASSUME NEW q \in Requests
      PROVE  Knows(req'[q], closed', slots', rows')
  <2>1. CASE req[q].stage = "idle"
    <3>1. req'[q] = req[q]
      BY <2>1 DEF WroteAtOnce
    <3> QED
      BY <2>1, <3>1 DEF Knows
  <2>2. CASE req[q].stage # "idle"
    <3>1. req'[q] = [req[q] EXCEPT !.stale = TRUE] /\ req[q] \in Request
      BY <2>2 DEF WroteAtOnce, UnracedInv, IInv, RequestsOK
    <3>2. req'[q].stale
      BY <3>1 DEF Request
    <3> QED
      BY <3>2 DEF Knows
  <2> QED
    BY <2>1, <2>2
<1> QED
  BY <1>1 DEF Known

LEMMA BeginKept ==
  ASSUME UnracedInv, NEW r \in Requests, NEW locals, Begin(r, locals),
         Knows(locals, closed, slots, rows)
  PROVE  Kept
<1>1. Quiet /\ UNCHANGED <<closed, raced>> /\ req' = [req EXCEPT ![r] = locals]
  BY DEF Begin, Quiet
<1> QED
  BY <1>1, QuietKeepsSound

\* What each call has just read.
LEMMA CallsKept ==
  ASSUME UnracedInv, NEW r \in Requests,
         \/ \E s \in Slots, x \in Servants : AdmitAssign(r, s, x)
         \/ \E s \in Slots, x \in Servants, op \in {"swap", "fill"} :
               CallSwapOrFill(r, s, x, op)
         \/ \E s \in Slots : CallUnassign(r, s)
         \/ \E s \in Slots, op \in {"lock", "unlock"} : CallLock(r, s, op)
         \/ \E s \in Slots, op \in {"confirm", "decline"} : CallRespond(r, s, op)
         \/ \E id \in ScheduleIds, op \in {"meConfirm", "meDecline"} :
               CallMeRespond(r, id, op)
         \/ \E x \in Servants, m \in Ministries : CallCreate(r, x, m)
         \/ \E id \in ScheduleIds, x \in Servants, m \in Ministries :
               CallMove(r, id, x, m)
         \/ \E from, to \in ScheduleIds : CallExchange(r, from, to)
  PROVE  Kept
<1>1. ASSUME NEW s \in Slots, NEW x \in Servants, AdmitAssign(r, s, x) PROVE Kept
  <2> DEFINE q == [Idle EXCEPT !.op = "assign", !.stage = "admitted", !.slot = s,
                               !.servant = x, !.prev = slots[s].servant]
  <2>1. Knows(q, closed, slots, rows)
    BY <1>1 DEF AdmitAssign, Assignable, Knows, Idle
  <2> QED
    BY <1>1, <2>1, BeginKept DEF AdmitAssign
<1>2. ASSUME NEW s \in Slots, NEW x \in Servants, NEW op \in {"swap", "fill"},
             CallSwapOrFill(r, s, x, op)
      PROVE  Kept
  <2> DEFINE q == [Idle EXCEPT !.op = op, !.stage = "called", !.slot = s, !.servant = x]
  <2>1. Knows(q, closed, slots, rows)
    BY <1>2 DEF CallSwapOrFill, Knows, Idle
  <2> QED
    BY <1>2, <2>1, BeginKept DEF CallSwapOrFill
<1>3. ASSUME NEW s \in Slots, CallUnassign(r, s) PROVE Kept
  <2> DEFINE q == [Idle EXCEPT !.op = "unassign", !.stage = "writing", !.slot = s,
                               !.prev = slots[s].servant,
                               !.wasLocked = (slots[s].status = "LOCKED")]
  <2>1. Knows(q, closed, slots, rows)
    BY <1>3 DEF CallUnassign, Knows, Idle
  <2> QED
    BY <1>3, <2>1, BeginKept DEF CallUnassign
<1>4. ASSUME NEW s \in Slots, NEW op \in {"lock", "unlock"}, CallLock(r, s, op)
      PROVE  Kept
  <2> DEFINE q == [Idle EXCEPT !.op = op, !.stage = "writing", !.slot = s,
                               !.prev = slots[s].servant]
  <2>1. Knows(q, closed, slots, rows)
    BY DEF Knows, Idle
  <2> QED
    BY <1>4, <2>1, BeginKept DEF CallLock
<1>5. ASSUME NEW s \in Slots, NEW op \in {"confirm", "decline"}, CallRespond(r, s, op)
      PROVE  Kept
  <2> DEFINE q == [Idle EXCEPT !.op = op, !.stage = "writing", !.slot = s,
                               !.schedule = slots[s].schedule]
  <2>1. Knows(q, closed, slots, rows)
    BY <1>5 DEF CallRespond, Knows, Idle
  <2> QED
    BY <1>5, <2>1, BeginKept DEF CallRespond
<1>6. ASSUME NEW id \in ScheduleIds, NEW op \in {"meConfirm", "meDecline"},
             CallMeRespond(r, id, op)
      PROVE  Kept
  <2> DEFINE q == [Idle EXCEPT !.op = op, !.stage = "writing", !.schedule = id]
  <2>1. Knows(q, closed, slots, rows)
    BY DEF Knows, Idle
  <2> QED
    BY <1>6, <2>1, BeginKept DEF CallMeRespond
<1>7. ASSUME NEW x \in Servants, NEW m \in Ministries, CallCreate(r, x, m) PROVE Kept
  <2> DEFINE q == [Idle EXCEPT !.op = "create", !.stage = "writing", !.servant = x,
                               !.ministry = m]
  <2>1. Knows(q, closed, slots, rows)
    BY DEF Knows, Idle
  <2> QED
    BY <1>7, <2>1, BeginKept DEF CallCreate
<1>8. ASSUME NEW id \in ScheduleIds, NEW x \in Servants, NEW m \in Ministries,
             CallMove(r, id, x, m)
      PROVE  Kept
  <2> DEFINE q == [Idle EXCEPT !.op = "move", !.stage = "writing", !.schedule = id,
                               !.servant = x, !.ministry = m]
  <2>1. Knows(q, closed, slots, rows)
    BY DEF Knows, Idle
  <2> QED
    BY <1>8, <2>1, BeginKept DEF CallMove
<1>9. ASSUME NEW from \in ScheduleIds, NEW to \in ScheduleIds, CallExchange(r, from, to)
      PROVE  Kept
  <2> DEFINE q == [Idle EXCEPT !.op = "exchange", !.stage = "writing",
                               !.schedule = from, !.servant = rows[to].servant,
                               !.other = to, !.prev = rows[from].servant]
  <2>1. Knows(q, closed, slots, rows)
    BY DEF Knows, Idle
  <2> QED
    BY <1>9, <2>1, BeginKept DEF CallExchange
<1> QED
  BY <1>1, <1>2, <1>3, <1>4, <1>5, <1>6, <1>7, <1>8, <1>9

\* A request that goes on has looked again, or lost nothing of what it knew; one
\* that was admitted by a call of assignSlot that repeats nothing has a slot with
\* another servant before it.
LEMMA MovesAlongKept ==
  ASSUME UnracedInv, NEW r \in Requests,
         CheckAssign(r) \/ AdmitSwapOrFill(r) \/ CountSlots(r) \/ WriteFails(r)
  PROVE  Kept
<1> DEFINE q == req[r]
<1>1. q \in Request /\ Ready(q) /\ Knows(q, closed, slots, rows)
  BY DEF UnracedInv, IInv, RequestsOK, Known
<1>2. ASSUME End(r) PROVE Kept
  <2>1. Quiet /\ UNCHANGED <<closed, raced>> /\ req' = [req EXCEPT ![r] = Idle]
    BY <1>2 DEF End, Quiet
  <2> QED
    BY <2>1, IdleKnows, QuietKeepsSound
<1>3. ASSUME NEW stage \in Stages, Advance(r, stage),
             Knows([q EXCEPT !.stage = stage], closed, slots, rows)
      PROVE  Kept
  <2>1. Quiet /\ UNCHANGED <<closed, raced>> /\ req' = [req EXCEPT ![r] = [q EXCEPT !.stage = stage]]
    BY <1>3 DEF Advance, Quiet
  <2> QED
    BY <2>1, <1>3, QuietKeepsSound
<1>4. CASE CheckAssign(r)
  <2>1. CASE End(r)
    BY <2>1, <1>2
  <2>2. CASE Advance(r, "checked") /\ ~ ElsewhereInService(q.servant, q.slot)
    <3>1. q.stage = "admitted"
      BY <1>4 DEF CheckAssign
    <3>2. Knows([q EXCEPT !.stage = "checked"], closed, slots, rows)
      BY <1>1, <2>2, <3>1 DEF Knows, Request, ElsewhereInService
    <3>3. "checked" \in Stages
      BY DEF Stages
    <3> QED
      BY <2>2, <3>2, <3>3, <1>3
  <2> QED
    BY <1>4, <2>1, <2>2 DEF CheckAssign
<1>5. CASE AdmitSwapOrFill(r)
  <2>0. q.stage = "called"
    BY <1>5 DEF AdmitSwapOrFill
  <2>1. CASE End(r)
    BY <2>1, <1>2
  <2>2. CASE Assignable(q.slot) /\ ~ Repeats(q.slot, q.servant)
    <3> DEFINE locals == [q EXCEPT !.stage = "admitted", !.prev = slots[q.slot].servant]
    <3>1. /\ req' = [req EXCEPT ![r] = locals]
          /\ Quiet /\ UNCHANGED <<closed, raced>>
      BY <1>5, <2>2 DEF AdmitSwapOrFill, Quiet
    <3>2. Knows(locals, closed, slots, rows)
      BY <1>1, <2>2 DEF Knows, Request, Assignable
    <3> QED
      BY <3>1, <3>2, QuietKeepsSound
  <2>3. CASE /\ Assignable(q.slot) /\ Repeats(q.slot, q.servant)
             /\ Advance(r, "relabel")
    <3>1. q.stale
      BY <1>1, <2>0, <2>3 DEF Knows, Repeats
    <3>2. Knows([q EXCEPT !.stage = "relabel"], closed, slots, rows)
      BY <1>1, <3>1 DEF Knows, Request
    <3>3. "relabel" \in Stages
      BY DEF Stages
    <3> QED
      BY <2>3, <3>2, <3>3, <1>3
  <2> QED
    BY <1>5, <2>1, <2>2, <2>3 DEF AdmitSwapOrFill
<1>6. CASE WriteFails(r)
  BY <1>6, <1>2 DEF WriteFails
<1>7. CASE CountSlots(r)
  <2> DEFINE locals == [q EXCEPT !.stage = "counted", !.alone = (Others(q) = {})]
  <2>1. /\ req' = [req EXCEPT ![r] = locals]
        /\ Quiet /\ UNCHANGED <<closed, raced>>
    BY <1>7 DEF CountSlots, Quiet, UnracedInv, IInv, RequestsOK
  <2>2. q.stage = "checked" \/ (q.stage = "writing" /\ q.op = "unassign")
    BY <1>7 DEF CountSlots
  <2>3. /\ locals.stage = "counted" /\ locals.slot = q.slot /\ locals.op = q.op
        /\ locals.prev = q.prev /\ locals.servant = q.servant /\ locals.stale = q.stale
        /\ locals.alone <=> Others(q) = {}
    BY <1>1 DEF Request
  <2>4. (Others(q) = {}) <=>
           \A t \in Slots \ {q.slot} :
              ~ (slots[t].servant = q.prev /\ MinistryOf[t] = MinistryOf[q.slot])
    BY DEF Others
  <2>5. Knows(locals, closed, slots, rows)
    <3> HIDE DEF locals
    <3>1. CASE q.stale
      BY <2>3, <3>1 DEF Knows
    <3>2. CASE ~ q.stale
      <4>1. /\ ~ closed /\ q.prev = slots[q.slot].servant
            /\ q.op # "unassign" => \A t \in Slots \ {q.slot} : slots[t].servant # q.servant
        BY <1>1, <2>2, <3>2 DEF Knows
      <4>2. locals.alone <=> \A t \in Slots \ {q.slot} :
                                ~ (slots[t].servant = q.prev /\ MinistryOf[t] = MinistryOf[q.slot])
        BY <2>3, <2>4
      <4> QED
        BY <2>3, <4>1, <4>2 DEF Knows
    <3> QED
      BY <3>1, <3>2
  <2> QED
    BY <2>1, <2>5, QuietKeepsSound
<1> QED
  BY <1>4, <1>5, <1>6, <1>7

-----------------------------------------------------------------------------
(* What assigning does to the tables, when nobody has written since.        *)

\* The two writes of CommitAssign, and the row of the servant who is replaced.
LEMMA AssigningKeepsSound ==
  ASSUME TablesOK, OneSlotEach(slots), LooksTaken(slots), LinkNeedsServant(slots),
         NEW s \in Slots, NEW x \in Servants, NEW id \in ScheduleIds,
         \A t \in Slots \ {s} : slots[t].servant # x,
         NEW left, left \subseteq ScheduleIds,
         NEW table, table = [slots EXCEPT ![s] = AssignedSlot(x, id)],
         NEW rest, rest = Unlink(table, left)
  PROVE  OneSlotEach(rest) /\ LooksTaken(rest) /\ LinkNeedsServant(rest)
<1>1. /\ AssignedSlot(x, id).servant = x /\ x # NoServant
      /\ \A t \in Slots : table[t] = IF t = s THEN AssignedSlot(x, id) ELSE slots[t]
      /\ table \in [Slots -> ScheduleSlot]
  BY AssignedSlotType, ConstantsAssumption DEF TablesOK
<1>2. \A t \in Slots : /\ rest[t].servant = table[t].servant
                       /\ rest[t].status = table[t].status
                       /\ rest[t].schedule \in {table[t].schedule, NoSchedule}
  BY <1>1 DEF Unlink, ScheduleSlot
<1>3. OneSlotEach(rest)
  <2>1. ASSUME NEW t \in Slots, NEW u \in Slots, t # u, rest[t].servant # NoServant
        PROVE  rest[t].servant # rest[u].servant
    <3>1. rest[t].servant = table[t].servant /\ rest[u].servant = table[u].servant
      BY <1>2
    <3>2. CASE t = s
      BY <1>1, <2>1, <3>1, <3>2
    <3>3. CASE u = s
      BY <1>1, <2>1, <3>1, <3>3
    <3>4. CASE t # s /\ u # s
      BY <1>1, <2>1, <3>1, <3>4 DEF OneSlotEach
    <3> QED
      BY <3>2, <3>3, <3>4
  <2> QED
    BY <2>1 DEF OneSlotEach
<1>4. LooksTaken(rest)
  <2>1. AssignedSlot(x, id).status = "FILLED"
    BY DEF AssignedSlot
  <2>2. ASSUME NEW t \in Slots
        PROVE  /\ rest[t].status \notin {"EMPTY", "LOCKED"} => rest[t].servant # NoServant
               /\ rest[t].status = "EMPTY" => rest[t].servant = NoServant
    <3>1. CASE t = s
      BY <1>1, <1>2, <2>1, <3>1
    <3>2. CASE t # s
      BY <1>1, <1>2, <3>2 DEF LooksTaken
    <3> QED
      BY <3>1, <3>2
  <2> QED
    BY <2>2 DEF LooksTaken
<1>5. LinkNeedsServant(rest)
  BY <1>1, <1>2 DEF LinkNeedsServant
<1> QED
  BY <1>3, <1>4, <1>5

\* The answers: the row of the slot is new or the servant's, and no other slot
\* points to it.
LEMMA AssigningShowsAnswers ==
  ASSUME TablesOK, Linked(slots, rows, cut), AnswersShown(slots, rows),
         NEW s \in Slots, NEW x \in Servants, NEW id \in ScheduleIds,
         id \in RowsOf(x, MinistryOf[s]) \/ id \notin DOMAIN rows,
         \A t \in Slots \ {s} : slots[t].servant # x,
         NEW left, left \subseteq ScheduleIds,
         NEW table, table = [slots EXCEPT ![s] = AssignedSlot(x, id)],
         NEW rowTable, rowTable = Insert(rows, id, NewRow(x, MinistryOf[s]))
  PROVE  AnswersShown(Unlink(table, left), Remove(rowTable, left))
<1> DEFINE rest == Unlink(table, left)
           kept == Remove(rowTable, left)
<1>1. /\ AssignedSlot(x, id).schedule = id /\ AssignedSlot(x, id).confirmation = "PENDING"
      /\ NewRow(x, MinistryOf[s]).response = "PENDING"
      /\ \A t \in Slots : table[t] = IF t = s THEN AssignedSlot(x, id) ELSE slots[t]
      /\ table \in [Slots -> ScheduleSlot]
  BY AssignedSlotType DEF TablesOK, AssignedSlot, NewRow
<1>2. /\ DOMAIN rowTable = DOMAIN rows \cup {id}
      /\ rowTable[id] = NewRow(x, MinistryOf[s])
      /\ \A e \in DOMAIN rows \ {id} : rowTable[e] = rows[e]
  BY DEF Insert
<1>3. ASSUME NEW t \in Slots, rest[t].schedule # NoSchedule
      PROVE  rest[t].confirmation = kept[rest[t].schedule].response
  <2>1. table[t].schedule \notin left /\ rest[t] = table[t]
    <3>1. table[t] \in ScheduleSlot
      BY <1>1
    <3> QED
      BY <1>3, <3>1 DEF Unlink, ScheduleSlot
  <2>2. CASE t = s
    <3>1. id \in DOMAIN kept /\ kept[id] = rowTable[id]
      BY <1>1, <1>2, <2>1, <2>2 DEF Remove
    <3> QED
      BY <1>1, <1>2, <2>1, <2>2, <3>1
  <2>3. CASE t # s
    <3> DEFINE e == slots[t].schedule
    <3>1. table[t] = slots[t] /\ rest[t] = slots[t] /\ e # NoSchedule /\ e \notin left
      BY <1>1, <1>3, <2>1, <2>3
    <3>2. e \in DOMAIN rows /\ rows[e].servant = slots[t].servant
      BY <3>1 DEF Linked
    <3>3. e # id
      BY <2>3, <3>2 DEF RowsOf
    <3>4. kept[e] = rows[e]
      BY <1>2, <3>1, <3>2, <3>3 DEF Remove
    <3> QED
      BY <3>1, <3>4 DEF AnswersShown
  <2> QED
    BY <2>2, <2>3
<1> QED
  BY <1>3 DEF AnswersShown

\* The rows: the one the slot had is the new one, or goes with its servant.
LEMMA AssigningLeavesNone ==
  ASSUME TablesOK, Linked(slots, rows, cut), OneSlotEach(slots), NoneLeft(slots, rows),
         NEW s \in Slots, NEW x \in Servants, NEW id \in ScheduleIds,
         id \in RowsOf(x, MinistryOf[s]) \/ RowsOf(x, MinistryOf[s]) = {},
         \A t \in Slots \ {s} : slots[t].servant # x,
         NEW table, table = [slots EXCEPT ![s] = AssignedSlot(x, id)],
         NEW rowTable, rowTable = Insert(rows, id, NewRow(x, MinistryOf[s])),
         NEW left,
         slots[s].servant \notin {NoServant, x} =>
            left = RowsOf(slots[s].servant, MinistryOf[s])
  PROVE  NoneLeft(Unlink(table, left), Remove(rowTable, left))
<1> DEFINE rest == Unlink(table, left)
           prev == slots[s].servant
<1>1. /\ AssignedSlot(x, id).schedule = id /\ AssignedSlot(x, id).servant = x
      /\ \A t \in Slots : table[t] = IF t = s THEN AssignedSlot(x, id) ELSE slots[t]
  BY AssignedSlotType DEF TablesOK
<1>2. ASSUME NEW e \in DOMAIN Remove(rowTable, left)
      PROVE  \E t \in Slots : rest[t].schedule = e
  <2>1. e \in DOMAIN rows \cup {id} /\ e \notin left
    BY <1>2 DEF Remove, Insert
  <2>2. CASE e = id
    BY <1>1, <2>1, <2>2 DEF Unlink
  <2>3. CASE e \in DOMAIN rows /\ e # id
    <3>1. PICK t \in Slots : slots[t].schedule = e
      BY <2>3 DEF NoneLeft
    <3>2. /\ e \in ScheduleIds /\ e # NoSchedule
          /\ slots[t].servant # NoServant
          /\ rows[e].servant = slots[t].servant
          /\ rows[e].ministry = MinistryOf[t]
      BY <2>3, <3>1, ConstantsAssumption DEF TablesOK, Linked
    <3>3. CASE t # s
      BY <1>1, <2>1, <3>1, <3>3 DEF Unlink
    <3>4. CASE t = s
      <4>1. prev # x
        <5> SUFFICES ASSUME prev = x PROVE FALSE
          OBVIOUS
        <5>1. e \in RowsOf(x, MinistryOf[s])
          BY <2>3, <3>2, <3>4 DEF RowsOf
        <5>2. id \in DOMAIN rows /\ rows[id].servant = x
          BY <5>1 DEF RowsOf
        <5>3. PICK u \in Slots : slots[u].schedule = id
          BY <5>2 DEF NoneLeft
        <5>4. slots[u].servant = x
          <6>1. id # NoSchedule
            BY ConstantsAssumption
          <6> QED
            BY <5>2, <5>3, <6>1 DEF Linked
        <5>5. u = s
          BY <5>4
        <5> QED
          BY <2>3, <3>1, <3>4, <5>3, <5>5
      <4>2. left = RowsOf(prev, MinistryOf[s])
        BY <3>2, <3>4, <4>1
      <4>3. e \in left
        BY <2>3, <3>2, <3>4, <4>2 DEF RowsOf
      <4> QED
        BY <2>1, <4>3
    <3> QED
      BY <3>3, <3>4
  <2> QED
    BY <2>1, <2>2, <2>3
<1> QED
  BY <1>2 DEF NoneLeft

\* A request that nobody overtook since it counted takes the row of the servant
\* who leaves: the servant has no other slot.
LEMMA LeavingTakesRow ==
  ASSUME OneSlotEach(slots), NEW q, q.slot \in Slots, ~ q.stale,
         Knows(q, closed, slots, rows), q.stage = "counted", q.prev # NoServant
  PROVE  Abandoned(q) = RowsOf(q.prev, MinistryOf[q.slot])
<1>1. /\ q.prev = slots[q.slot].servant
      /\ q.alone <=> \A t \in Slots \ {q.slot} :
                        ~ (slots[t].servant = q.prev /\ MinistryOf[t] = MinistryOf[q.slot])
  BY DEF Knows
<1>2. \A t \in Slots \ {q.slot} : slots[t].servant # q.prev
  BY <1>1 DEF OneSlotEach
<1> QED
  BY <1>1, <1>2 DEF Abandoned

LEMMA CommitAssignKept ==
  ASSUME UnracedInv, NEW r \in Requests, CommitAssign(r)
  PROVE  Kept
<1> DEFINE q == req[r]
           s == req[r].slot
           x == req[r].servant
           prev == req[r].prev
           m == MinistryOf[req[r].slot]
           next == IF q.op = "assign" THEN Idle
                   ELSE [q EXCEPT !.stage = "relabel", !.alone = FALSE]
           new(id) == [slots EXCEPT ![req[r].slot] = AssignedSlot(x, id)]
           table(id) == Insert(rows, id, NewRow(x, m))
           left(id) == Abandoned(q)
<1>1. /\ q \in Request /\ Ready(q) /\ Knows(q, closed, slots, rows)
      /\ q.op # "unassign"
      /\ q.stage = (IF prev \in {NoServant, x} THEN "checked" ELSE "counted")
  BY DEF UnracedInv, IInv, RequestsOK, Known, CommitAssign, Leaves
<1>2. s \in Slots /\ x \in Servants /\ m \in Ministries
  BY <1>1, ConstantsAssumption DEF Ready, Request
<1>3. PICK id \in IF RowsOf(x, m) # {} THEN RowsOf(x, m) ELSE FreshIds :
         /\ rows' = Remove(table(id), left(id))
         /\ slots' = Unlink(new(id), left(id))
  BY DEF CommitAssign
<1>4. Wrote(r, next) /\ UNCHANGED <<closed, edits>>
  BY DEF CommitAssign
<1>5. /\ id \in ScheduleIds /\ id # NoSchedule
      /\ id \in RowsOf(x, m) \/ id \notin DOMAIN rows
      /\ id \in RowsOf(x, m) \/ RowsOf(x, m) = {}
  BY <1>3, RowsOfAreRows, FreshIdsAreFree, ConstantsAssumption DEF UnracedInv, IInv
<1>6. left(id) \subseteq ScheduleIds /\ id \notin left(id)
  <2>1. left(id) \subseteq RowsOf(prev, m)
    BY AbandonedAreRows
  <2>2. left(id) # {} => prev # x
    BY <1>1 DEF Abandoned, Ready
  <2>3. RowsOf(prev, m) \subseteq ScheduleIds
    BY RowsOfAreRows DEF UnracedInv, IInv
  <2>4. id \in RowsOf(prev, m) => prev = x
    BY <1>5 DEF RowsOf
  <2> HIDE DEF left
  <2> QED
    BY <2>1, <2>2, <2>3, <2>4
<1> HIDE DEF left
<1>7. /\ slots'[s].servant = x /\ slots'[s].schedule = id
      /\ id \in DOMAIN rows' /\ rows'[id].response = "PENDING"
  <2>1. new(id)[s] = AssignedSlot(x, id) /\ AssignedSlot(x, id).schedule = id
        /\ AssignedSlot(x, id).servant = x
    BY <1>2, <1>5, AssignedSlotType DEF UnracedInv, IInv, TablesOK
  <2>2. slots'[s] = new(id)[s]
    <3>1. slots'[s] = IF new(id)[s].schedule \in left(id)
                      THEN [new(id)[s] EXCEPT !.schedule = NoSchedule] ELSE new(id)[s]
      BY <1>2, <1>3 DEF Unlink
    <3> QED
      BY <1>6, <2>1, <3>1
  <2>3. id \in DOMAIN rows' /\ rows'[id] = NewRow(x, m)
    BY <1>3, <1>6 DEF Remove, Insert
  <2> QED
    BY <2>1, <2>2, <2>3 DEF NewRow
<1>8. Knows(next, closed', slots', rows')
  <2>1. CASE q.op = "assign"
    BY <2>1, IdleKnows
  <2>2. CASE q.op # "assign"
    <3>1. next.stage = "relabel" /\ next.slot = s
      BY <1>1, <2>2 DEF Request
    <3>2. x # NoServant
      BY <1>2, ConstantsAssumption
    <3> HIDE DEF next
    <3> QED
      BY <1>7, <3>1, <3>2 DEF Knows
  <2> QED
    BY <2>1, <2>2
<1>9. Known' /\ (~ raced' => ~ raced /\ ~ q.stale)
  BY <1>4, <1>8, WroteKnows
<1>10. LinkNeedsServant(slots')
  <2>1. /\ \A t \in Slots : new(id)[t] = IF t = s THEN AssignedSlot(x, id) ELSE slots[t]
        /\ AssignedSlot(x, id).servant # NoServant
        /\ \A t \in Slots : new(id)[t] \in ScheduleSlot
    BY <1>2, <1>5, AssignedSlotType, ConstantsAssumption DEF UnracedInv, IInv, TablesOK
  <2>2. ASSUME NEW t \in Slots, slots'[t].servant = NoServant
        PROVE  slots'[t].schedule = NoSchedule
    <3>1. slots'[t] = IF new(id)[t].schedule \in left(id)
                      THEN [new(id)[t] EXCEPT !.schedule = NoSchedule] ELSE new(id)[t]
      BY <1>3 DEF Unlink
    <3>2. slots'[t].servant = new(id)[t].servant
          /\ slots'[t].schedule \in {new(id)[t].schedule, NoSchedule}
      BY <2>1, <3>1 DEF ScheduleSlot
    <3>3. new(id)[t] = slots[t]
      BY <2>1, <2>2, <3>2
    <3> QED
      BY <2>2, <3>2, <3>3 DEF UnracedInv, LinkNeedsServant
  <2> QED
    BY <2>2 DEF LinkNeedsServant
<1>11. ASSUME ~ raced' PROVE Sound' /\ ~ closed
  <2>1. /\ ~ closed /\ prev = slots[s].servant
        /\ \A t \in Slots \ {s} : slots[t].servant # x
    BY <1>1, <1>9, <1>11 DEF Knows
  <2>2. TablesOK /\ Sound /\ LinkNeedsServant(slots)
    BY <1>9, <1>11 DEF UnracedInv, IInv
  <2>3. "moved" \notin edits => Linked(slots, rows, cut)
    BY LinkedIsIntegrity DEF UnracedInv
  <2>4. OneSlotEach(slots') /\ LooksTaken(slots')
    BY <1>2, <1>3, <1>5, <1>6, <2>1, <2>2, AssigningKeepsSound DEF Sound
  <2>5. "moved" \notin edits => AnswersShown(slots', rows')
    BY <1>2, <1>3, <1>5, <1>6, <2>1, <2>2, <2>3, AssigningShowsAnswers DEF Sound
  <2>6. slots[s].servant \notin {NoServant, x} => left(id) = RowsOf(slots[s].servant, m)
    BY <1>1, <1>2, <1>9, <1>11, <2>1, <2>2, LeavingTakesRow DEF Sound, left
  <2>7. edits = {} => NoneLeft(slots', rows')
    BY <1>2, <1>3, <1>5, <2>1, <2>2, <2>3, <2>6, AssigningLeavesNone DEF Sound
  <2> QED
    BY <1>4, <2>1, <2>4, <2>5, <2>7 DEF Sound
<1> QED
  BY <1>9, <1>10, <1>11 DEF Kept

LEMMA CommitUnassignKept ==
  ASSUME UnracedInv, NEW r \in Requests, CommitUnassign(r)
  PROVE  Kept
<1> DEFINE q == req[r]
           s == req[r].slot
           prev == req[r].prev
           m == MinistryOf[s]
           emptied == Emptied(q)
           left == Abandoned(q)
<1>1. /\ rows' = Remove(rows, left)
      /\ slots' = Unlink(emptied, left)
      /\ Wrote(r, Idle)
      /\ UNCHANGED <<closed, edits>>
  BY DEF CommitUnassign
<1>2. /\ q \in Request /\ q.op = "unassign" /\ s \in Slots
      /\ q.stage \in {"counted", "writing"} /\ (q.stage = "writing" => prev = NoServant)
      /\ Ready(q) /\ Knows(q, closed, slots, rows)
  BY DEF UnracedInv, IInv, RequestsOK, Ready, Known, CommitUnassign, Leaves
<1>3. slots \in [Slots -> ScheduleSlot]
  BY DEF UnracedInv, IInv, TablesOK
<1>4. /\ emptied \in [Slots -> ScheduleSlot]
      /\ emptied[s].servant = NoServant /\ emptied[s].schedule = NoSchedule
      /\ emptied[s].status \in {"LOCKED", "EMPTY"}
      /\ \A t \in Slots \ {s} : emptied[t] = slots[t]
  <2>1. emptied[s].status = IF q.wasLocked THEN "LOCKED" ELSE "EMPTY"
    BY <1>2, <1>3 DEF Emptied, ScheduleSlot
  <2> QED
    BY <1>2, <2>1, EmptiedType DEF UnracedInv
<1> HIDE DEF emptied
<1>5. Known' /\ (~ raced' => ~ raced /\ ~ q.stale)
  BY <1>1, IdleKnows, WroteKnows
<1>6. ASSUME NEW t \in Slots
      PROVE  /\ slots'[t] = IF emptied[t].schedule \in left
                            THEN [emptied[t] EXCEPT !.schedule = NoSchedule] ELSE emptied[t]
             /\ slots'[t].servant = emptied[t].servant
             /\ slots'[t].status = emptied[t].status
             /\ slots'[t].confirmation = emptied[t].confirmation
             /\ slots'[t].schedule = IF emptied[t].schedule \in left THEN NoSchedule
                                     ELSE emptied[t].schedule
  <2>1. slots'[t] = IF emptied[t].schedule \in left
                    THEN [emptied[t] EXCEPT !.schedule = NoSchedule] ELSE emptied[t]
    BY <1>1 DEF Unlink
  <2>2. emptied[t] \in ScheduleSlot
    BY <1>4
  <2> QED
    BY <2>1, <2>2 DEF ScheduleSlot
<1> HIDE DEF left
<1>7. LinkNeedsServant(slots')
  <2>1. ASSUME NEW t \in Slots, slots'[t].servant = NoServant
        PROVE  slots'[t].schedule = NoSchedule
    <3>1. emptied[t].servant = NoServant
      BY <1>6, <2>1
    <3>2. emptied[t].schedule = NoSchedule
      BY <1>4, <3>1 DEF UnracedInv, LinkNeedsServant
    <3>3. slots'[t].schedule = IF emptied[t].schedule \in left THEN NoSchedule
                               ELSE emptied[t].schedule
      BY <1>6
    <3> QED
      BY <3>2, <3>3
  <2> QED
    BY <2>1 DEF LinkNeedsServant
<1>8. ASSUME ~ raced' PROVE Sound' /\ ~ closed
  <2>1. /\ ~ closed /\ prev = slots[s].servant
        /\ Sound
    BY <1>2, <1>5, <1>8 DEF Knows, UnracedInv
  <2>2. "moved" \notin edits => Linked(slots, rows, cut)
    BY LinkedIsIntegrity DEF UnracedInv
  <2>3. OneSlotEach(slots')
    <3>1. ASSUME NEW t \in Slots, NEW u \in Slots, t # u, slots'[t].servant # NoServant
          PROVE  slots'[t].servant # slots'[u].servant
      <4>1. t # s /\ slots'[t].servant = slots[t].servant
        BY <1>4, <1>6, <3>1
      <4>2. CASE u = s
        BY <1>4, <1>6, <3>1, <4>2
      <4>3. CASE u # s
        <5>1. slots'[u].servant = slots[u].servant
          BY <1>4, <1>6, <4>3
        <5> QED
          BY <2>1, <3>1, <4>1, <5>1 DEF Sound, OneSlotEach
      <4> QED
        BY <4>2, <4>3
    <3> QED
      BY <3>1 DEF OneSlotEach
  <2>4. LooksTaken(slots')
    <3>1. ASSUME NEW t \in Slots
          PROVE  /\ slots'[t].status \notin {"EMPTY", "LOCKED"} => slots'[t].servant # NoServant
                 /\ slots'[t].status = "EMPTY" => slots'[t].servant = NoServant
      <4>1. CASE t = s
        BY <1>4, <1>6, <4>1
      <4>2. CASE t # s
        <5>1. slots'[t].status = slots[t].status /\ slots'[t].servant = slots[t].servant
          BY <1>4, <1>6, <4>2
        <5> QED
          BY <2>1, <5>1 DEF Sound, LooksTaken
      <4> QED
        BY <4>1, <4>2
    <3> QED
      BY <3>1 DEF LooksTaken
  <2>5. ASSUME "moved" \notin edits PROVE AnswersShown(slots', rows')
    <3>1. ASSUME NEW t \in Slots, slots'[t].schedule # NoSchedule
          PROVE  slots'[t].confirmation = rows'[slots'[t].schedule].response
      <4> DEFINE e == slots[t].schedule
      <4>1. t # s /\ e \notin left /\ slots'[t].schedule = e /\ e # NoSchedule
            /\ slots'[t].confirmation = slots[t].confirmation
        BY <1>4, <1>6, <3>1
      <4>2. e \in DOMAIN rows
        BY <2>2, <2>5, <4>1 DEF Linked
      <4>3. rows'[e] = rows[e]
        BY <1>1, <4>1, <4>2 DEF Remove
      <4> QED
        BY <2>1, <2>5, <4>1, <4>3 DEF Sound, AnswersShown
    <3> QED
      BY <3>1 DEF AnswersShown
  <2>6. ASSUME edits = {} PROVE NoneLeft(slots', rows')
    <3>1. ASSUME NEW e \in DOMAIN rows' PROVE \E t \in Slots : slots'[t].schedule = e
      <4>1. e \in DOMAIN rows /\ e \notin left
        BY <1>1, <3>1 DEF Remove
      <4>2. PICK t \in Slots : slots[t].schedule = e
        BY <2>1, <2>6, <4>1 DEF Sound, NoneLeft
      <4>3. /\ e # NoSchedule /\ slots[t].servant # NoServant
            /\ rows[e].servant = slots[t].servant
            /\ rows[e].ministry = MinistryOf[t]
        BY <2>2, <2>6, <4>1, <4>2, ConstantsAssumption
        DEF UnracedInv, IInv, TablesOK, Linked
      <4>4. CASE t # s
        BY <1>4, <1>6, <4>1, <4>2, <4>4
      <4>5. CASE t = s
        <5>1. prev # NoServant /\ q.stage = "counted"
          BY <1>2, <2>1, <4>3, <4>5
        <5>2. left = RowsOf(prev, m)
          BY <1>2, <1>5, <1>8, <2>1, <5>1, LeavingTakesRow DEF Sound, left
        <5>3. e \in left
          BY <2>1, <4>1, <4>3, <4>5, <5>2 DEF RowsOf
        <5> QED
          BY <4>1, <5>3
      <4> QED
        BY <4>4, <4>5
    <3> QED
      BY <3>1 DEF NoneLeft
  <2> QED
    BY <1>1, <2>1, <2>3, <2>4, <2>5, <2>6 DEF Sound
<1> QED
  BY <1>5, <1>7, <1>8 DEF Kept

-----------------------------------------------------------------------------
(* Steps that write the marks of a slot, or the answers.                    *)

LEMMA MarksKept ==
  ASSUME UnracedInv, Known', ~ raced' => ~ raced, edits' = edits,
         DOMAIN rows' = DOMAIN rows,
         \A s \in Slots : /\ slots'[s].servant = slots[s].servant
                          /\ slots'[s].schedule = slots[s].schedule,
         ~ raced' => /\ LooksTaken(slots')
                     /\ "moved" \notin edits => AnswersShown(slots', rows')
  PROVE  Kept
<1>1. LinkNeedsServant(slots')
  BY DEF UnracedInv, LinkNeedsServant
<1>2. OneSlotEach(slots) => OneSlotEach(slots')
  BY DEF OneSlotEach
<1>3. NoneLeft(slots, rows) => NoneLeft(slots', rows')
  BY DEF NoneLeft
<1>4. raced' \/ Sound'
  BY <1>2, <1>3 DEF UnracedInv, Sound
<1> QED
  BY <1>1, <1>4 DEF Kept, SameServants

LEMMA RelabelKept ==
  ASSUME UnracedInv, NEW r \in Requests, Relabel(r)
  PROVE  Kept
<1> DEFINE s == req[r].slot
           status == IF req[r].op = "fill" THEN "SUBSTITUTE_PENDING" ELSE "REPLACED"
<1>1. /\ slots' = [slots EXCEPT ![s].status = status, ![s].confirmation = "PENDING"]
      /\ Wrote(r, Idle)
      /\ UNCHANGED <<closed, rows, edits, cut>>
  BY DEF Relabel
<1>2. /\ req[r].stage = "relabel" /\ s \in Slots
      /\ Knows(req[r], closed, slots, rows)
      /\ slots \in [Slots -> ScheduleSlot]
  BY DEF UnracedInv, IInv, RequestsOK, TablesOK, Ready, Known, Relabel
<1>3. Known' /\ (~ raced' => ~ raced /\ ~ req[r].stale)
  BY <1>1, IdleKnows, WroteKnows
<1>a. status \notin {"EMPTY", "LOCKED"}
  OBVIOUS
<1> HIDE DEF status, s
<1>4. ASSUME NEW t \in Slots
      PROVE  /\ slots'[t].servant = slots[t].servant
             /\ slots'[t].schedule = slots[t].schedule
             /\ t # s => slots'[t] = slots[t]
             /\ t = s => slots'[t].confirmation = "PENDING" /\ slots'[t].status = status
  BY <1>1, <1>2 DEF ScheduleSlot
<1>5. ASSUME ~ raced'
      PROVE  /\ LooksTaken(slots')
             /\ "moved" \notin edits => AnswersShown(slots', rows')
  <2>1. /\ slots[s].servant # NoServant
        /\ rows[slots[s].schedule].response = "PENDING"
    BY <1>2, <1>3, <1>5 DEF Knows, s
  <2>2. Sound
    BY <1>3, <1>5 DEF UnracedInv
  <2>3. ASSUME NEW t \in Slots
        PROVE  /\ slots'[t].status \notin {"EMPTY", "LOCKED"} => slots'[t].servant # NoServant
               /\ slots'[t].status = "EMPTY" => slots'[t].servant = NoServant
    BY <1>a, <1>4, <2>1, <2>2 DEF Sound, LooksTaken
  <2>4. ASSUME "moved" \notin edits, NEW t \in Slots, slots'[t].schedule # NoSchedule
        PROVE  slots'[t].confirmation = rows'[slots'[t].schedule].response
    BY <1>1, <1>4, <2>1, <2>2, <2>4 DEF Sound, AnswersShown
  <2> QED
    BY <2>3, <2>4 DEF LooksTaken, AnswersShown
<1> QED
  BY <1>1, <1>3, <1>4, <1>5, MarksKept

LEMMA CommitLockKept ==
  ASSUME UnracedInv, NEW r \in Requests, CommitLock(r)
  PROVE  Kept
<1> DEFINE s == req[r].slot
           blocked == req[r].op = "lock"
           status == IF req[r].op = "lock" THEN "LOCKED"
                     ELSE IF req[r].prev # NoServant THEN "FILLED" ELSE "EMPTY"
<1>1. /\ slots' = [slots EXCEPT ![s].blocked = blocked, ![s].status = status]
      /\ Wrote(r, Idle)
      /\ UNCHANGED <<closed, rows, edits, cut>>
  BY DEF CommitLock
<1>2. /\ req[r].stage = "writing" /\ req[r].op \in {"lock", "unlock"} /\ s \in Slots
      /\ Knows(req[r], closed, slots, rows)
      /\ slots \in [Slots -> ScheduleSlot]
  BY DEF UnracedInv, IInv, RequestsOK, TablesOK, Ready, Known, CommitLock
<1>3. Known' /\ (~ raced' => ~ raced /\ ~ req[r].stale)
  BY <1>1, IdleKnows, WroteKnows
<1>4. /\ status \notin {"EMPTY", "LOCKED"} => req[r].prev # NoServant
      /\ status = "EMPTY" => req[r].prev = NoServant
  OBVIOUS
<1> HIDE DEF status, blocked, s
<1>5. ASSUME NEW t \in Slots
      PROVE  /\ slots'[t].servant = slots[t].servant
             /\ slots'[t].schedule = slots[t].schedule
             /\ slots'[t].confirmation = slots[t].confirmation
             /\ t # s => slots'[t] = slots[t]
             /\ t = s => slots'[t].status = status
  BY <1>1, <1>2 DEF ScheduleSlot
<1>6. ASSUME ~ raced'
      PROVE  /\ LooksTaken(slots')
             /\ "moved" \notin edits => AnswersShown(slots', rows')
  <2>1. req[r].prev = slots[s].servant
    BY <1>2, <1>3, <1>6 DEF Knows, s
  <2>2. Sound
    BY <1>3, <1>6 DEF UnracedInv
  <2>3. ASSUME NEW t \in Slots
        PROVE  /\ slots'[t].status \notin {"EMPTY", "LOCKED"} => slots'[t].servant # NoServant
               /\ slots'[t].status = "EMPTY" => slots'[t].servant = NoServant
    BY <1>4, <1>5, <2>1, <2>2, <2>3 DEF Sound, LooksTaken
  <2>4. ASSUME "moved" \notin edits, NEW t \in Slots, slots'[t].schedule # NoSchedule
        PROVE  slots'[t].confirmation = rows'[slots'[t].schedule].response
    BY <1>1, <1>5, <2>2, <2>4 DEF Sound, AnswersShown
  <2> QED
    BY <2>3, <2>4 DEF LooksTaken, AnswersShown
<1> QED
  BY <1>1, <1>3, <1>5, <1>6, MarksKept

\* The answer for a slot reaches its row; nobody else's slot points to that row.
LEMMA CommitRespondKept ==
  ASSUME UnracedInv, NEW r \in Requests, CommitRespond(r)
  PROVE  Kept
<1> DEFINE s == req[r].slot
           id == req[r].schedule
           answer == IF req[r].op = "confirm" THEN "CONFIRMED" ELSE "DECLINED"
           status == IF req[r].op = "confirm" THEN "CONFIRMED" ELSE "SUBSTITUTE_PENDING"
           blocked == req[r].op = "decline"
<1>1. /\ rows' = [rows EXCEPT ![id].response = answer]
      /\ slots' = [slots EXCEPT ![s].status = status, ![s].confirmation = answer,
                                ![s].blocked = blocked]
      /\ Wrote(r, Idle)
      /\ UNCHANGED <<closed, edits>>
  BY DEF CommitRespond
<1>2. /\ req[r].stage = "writing" /\ req[r].op \in {"confirm", "decline"} /\ s \in Slots
      /\ id \in DOMAIN rows
      /\ Knows(req[r], closed, slots, rows)
      /\ slots \in [Slots -> ScheduleSlot]
      /\ \A e \in DOMAIN rows : rows[e] \in Schedule
  BY DEF UnracedInv, IInv, RequestsOK, TablesOK, Ready, Known, CommitRespond
<1>3. Known' /\ (~ raced' => ~ raced /\ ~ req[r].stale)
  BY <1>1, IdleKnows, WroteKnows
<1>4. /\ ~ req[r].stale => slots[s].servant # NoServant /\ slots[s].schedule = id
  BY <1>2 DEF Knows
<1>a. status \notin {"EMPTY", "LOCKED"}
  OBVIOUS
<1> HIDE DEF status, blocked, s, answer, id
<1>5. ASSUME NEW t \in Slots
      PROVE  /\ slots'[t].servant = slots[t].servant
             /\ slots'[t].schedule = slots[t].schedule
             /\ t # s => slots'[t] = slots[t]
             /\ t = s => slots'[t].confirmation = answer /\ slots'[t].status = status
  BY <1>1, <1>2 DEF ScheduleSlot
<1>6. /\ DOMAIN rows' = DOMAIN rows
      /\ \A e \in DOMAIN rows : e # id => rows'[e] = rows[e]
      /\ rows'[id].response = answer
  BY <1>1, <1>2 DEF Schedule
<1>7. ASSUME ~ raced'
      PROVE  /\ LooksTaken(slots')
             /\ "moved" \notin edits => AnswersShown(slots', rows')
  <2>1. slots[s].servant # NoServant /\ slots[s].schedule = id
    BY <1>3, <1>4, <1>7
  <2>2. Sound
    BY <1>3, <1>7 DEF UnracedInv
  <2>3. ASSUME NEW t \in Slots
        PROVE  /\ slots'[t].status \notin {"EMPTY", "LOCKED"} => slots'[t].servant # NoServant
               /\ slots'[t].status = "EMPTY" => slots'[t].servant = NoServant
    BY <1>a, <1>5, <2>1, <2>2 DEF Sound, LooksTaken
  <2>4. ASSUME "moved" \notin edits, NEW t \in Slots, slots'[t].schedule # NoSchedule
        PROVE  slots'[t].confirmation = rows'[slots'[t].schedule].response
    <3>1. Linked(slots, rows, cut)
      BY <2>4, LinkedIsIntegrity DEF UnracedInv
    <3>2. CASE t = s
      BY <1>5, <1>6, <2>1, <3>2
    <3>3. CASE t # s
      <4>1. slots'[t] = slots[t] /\ slots[t].schedule # NoSchedule
        BY <1>5, <2>4, <3>3
      <4>2. /\ slots[t].servant # NoServant /\ slots[t].schedule \in DOMAIN rows
            /\ rows[slots[t].schedule].servant = slots[t].servant
        BY <3>1, <4>1 DEF Linked
      <4>3. rows[id].servant = slots[s].servant
        <5>1. id \in ScheduleIds /\ id # NoSchedule
          BY <1>2, ConstantsAssumption DEF UnracedInv, IInv, TablesOK
        <5> QED
          BY <1>2, <2>1, <3>1, <5>1 DEF Linked, s
      <4>4. slots[t].schedule # id
        BY <1>2, <2>2, <3>3, <4>2, <4>3 DEF Sound, OneSlotEach, s
      <4> QED
        BY <1>6, <2>2, <2>4, <4>1, <4>2, <4>4 DEF Sound, AnswersShown
    <3> QED
      BY <3>2, <3>3
  <2> QED
    BY <2>3, <2>4 DEF LooksTaken, AnswersShown
<1> QED
  BY <1>1, <1>3, <1>5, <1>6, <1>7, MarksKept

LEMMA CommitMeRespondKept ==
  ASSUME UnracedInv, NEW r \in Requests, CommitMeRespond(r)
  PROVE  Kept
<1> DEFINE id == req[r].schedule
           answer == IF req[r].op = "meConfirm" THEN "CONFIRMED" ELSE "DECLINED"
<1>1. /\ rows' = [rows EXCEPT ![id].response = answer]
      /\ slots' = [t \in Slots |-> IF slots[t].schedule = id
                     THEN [slots[t] EXCEPT !.status = answer, !.confirmation = answer]
                     ELSE slots[t]]
      /\ Wrote(r, Idle)
      /\ UNCHANGED <<closed, edits>>
  BY DEF CommitMeRespond
<1>2. /\ id \in DOMAIN rows /\ id # NoSchedule
      /\ slots \in [Slots -> ScheduleSlot]
      /\ \A e \in DOMAIN rows : rows[e] \in Schedule
  BY ConstantsAssumption DEF UnracedInv, IInv, TablesOK, CommitMeRespond
<1>3. Known' /\ (~ raced' => ~ raced /\ ~ req[r].stale)
  BY <1>1, IdleKnows, WroteKnows
<1>a. answer \notin {"EMPTY", "LOCKED"}
  OBVIOUS
<1> HIDE DEF answer, id
<1>4. ASSUME NEW t \in Slots
      PROVE  /\ slots'[t].servant = slots[t].servant
             /\ slots'[t].schedule = slots[t].schedule
             /\ slots[t].schedule # id => slots'[t] = slots[t]
             /\ slots[t].schedule = id =>
                   slots'[t].confirmation = answer /\ slots'[t].status = answer
  BY <1>1, <1>2 DEF ScheduleSlot
<1>5. /\ DOMAIN rows' = DOMAIN rows
      /\ \A e \in DOMAIN rows : e # id => rows'[e] = rows[e]
      /\ rows'[id].response = answer
  BY <1>1, <1>2 DEF Schedule
<1>6. ASSUME ~ raced'
      PROVE  /\ LooksTaken(slots')
             /\ "moved" \notin edits => AnswersShown(slots', rows')
  <2>1. Sound /\ LinkNeedsServant(slots)
    BY <1>3, <1>6 DEF UnracedInv
  <2>2. ASSUME NEW t \in Slots
        PROVE  /\ slots'[t].status \notin {"EMPTY", "LOCKED"} => slots'[t].servant # NoServant
               /\ slots'[t].status = "EMPTY" => slots'[t].servant = NoServant
    BY <1>a, <1>2, <1>4, <2>1 DEF Sound, LooksTaken, LinkNeedsServant
  <2>3. ASSUME "moved" \notin edits, NEW t \in Slots, slots'[t].schedule # NoSchedule
        PROVE  slots'[t].confirmation = rows'[slots'[t].schedule].response
    <3>1. Linked(slots, rows, cut)
      BY <2>3, LinkedIsIntegrity DEF UnracedInv
    <3>2. CASE slots[t].schedule = id
      BY <1>4, <1>5, <3>2
    <3>3. CASE slots[t].schedule # id
      <4>1. slots'[t] = slots[t] /\ slots[t].schedule # NoSchedule
        BY <1>4, <2>3, <3>3
      <4>2. slots[t].schedule \in DOMAIN rows
        BY <3>1, <4>1 DEF Linked
      <4> QED
        BY <1>5, <2>1, <2>3, <3>3, <4>1, <4>2 DEF Sound, AnswersShown
    <3> QED
      BY <3>2, <3>3
  <2> QED
    BY <2>2, <2>3 DEF LooksTaken, AnswersShown
<1> QED
  BY <1>1, <1>3, <1>4, <1>5, <1>6, MarksKept

\* The endpoints that write rows of their own leave the slots alone.
LEMMA RowStepsKept ==
  ASSUME UnracedInv, NEW r \in Requests, CommitCreate(r) \/ CommitMove(r) \/ CommitExchange(r)
  PROVE  Kept
<1>1. /\ slots' = slots /\ Wrote(r, Idle)
      /\ edits' # {} /\ ("moved" \notin edits' => "moved" \notin edits /\ CommitCreate(r))
  BY DEF CommitCreate, CommitMove, CommitExchange
<1>2. Known' /\ (~ raced' => ~ raced)
  BY <1>1, IdleKnows, WroteKnows
<1>3. ASSUME "moved" \notin edits', AnswersShown(slots, rows)
      PROVE  AnswersShown(slots', rows')
  <2>1. PICK id \in FreshIds : rows' = Insert(rows, id, NewRow(req[r].servant, req[r].ministry))
    BY <1>1, <1>3 DEF CommitCreate
  <2>2. \A e \in DOMAIN rows : rows'[e] = rows[e]
    BY <2>1, FreshIdsAreFree DEF Insert
  <2>3. Linked(slots, rows, cut)
    BY <1>1, <1>3, LinkedIsIntegrity DEF UnracedInv
  <2>4. ASSUME NEW t \in Slots, slots[t].schedule # NoSchedule
        PROVE  slots[t].confirmation = rows'[slots[t].schedule].response
    <3>1. slots[t].schedule \in DOMAIN rows
      BY <2>3, <2>4 DEF Linked
    <3> QED
      BY <1>3, <2>2, <2>4, <3>1 DEF AnswersShown
  <2> QED
    BY <1>1, <2>4 DEF AnswersShown
<1>4. raced' \/ Sound'
  BY <1>1, <1>2, <1>3 DEF UnracedInv, Sound
<1> QED
  BY <1>1, <1>2, <1>4 DEF UnracedInv, Kept, SameServants

LEMMA CloseOrReopenKept ==
  ASSUME UnracedInv, CloseSchedule \/ ReopenService
  PROVE  Kept
<1>1. /\ WroteAtOnce /\ slots' = slots /\ rows' = rows
      /\ raced' = raced /\ edits' = edits
  BY DEF CloseSchedule, ReopenService, WroteAtOnce
<1>2. Known'
  BY <1>1, WroteAtOnceKnows
<1>3. Sound' <=> Sound
  BY <1>1 DEF Sound
<1> QED
  BY <1>1, <1>2, <1>3 DEF UnracedInv, Kept, SameServants

LEMMA RecordAttendanceKept ==
  ASSUME UnracedInv, NEW x \in Servants, NEW status \in AttendanceStatuses,
         RecordAttendance(x, status)
  PROVE  Kept
<1>1. /\ slots' = [t \in Slots |-> IF slots[t].servant = x
                                   THEN [slots[t] EXCEPT !.status = status]
                                   ELSE slots[t]]
      /\ WroteAtOnce /\ rows' = rows /\ raced' = raced /\ edits' = edits
  BY DEF RecordAttendance, WroteAtOnce
<1>2. slots \in [Slots -> ScheduleSlot] /\ x # NoServant
  BY ConstantsAssumption DEF UnracedInv, IInv, TablesOK
<1>3. ASSUME NEW t \in Slots
      PROVE  /\ slots'[t].servant = slots[t].servant
             /\ slots'[t].schedule = slots[t].schedule
             /\ slots'[t].confirmation = slots[t].confirmation
             /\ slots[t].servant # x => slots'[t] = slots[t]
             /\ slots[t].servant = x => slots'[t].status = status
  BY <1>1, <1>2 DEF ScheduleSlot
<1>4. ASSUME ~ raced'
      PROVE  /\ LooksTaken(slots')
             /\ "moved" \notin edits => AnswersShown(slots', rows')
  <2>1. Sound
    BY <1>1, <1>4 DEF UnracedInv
  <2>2. ASSUME NEW t \in Slots
        PROVE  /\ slots'[t].status \notin {"EMPTY", "LOCKED"} => slots'[t].servant # NoServant
               /\ slots'[t].status = "EMPTY" => slots'[t].servant = NoServant
    <3>1. status \notin {"EMPTY", "LOCKED"}
      BY ConstantsAssumption
    <3> QED
      BY <1>2, <1>3, <2>1, <3>1 DEF Sound, LooksTaken
  <2>3. ASSUME "moved" \notin edits, NEW t \in Slots, slots'[t].schedule # NoSchedule
        PROVE  slots'[t].confirmation = rows'[slots'[t].schedule].response
    BY <1>1, <1>3, <2>1, <2>3 DEF Sound, AnswersShown
  <2> QED
    BY <2>2, <2>3 DEF LooksTaken, AnswersShown
<1>5. Known'
  BY <1>1, WroteAtOnceKnows
<1> QED
  BY <1>1, <1>3, <1>4, <1>5, MarksKept

LEMMA InitKept == Init => UnracedInv
<1> SUFFICES ASSUME Init PROVE UnracedInv
  OBVIOUS
<1>1. IInv /\ LinkIntegrity
  BY InitOK
<1>2. PICK assigned \in SUBSET Slots :
         \E who \in [assigned -> Servants], id \in [assigned -> ScheduleIds] :
            /\ \A s \in assigned : <<who[s], MinistryOf[s]>> \in Members
            /\ \A s, t \in assigned : s # t => who[s] # who[t] /\ id[s] # id[t]
            /\ slots = [s \in Slots |-> IF s \in assigned THEN AssignedSlot(who[s], id[s])
                                        ELSE EmptySlot]
            /\ rows = [i \in {id[s] : s \in assigned} |->
                          LET s == CHOOSE t \in assigned : id[t] = i
                          IN  NewRow(who[s], MinistryOf[s])]
  BY DEF Init
<1>3. PICK who \in [assigned -> Servants], id \in [assigned -> ScheduleIds] :
         /\ \A s, t \in assigned : s # t => who[s] # who[t] /\ id[s] # id[t]
         /\ slots = [s \in Slots |-> IF s \in assigned THEN AssignedSlot(who[s], id[s])
                                     ELSE EmptySlot]
         /\ rows = [i \in {id[s] : s \in assigned} |->
                       LET s == CHOOSE t \in assigned : id[t] = i
                       IN  NewRow(who[s], MinistryOf[s])]
  BY <1>2
<1>4. ASSUME NEW s \in Slots
      PROVE  /\ s \in assigned => /\ slots[s].servant = who[s]
                                  /\ who[s] # NoServant
                                  /\ slots[s].schedule = id[s]
                                  /\ slots[s].confirmation = "PENDING"
                                  /\ slots[s].status = "FILLED"
             /\ s \notin assigned => /\ slots[s].servant = NoServant
                                     /\ slots[s].schedule = NoSchedule
                                     /\ slots[s].status = "EMPTY"
  BY <1>3, ConstantsAssumption DEF AssignedSlot, EmptySlot
<1>5. OneSlotEach(slots)
  BY <1>3, <1>4 DEF OneSlotEach
<1>6. LooksTaken(slots) /\ LinkNeedsServant(slots)
  BY <1>4 DEF LooksTaken, LinkNeedsServant
<1>7. AnswersShown(slots, rows)
  <2>1. ASSUME NEW s \in Slots, slots[s].schedule # NoSchedule
        PROVE  slots[s].confirmation = rows[slots[s].schedule].response
    <3>1. s \in assigned /\ slots[s].confirmation = "PENDING" /\ slots[s].schedule = id[s]
      BY <1>4, <2>1
    <3>2. rows[id[s]].response = "PENDING"
      <4>1. id[s] \in {id[t] : t \in assigned}
        BY <3>1
      <4> QED
        BY <1>3, <4>1 DEF NewRow
    <3> QED
      BY <3>1, <3>2
  <2> QED
    BY <2>1 DEF AnswersShown
<1>8. NoneLeft(slots, rows)
  <2>1. ASSUME NEW e \in DOMAIN rows PROVE \E s \in Slots : slots[s].schedule = e
    <3>1. PICK s \in assigned : e = id[s]
      BY <1>3
    <3> QED
      BY <1>4, <3>1
  <2> QED
    BY <2>1 DEF NoneLeft
<1>9. Known
  BY IdleKnows DEF Init, Known
<1> QED
  BY <1>1, <1>5, <1>6, <1>7, <1>8, <1>9 DEF UnracedInv, Sound

LEMMA NextKept ==
  ASSUME UnracedInv, [Next]_vars
  PROVE  UnracedInv' /\ (closed /\ closed' /\ ~ raced' => SameServants)
<1>1. ASSUME NEW r \in Requests, SlotRequest(r) PROVE Kept
  BY <1>1, CallsKept, MovesAlongKept, CommitAssignKept, RelabelKept, CommitUnassignKept,
     CommitLockKept
  DEF SlotRequest
<1>2. ASSUME NEW r \in Requests, ResponseRequest(r) PROVE Kept
  BY <1>2, CallsKept, CommitRespondKept, CommitMeRespondKept DEF ResponseRequest
<1>3. ASSUME NEW r \in Requests, RowRequest(r) PROVE Kept
  BY <1>3, CallsKept, RowStepsKept DEF RowRequest
<1>4. ASSUME NEW r \in Requests, WriteFails(r) PROVE Kept
  BY <1>4, MovesAlongKept
<1>5. ASSUME UNCHANGED vars PROVE Kept
  <2>1. /\ slots' = slots /\ rows' = rows /\ req' = req /\ closed' = closed
        /\ raced' = raced /\ edits' = edits
    BY <1>5 DEF vars
  <2>2. Known' /\ (Sound' <=> Sound)
    BY <2>1 DEF UnracedInv, Known, Sound
  <2> QED
    BY <2>1, <2>2 DEF Kept, UnracedInv, SameServants
<1>6. ASSUME CloseSchedule \/ ReopenService PROVE Kept
  BY <1>6, CloseOrReopenKept
<1>7. ASSUME NEW x \in Servants, NEW status \in AttendanceStatuses,
             RecordAttendance(x, status)
      PROVE  Kept
  BY <1>7, RecordAttendanceKept
<1>8. Kept
  BY <1>1, <1>2, <1>3, <1>4, <1>5, <1>6, <1>7 DEF Next
<1>9. IInv' /\ LinkIntegrity'
  BY NextOK DEF UnracedInv, LinkKept
<1> QED
  BY <1>8, <1>9 DEF Kept, UnracedInv

LEMMA UnracedHolds == Spec => []UnracedInv
<1>1. UnracedInv /\ [Next]_vars => UnracedInv'
  BY NextKept
<1> QED
  BY InitKept, <1>1, PTL DEF Spec

-----------------------------------------------------------------------------
\* A servant is put in two slots of a service only by a request that writes over
\* a write made since it began to read; the checks of assignSlot, in memory, are
\* otherwise enough, for any number of requests in flight.
THEOREM BookedOnce == Spec => []NoDoubleBookingUnlessRaced
<1>1. UnracedInv => NoDoubleBookingUnlessRaced
  BY SoundIsEnough
<1> QED
  BY UnracedHolds, <1>1, PTL

\* The slot and its row show the same answer, whichever of the endpoints takes
\* the answer, assigns, relabels or empties the slot.
THEOREM SlotShowsAnswer == Spec => []AnswersAgree
<1>1. UnracedInv => AnswersAgree
  BY SoundIsEnough
<1> QED
  BY UnracedHolds, <1>1, PTL

\* No row outlives the slot it was made for, and no slot looks taken without a
\* servant.
THEOREM NoRowLeftBehind == Spec => []NothingLeftOver
<1>1. UnracedInv => NothingLeftOver
  BY SoundIsEnough
<1> QED
  BY UnracedHolds, <1>1, PTL

\* Only a request that had looked before the schedule was closed still changes
\* who serves in it.
THEOREM ClosedIsFrozen == Spec => FrozenOnceClosed
<1>1. UnracedInv /\ [Next]_vars =>
         [closed /\ closed' /\ ~ raced' =>
            \A s \in Slots : slots'[s].servant = slots[s].servant]_vars
  BY NextKept DEF SameServants
<1> QED
  BY UnracedHolds, <1>1, PTL DEF Spec, FrozenOnceClosed

-----------------------------------------------------------------------------
(* What the workspace tells of a ministry.  That a servant has one row of a *)
(* ministry at most is inductive by itself: whoever writes a row meets the  *)
(* unique key, and the transactions that do not insert find the row there.  *)

OneRowEach(table) ==
    \A i, j \in DOMAIN table :
       table[i].servant = table[j].servant /\ table[i].ministry = table[j].ministry => i = j

LEMMA InsertKeepsOne ==
  ASSUME OneRowEach(rows), NEW x, NEW m, NEW id,
         id \in RowsOf(x, m) \/ RowsOf(x, m) = {}
  PROVE  OneRowEach(Insert(rows, id, NewRow(x, m)))
<1> DEFINE table == Insert(rows, id, NewRow(x, m))
<1>1. DOMAIN table = DOMAIN rows \cup {id}
  BY DEF Insert
<1>2. table[id].servant = x /\ table[id].ministry = m
  BY DEF Insert, NewRow
<1>3. \A e \in DOMAIN rows : e # id => table[e] = rows[e]
  BY DEF Insert
<1>4. ASSUME NEW e \in DOMAIN rows, rows[e].servant = x, rows[e].ministry = m
      PROVE  e = id
  BY <1>4 DEF RowsOf, OneRowEach
<1> HIDE DEF table
<1>5. OneRowEach(table)
  BY <1>1, <1>2, <1>3, <1>4 DEF OneRowEach
<1> QED
  BY <1>5 DEF table

LEMMA RemoveKeepsOne ==
  ASSUME NEW table, OneRowEach(table), NEW ids
  PROVE  OneRowEach(Remove(table, ids))
  BY DEF OneRowEach, Remove

\* A step that writes responses only.
LEMMA AnswerKeepsOne ==
  ASSUME IInv, OneRowEach(rows), NEW id, NEW answer,
         rows' = [rows EXCEPT ![id].response = answer]
  PROVE  OneRowEach(rows')
<1>1. \A e \in DOMAIN rows : rows[e] \in Schedule
  BY DEF IInv, TablesOK
<1>2. DOMAIN rows' = DOMAIN rows
  OBVIOUS
<1>3. \A e \in DOMAIN rows : rows'[e].servant = rows[e].servant
                             /\ rows'[e].ministry = rows[e].ministry
  BY <1>1 DEF Schedule
<1> QED
  BY <1>2, <1>3 DEF OneRowEach

LEMMA MoveKeepsOne ==
  ASSUME IInv, OneRowEach(rows), NEW r \in Requests, CommitMove(r)
  PROVE  OneRowEach(rows')
<1> DEFINE id == req[r].schedule
           x == req[r].servant
           m == req[r].ministry
<1>1. /\ rows' = [rows EXCEPT ![id].servant = x, ![id].ministry = m]
      /\ id \in DOMAIN rows /\ RowsOf(x, m) \subseteq {id}
  BY DEF CommitMove
<1>2. rows[id] \in Schedule
  BY <1>1 DEF IInv, TablesOK
<1>3. /\ DOMAIN rows' = DOMAIN rows
      /\ rows'[id].servant = x /\ rows'[id].ministry = m
      /\ \A e \in DOMAIN rows \ {id} : rows'[e] = rows[e]
  BY <1>1, <1>2 DEF Schedule
<1>4. \A e \in DOMAIN rows : rows[e].servant = x /\ rows[e].ministry = m => e = id
  BY <1>1 DEF RowsOf
<1> HIDE DEF id, x, m
<1> QED
  BY <1>3, <1>4 DEF OneRowEach

\* Asked once per update, the key sees every pair of rows that would clash.
LEMMA ExchangeKeepsOne ==
  ASSUME IInv, OneRowEach(rows), NEW r \in Requests, CommitExchange(r)
  PROVE  OneRowEach(rows')
<1> DEFINE q == req[r]
           from == q.schedule
           to == q.other
<1>1. /\ rows' = Exchanged(q) /\ ~ ExchangeClashes(q)
      /\ from \in DOMAIN rows /\ to \in DOMAIN rows
  BY DEF CommitExchange
<1>2. \A e \in DOMAIN rows : rows[e] \in Schedule
  BY DEF IInv, TablesOK
<1>3. /\ DOMAIN rows' = DOMAIN rows
      /\ \A e \in DOMAIN rows : rows'[e].ministry = rows[e].ministry
      /\ rows'[to].servant = q.prev
      /\ from # to => rows'[from].servant = q.servant
      /\ \A e \in DOMAIN rows \ {from, to} : rows'[e] = rows[e]
  BY <1>1, <1>2 DEF Exchanged, Schedule
<1>4. \A e \in DOMAIN rows \ {to} :
         ~ (rows'[e].servant = q.prev /\ rows[e].ministry = rows[to].ministry)
  BY <1>1 DEF ExchangeClashes
<1>5. \A e \in DOMAIN rows :
         rows[e].servant = q.servant /\ rows[e].ministry = rows[from].ministry => e = from
  BY <1>1 DEF ExchangeClashes, RowsOf
<1> HIDE DEF q, from, to
<1>6. ASSUME NEW i \in DOMAIN rows, NEW j \in DOMAIN rows,
             rows'[i].servant = rows'[j].servant, rows'[i].ministry = rows'[j].ministry
      PROVE  i = j
  <2>1. CASE i = to \/ j = to
    BY <1>3, <1>4, <1>6, <2>1
  <2>2. CASE to \notin {i, j} /\ (i = from \/ j = from)
    BY <1>3, <1>5, <1>6, <2>2
  <2>3. CASE to \notin {i, j} /\ from \notin {i, j}
    BY <1>3, <1>6, <2>3 DEF OneRowEach
  <2> QED
    BY <2>1, <2>2, <2>3
<1> QED
  BY <1>3, <1>6 DEF OneRowEach

LEMMA SlotStepsKeepOne ==
  ASSUME IInv, OneRowEach(rows), NEW r \in Requests,
         CommitAssign(r) \/ CommitUnassign(r) \/ Relabel(r) \/ CommitLock(r)
  PROVE  OneRowEach(rows')
<1>1. CASE CommitAssign(r)
  <2> DEFINE x == req[r].servant
             m == MinistryOf[req[r].slot]
  <2>1. \E id \in IF RowsOf(x, m) # {} THEN RowsOf(x, m) ELSE FreshIds : \E left :
           rows' = Remove(Insert(rows, id, NewRow(x, m)), left)
    BY <1>1 DEF CommitAssign
  <2>2. PICK id \in IF RowsOf(x, m) # {} THEN RowsOf(x, m) ELSE FreshIds : \E left :
           rows' = Remove(Insert(rows, id, NewRow(x, m)), left)
    BY <2>1
  <2>3. PICK left : rows' = Remove(Insert(rows, id, NewRow(x, m)), left)
    BY <2>2
  <2>4. id \in RowsOf(x, m) \/ RowsOf(x, m) = {}
    BY <2>2
  <2> QED
    BY <2>3, <2>4, InsertKeepsOne, RemoveKeepsOne
<1>2. CASE CommitUnassign(r)
  <2>1. \E left : rows' = Remove(rows, left)
    BY <1>2 DEF CommitUnassign
  <2> QED
    BY <2>1, RemoveKeepsOne
<1>3. CASE Relabel(r) \/ CommitLock(r)
  BY <1>3 DEF Relabel, CommitLock
<1> QED
  BY <1>1, <1>2, <1>3

LEMMA CreateKeepsOne ==
  ASSUME IInv, OneRowEach(rows), NEW r \in Requests, CommitCreate(r)
  PROVE  OneRowEach(rows')
<1>1. PICK id \in FreshIds : rows' = Insert(rows, id, NewRow(req[r].servant, req[r].ministry))
  BY DEF CommitCreate
<1>2. RowsOf(req[r].servant, req[r].ministry) = {}
  BY DEF CommitCreate
<1> QED
  BY <1>1, <1>2, InsertKeepsOne

LEMMA NextKeepsOne ==
  ASSUME IInv, OneRowEach(rows), [Next]_vars
  PROVE  OneRowEach(rows')
<1>1. ASSUME NEW r \in Requests, SlotRequest(r) PROVE OneRowEach(rows')
  <2>1. CASE CommitAssign(r) \/ CommitUnassign(r) \/ Relabel(r) \/ CommitLock(r)
    BY <2>1, SlotStepsKeepOne
  <2>2. CASE ~ (CommitAssign(r) \/ CommitUnassign(r) \/ Relabel(r) \/ CommitLock(r))
    <3>1. Quiet
      BY <1>1, <2>2, CallsOK, MovesAlongOK DEF SlotRequest
    <3> QED
      BY <3>1 DEF Quiet
  <2> QED
    BY <2>1, <2>2
<1>2. ASSUME NEW r \in Requests, ResponseRequest(r) PROVE OneRowEach(rows')
  <2>1. CASE CommitRespond(r) \/ CommitMeRespond(r)
    <3>1. \E answer : rows' = [rows EXCEPT ![req[r].schedule].response = answer]
      BY <2>1 DEF CommitRespond, CommitMeRespond
    <3> QED
      BY <3>1, AnswerKeepsOne
  <2>2. CASE ~ (CommitRespond(r) \/ CommitMeRespond(r))
    <3>1. Quiet
      BY <1>2, <2>2, CallsOK DEF ResponseRequest
    <3> QED
      BY <3>1 DEF Quiet
  <2> QED
    BY <2>1, <2>2
<1>3. ASSUME NEW r \in Requests, RowRequest(r) PROVE OneRowEach(rows')
  <2>1. CASE ~ (CommitCreate(r) \/ CommitMove(r) \/ CommitExchange(r))
    <3>1. Quiet
      BY <1>3, <2>1, CallsOK DEF RowRequest
    <3> QED
      BY <3>1 DEF Quiet
  <2> QED
    BY <2>1, CreateKeepsOne, MoveKeepsOne, ExchangeKeepsOne
<1>4. ASSUME NEW r \in Requests, WriteFails(r) PROVE OneRowEach(rows')
  BY <1>4, MovesAlongOK DEF Quiet
<1>5. CASE UNCHANGED vars
  BY <1>5 DEF vars
<1>6. CASE CloseSchedule \/ ReopenService
  BY <1>6 DEF CloseSchedule, ReopenService
<1>7. ASSUME NEW x \in Servants, NEW status \in AttendanceStatuses,
             RecordAttendance(x, status)
      PROVE  OneRowEach(rows')
  BY <1>7 DEF RecordAttendance
<1> QED
  BY <1>1, <1>2, <1>3, <1>4, <1>5, <1>6, <1>7 DEF Next

\* The rows of the initial schedule were made by slots, each with its servant.
LEMMA InitHasOne == Init => OneRowEach(rows)
<1> SUFFICES ASSUME Init PROVE OneRowEach(rows)
  OBVIOUS
<1>1. /\ OneSlotEach(slots) /\ LinkNeedsServant(slots) /\ NoneLeft(slots, rows)
      /\ Linked(slots, rows, cut) /\ cut = {}
  <2>1. UnracedInv
    BY InitKept
  <2>2. ~ raced /\ edits = {} /\ cut = {}
    BY DEF Init
  <2> QED
    BY <2>1, <2>2, LinkedIsIntegrity DEF UnracedInv, Sound
<1>2. ASSUME NEW i \in DOMAIN rows, NEW j \in DOMAIN rows, rows[i].servant = rows[j].servant
      PROVE  i = j
  <2>1. PICK s \in Slots : slots[s].schedule = i
    BY <1>1 DEF NoneLeft
  <2>2. PICK t \in Slots : slots[t].schedule = j
    BY <1>1 DEF NoneLeft
  <2>3. CASE slots[s].servant # NoServant /\ slots[t].servant # NoServant
    BY <1>1, <1>2, <2>1, <2>2, <2>3 DEF Linked, OneSlotEach
  <2>4. CASE slots[s].servant = NoServant \/ slots[t].servant = NoServant
    <3>1. i = NoSchedule \/ j = NoSchedule
      BY <1>1, <2>1, <2>2, <2>4 DEF Linked
    <3>2. i \in ScheduleIds /\ j \in ScheduleIds
      BY InitOK DEF IInv, TablesOK
    <3> QED
      BY <3>1, <3>2, ConstantsAssumption
  <2> QED
    BY <2>3, <2>4
<1> QED
  BY <1>2 DEF OneRowEach

\* The workspace shows a ministry as COM_CONFLITO for one of two reasons, a slot
\* that was declined or a servant with two rows of the ministry; the second never
\* exists, whoever writes rows and in whatever order.
THEOREM ConflictIsARefusal == Spec => []ConflictIsRefusal
<1>1. Init => IInv /\ OneRowEach(rows)
  BY InitOK, InitHasOne
<1>2. IInv /\ OneRowEach(rows) /\ [Next]_vars => IInv' /\ OneRowEach(rows)'
  BY NextOK, NextKeepsOne
<1>3. OneRowEach(rows) => ConflictIsRefusal
  <2> SUFFICES ASSUME OneRowEach(rows), NEW m \in Ministries, NEW required \in SUBSET Slots,
                      NEW swapped \in SUBSET ScheduleIds,
                      OperationalStatus(m, required, swapped) = "COM_CONFLITO"
               PROVE  \E s \in SlotsOf(m) : slots[s].status = "DECLINED"
    BY DEF ConflictIsRefusal
  <2>1. \A i, j \in RowsIn(m) : rows[i].servant = rows[j].servant => i = j
    BY DEF RowsIn, OneRowEach
  <2> QED
    BY <2>1 DEF OperationalStatus
<1> QED
  BY <1>1, <1>2, <1>3, PTL DEF Spec

\* A ministry shown as CONFIRMADA is complete and everybody in its slots has said
\* yes, however stale the writes that brought it there; but for a slot whose row was
\* deleted between the count and the deletion of another transaction (cut).
THEOREM ConfirmedIsTrue == Spec => []ConfirmedTellsTrue
<1>1. Init => IInv /\ LinkIntegrity
  BY InitOK
<1>2. IInv /\ LinkIntegrity /\ [Next]_vars => IInv' /\ LinkIntegrity'
  BY NextOK DEF LinkKept
<1>3. IInv /\ LinkIntegrity => ConfirmedTellsTrue
  <2> SUFFICES ASSUME IInv, LinkIntegrity, "moved" \notin edits, NEW m \in Ministries,
                      NEW required \in SUBSET Slots, NEW swapped \in SUBSET ScheduleIds,
                      OperationalStatus(m, required, swapped) = "CONFIRMADA",
                      NEW s \in SlotsOf(m)
               PROVE  /\ slots[s].servant # NoServant /\ s \notin cut =>
                            rows[slots[s].schedule].response = "CONFIRMED"
                      /\ s \in required => slots[s].servant # NoServant \/ slots[s].blocked
    BY DEF ConfirmedTellsTrue
  <2>1. /\ \A i \in RowsIn(m) : rows[i].response \notin {"PENDING", "DECLINED"}
        /\ \A t \in SlotsOf(m) \cap required : slots[t].servant # NoServant \/ slots[t].blocked
    BY DEF OperationalStatus
  <2>2. ASSUME slots[s].servant # NoServant, s \notin cut
        PROVE  rows[slots[s].schedule].response = "CONFIRMED"
    <3>1. s \in Slots /\ MinistryOf[s] = m
      BY DEF SlotsOf
    <3>2. slots[s].schedule \in RowsIn(m)
      BY <2>2, <3>1, LinkedIsIntegrity DEF Linked, RowsIn
    <3>3. rows[slots[s].schedule] \in Schedule
      BY <3>2 DEF IInv, TablesOK, RowsIn
    <3> QED
      BY <2>1, <3>2, <3>3 DEF Schedule, Answers
  <2> QED
    BY <2>1, <2>2
<1> QED
  BY <1>1, <1>2, <1>3, PTL DEF Spec

-----------------------------------------------------------------------------
(* The bulk operations write slots only through the requests of            *)
(* ScheduleSlots: every step of FillSpec is a step of Spec, or leaves its  *)
(* variables alone.  What is proved of the requests, for any number of     *)
(* slots, servants and requests, holds beside a bulk operation too.        *)

\* A job is a record of its local variables, of which the steps of its request
\* need to know only whose request it is.
Job(job) ==
    /\ \E kind, listed, used, by, overtaken :
          job = [kind |-> kind, listed |-> listed, used |-> used, by |-> by, overtaken |-> overtaken]
    /\ job.by \in Requests \cup {NoRequest}

LEMMA NoFillIsJob == Job(NoFill)
  BY DEF NoFill, Job

\* Changing a field leaves a job a job.
LEMMA EditIsJob ==
  ASSUME NEW job, Job(job), NEW listed, NEW used, NEW by \in Requests \cup {NoRequest},
         NEW overtaken
  PROVE  /\ Job([job EXCEPT !.listed = listed])
         /\ Job([job EXCEPT !.used = used])
         /\ Job([job EXCEPT !.by = by])
         /\ Job([job EXCEPT !.overtaken = overtaken])
<1>1. PICK k, l, u, b, o :
         job = [kind |-> k, listed |-> l, used |-> u, by |-> b, overtaken |-> o]
  BY DEF Job
<1>2. b \in Requests \cup {NoRequest}
  BY <1>1 DEF Job
<1>3. ASSUME NEW edited, NEW kk, NEW ll, NEW uu, NEW bb \in Requests \cup {NoRequest}, NEW oo,
             edited = [kind |-> kk, listed |-> ll, used |-> uu, by |-> bb, overtaken |-> oo]
      PROVE  Job(edited)
  BY <1>3 DEF Job
<1>4. [job EXCEPT !.listed = listed]
        = [kind |-> k, listed |-> listed, used |-> u, by |-> b, overtaken |-> o]
  BY <1>1
<1>5. [job EXCEPT !.used = used]
        = [kind |-> k, listed |-> l, used |-> used, by |-> b, overtaken |-> o]
  BY <1>1
<1>6. [job EXCEPT !.by = by]
        = [kind |-> k, listed |-> l, used |-> u, by |-> by, overtaken |-> o]
  BY <1>1
<1>7. [job EXCEPT !.overtaken = overtaken]
        = [kind |-> k, listed |-> l, used |-> u, by |-> b, overtaken |-> overtaken]
  BY <1>1
<1> QED
  BY <1>2, <1>3, <1>4, <1>5, <1>6, <1>7

\* And changing two.
LEMMA EditTwiceIsJob ==
  ASSUME NEW job, Job(job), NEW listed, NEW used, NEW by \in Requests \cup {NoRequest}
  PROVE  /\ Job([job EXCEPT !.listed = listed, !.by = by])
         /\ Job([job EXCEPT !.used = used, !.by = by])
         /\ Job([job EXCEPT !.listed = listed, !.used = used])
<1> DEFINE A == [job EXCEPT !.listed = listed]
           B == [job EXCEPT !.used = used]
<1>1. Job(A) /\ Job(B)
  BY EditIsJob
<1>2. [job EXCEPT !.listed = listed, !.by = by] = [A EXCEPT !.by = by]
  OBVIOUS
<1>3. [job EXCEPT !.used = used, !.by = by] = [B EXCEPT !.by = by]
  OBVIOUS
<1>4. [job EXCEPT !.listed = listed, !.used = used] = [A EXCEPT !.used = used]
  OBVIOUS
<1> HIDE DEF A, B
<1>5. Job([A EXCEPT !.by = by]) /\ Job([B EXCEPT !.by = by]) /\ Job([A EXCEPT !.used = used])
  BY <1>1, EditIsJob
<1> QED
  BY <1>2, <1>3, <1>4, <1>5

\* So does going on with the list, or ending with it.
LEMMA ContinuedIsJob ==
  ASSUME NEW job, Job(job)
  PROVE  Job(Continued(job))
  BY NoFillIsJob DEF Continued

LEMMA RefusedIsJob ==
  ASSUME Job(fill), NEW listed
  PROVE  Job(Refused(listed))
<1>1. Job([fill EXCEPT !.listed = listed, !.by = NoRequest])
  BY EditTwiceIsJob
<1> QED
  BY <1>1, ContinuedIsJob, NoFillIsJob DEF Refused

\* A step of a job, or beside one, is a step of the requests, or none of them.
LEMMA FillStep ==
  ASSUME Job(fill), [FillNext]_fillVars
  PROVE  [Next]_vars /\ Job(fill')
<1>1. ASSUME NEW kind \in Jobs, NEW ms \in Allowed(kind), StartFill(kind, ms)
      PROVE  UNCHANGED vars /\ Job(fill')
  <2>1. PICK l, u : fill' = [NoFill EXCEPT !.kind = kind, !.listed = l, !.used = u]
    BY <1>1 DEF StartFill
  <2>2. Job(fill')
    BY <2>1 DEF NoFill, Job
  <2> QED
    BY <1>1, <2>2 DEF StartFill
<1>2. ASSUME NEW s \in Slots, PassOver(s)
      PROVE  UNCHANGED vars /\ Job(fill')
  <2>1. Job([fill EXCEPT !.listed = Without(s)])
    BY EditIsJob, NoRequest \in Requests \cup {NoRequest}
  <2> QED
    BY <1>2, <2>1, ContinuedIsJob DEF PassOver
<1>3. ASSUME NEW r \in Requests, NEW s \in Slots, NEW x \in Servants, GiveSlot(r, s, x),
             LocksHeld
      PROVE  [Next]_vars /\ Job(fill')
  <2>1. Job(Refused(Without(s)))
    BY RefusedIsJob
  <2>2. Job([fill EXCEPT !.listed = Without(s), !.used = fill.used \cup {x}])
    BY EditTwiceIsJob, NoRequest \in Requests \cup {NoRequest}
  <2>3. Job([fill EXCEPT !.listed = Without(s), !.by = r])
    BY EditTwiceIsJob
  <2>4. CASE UNCHANGED vars /\ fill' = Refused(Without(s))
    BY <2>1, <2>4
  <2>5. CASE /\ UNCHANGED vars
             /\ fill' = Continued([fill EXCEPT !.listed = Without(s), !.used = @ \cup {x}])
    BY <2>2, <2>5, ContinuedIsJob
  <2>6. CASE AdmitAssign(r, s, x) /\ fill' = [fill EXCEPT !.listed = Without(s), !.by = r]
    <3>1. Next
      BY <1>3, <2>6 DEF Next, SlotRequest
    <3> QED
      BY <2>3, <2>6, <3>1
  <2> QED
    BY <1>3, <2>4, <2>5, <2>6 DEF GiveSlot
<1>4. CASE CheckGiven /\ LocksHeld
  <2>1. fill.by \in Requests
    BY <1>4 DEF CheckGiven, Job
  <2>2. Next
    BY <1>4, <2>1 DEF CheckGiven, Next, SlotRequest
  <2>3. fill' \in {fill, Refused(fill.listed)}
    BY <1>4 DEF CheckGiven
  <2> QED
    BY <2>2, <2>3, RefusedIsJob
<1>5. CASE CommitGiven /\ LocksHeld
  <2>1. fill.by \in Requests
    BY <1>5 DEF CommitGiven, Job
  <2>2. Next
    BY <1>5, <2>1 DEF CommitGiven, Next, SlotRequest
  <2>3. Job([fill EXCEPT !.used = fill.used \cup {req[fill.by].servant}, !.by = NoRequest])
    BY EditTwiceIsJob
  <2> QED
    BY <1>5, <2>2, <2>3, ContinuedIsJob DEF CommitGiven
<1>6. CASE Beside /\ LocksHeld
  <2>1. Next
    BY <1>6 DEF Beside, Next
  <2>2. PICK o : fill' = [fill EXCEPT !.overtaken = o]
    BY <1>6 DEF Beside
  <2> QED
    BY <2>1, <2>2, EditIsJob, NoRequest \in Requests \cup {NoRequest}
<1>7. CASE UNCHANGED fillVars
  BY <1>7 DEF fillVars
<1>8. CASE CountGiven /\ LocksHeld
  <2>1. fill.by \in Requests
    BY <1>8 DEF CountGiven, Job
  <2>2. Next
    BY <1>8, <2>1 DEF CountGiven, Next, SlotRequest
  <2> QED
    BY <1>8, <2>2 DEF CountGiven
<1>9. CASE GivenFails /\ LocksHeld
  <2>1. fill.by \in Requests
    BY <1>9 DEF GivenFails, Job
  <2>2. Next
    BY <1>9, <2>1 DEF GivenFails, Next
  <2> QED
    BY <1>9, <2>2, RefusedIsJob DEF GivenFails
<1> QED
  BY <1>1, <1>2, <1>3, <1>4, <1>5, <1>6, <1>7, <1>8, <1>9 DEF FillNext

\* The requests of a system with bulk operations are those of ScheduleSlots.
THEOREM FillingRefines == FillSpec => Spec
<1>1. FillInit => Init /\ Job(fill)
  BY NoFillIsJob DEF FillInit
<1>2. Job(fill) /\ [FillNext]_fillVars => [Next]_vars /\ Job(fill)'
  BY FillStep
<1> QED
  BY <1>1, <1>2, PTL DEF FillSpec, Spec

\* Type correctness with bulk operations.
THEOREM FillTypeCorrect == FillSpec => []TypeOK
  BY FillingRefines, TypeCorrect, PTL

\* However requests interleave with a bulk operation, whatever it listed and
\* however stale its list is, a slot is parted from the Schedule row of its servant
\* only between the count and the deletion of another transaction, and then it has
\* no row; but for the endpoints that move rows.
THEOREM FillKeepsLinks == FillSpec => []LinkIntegrity
  BY FillingRefines, LinksHold, PTL

\* What holds unless a request writes over a write it has not seen holds beside a
\* bulk operation too: the requests a bulk operation makes are requests like the
\* others, and its list, however old, only chooses among them.
THEOREM FillBooksOnce == FillSpec => []NoDoubleBookingUnlessRaced
  BY FillingRefines, BookedOnce, PTL

\* So do the answers shown,
THEOREM FillShowsAnswer == FillSpec => []AnswersAgree
  BY FillingRefines, SlotShowsAnswer, PTL

\* the rows that go with their slots,
THEOREM FillLeavesNoRow == FillSpec => []NothingLeftOver
  BY FillingRefines, NoRowLeftBehind, PTL

\* and the freeze of a closed schedule.
THEOREM FillKeepsClosed == FillSpec => FrozenOnceClosed
  BY FillingRefines, ClosedIsFrozen, PTL

-----------------------------------------------------------------------------
(* What a bulk operation lists it may fill, until another request writes.  *)

Free(slot) ==
    slot.servant = NoServant \/ slot.status \in {"EMPTY", "DECLINED", "SUBSTITUTE_PENDING"}

\* Of a job, a table of slots and the requests.
StillFree(job, table, reqs) ==
    /\ job.kind = "none" => job.by = NoRequest
    /\ job.kind # "none" /\ ~ job.overtaken =>
          /\ DOMAIN job.listed \subseteq Slots
          /\ \A s \in DOMAIN job.listed : Free(table[s])
          /\ job.by # NoRequest => /\ Free(table[reqs[job.by].slot])
                                   /\ reqs[job.by].slot \notin DOMAIN job.listed

FillInv == Job(fill) /\ UnracedInv /\ StillFree(fill, slots, req)

\* Nobody who stands in a slot is taken out by the job.
TakesNobodyOut ==
    CommitGiven =>
       \A s \in Slots :
          slots[s].servant \in {NoServant, slots'[s].servant}
             \/ slots[s].status \in {"DECLINED", "SUBSTITUTE_PENDING"}
             \/ fill.overtaken
             \/ raced

\* The fields of a job that is edited.
LEMMA EditedFields ==
  ASSUME NEW job, Job(job), NEW listed, NEW used, NEW by, NEW overtaken
  PROVE  LET F(e, l, b, o) == e.kind = job.kind /\ e.listed = l /\ e.by = b /\ e.overtaken = o
         IN  /\ F([job EXCEPT !.listed = listed], listed, job.by, job.overtaken)
             /\ F([job EXCEPT !.listed = listed, !.used = used], listed, job.by, job.overtaken)
             /\ F([job EXCEPT !.listed = listed, !.by = by], listed, by, job.overtaken)
             /\ F([job EXCEPT !.used = used, !.by = by], job.listed, by, job.overtaken)
             /\ F([job EXCEPT !.overtaken = overtaken], job.listed, job.by, overtaken)
<1>1. PICK k, l, u, b, o :
         job = [kind |-> k, listed |-> l, used |-> u, by |-> b, overtaken |-> o]
  BY DEF Job
<1> QED
  BY <1>1

\* Going on with the list keeps what is known of it; so does stopping.
LEMMA ContinuedStillFree ==
  ASSUME NEW job, NEW table, NEW reqs, StillFree(job, table, reqs)
  PROVE  StillFree(Continued(job), table, reqs)
<1>1. StillFree(NoFill, table, reqs)
  BY DEF StillFree, NoFill
<1>2. CASE DOMAIN job.listed = {}
  <2>1. Continued(job) = NoFill
    BY <1>2 DEF Continued
  <2> QED
    BY <1>1, <2>1
<1>3. CASE DOMAIN job.listed # {}
  <2>1. Continued(job) = job
    BY <1>3 DEF Continued
  <2> QED
    BY <2>1
<1> QED
  BY <1>2, <1>3

LEMMA RefusedStillFree ==
  ASSUME Job(fill), NEW table, NEW reqs, NEW listed, DOMAIN listed \subseteq DOMAIN fill.listed,
         StillFree(fill, table, reqs)
  PROVE  StillFree(Refused(listed), table, reqs)
<1> DEFINE job == [fill EXCEPT !.listed = listed, !.by = NoRequest]
<1>1. /\ job.kind = fill.kind /\ job.listed = listed
      /\ job.by = NoRequest /\ job.overtaken = fill.overtaken
  BY EditedFields
<1>3. StillFree(job, table, reqs)
  <2> HIDE DEF job
  <2> QED
    BY <1>1 DEF StillFree
<1>4. StillFree(NoFill, table, reqs)
  BY DEF StillFree, NoFill
<1> QED
  BY <1>3, <1>4, ContinuedStillFree DEF Refused

\* A job that is refused with its list as it is has no request any more.
LEMMA RefusedAsItIs ==
  ASSUME Job(fill), NEW reqs, NEW others, NEW table, StillFree(fill, table, reqs)
  PROVE  StillFree(Refused(fill.listed), table, others)
<1>1. PICK k, l, u, b, o :
         fill = [kind |-> k, listed |-> l, used |-> u, by |-> b, overtaken |-> o]
  BY DEF Job
<1>2. StillFree([fill EXCEPT !.by = NoRequest], table, others)
  BY <1>1 DEF StillFree
<1>3. [fill EXCEPT !.listed = fill.listed, !.by = NoRequest] = [fill EXCEPT !.by = NoRequest]
  BY <1>1
<1>4. StillFree(NoFill, table, others)
  BY DEF StillFree, NoFill
<1>5. StillFree(Continued([fill EXCEPT !.by = NoRequest]), table, others)
  BY <1>2, ContinuedStillFree
<1> QED
  BY <1>3, <1>4, <1>5 DEF Refused

\* What the commit of an assignment leaves alone.
LEMMA CommitAssignTouches ==
  ASSUME UnracedInv, NEW r \in Requests, CommitAssign(r)
  PROVE  /\ req[r].slot \in Slots
         /\ \A t \in Slots \ {req[r].slot} :
               slots'[t].servant = slots[t].servant /\ slots'[t].status = slots[t].status
<1> DEFINE s == req[r].slot
           x == req[r].servant
           filled(id) == [slots EXCEPT ![s] = AssignedSlot(x, id)]
<1>1. s \in Slots /\ slots \in [Slots -> ScheduleSlot]
  BY DEF UnracedInv, IInv, RequestsOK, TablesOK, Ready, CommitAssign
<1>2. PICK id, left : slots' = Unlink(filled(id), left)
  BY DEF CommitAssign
<1>3. ASSUME NEW t \in Slots \ {s}
      PROVE  slots'[t].servant = slots[t].servant /\ slots'[t].status = slots[t].status
  <2>1. filled(id)[t] = slots[t] /\ slots[t] \in ScheduleSlot
    BY <1>1
  <2> HIDE DEF filled
  <2>2. slots'[t] = IF slots[t].schedule \in left
                    THEN [slots[t] EXCEPT !.schedule = NoSchedule] ELSE slots[t]
    BY <1>2, <2>1 DEF Unlink
  <2> QED
    BY <2>1, <2>2 DEF ScheduleSlot
<1> QED
  BY <1>1, <1>3

\* A step beside the job, of another request, leaves the job's request where it
\* was.
LEMMA BesideKeepsRequest ==
  ASSUME UnracedInv, NEW b \in Requests,
         \/ \E r \in Requests \ {b} :
               SlotRequest(r) \/ ResponseRequest(r) \/ RowRequest(r) \/ WriteFails(r)
         \/ CloseSchedule \/ ReopenService
         \/ \E x \in Servants, status \in AttendanceStatuses : RecordAttendance(x, status)
  PROVE  req'[b].slot = req[b].slot
<1>1. req \in [Requests -> Request] /\ req[b] \in Request
  BY DEF UnracedInv, IInv, RequestsOK
<1>2. [req[b] EXCEPT !.stale = TRUE].slot = req[b].slot
  BY <1>1 DEF Request
<1>3. ASSUME NEW r \in Requests \ {b}, NEW next, Wrote(r, next)
      PROVE  req'[b].slot = req[b].slot
  BY <1>2, <1>3 DEF Wrote
<1>4. ASSUME NEW r \in Requests \ {b}, NEW locals, req' = [req EXCEPT ![r] = locals]
      PROVE  req'[b].slot = req[b].slot
  BY <1>1, <1>4
<1>5. ASSUME WroteAtOnce PROVE req'[b].slot = req[b].slot
  BY <1>2, <1>5 DEF WroteAtOnce
<1>6. ASSUME NEW r \in Requests \ {b}, SlotRequest(r) PROVE req'[b].slot = req[b].slot
  <2>1. \/ \E locals : req' = [req EXCEPT ![r] = locals]
        \/ \E next : Wrote(r, next)
    <3>1. CASE \E s \in Slots, x \in Servants : AdmitAssign(r, s, x)
      BY <3>1 DEF AdmitAssign, Begin
    <3>2. CASE \E s \in Slots, x \in Servants, op \in {"swap", "fill"} :
                  CallSwapOrFill(r, s, x, op)
      BY <3>2 DEF CallSwapOrFill, Begin
    <3>3. CASE AdmitSwapOrFill(r)
      <4>1. \/ req' = [req EXCEPT ![r].stage = "admitted",
                                  ![r].prev = slots[req[r].slot].servant]
            \/ Advance(r, "relabel")
            \/ End(r)
        BY <3>3 DEF AdmitSwapOrFill
      <4>2. CASE req' = [req EXCEPT ![r].stage = "admitted",
                                    ![r].prev = slots[req[r].slot].servant]
        <5>1. req' = [req EXCEPT ![r] = [req[r] EXCEPT !.stage = "admitted",
                                            !.prev = slots[req[r].slot].servant]]
          BY <1>1, <4>2
        <5> QED
          BY <5>1
      <4> QED
        BY <4>1, <4>2 DEF Advance, End
    <3>4. CASE CheckAssign(r)
      BY <3>4 DEF CheckAssign, Advance, End
    <3>5. CASE CommitAssign(r)
      BY <3>5 DEF CommitAssign
    <3>6. CASE Relabel(r)
      BY <3>6 DEF Relabel
    <3>7. CASE \E s \in Slots : CallUnassign(r, s)
      BY <3>7 DEF CallUnassign, Begin
    <3>8. CASE CommitUnassign(r)
      BY <3>8 DEF CommitUnassign
    <3>9. CASE \E s \in Slots, op \in {"lock", "unlock"} : CallLock(r, s, op)
      BY <3>9 DEF CallLock, Begin
    <3>10. CASE CommitLock(r)
      BY <3>10 DEF CommitLock
    <3>11. CASE CountSlots(r)
      <4>1. req' = [req EXCEPT ![r] = [req[r] EXCEPT !.stage = "counted",
                                          !.alone = (Others(req[r]) = {})]]
        BY <1>1, <3>11 DEF CountSlots
      <4> QED
        BY <4>1
    <3> QED
      BY <1>6, <3>1, <3>2, <3>3, <3>4, <3>5, <3>6, <3>7, <3>8, <3>9, <3>10, <3>11
      DEF SlotRequest
  <2> QED
    BY <1>3, <1>4, <2>1
<1>7. ASSUME NEW r \in Requests \ {b}, ResponseRequest(r) PROVE req'[b].slot = req[b].slot
  <2>1. \/ \E locals : req' = [req EXCEPT ![r] = locals]
        \/ \E next : Wrote(r, next)
    BY <1>7 DEF ResponseRequest, CallRespond, CommitRespond, CallMeRespond,
                CommitMeRespond, Begin
  <2> QED
    BY <1>3, <1>4, <2>1
<1>8. ASSUME NEW r \in Requests \ {b}, RowRequest(r) PROVE req'[b].slot = req[b].slot
  <2>1. \/ \E locals : req' = [req EXCEPT ![r] = locals]
        \/ \E next : Wrote(r, next)
    BY <1>8 DEF RowRequest, CallCreate, CommitCreate, CallMove, CommitMove, CallExchange,
                CommitExchange, Begin
  <2> QED
    BY <1>3, <1>4, <2>1
<1>9. ASSUME NEW r \in Requests \ {b}, WriteFails(r) PROVE req'[b].slot = req[b].slot
  BY <1>4, <1>9 DEF WriteFails, End
<1>10. ASSUME CloseSchedule \/ ReopenService PROVE req'[b].slot = req[b].slot
  BY <1>5, <1>10 DEF CloseSchedule, ReopenService
<1>11. ASSUME NEW x \in Servants, NEW status \in AttendanceStatuses,
              RecordAttendance(x, status)
       PROVE  req'[b].slot = req[b].slot
  BY <1>5, <1>11 DEF RecordAttendance
<1> QED
  BY <1>6, <1>7, <1>8, <1>9, <1>10, <1>11

LEMMA FillInvStep ==
  ASSUME FillInv, [FillNext]_fillVars
  PROVE  FillInv' /\ TakesNobodyOut
<1>0. Job(fill) /\ UnracedInv /\ StillFree(fill, slots, req)
  BY DEF FillInv
<1>1. Job(fill') /\ UnracedInv'
  BY <1>0, FillStep, NextKept
<1>2. ASSUME NEW kind \in Jobs, NEW ms \in Allowed(kind), StartFill(kind, ms)
      PROVE  StillFree(fill', slots', req') /\ TakesNobodyOut
  <2> DEFINE wanted == {s \in Slots : MinistryOf[s] \in ms /\ Wanted(kind, s)}
             listed == [s \in wanted |-> slots[s]]
  <2>1. /\ \E u : fill' = [NoFill EXCEPT !.kind = kind, !.listed = listed, !.used = u]
        /\ slots' = slots
    BY <1>2 DEF StartFill, vars
  <2>2. fill'.kind = kind /\ fill'.listed = listed /\ fill'.by = NoRequest
    BY <2>1 DEF NoFill
  <2>3. \A s \in wanted : Free(slots[s])
    BY DEF Jobs, Wanted, Free
  <2>4. DOMAIN listed = wanted /\ wanted \subseteq Slots
    OBVIOUS
  <2>5. kind # "none"
    BY DEF Jobs
  <2>6. ~ CommitGiven
    BY <1>0, <1>2 DEF StartFill, CommitGiven, Running, StillFree
  <2> HIDE DEF wanted, listed
  <2> QED
    BY <2>1, <2>2, <2>3, <2>4, <2>5, <2>6 DEF StillFree, TakesNobodyOut
<1>3. ASSUME NEW s \in Slots, PassOver(s)
      PROVE  StillFree(fill', slots', req') /\ TakesNobodyOut
  <2> DEFINE job == [fill EXCEPT !.listed = Without(s)]
  <2>1. /\ fill' = Continued(job) /\ slots' = slots /\ req' = req /\ fill.by = NoRequest
    BY <1>3 DEF PassOver, vars
  <2>2. DOMAIN Without(s) = DOMAIN fill.listed \ {s}
    BY DEF Without, Todo
  <2>3. /\ job.kind = fill.kind /\ job.listed = Without(s)
        /\ job.by = fill.by /\ job.overtaken = fill.overtaken
    BY <1>0, EditedFields
  <2> HIDE DEF job
  <2>4. StillFree(job, slots, req)
    BY <1>0, <2>1, <2>2, <2>3 DEF StillFree
  <2> QED
    BY <2>1, <2>4, ContinuedStillFree DEF TakesNobodyOut, CommitGiven
<1>4. ASSUME NEW r \in Requests, NEW s \in Slots, NEW x \in Servants, GiveSlot(r, s, x)
      PROVE  StillFree(fill', slots', req') /\ TakesNobodyOut
  <2>1. DOMAIN Without(s) = DOMAIN fill.listed \ {s}
    BY DEF Without, Todo
  <2>2. /\ fill.by = NoRequest /\ fill.kind # "none" /\ s \in DOMAIN fill.listed
    BY <1>4 DEF GiveSlot, Running, Todo
  <2>3. CASE UNCHANGED vars /\ fill' = Refused(Without(s))
    <3>1. slots' = slots /\ req' = req
      BY <2>3 DEF vars
    <3> QED
      BY <1>0, <2>1, <2>2, <2>3, <3>1, RefusedStillFree DEF TakesNobodyOut, CommitGiven
  <2>4. CASE /\ UNCHANGED vars
             /\ fill' = Continued([fill EXCEPT !.listed = Without(s), !.used = @ \cup {x}])
    <3> DEFINE job == [fill EXCEPT !.listed = Without(s), !.used = fill.used \cup {x}]
    <3>1. fill' = Continued(job) /\ slots' = slots /\ req' = req
      BY <2>4 DEF vars
    <3>2. /\ job.kind = fill.kind /\ job.listed = Without(s)
          /\ job.by = fill.by /\ job.overtaken = fill.overtaken
      BY <1>0, EditedFields
    <3> HIDE DEF job
    <3>3. StillFree(job, slots, req)
      BY <1>0, <2>1, <2>2, <3>2 DEF StillFree
    <3> QED
      BY <2>2, <3>1, <3>3, ContinuedStillFree DEF TakesNobodyOut, CommitGiven
  <2>5. CASE AdmitAssign(r, s, x) /\ fill' = [fill EXCEPT !.listed = Without(s), !.by = r]
    <3>1. slots' = slots /\ req'[r].slot = s
      BY <1>0, <2>5 DEF AdmitAssign, Begin, Idle, UnracedInv, IInv, RequestsOK
    <3>2. /\ fill'.kind = fill.kind /\ fill'.listed = Without(s)
          /\ fill'.by = r /\ fill'.overtaken = fill.overtaken
      <4> DEFINE job == [fill EXCEPT !.listed = Without(s), !.by = r]
      <4>1. /\ job.kind = fill.kind /\ job.listed = Without(s)
            /\ job.by = r /\ job.overtaken = fill.overtaken
        BY <1>0, EditedFields
      <4>2. fill' = job
        BY <2>5
      <4> HIDE DEF job
      <4> QED
        BY <4>1, <4>2
    <3> QED
      BY <1>0, <2>1, <2>2, <3>1, <3>2 DEF StillFree, TakesNobodyOut, CommitGiven
  <2> QED
    BY <1>4, <2>3, <2>4, <2>5 DEF GiveSlot
<1>5. ASSUME CheckGiven
      PROVE  StillFree(fill', slots', req') /\ TakesNobodyOut
  <2>1. fill.by \in Requests /\ CheckAssign(fill.by) /\ fill.by # NoRequest
    BY <1>0, <1>5 DEF CheckGiven, Job
  <2>2. slots' = slots /\ ~ CommitGiven
    BY <2>1 DEF CheckAssign, Advance, End, CommitGiven, CommitAssign
  <2>3. CASE fill' = fill /\ req'[fill.by].stage = "checked"
    <3>1. req'[fill.by].slot = req[fill.by].slot
      <4>1. /\ req \in [Requests -> Request]
            /\ req' = [req EXCEPT ![fill.by].stage = "checked"]
               \/ req' = [req EXCEPT ![fill.by] = Idle]
        BY <1>0, <2>1 DEF UnracedInv, IInv, RequestsOK, CheckAssign, Advance, End
      <4>2. req' = [req EXCEPT ![fill.by].stage = "checked"]
        BY <2>1, <2>3, <4>1 DEF Idle
      <4> QED
        BY <2>1, <4>1, <4>2 DEF Request
    <3> QED
      BY <1>0, <2>2, <2>3, <3>1 DEF StillFree, TakesNobodyOut
  <2>4. CASE fill' = Refused(fill.listed)
    BY <1>0, <2>2, <2>4, RefusedAsItIs DEF TakesNobodyOut
  <2> QED
    BY <1>5, <2>3, <2>4 DEF CheckGiven
<1>6. ASSUME CommitGiven
      PROVE  StillFree(fill', slots', req') /\ TakesNobodyOut
  <2> DEFINE b == fill.by
             s == req[b].slot
             job == [fill EXCEPT !.used = fill.used \cup {req[b].servant}, !.by = NoRequest]
  <2>1. /\ b \in Requests /\ b # NoRequest /\ CommitAssign(b)
        /\ fill' = Continued(job)
    BY <1>0, <1>6 DEF CommitGiven, Job
  <2>2. /\ s \in Slots
        /\ \A t \in Slots \ {s} :
              slots'[t].servant = slots[t].servant /\ slots'[t].status = slots[t].status
    BY <1>0, <2>1, CommitAssignTouches
  <2>3. fill.kind # "none"
    BY <1>0, <2>1 DEF StillFree
  <2>4. ~ fill.overtaken => Free(slots[s]) /\ s \notin DOMAIN fill.listed
    BY <1>0, <2>1, <2>3 DEF StillFree
  <2>5. StillFree(fill', slots', req')
    <3>1. /\ job.kind = fill.kind /\ job.listed = fill.listed
          /\ job.by = NoRequest /\ job.overtaken = fill.overtaken
      BY <1>0, EditedFields
    <3> HIDE DEF job, s
    <3>2. ASSUME ~ fill.overtaken, NEW t \in DOMAIN fill.listed
          PROVE  t \in Slots /\ Free(slots'[t])
      <4>1. t \in Slots /\ t # s /\ Free(slots[t])
        BY <1>0, <2>3, <2>4, <3>2 DEF StillFree
      <4> QED
        BY <2>2, <4>1 DEF Free
    <3>3. StillFree(job, slots', req')
      BY <3>1, <3>2 DEF StillFree
    <3> QED
      BY <2>1, <3>3, ContinuedStillFree
  <2>6. TakesNobodyOut
    <3> SUFFICES ASSUME NEW t \in Slots, ~ fill.overtaken, ~ raced
                 PROVE  \/ slots[t].servant \in {NoServant, slots'[t].servant}
                        \/ slots[t].status \in {"DECLINED", "SUBSTITUTE_PENDING"}
      BY DEF TakesNobodyOut
    <3>1. CASE t # s
      BY <2>2, <3>1
    <3>2. CASE t = s
      <4>1. slots[t].status = "EMPTY" => slots[t].servant = NoServant
        BY <1>0 DEF UnracedInv, Sound, LooksTaken
      <4> QED
        BY <2>4, <3>2, <4>1 DEF Free
    <3> QED
      BY <3>1, <3>2
  <2> QED
    BY <2>5, <2>6
<1>7. ASSUME Beside
      PROVE  StillFree(fill', slots', req')
  <2> DEFINE o == fill.overtaken \/ (Running /\ slots' # slots)
  <2>1. fill' = [fill EXCEPT !.overtaken = o]
    BY <1>7 DEF Beside
  <2>2. /\ fill'.kind = fill.kind /\ fill'.listed = fill.listed
        /\ fill'.by = fill.by /\ fill'.overtaken = o
    <3> DEFINE job == [fill EXCEPT !.overtaken = o]
    <3>1. /\ job.kind = fill.kind /\ job.listed = fill.listed
          /\ job.by = fill.by /\ job.overtaken = o
      BY <1>0, EditedFields
    <3>2. fill' = job
      BY <2>1
    <3> HIDE DEF job
    <3> QED
      BY <3>1, <3>2
  <2>3. fill.by # NoRequest => req'[fill.by].slot = req[fill.by].slot
    <3>1. fill.by # NoRequest => fill.by \in Requests
      BY <1>0 DEF Job
    <3> QED
      BY <1>0, <1>7, <3>1, BesideKeepsRequest DEF Beside
  <2>4. fill.kind # "none" /\ ~ o => ~ fill.overtaken /\ slots' = slots
    BY DEF Running
  <2> HIDE DEF o
  <2> QED
    BY <1>0, <2>2, <2>3, <2>4 DEF StillFree
<1>8. ASSUME UNCHANGED fillVars
      PROVE  StillFree(fill', slots', req')
  BY <1>0, <1>8 DEF fillVars, vars
<1>9. ASSUME CountGiven
      PROVE  StillFree(fill', slots', req')
  <2>1. fill.by \in Requests /\ fill' = fill /\ slots' = slots
    BY <1>0, <1>9 DEF CountGiven, CountSlots, Job
  <2>2. req'[fill.by].slot = req[fill.by].slot
    <3>1. /\ req \in [Requests -> Request]
          /\ req' = [req EXCEPT ![fill.by].stage = "counted",
                               ![fill.by].alone = (Others(req[fill.by]) = {})]
      BY <1>0, <1>9 DEF CountGiven, CountSlots, UnracedInv, IInv, RequestsOK
    <3> QED
      BY <2>1, <3>1 DEF Request
  <2> QED
    BY <1>0, <2>1, <2>2 DEF StillFree
<1>10. ASSUME GivenFails
       PROVE  StillFree(fill', slots', req')
  <2>1. fill' = Refused(fill.listed) /\ slots' = slots
    BY <1>10 DEF GivenFails, WriteFails, End
  <2> QED
    BY <1>0, <2>1, RefusedAsItIs
<1>11. StillFree(fill', slots', req')
  BY <1>2, <1>3, <1>4, <1>5, <1>6, <1>7, <1>8, <1>9, <1>10 DEF FillNext
<1> QED
  BY <1>1, <1>6, <1>11 DEF FillInv, TakesNobodyOut

\* A bulk operation takes nobody out of a slot who has not declined, unless another
\* request has changed slots since the list was made, or requests had raced: for
\* any number of slots, and with no bound on the calls beside it.
THEOREM FillTakesNobodyOut == FillSpec => FillsWhatIsFree
<1>1. FillInit => FillInv
  BY NoFillIsJob, InitKept DEF FillInit, FillInv, StillFree, NoFill
<1>2. FillInv /\ [FillNext]_fillVars => FillInv'
  BY FillInvStep
<1>3. FillInv /\ [FillNext]_fillVars =>
         [CommitGiven =>
            \A s \in Slots :
               slots[s].servant \in {NoServant, slots'[s].servant}
                  \/ slots[s].status \in {"DECLINED", "SUBSTITUTE_PENDING"}
                  \/ fill.overtaken
                  \/ raced]_fillVars
  BY FillInvStep DEF TakesNobodyOut
<1> QED
  BY <1>1, <1>2, <1>3, PTL DEF FillSpec, FillsWhatIsFree
=============================================================================
