----------------------------- MODULE SlotFilling -----------------------------
(***************************************************************************)
(* The bulk operations on the slots of a service: autoGenerateSchedule     *)
(* ("auto"), fillEmptySlotsForService ("empty") and autoGenerateExplained  *)
(* ("explained").  Each lists the slots it wants to fill once, and then    *)
(* goes through the list: it looks for a servant, with the slot as it was  *)
(* listed, and calls assignSlot, the request of ScheduleSlots, which reads *)
(* the slot again.  Other requests come between any two steps.             *)
(*                                                                         *)
(* The score that chooses among candidates is left out (any of them may be *)
(* chosen), and the slots that autoGenerateSchedule first makes from the   *)
(* template are there already.  One job runs at a time here (a bound).     *)
(***************************************************************************)
EXTENDS ScheduleSlots

CONSTANTS
    MaxFillCalls,   \* bound on the calls of a behaviour by the time a job ends
    NoRequest

ASSUME FillingAssumption == MaxFillCalls \in Nat /\ NoRequest \notin Requests

VARIABLE
    fill        \* the local variables of the job; overtaken is history: has
                \* another request written slots since they were listed?

fillVars == <<vars, fill>>

Jobs == {"auto", "empty", "explained"}
NoFill ==
    [kind |-> "none", listed |-> <<>>, used |-> {}, by |-> NoRequest, overtaken |-> FALSE]

Running == fill.kind # "none"
Todo == DOMAIN fill.listed

-----------------------------------------------------------------------------
\* Seeded fault: the status of a slot is not looked at.
Wanted_All(kind, s) == TRUE

\* Which slots of its ministries a job lists.
Wanted(kind, s) ==
    CASE kind = "auto" ->
           slots[s].servant = NoServant \/ slots[s].status \in {"EMPTY", "DECLINED", "SUBSTITUTE_PENDING"}
      [] kind = "empty" -> slots[s].status = "EMPTY"
      [] kind = "explained" -> slots[s].servant = NoServant \/ slots[s].status = "EMPTY"

Serving == {slots[s].servant : s \in Slots} \ {NoServant}

\* The ministries of a job: all, those a coordinator has of them, or the one that
\* is asked for.
Allowed(kind) ==
    CASE kind = "auto" -> {Ministries}
      [] kind = "empty" -> (SUBSET Ministries) \ {{}}
      [] kind = "explained" -> {{m} : m \in Ministries}

\* Only autoGenerateSchedule asks whether the service is closed.
StartFill(kind, ms) ==
    LET wanted == {s \in Slots : MinistryOf[s] \in ms /\ Wanted(kind, s)}
    IN  /\ ~ Running /\ calls < MaxFillCalls
        /\ kind = "auto" => ~ closed
        /\ wanted # {}
        /\ fill' = [NoFill EXCEPT !.kind = kind, !.listed = [s \in wanted |-> slots[s]],
                                  !.used = IF kind = "empty" THEN Serving ELSE {}]
        /\ UNCHANGED vars

\* listSlotEligibility for the slot as it was listed.
Candidates(s) ==
    {x \in Servants \ fill.used :
        /\ ~ fill.listed[s].blocked
        /\ Eligible(x, MinistryOf[s], fill.listed[s].servant)}

Without(s) == [t \in Todo \ {s} |-> fill.listed[t]]

\* The job when it goes on; it ends with its list.
Continued(job) == IF DOMAIN job.listed = {} THEN NoFill ELSE job

\* When assignSlot throws, only fillEmptySlotsForService goes on.
Refused(listed) ==
    IF fill.kind = "empty" THEN Continued([fill EXCEPT !.listed = listed, !.by = NoRequest]) ELSE NoFill

PassOver(s) ==
    /\ Running /\ fill.by = NoRequest /\ s \in Todo
    /\ Candidates(s) = {}
    /\ fill' = Continued([fill EXCEPT !.listed = Without(s)])
    /\ UNCHANGED vars

\* assignSlot with a candidate: refused, done already, or begun.
GiveSlot(r, s, x) ==
    /\ Running /\ fill.by = NoRequest /\ s \in Todo /\ x \in Candidates(s)
    /\ \/ /\ ~ Assignable(s)
          /\ fill' = Refused(Without(s))
          /\ UNCHANGED vars
       \/ /\ Assignable(s) /\ Repeats(s, x)
          /\ fill' = Continued([fill EXCEPT !.listed = Without(s), !.used = @ \cup {x}])
          /\ UNCHANGED vars
       \/ /\ AdmitAssign(r, s, x)
          /\ fill' = [fill EXCEPT !.listed = Without(s), !.by = r]

CheckGiven ==
    /\ fill.by # NoRequest
    /\ CheckAssign(fill.by)
    /\ fill' = IF req'[fill.by].stage = "checked" THEN fill ELSE Refused(fill.listed)

CountGiven ==
    /\ fill.by # NoRequest
    /\ CountSlots(fill.by)
    /\ UNCHANGED fill

CommitGiven ==
    /\ fill.by # NoRequest
    /\ CommitAssign(fill.by)
    /\ fill' = Continued([fill EXCEPT !.used = @ \cup {req[fill.by].servant}, !.by = NoRequest])

\* The transaction of assignSlot is rolled back.
GivenFails ==
    /\ fill.by # NoRequest
    /\ WriteFails(fill.by)
    /\ fill' = Refused(fill.listed)

-----------------------------------------------------------------------------
FillInit == Init /\ fill = NoFill

\* Every other step, while a job may be running.
Beside ==
    /\ \/ \E r \in Requests \ {fill.by} :
             SlotRequest(r) \/ ResponseRequest(r) \/ RowRequest(r) \/ WriteFails(r)
       \/ CloseSchedule \/ ReopenService
       \/ \E x \in Servants, status \in AttendanceStatuses : RecordAttendance(x, status)
    /\ fill' = [fill EXCEPT !.overtaken = @ \/ (Running /\ slots' # slots)]

FillNext ==
    /\ \/ \E kind \in Jobs : \E ms \in Allowed(kind) : StartFill(kind, ms)
       \/ \E s \in Slots : PassOver(s)
       \/ \E r \in Requests, s \in Slots, x \in Servants : GiveSlot(r, s, x)
       \/ CheckGiven
       \/ CountGiven
       \/ CommitGiven
       \/ GivenFails
       \/ Beside
    /\ LocksHeld
    /\ Running => calls' <= MaxFillCalls

FillSpec == FillInit /\ [][FillNext]_fillVars

-----------------------------------------------------------------------------
(* Properties                                                              *)

\* A bulk operation takes nobody out of a slot who has not declined and is not
\* asked as a substitute, unless another request changed slots since it listed
\* them, or requests had raced before (an unlock that raced leaves a slot that
\* looks empty with its servant): assignSlot does not ask whether a slot is still
\* empty.
FillsWhatIsFree ==
    [][CommitGiven =>
          \A s \in Slots :
             slots[s].servant \in {NoServant, slots'[s].servant}
                \/ slots[s].status \in {"DECLINED", "SUBSTITUTE_PENDING"}
                \/ fill.overtaken
                \/ raced]_fillVars
=============================================================================
