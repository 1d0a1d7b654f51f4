---------------------------- MODULE PastoralCare ----------------------------
(***************************************************************************)
(* The care for servants (modules/pastoral-visits): alerts that events and *)
(* a recurring job raise, cases (PastoralVisit) with their follow-ups, and *)
(* what closing a case does to alerts.  It works on the servants of        *)
(* Accounts, beside whoever changes them.                                  *)
(*                                                                         *)
(* Neither the dedupe key of an alert nor the open case of a servant is    *)
(* unique in the database: each is looked for, and made later.             *)
(***************************************************************************)
EXTENDS Access

CONSTANTS
    Keys,           \* what an alert is about: its dedupe key but for the servant
    Recurring,      \* keys the recurring job looks for; the others come with events
    Following,      \* keys whose policy asks for a follow-up
    Alerts, Visits, \* ids, in the order they are made: bounds on them
    NoAlert, NoVisit

OpenStatuses == {"ABERTA", "EM_ANDAMENTO"}
CaseStatuses == OpenStatuses \cup {"RESOLVIDA"}

\* Rows of the tables.
AlertRow == [servant : Servants, key : Keys, status : {"OPEN", "RESOLVED"}]
VisitRow == [servant : Servants, status : CaseStatuses, due : Nat]

ASSUME CareAssumption ==
    /\ Recurring \subseteq Keys /\ Recurring # {} /\ Following \subseteq Keys
    /\ Alerts \subseteq Nat /\ IsFiniteSet(Visits) /\ Visits \subseteq 1..Cardinality(Visits)
    /\ NoAlert \notin AlertRow /\ NoVisit \notin VisitRow

VARIABLES
    alerts,         \* PastoralAlert
    visits,         \* PastoralVisit with the number of its follow-ups still due
    beside,         \* history: servants with a case made by hand or opened again,
                    \* whatever others they had
    covered         \* history: alerts that were open when a case was closed

careTables == <<alerts, visits>>
careHistory == <<beside, covered>>
careVars == <<careTables, careHistory>>

-----------------------------------------------------------------------------
Raised(a) == alerts[a] # NoAlert
OpenAlerts(s) == {a \in Alerts : Raised(a) /\ alerts[a].servant = s /\ alerts[a].status = "OPEN"}
OpenDuplicates(key, s) == {a \in OpenAlerts(s) : alerts[a].key = key}
Opened(v) == visits[v] # NoVisit
OpenCases(s) == {v \in Visits : Opened(v) /\ visits[v].servant = s /\ visits[v].status \in OpenStatuses}
Case(s) == <<"case", s>>

First(ids) == CHOOSE i \in ids : \A j \in ids : i <= j
FreeAlerts == {a \in Alerts : ~ Raised(a)}
FreeVisits == {v \in Visits : ~ Opened(v)}
OpenVisit(s) ==
    visits' = [visits EXCEPT ![First(FreeVisits)] = [servant |-> s, status |-> "ABERTA", due |-> 0]]

-----------------------------------------------------------------------------
(* Alerts.                                                                 *)

Signal(key, s, todo) ==
    [kind |-> "signal", stage |-> "raising", touches |-> {<<key, s>>},
     key |-> key, servant |-> s, todo |-> todo]

\* createAlertIfNeeded, from an event.  Every policy that is in use allows an
\* alert that was resolved to come back.
CallSignal(r, key, s) ==
    /\ Present(s) /\ key \notin Recurring /\ OpenDuplicates(key, s) = {}
    /\ Call(r, Signal(key, s, {}))
    /\ UNCHANGED careVars

\* runRecurringRules goes from servant to servant.  The timer and a run asked for
\* one church take different locks, so two of them may be under way.
CallSurvey(r) ==
    /\ Call(r, [kind |-> "survey", stage |-> "surveying", touches |-> {},
                todo |-> {s \in Servants : Present(s)}])
    /\ UNCHANGED careVars

Surveying(r, todo) ==
    IF todo = {} THEN Finish(r)
    ELSE Step(r, [kind |-> "survey", stage |-> "surveying", touches |-> {}, todo |-> todo])

\* What the queries about a servant show is left open.
SurveyNext(r) ==
    /\ req[r].stage = "surveying"
    /\ \E s \in req[r].todo :
          \/ Surveying(r, req[r].todo \ {s})
          \/ \E key \in Recurring :
                /\ OpenDuplicates(key, s) = {}
                /\ Step(r, Signal(key, s, req[r].todo \ {s}))
    /\ UNCHANGED careVars

Raise(r) ==
    /\ req[r].stage = "raising" /\ FreeAlerts # {}
    /\ alerts' = [alerts EXCEPT ![First(FreeAlerts)] =
                     [servant |-> req[r].servant, key |-> req[r].key, status |-> "OPEN"]]
    /\ IF req[r].key \in Following
       THEN Step(r, [req[r] EXCEPT !.stage = "seekingCase"]) ELSE Surveying(r, req[r].todo)
    /\ UNCHANGED <<visits, careHistory>>

\* createAutomaticFollowUpIfPossible, for the case opened last.
SeekCase(r) ==
    LET cases == OpenCases(req[r].servant)
    IN  /\ req[r].stage = "seekingCase"
        /\ IF cases = {} THEN Surveying(r, req[r].todo)
           ELSE Step(r, [kind |-> "signal", stage |-> "following", touches |-> {},
                         visit |-> CHOOSE v \in cases : \A w \in cases : w <= v,
                         todo |-> req[r].todo])
        /\ UNCHANGED careVars

Follow(r) ==
    /\ req[r].stage = "following"
    /\ visits' = [visits EXCEPT ![req[r].visit].due = @ + 1]
    /\ Surveying(r, req[r].todo)
    /\ UNCHANGED <<alerts, careHistory>>

ResolveAlert(a) ==
    /\ Raised(a) /\ alerts[a].status = "OPEN"
    /\ alerts' = [alerts EXCEPT ![a].status = "RESOLVED"]
    /\ CallAtOnce({})
    /\ UNCHANGED <<visits, careHistory>>

-----------------------------------------------------------------------------
(* Cases.                                                                  *)

\* createRecord, beside the cases there are.
OpenCase(s) ==
    /\ Present(s) /\ FreeVisits # {}
    /\ OpenVisit(s)
    /\ beside' = beside \cup {s}
    /\ CallAtOnce({Case(s)})
    /\ UNCHANGED <<alerts, covered>>

\* openRecordFromAlert, if the servant has no open case.
CallOpenFromAlert(r, a) ==
    /\ Raised(a) /\ OpenCases(alerts[a].servant) = {}
    /\ Call(r, [kind |-> "openCase", stage |-> "openingCase",
                touches |-> {Case(alerts[a].servant)}, servant |-> alerts[a].servant])
    /\ UNCHANGED careVars

CommitOpenFromAlert(r) ==
    /\ req[r].stage = "openingCase" /\ FreeVisits # {}
    /\ OpenVisit(req[r].servant)
    /\ Finish(r)
    /\ UNCHANGED <<alerts, careHistory>>

\* A case that is closed, and written as open, may not be the servant's only one.
Rewrite(v, status) ==
    /\ visits' = [visits EXCEPT ![v].status = status]
    /\ beside' = IF visits[v].status = "RESOLVIDA" /\ status # "RESOLVIDA"
                 THEN beside \cup {visits[v].servant} ELSE beside

\* Seeded fault: a case that is under way is not taken for one to close.
CallUpdateCase_OnlyNew(r, v, status) ==
    /\ Opened(v)
    /\ Call(r, [kind |-> "case", stage |-> "writingCase",
                touches |-> {Case(visits[v].servant)}, visit |-> v, status |-> status,
                resolving |-> status = "RESOLVIDA" /\ visits[v].status = "ABERTA"])
    /\ UNCHANGED careVars

\* updateRecord and resolve: the status asked for, or the one that was read.
CallUpdateCase(r, v, status) ==
    /\ Opened(v)
    /\ Call(r, [kind |-> "case", stage |-> "writingCase",
                touches |-> {Case(visits[v].servant)}, visit |-> v, status |-> status,
                resolving |-> status = "RESOLVIDA" /\ visits[v].status # "RESOLVIDA"])
    /\ UNCHANGED careVars

\* The case is closed first, the alerts are resolved next.
CommitCase(r) ==
    /\ req[r].stage = "writingCase"
    /\ Rewrite(req[r].visit, req[r].status)
    /\ covered' = IF visits[req[r].visit].status # "RESOLVIDA" /\ req[r].status = "RESOLVIDA"
                  THEN covered \cup OpenAlerts(visits[req[r].visit].servant) ELSE covered
    /\ IF req[r].resolving THEN Step(r, [req[r] EXCEPT !.stage = "clearing"]) ELSE Finish(r)
    /\ UNCHANGED alerts

ClearAlerts(r) ==
    /\ req[r].stage = "clearing"
    /\ alerts' = [a \in Alerts |-> IF a \in OpenAlerts(visits[req[r].visit].servant)
                                   THEN [alerts[a] EXCEPT !.status = "RESOLVED"] ELSE alerts[a]]
    /\ Finish(r)
    /\ UNCHANGED <<visits, careHistory>>

\* addFollowUp: the follow-up first, then the case, with the status it had or, if
\* it was closed, under way again.
CallAddFollowUp(r, v) ==
    /\ Opened(v)
    /\ Call(r, [kind |-> "followUp", stage |-> "adding",
                touches |-> {Case(visits[v].servant)}, visit |-> v,
                status |-> IF visits[v].status = "RESOLVIDA" THEN "EM_ANDAMENTO"
                           ELSE visits[v].status])
    /\ UNCHANGED careVars

AddFollowUp(r) ==
    /\ req[r].stage = "adding"
    /\ visits' = [visits EXCEPT ![req[r].visit].due = @ + 1]
    /\ Step(r, [req[r] EXCEPT !.stage = "settling"])
    /\ UNCHANGED <<alerts, careHistory>>

SettleCase(r) ==
    /\ req[r].stage = "settling"
    /\ Rewrite(req[r].visit, req[r].status)
    /\ Finish(r)
    /\ UNCHANGED <<alerts, covered>>

CompleteFollowUp(v) ==
    /\ Opened(v) /\ visits[v].due > 0
    /\ visits' = [visits EXCEPT ![v].due = @ - 1]
    /\ CallAtOnce({})
    /\ UNCHANGED <<alerts, careHistory>>
-----------------------------------------------------------------------------
CareTypeOK ==
    /\ alerts \in [Alerts -> {NoAlert} \cup AlertRow]
    /\ visits \in [Visits -> {NoVisit} \cup VisitRow]
    /\ beside \subseteq Servants /\ covered \subseteq Alerts

\* An alert may stand already, and a case of the same servant.
CareInit(alert, status) ==
    /\ alerts = [a \in Alerts |->
          IF alert /\ a = First(Alerts)
          THEN [servant |-> FirstServant, key |-> CHOOSE k \in Recurring : TRUE, status |-> "OPEN"]
          ELSE NoAlert]
    /\ visits = [v \in Visits |->
          IF status # "none" /\ v = First(Visits)
          THEN [servant |-> FirstServant, status |-> status, due |-> 0] ELSE NoVisit]
    /\ beside = {} /\ covered = {}

CareCall(r) ==
    \/ \E key \in Keys, s \in Servants : CallSignal(r, key, s)
    \/ CallSurvey(r)
    \/ \E a \in Alerts : CallOpenFromAlert(r, a)
    \/ \E v \in Visits, status \in CaseStatuses : CallUpdateCase(r, v, status)
    \/ \E v \in Visits : CallAddFollowUp(r, v)

CareAtOnce ==
    \/ \E a \in Alerts : ResolveAlert(a)
    \/ \E s \in Servants : OpenCase(s)
    \/ \E v \in Visits : CompleteFollowUp(v)

CareStep(r) ==
    \/ SurveyNext(r) \/ Raise(r) \/ SeekCase(r) \/ Follow(r)
    \/ CommitOpenFromAlert(r) \/ CommitCase(r) \/ ClearAlerts(r)
    \/ AddFollowUp(r) \/ SettleCase(r)

-----------------------------------------------------------------------------
(* Properties                                                              *)

\* No servant has two open alerts of one dedupe key, nor two open cases but those
\* opened by hand or again, unless two requests looked for it at the same time.
\* The alerts that were open when a case of his was closed are resolved when the
\* request is over, unless it broke off in between, or the case was changed by
\* two requests at the same time.
CareHolds ==
    /\ \A s \in Servants :
          /\ \A key \in Keys : <<key, s>> \notin raced => Cardinality(OpenDuplicates(key, s)) <= 1
          /\ Case(s) \notin raced /\ s \notin beside => Cardinality(OpenCases(s)) <= 1
    /\ failures = 0 /\ ~ InFlight("clearing") =>
          \A a \in covered :
             Case(alerts[a].servant) \in raced \/ alerts[a].status = "RESOLVED"
=============================================================================
