-------------------------- MODULE Journey_proofs --------------------------
(***************************************************************************)
(* Theorems about Journey, for any number of services, deeds, milestones,  *)
(* types of next steps, requests and failures.                             *)
(*                                                                         *)
(* The properties are proved from one invariant, JourneyInv, whose parts   *)
(* are what requests carry (Good), what is known of the counting of        *)
(* absences, of the log of deeds and of milestones, what a request knows   *)
(* that overlaps with no other (Sure), and what keeps a projection that is *)
(* fresh as it is (Harmless).                                              *)
(***************************************************************************)
EXTENDS Journey, FiniteSetTheorems, SequenceTheorems, TLAPS

-----------------------------------------------------------------------------
(* What a request carries.                                                 *)

\* What is still to do of a projection, and of everything else.
RestOfRefresh ==
    {<<>>, <<"nextSteps">>, <<"indicators", "nextSteps">>,
     <<"milestones", "indicators", "nextSteps">>,
     <<"totals", "milestones", "indicators", "nextSteps">>}

RestOfProjection ==
    RestOfRefresh \cup
    {<<"log", "totals", "milestones", "indicators", "nextSteps">>,
     <<"ensure", "log", "totals", "milestones", "indicators", "nextSteps">>}

RestOfView ==
    RestOfRefresh \cup
    {<<"ensure", "totals", "milestones", "indicators", "nextSteps">>,
     <<"ensure", "totals">>, <<"totals">>,
     <<"ensure", "totals", "milestones">>, <<"totals", "milestones">>, <<"milestones">>}

Locals ==
    [kind : Kinds, stage : Stages, service : References \cup {NoService},
     todo : RestOfProjection \cup RestOfView, value : Nat, streak : Nat,
     due : SUBSET Milestones, milestone : Milestones \cup {NoMilestone},
     closing : SUBSET (StepTypes \X Nat), opening : SUBSET StepTypes, row : Nat,
     undisturbed : BOOLEAN]

\* The task a request is at, if any.
Task(q) == IF q.todo = <<>> THEN "none" ELSE Head(q.todo)

Working == {"next", "creating", "logging", "totalling", "unlocking", "awarding", "announcing",
            "scoring", "comparing", "stepping"}

\* The stages of a task.
Fits(stage, task) ==
    /\ stage = "creating" => task = "ensure"
    /\ stage = "logging" => task = "log"
    /\ stage = "totalling" => task = "totals"
    /\ stage \in {"unlocking", "awarding", "announcing"} => task = "milestones"
    /\ stage = "scoring" => task = "indicators"
    /\ stage \in {"comparing", "stepping"} => task = "nextSteps"

InTask(q) ==
    /\ q.stage \notin Working => q.todo = <<>>
    /\ Fits(q.stage, Task(q))

Good(q) ==
    /\ q \in Locals
    /\ q.kind = "none" <=> q.stage = "idle"
    /\ q.stage \in Counting => q.kind \in {"project", "record"} /\ q.service \in Services
    /\ q.stage \in {"assigning", "emitted"} => q.kind = "project"
    /\ q.kind = "record" => q.stage \in Counting
    /\ q.kind = "project" => q.service \in References /\ q.todo \in RestOfProjection
    /\ q.kind # "project" => q.todo \in RestOfView
    /\ q.kind \notin {"project", "record"} => q.service = NoService
    /\ q.stage \in {"awarding", "announcing"} => q.milestone \in Milestones
    /\ q.stage = "scoring" => q.value \in 0..100
    /\ InTask(q)

RequestsGood == DOMAIN req = Requests /\ \A r \in Requests : Good(req[r])

TablesGood ==
    /\ attendance \in [Services -> AttendanceKinds]
    /\ absences \in [monthly : Nat, consecutive : Nat]
    /\ journey \in Nat \cup {NoJourney}
    /\ logs \in [References \cup Milestones -> 0..2]
    /\ milestones \subseteq Milestones
    /\ score \in 0..100
    /\ DOMAIN steps = StepTypes
    /\ \A t \in StepTypes : steps[t] \in Seq({"OPEN", "DONE", "DISMISSED"})
    /\ checkpoints \in Seq(References \cup {NoService})

HistoryGood ==
    /\ calls \in 0..MaxCalls /\ failures \in 0..MaxFailures
    /\ registered \subseteq References
    /\ spoiled \subseteq {"twins", "absences", "journey", "milestone", "opening", "closing"}
    /\ alone \subseteq {"closing"}
    /\ fresh \in BOOLEAN

-----------------------------------------------------------------------------
(* What is known of the tables.                                            *)

\* The absences: whoever is counting them has counted right so far, and if nobody
\* is, what is stored is right.
AbsencesKnown ==
    failures = 0 /\ "absences" \notin spoiled =>
       /\ \A r \in Requests :
             /\ req[r].stage \in {"streaking", "storing"} => req[r].value = Absences
             /\ req[r].stage = "storing" => req[r].streak = Streak
       /\ \/ \E r \in Requests : req[r].stage \in Counting
          \/ absences = [monthly |-> Absences, consecutive |-> Streak]

\* The handler of an event that has still to look into the log, or to write to it.
Pending(r, s) == Handled(r, s) /\ (req[r].stage = "emitted" \/ Task(req[r]) \in {"ensure", "log"})

\* The log of the deeds.
DeedsKnown ==
    /\ \A s \in References : s \notin registered =>
          logs[s] = 0 /\ \A r \in Requests : ~ Handled(r, s)
    /\ failures = 0 /\ spoiled \cap {"twins", "journey"} = {} =>
          /\ \A s \in References :
                /\ \A q, r \in Requests : Handled(q, s) /\ Handled(r, s) => q = r
                /\ \A r \in Requests : Handled(r, s) /\ req[r].stage = "logging" => logs[s] = 0
                /\ logs[s] \in {0, 1}
                /\ s \in registered /\ logs[s] = 0 => \E r \in Requests : Pending(r, s)
          /\ \A i \in DOMAIN checkpoints :
                checkpoints[i] \in References => logs[checkpoints[i]] = 1

Announcing(r, m) == req[r].stage = "announcing" /\ req[r].milestone = m

\* The log of the milestones.
MilestonesKnown ==
    \A m \in Milestones :
       /\ logs[m] \in {0, 1}
       /\ m \notin milestones => logs[m] = 0
       /\ \A r \in Requests : Announcing(r, m) => m \in milestones /\ logs[m] = 0
       /\ \A q, r \in Requests : Announcing(q, m) /\ Announcing(r, m) => q = r
       /\ m \in milestones /\ failures = 0 => logs[m] = 1 \/ \E r \in Requests : Announcing(r, m)

\* What a request knows that overlaps with no other.
StepsAhead(q) ==
    /\ q.opening \subseteq ActiveTypes /\ q.opening \cap OpenTypes = {}
    /\ ActiveTypes \subseteq OpenTypes \cup q.opening
    /\ \A t \in StepTypes \ ActiveTypes : \A i \in RowsWith(t, "OPEN") : <<t, i>> \in q.closing
    /\ \A p \in q.closing : p[1] \notin ActiveTypes

Sure(q) ==
    /\ q.stage = "creating" => journey = NoJourney
    /\ q.stage = "totalling" => q.value = Presences
    /\ Task(q) \in {"milestones", "indicators", "nextSteps"} => journey = Presences
    /\ q.stage = "awarding" => q.milestone \notin milestones
    /\ q.stage = "scoring" => q.value = Constancy
    /\ Task(q) = "nextSteps" => score = Constancy
    /\ q.stage = "comparing" => q.opening = ActiveTypes
    /\ q.stage = "stepping" => StepsAhead(q)

LoneOnesSure ==
    \A r \in Requests : Busy(r) /\ req[r].undisturbed =>
       /\ \A q \in Requests \ {r} : ~ Busy(q)
       /\ Sure(req[r])

\* While the projection is fresh, nobody has anything in hand that would change it.
Harmless(q) ==
    /\ q.stage = "totalling" => q.value = Presences
    /\ q.stage = "scoring" => q.value = Constancy
    /\ q.stage = "comparing" => q.opening = ActiveTypes
    /\ q.stage = "stepping" => q.closing = {} /\ q.opening = {}

FreshIsKept ==
    fresh => RefreshRepairs /\ \A r \in Requests : Harmless(req[r])

JourneyInv ==
    /\ RequestsGood /\ TablesGood /\ HistoryGood
    /\ AbsencesKnown /\ DeedsKnown /\ MilestonesKnown
    /\ LoneOnesSure /\ FreshIsKept

-----------------------------------------------------------------------------
(* What is still to do.                                                    *)

LEMMA Joined ==
  ASSUME NEW S, NEW s \in Seq(S), NEW t \in Seq(S), NEW u \in Seq(S),
         Len(u) = Len(s) + Len(t), \A i \in 1..Len(s) : u[i] = s[i],
         \A i \in 1..Len(t) : u[Len(s) + i] = t[i]
  PROVE  s \o t = u
<1>1. s \o t \in Seq(S) /\ Len(s \o t) = Len(s) + Len(t)
  BY ConcatProperties, Zenon
<1>2. \A i \in 1..Len(s) + Len(t) : (s \o t)[i] = IF i <= Len(s) THEN s[i] ELSE t[i - Len(s)]
  BY ConcatProperties, Zenon
<1>3. Len(s) \in Nat /\ Len(t) \in Nat /\ Len(u) = Len(s) + Len(t)
  OBVIOUS
<1>4. ASSUME NEW i \in 1..Len(s) + Len(t) PROVE (s \o t)[i] = u[i]
  <2>1. CASE i <= Len(s)
    BY <1>2, <1>3, <2>1
  <2>2. CASE ~ i <= Len(s)
    <3>1. i - Len(s) \in 1..Len(t) /\ Len(s) + (i - Len(s)) = i
      BY <1>3, <2>2
    <3> QED
      BY <1>2, <2>2, <3>1
  <2> QED
    BY <2>1, <2>2
<1> QED
  BY <1>1, <1>3, <1>4, SeqEqual

LEMMA RefreshIsRest == Refresh \in RestOfRefresh
  BY DEF Refresh, RestOfRefresh

LEMMA RefreshLength == Refresh \in Seq(Tasks) /\ Len(Refresh) = 4
  BY DEF Refresh, Tasks

LEMMA ProjectionIsRest ==
  Projection \in RestOfProjection /\ Projection # <<>> /\ Head(Projection) = "ensure"
<1> DEFINE s == <<"ensure", "log">>
           u == <<"ensure", "log", "totals", "milestones", "indicators", "nextSteps">>
<1>1. s \in Seq(Tasks) /\ Len(s) = 2 /\ u \in Seq(Tasks) /\ Len(u) = 6
  BY DEF Tasks
<1>2. \A i \in 1..2 : u[i] = s[i]
  OBVIOUS
<1>3. \A i \in 1..4 : u[2 + i] = Refresh[i]
  BY DEF Refresh
<1>4. s \o Refresh = Projection
  BY DEF Projection
<1>5. u \in RestOfProjection /\ u # <<>> /\ Head(u) = "ensure"
  BY DEF RestOfProjection
<1> HIDE DEF s, u
<1>6. /\ Len(u) = Len(s) + Len(Refresh) /\ \A i \in 1..Len(s) : u[i] = s[i]
      /\ \A i \in 1..Len(Refresh) : u[Len(s) + i] = Refresh[i]
  BY <1>1, <1>2, <1>3, RefreshLength
<1>7. s \o Refresh = u
  BY <1>1, <1>6, RefreshLength, Joined, Zenon
<1> QED
  BY <1>4, <1>5, <1>7

LEMMA ViewsAreRest == Views \subseteq RestOfView
<1> DEFINE s == <<"ensure">>
           u == <<"ensure", "totals", "milestones", "indicators", "nextSteps">>
<1>1. s \in Seq(Tasks) /\ Len(s) = 1 /\ u \in Seq(Tasks) /\ Len(u) = 5
  BY DEF Tasks
<1>2. u[1] = s[1]
  OBVIOUS
<1>3. \A i \in 1..4 : u[1 + i] = Refresh[i]
  BY DEF Refresh
<1>4. Views = {<<"ensure", "totals">>, <<"ensure", "totals", "milestones">>, s \o Refresh}
  BY DEF Views
<1>5. u \in RestOfView /\ {<<"ensure", "totals">>, <<"ensure", "totals", "milestones">>} \subseteq RestOfView
  BY DEF RestOfView
<1> HIDE DEF s, u
<1>6. /\ Len(u) = Len(s) + Len(Refresh) /\ \A i \in 1..Len(s) : u[i] = s[i]
      /\ \A i \in 1..Len(Refresh) : u[Len(s) + i] = Refresh[i]
  BY <1>1, <1>2, <1>3, RefreshLength
<1>7. s \o Refresh = u
  BY <1>1, <1>6, RefreshLength, Joined, Zenon
<1> QED
  BY <1>4, <1>5, <1>7

\* The task after the first one.
Following(p) == IF Tail(p) = <<>> THEN "none" ELSE Head(Tail(p))

RestFacts(p) ==
    /\ p \in Seq(Tasks)
    /\ p # <<>> =>
          /\ p \in RestOfProjection => Tail(p) \in RestOfProjection
          /\ p \in RestOfView => Tail(p) \in RestOfView /\ Head(p) # "log"
          /\ Following(p) = "milestones" => Head(p) = "totals"
          /\ Following(p) = "indicators" => Head(p) = "milestones"
          /\ Following(p) = "nextSteps" => Head(p) = "indicators"
          /\ Head(p) = "ensure" /\ p \in RestOfProjection => Following(p) = "log"
          /\ Head(p) # "ensure" => Following(p) \notin {"ensure", "log"}
          /\ Head(p) = "nextSteps" => Tail(p) = <<>>

LEMMA RestOfRefreshFacts == \A p \in RestOfRefresh : RestFacts(p)
<1>1. RestFacts(<<>>)
  BY DEF RestFacts
<1>2. RestFacts(<<"nextSteps">>)
  BY DEF RestFacts, Following, RestOfProjection, RestOfView, RestOfRefresh, Tasks
<1>3. RestFacts(<<"indicators", "nextSteps">>)
  BY DEF RestFacts, Following, RestOfProjection, RestOfView, RestOfRefresh, Tasks
<1>4. RestFacts(<<"milestones", "indicators", "nextSteps">>)
  BY DEF RestFacts, Following, RestOfProjection, RestOfView, RestOfRefresh, Tasks
<1>5. RestFacts(<<"totals", "milestones", "indicators", "nextSteps">>)
  BY DEF RestFacts, Following, RestOfProjection, RestOfView, RestOfRefresh, Tasks
<1> QED
  BY <1>1, <1>2, <1>3, <1>4, <1>5 DEF RestOfRefresh

LEMMA AllRestFacts == \A p \in RestOfProjection \cup RestOfView : RestFacts(p)
<1>1. RestFacts(<<"log", "totals", "milestones", "indicators", "nextSteps">>)
  BY DEF RestFacts, Following, RestOfProjection, RestOfView, RestOfRefresh, Tasks
<1>2. RestFacts(<<"ensure", "log", "totals", "milestones", "indicators", "nextSteps">>)
  BY DEF RestFacts, Following, RestOfProjection, RestOfView, RestOfRefresh, Tasks
<1>3. RestFacts(<<"ensure", "totals", "milestones", "indicators", "nextSteps">>)
  BY DEF RestFacts, Following, RestOfProjection, RestOfView, RestOfRefresh, Tasks
<1>4. RestFacts(<<"ensure", "totals">>) /\ RestFacts(<<"totals">>)
  BY DEF RestFacts, Following, RestOfProjection, RestOfView, RestOfRefresh, Tasks
<1>5. RestFacts(<<"ensure", "totals", "milestones">>)
  BY DEF RestFacts, Following, RestOfProjection, RestOfView, RestOfRefresh, Tasks
<1>6. RestFacts(<<"totals", "milestones">>) /\ RestFacts(<<"milestones">>)
  BY DEF RestFacts, Following, RestOfProjection, RestOfView, RestOfRefresh, Tasks
<1> QED
  BY <1>1, <1>2, <1>3, <1>4, <1>5, <1>6, RestOfRefreshFacts DEF RestOfProjection, RestOfView

-----------------------------------------------------------------------------
(* What is counted.                                                        *)

LEMMA Counts ==
  /\ Presences \in Nat /\ Absences \in Nat /\ Streak \in Nat
<1> DEFINE present == {s \in Services : attendance[s] = "presence"}
           absent == {s \in Services : attendance[s] = "absence"}
           latest == {s \in Services :
                        /\ attendance[s] = "absence"
                        /\ \A t \in Services :
                              HeldOn[t] > HeldOn[s] => attendance[t] \in {"none", "absence"}}
<1>1. IsFiniteSet(Services)
  BY ConstantsAssumption
<1>2. present \subseteq Services /\ absent \subseteq Services /\ latest \subseteq Services
  OBVIOUS
<1>3. /\ Presences = Cardinality(present) /\ Absences = Cardinality(absent)
      /\ Streak = Cardinality(latest)
  BY DEF Presences, Absences, Streak
<1> HIDE DEF present, absent, latest
<1>4. IsFiniteSet(present) /\ IsFiniteSet(absent) /\ IsFiniteSet(latest)
  BY <1>1, <1>2, FS_Subset
<1> QED
  BY <1>3, <1>4, FS_CardinalityType

LEMMA RoundedShare ==
  ASSUME NEW p \in Nat, NEW all \in Nat, all # 0, p <= all
  PROVE  (200 * p + all) \div (2 * all) \in 0..100
<1> DEFINE x == 200 * p + all
           y == 2 * all
           k == x \div y
<1>1. x \in Nat /\ y \in Nat /\ y > 0 /\ x < 101 * y
  OBVIOUS
<1>2. k \in Int /\ y * k <= x /\ x < y * (k + 1)
  <2> HIDE DEF x, y
  <2> QED
    BY <1>1
<1>3. k \in Nat /\ k <= 100
  <2> HIDE DEF x, y, k
  <2>1. k >= 0
    BY <1>1, <1>2
  <2>2. k < 101
    BY <1>1, <1>2
  <2> QED
    BY <1>2, <2>1, <2>2
<1> QED
  BY <1>3

LEMMA ConstancyType == Constancy \in 0..100
<1>1. Presences \in Nat /\ Absences \in Nat
  BY Counts
<1> DEFINE p == Presences
           all == Presences + Absences
<1>2. all \in Nat /\ p \in Nat /\ p <= all
  BY <1>1
<1>3. Constancy = IF all = 0 THEN 0 ELSE (200 * p + all) \div (2 * all)
  BY DEF Constancy
<1> HIDE DEF p, all
<1> QED
  BY <1>2, <1>3, RoundedShare

-----------------------------------------------------------------------------
(* The bookkeeping of requests.                                            *)

\* Two requests that carry the same but for the mark of having been overlapped.
Alike(p, q) ==
    /\ p.kind = q.kind /\ p.stage = q.stage /\ p.service = q.service /\ p.todo = q.todo
    /\ p.value = q.value /\ p.streak = q.streak /\ p.due = q.due
    /\ p.milestone = q.milestone /\ p.closing = q.closing /\ p.opening = q.opening
    /\ p.row = q.row

\* A step of r: the others carry what they did, and who is still in flight with r
\* knows of it.
Moved(r) ==
    /\ RequestsGood'
    /\ \A q \in Requests \ {r} : Alike(req'[q], req[q])
    /\ \A q \in Requests \ {r} : req'[q].stage # "idle" => ~ req'[q].undisturbed
    /\ req'[r].stage # "idle" /\ req'[r].undisturbed =>
          \A q \in Requests \ {r} : req[q].stage = "idle"

LEMMA OverlappedIsGood ==
  ASSUME NEW q, Good(q), NEW b \in BOOLEAN
  PROVE  /\ Good([q EXCEPT !.undisturbed = b])
         /\ Alike([q EXCEPT !.undisturbed = b], q)
         /\ [q EXCEPT !.undisturbed = b].undisturbed = b
<1> DEFINE p == [q EXCEPT !.undisturbed = b]
<1>1. p \in Locals /\ Alike(p, q) /\ p.undisturbed = b
  BY DEF Good, Locals, Alike
<1> HIDE DEF p
<1>2. Good(p)
  BY <1>1 DEF Good, Alike, InTask, Fits, Task
<1> QED
  BY <1>1, <1>2 DEF p

LEMMA IdleIsGood == Good(Idle) /\ Idle.stage = "idle" /\ Idle.kind = "none" /\ Idle.todo = <<>>
  BY ConstantsAssumption
  DEF Idle, Good, Locals, Kinds, Stages, InTask, Fits, Task, Working, Counting, RestOfProjection,
      RestOfView, RestOfRefresh

LEMMA UpdateMoves ==
  ASSUME RequestsGood, LoneOnesSure, NEW r \in Requests, Busy(r),
         NEW l, Good(l), Update(r, l), l.stage = "idle" \/ (l.undisturbed => req[r].undisturbed)
  PROVE  Moved(r) /\ req'[r] = l
<1>1. /\ req'[r] = l /\ DOMAIN req' = Requests
      /\ \A q \in Requests \ {r} : req'[q] = req[q]
  BY DEF Update, RequestsGood
<1>2. RequestsGood'
  BY <1>1 DEF RequestsGood
<1>3. ASSUME NEW q \in Requests \ {r}, req[q].stage # "idle" PROVE ~ req[q].undisturbed
  BY <1>3 DEF LoneOnesSure, Busy
<1>4. req[r].undisturbed => \A q \in Requests \ {r} : req[q].stage = "idle"
  BY DEF LoneOnesSure, Busy
<1> QED
  BY <1>1, <1>2, <1>3, <1>4 DEF Moved, Alike

LEMMA BeginMoves ==
  ASSUME RequestsGood, NEW r \in Requests, NEW l, Good(l), l.stage # "idle", Begin(r, l)
  PROVE  Moved(r) /\ Alike(req'[r], l) /\ req[r].stage = "idle"
<1> DEFINE free == \A q \in Requests : ~ Busy(q)
           over(q) == [req[q] EXCEPT !.undisturbed = FALSE]
<1>1. /\ req'[r] = [l EXCEPT !.undisturbed = free] /\ DOMAIN req' = Requests
      /\ \A q \in Requests \ {r} :
            req'[q] = IF req[q].stage = "idle" THEN req[q] ELSE over(q)
      /\ req[r].stage = "idle"
  BY DEF Begin, Disturbed, Busy, RequestsGood
<1>2. Good(req'[r]) /\ Alike(req'[r], l) /\ req'[r].undisturbed = free
  BY <1>1, OverlappedIsGood
<1>3. ASSUME NEW q \in Requests \ {r}
      PROVE  /\ Good(req'[q]) /\ Alike(req'[q], req[q])
             /\ req'[q].stage # "idle" => ~ req'[q].undisturbed
  <2>1. Good(over(q)) /\ Alike(over(q), req[q]) /\ ~ over(q).undisturbed
    BY OverlappedIsGood DEF RequestsGood
  <2> HIDE DEF over
  <2> QED
    BY <1>1, <2>1 DEF RequestsGood, Alike
<1>4. RequestsGood'
  BY <1>1, <1>2, <1>3 DEF RequestsGood
<1>5. req'[r].undisturbed => \A q \in Requests \ {r} : req[q].stage = "idle"
  BY <1>2 DEF Busy
<1> HIDE DEF free, over
<1> QED
  BY <1>1, <1>2, <1>3, <1>4, <1>5 DEF Moved

\* Where a request goes from a task.
LEMMA PoppedIsGood ==
  ASSUME RequestsGood, NEW r \in Requests, req[r].stage \in Working, req[r].todo # <<>>
  PROVE  /\ Good(Popped(r)) /\ Popped(r).stage = "next"
         /\ Popped(r).kind = req[r].kind /\ Popped(r).service = req[r].service
         /\ Popped(r).undisturbed = req[r].undisturbed
         /\ Task(Popped(r)) = "milestones" => Task(req[r]) = "totals"
         /\ Task(Popped(r)) = "indicators" => Task(req[r]) = "milestones"
         /\ Task(Popped(r)) = "nextSteps" => Task(req[r]) = "indicators"
         /\ Task(req[r]) = "ensure" /\ req[r].kind = "project" => Task(Popped(r)) = "log"
         /\ Task(req[r]) # "ensure" => Task(Popped(r)) \notin {"ensure", "log"}
<1> DEFINE q == req[r]
           p == Popped(r)
<1>1. Good(q) /\ q \in Locals /\ q.stage \in Working /\ q.todo # <<>>
  BY DEF RequestsGood, Good
<1>2. RestFacts(q.todo)
  BY <1>1, AllRestFacts DEF Locals
<1>3. p = [q EXCEPT !.stage = "next", !.todo = Tail(q.todo), !.value = 0]
  BY <1>1 DEF Popped, Locals
<1> HIDE DEF p, q
<1>4. /\ p \in Locals /\ p.stage = "next" /\ p.todo = Tail(q.todo) /\ p.kind = q.kind
      /\ p.service = q.service /\ p.undisturbed = q.undisturbed
  <2> DEFINE todo == Tail(q.todo)
  <2>1. todo \in RestOfProjection \cup RestOfView
    BY <1>1, <1>2 DEF RestFacts, Locals
  <2>2. p = [q EXCEPT !.stage = "next", !.todo = todo, !.value = 0]
    BY <1>3
  <2> HIDE DEF todo
  <2>3. "next" \in Stages
    BY DEF Stages
  <2>4. p = [kind |-> q.kind, stage |-> "next", service |-> q.service, todo |-> todo,
             value |-> 0, streak |-> q.streak, due |-> q.due, milestone |-> q.milestone,
             closing |-> q.closing, opening |-> q.opening, row |-> q.row,
             undisturbed |-> q.undisturbed]
    BY <1>1, <2>2 DEF Locals
  <2>5. p \in Locals
    BY <1>1, <2>1, <2>3, <2>4 DEF Locals
  <2> QED
    BY <2>4, <2>5 DEF todo
<1>5. Task(p) = Following(q.todo) /\ Task(q) = Head(q.todo)
  BY <1>1, <1>4 DEF Task, Following
<1>6. q.stage \notin Counting /\ q.stage # "idle"
  BY <1>1 DEF Working, Counting
<1>7. q.kind \notin {"none", "record"}
  BY <1>1, <1>6 DEF Good
<1>8. (q.kind = "project" => q.todo \in RestOfProjection /\ q.service \in References)
      /\ (q.kind # "project" => q.todo \in RestOfView)
      /\ (q.kind \notin {"project", "record"} => q.service = NoService)
  BY <1>1 DEF Good
<1>9. Good(p)
  <2>1. InTask(p)
    BY <1>4 DEF InTask, Fits, Working
  <2>2. /\ p.kind = "project" => p.todo \in RestOfProjection
        /\ p.kind # "project" => p.todo \in RestOfView
    BY <1>1, <1>2, <1>4, <1>8 DEF RestFacts
  <2> QED
    BY <1>4, <1>7, <1>8, <2>1, <2>2 DEF Good, Counting
<1>10. p = Popped(r) /\ q = req[r]
  BY DEF p, q
<1> QED
  BY <1>1, <1>2, <1>4, <1>5, <1>8, <1>9, <1>10 DEF RestFacts

LEMMA MarkingIsGood ==
  ASSUME RequestsGood, NEW r \in Requests, req[r].kind \in {"project", "reconcile", "rebuild"}
  PROVE  /\ Good(Marking(r)) /\ Marking(r).stage = "marking" /\ Task(Marking(r)) = "none"
         /\ Marking(r).kind = req[r].kind /\ Marking(r).service = req[r].service
         /\ Marking(r).undisturbed = req[r].undisturbed
<1> DEFINE q == req[r]
           p == Marking(r)
<1>1. Good(q) /\ q \in Locals /\ q.kind \in {"project", "reconcile", "rebuild"}
  BY DEF RequestsGood, Good
<1>2. p = [q EXCEPT !.stage = "marking", !.todo = <<>>, !.value = 0, !.due = {},
                    !.milestone = NoMilestone, !.closing = {}, !.opening = {}]
  BY DEF Marking
<1>3. <<>> \in RestOfProjection \cap RestOfView /\ "marking" \in Stages
  BY DEF RestOfProjection, RestOfView, RestOfRefresh, Stages
<1> HIDE DEF p, q
<1>4. p = [kind |-> q.kind, stage |-> "marking", service |-> q.service, todo |-> <<>>,
           value |-> 0, streak |-> q.streak, due |-> {}, milestone |-> NoMilestone,
           closing |-> {}, opening |-> {}, row |-> q.row, undisturbed |-> q.undisturbed]
  BY <1>1, <1>2 DEF Locals
<1>5. p \in Locals
  BY <1>1, <1>3, <1>4 DEF Locals
<1>6. Good(p) /\ Task(p) = "none"
  BY <1>1, <1>3, <1>4, <1>5 DEF Good, InTask, Fits, Task, Working, Counting
<1> QED
  BY <1>4, <1>6 DEF p, q

\* ... and where it goes when it throws.
LEMMA CaughtIsGood ==
  ASSUME RequestsGood, NEW r \in Requests
  PROVE  /\ Good(Caught(r)) /\ Task(Caught(r)) = "none"
         /\ \/ Caught(r) = Idle
            \/ /\ Caught(r).stage = "marking" /\ Caught(r).kind = req[r].kind
               /\ Caught(r).service = req[r].service
               /\ Caught(r).undisturbed = req[r].undisturbed
<1>1. CASE req[r].kind \in {"project", "reconcile"}
  BY <1>1, MarkingIsGood DEF Caught
<1>2. CASE req[r].kind \notin {"project", "reconcile"}
  BY <1>2, IdleIsGood DEF Caught, Task
<1> QED
  BY <1>1, <1>2

-----------------------------------------------------------------------------
(* Steps that have nothing to do with a part of the invariant keep it.      *)

LEMMA AbsencesAside ==
  ASSUME JourneyInv, NEW r \in Requests, Moved(r),
         UNCHANGED <<attendance, absences>>,
         failures' = 0 => failures = 0, spoiled \subseteq spoiled',
         req[r].stage \notin Counting, req'[r].stage \notin Counting
  PROVE  AbsencesKnown'
<1>1. Absences' = Absences /\ Streak' = Streak /\ absences' = absences
  BY DEF Absences, Streak
<1>2. ASSUME failures' = 0, "absences" \notin spoiled'
      PROVE  /\ \A q \in Requests :
                   /\ req[q].stage \in {"streaking", "storing"} => req[q].value = Absences
                   /\ req[q].stage = "storing" => req[q].streak = Streak
             /\ \/ \E q \in Requests : req[q].stage \in Counting
                \/ absences = [monthly |-> Absences, consecutive |-> Streak]
  BY <1>2 DEF JourneyInv, AbsencesKnown
<1>3. \A q \in Requests \ {r} : /\ req'[q].stage = req[q].stage
                                /\ req'[q].value = req[q].value
                                /\ req'[q].streak = req[q].streak
  BY DEF Moved, Alike
<1>4. req'[r].stage \notin {"streaking", "storing"}
  BY DEF Counting
<1> QED
  BY <1>1, <1>2, <1>3, <1>4 DEF AbsencesKnown

\* The log of the deeds: r takes up no new event, and looks as long as it did.
LEMMA DeedsAside ==
  ASSUME JourneyInv, NEW r \in Requests, Moved(r),
         UNCHANGED <<registered, checkpoints>>, \A s \in References : logs'[s] = logs[s],
         failures' = 0 => failures = 0, spoiled \subseteq spoiled',
         \A s \in References : Handled(r, s)' => Handled(r, s),
         failures' = 0 /\ spoiled' \cap {"twins", "journey"} = {} =>
            \A s \in References : Pending(r, s) => Pending(r, s)' \/ logs[s] # 0,
         \A s \in References : Handled(r, s)' /\ req'[r].stage = "logging" => logs[s] = 0
  PROVE  DeedsKnown'
<1>1. \A q \in Requests \ {r}, s \in References :
         /\ Handled(q, s)' <=> Handled(q, s)
         /\ Pending(q, s)' <=> Pending(q, s)
         /\ req'[q].stage = req[q].stage
  BY DEF Moved, Alike, Handled, Pending, Task
<1>2. \A q \in Requests, s \in References : Handled(q, s)' => Handled(q, s)
  BY <1>1
<1>3. \A s \in References : s \notin registered' =>
         logs'[s] = 0 /\ \A q \in Requests : ~ Handled(q, s)'
  BY <1>2 DEF JourneyInv, DeedsKnown
<1>4. ASSUME failures' = 0, spoiled' \cap {"twins", "journey"} = {}
      PROVE  /\ \A s \in References :
                   /\ \A q, p \in Requests : Handled(q, s)' /\ Handled(p, s)' => q = p
                   /\ \A q \in Requests : Handled(q, s)' /\ req'[q].stage = "logging" =>
                         logs'[s] = 0
                   /\ logs'[s] \in {0, 1}
                   /\ s \in registered' /\ logs'[s] = 0 =>
                         \E q \in Requests : Pending(q, s)'
             /\ \A i \in DOMAIN checkpoints' :
                   checkpoints'[i] \in References => logs'[checkpoints'[i]] = 1
  <2>1. /\ \A s \in References :
              /\ \A q, p \in Requests : Handled(q, s) /\ Handled(p, s) => q = p
              /\ \A q \in Requests : Handled(q, s) /\ req[q].stage = "logging" => logs[s] = 0
              /\ logs[s] \in {0, 1}
              /\ s \in registered /\ logs[s] = 0 => \E q \in Requests : Pending(q, s)
        /\ \A i \in DOMAIN checkpoints :
              checkpoints[i] \in References => logs[checkpoints[i]] = 1
    BY <1>4 DEF JourneyInv, DeedsKnown
  <2>2. ASSUME NEW s \in References
        PROVE  /\ \A q, p \in Requests : Handled(q, s)' /\ Handled(p, s)' => q = p
               /\ \A q \in Requests : Handled(q, s)' /\ req'[q].stage = "logging" =>
                     logs'[s] = 0
               /\ logs'[s] \in {0, 1}
               /\ s \in registered' /\ logs'[s] = 0 => \E q \in Requests : Pending(q, s)'
    BY <1>1, <1>2, <1>4, <2>1
  <2>3. \A i \in DOMAIN checkpoints' :
           checkpoints'[i] \in References => logs'[checkpoints'[i]] = 1
    BY <2>1
  <2> QED
    BY <2>2, <2>3
<1> QED
  BY <1>3, <1>4 DEF DeedsKnown

LEMMA MilestonesAside ==
  ASSUME JourneyInv, NEW r \in Requests, Moved(r),
         milestones' = milestones, \A m \in Milestones : logs'[m] = logs[m],
         failures' = 0 => failures = 0,
         req'[r].stage # "announcing",
         failures' = 0 => req[r].stage # "announcing"
  PROVE  MilestonesKnown'
<1>1. \A q \in Requests \ {r}, m \in Milestones : Announcing(q, m)' <=> Announcing(q, m)
  BY DEF Moved, Alike, Announcing
<1>2. \A m \in Milestones : /\ ~ Announcing(r, m)'
                            /\ failures' = 0 => ~ Announcing(r, m)
  BY DEF Announcing
<1>3. \A q \in Requests, m \in Milestones : Announcing(q, m)' => Announcing(q, m)
  BY <1>1, <1>2
<1>4. MilestonesKnown
  BY DEF JourneyInv
<1>5. ASSUME NEW m \in Milestones
      PROVE  /\ logs'[m] \in {0, 1}
             /\ m \notin milestones' => logs'[m] = 0
             /\ \A q \in Requests : Announcing(q, m)' => m \in milestones' /\ logs'[m] = 0
             /\ \A q, p \in Requests : Announcing(q, m)' /\ Announcing(p, m)' => q = p
             /\ m \in milestones' /\ failures' = 0 =>
                   logs'[m] = 1 \/ \E q \in Requests : Announcing(q, m)'
  BY <1>1, <1>2, <1>3, <1>4 DEF MilestonesKnown
<1> QED
  BY <1>5 DEF MilestonesKnown

LEMMA LoneStep ==
  ASSUME JourneyInv, NEW r \in Requests, Moved(r),
         req'[r].stage # "idle" /\ req'[r].undisturbed => Sure(req[r])'
  PROVE  LoneOnesSure'
<1>1. ASSUME NEW q \in Requests, req'[q].stage # "idle", req'[q].undisturbed
      PROVE  q = r /\ \A p \in Requests \ {r} : req'[p].stage = "idle"
  BY <1>1 DEF Moved, Alike
<1> QED
  BY <1>1 DEF LoneOnesSure, Busy

\* Nothing is sure of a request that is in no task.
LEMMA SureAside ==
  ASSUME NEW q, q.stage \notin Working, Task(q) = "none"
  PROVE  Sure(q) /\ Harmless(q)
  BY DEF Sure, Harmless, Working

LEMMA FreshAside ==
  ASSUME JourneyInv, NEW r \in Requests, Moved(r), fresh' => fresh,
         UNCHANGED <<attendance, journey, score, steps>>,
         fresh' => Harmless(req[r])'
  PROVE  FreshIsKept'
<1>1. /\ Presences' = Presences /\ Constancy' = Constancy
      /\ OpenTypes' = OpenTypes /\ ActiveTypes' = ActiveTypes
  BY DEF Presences, Absences, Constancy, OpenTypes, RowsWith, ActiveTypes
<1>2. RefreshRepairs /\ fresh => RefreshRepairs'
  BY <1>1 DEF RefreshRepairs
<1>3. ASSUME NEW q \in Requests \ {r}, Harmless(req[q]) PROVE Harmless(req[q])'
  BY <1>1, <1>3 DEF Moved, Alike, Harmless
<1> QED
  BY <1>2, <1>3 DEF JourneyInv, FreshIsKept, RefreshRepairs

-----------------------------------------------------------------------------
(* A request that goes on to another stage.                                *)

With(q, stage, value, streak, due, milestone, closing, opening, row) ==
    [kind |-> q.kind, stage |-> stage, service |-> q.service, todo |-> q.todo,
     value |-> value, streak |-> streak, due |-> due, milestone |-> milestone,
     closing |-> closing, opening |-> opening, row |-> row, undisturbed |-> q.undisturbed]

LEMMA WithFields ==
  ASSUME NEW q, NEW stage, NEW value, NEW streak, NEW due, NEW milestone, NEW closing,
         NEW opening, NEW row, NEW l,
         l = With(q, stage, value, streak, due, milestone, closing, opening, row)
  PROVE  /\ l.kind = q.kind /\ l.stage = stage /\ l.service = q.service /\ l.todo = q.todo
         /\ l.value = value /\ l.streak = streak /\ l.due = due /\ l.milestone = milestone
         /\ l.closing = closing /\ l.opening = opening /\ l.row = row
         /\ l.undisturbed = q.undisturbed /\ Task(l) = Task(q)
  BY DEF With, Task

LEMMA WithIsGood ==
  ASSUME NEW q, Good(q), q.stage # "idle",
         NEW stage \in Stages, stage # "idle", NEW value \in Nat, NEW streak \in Nat,
         NEW due \in SUBSET Milestones, NEW milestone \in Milestones \cup {NoMilestone},
         NEW closing \in SUBSET (StepTypes \X Nat), NEW opening \in SUBSET StepTypes,
         NEW row \in Nat,
         stage \in Counting => q.stage \in Counting,
         stage \in {"assigning", "emitted"} => q.kind = "project",
         q.kind = "record" => stage \in Counting,
         stage \in {"awarding", "announcing"} => milestone \in Milestones,
         stage = "scoring" => value \in 0..100,
         stage \notin Working => q.todo = <<>>,
         Fits(stage, Task(q)),
         NEW l, l = With(q, stage, value, streak, due, milestone, closing, opening, row)
  PROVE  Good(l)
<1>1. q \in Locals
  BY DEF Good
<1>2. l \in Locals
  BY <1>1 DEF With, Locals
<1>3. /\ l.kind = q.kind /\ l.stage = stage /\ l.service = q.service /\ l.todo = q.todo
      /\ l.value = value /\ l.milestone = milestone /\ Task(l) = Task(q)
  BY WithFields
<1>4. /\ q.kind # "none"
      /\ q.stage \in Counting => q.kind \in {"project", "record"} /\ q.service \in Services
      /\ q.kind = "project" => q.service \in References /\ q.todo \in RestOfProjection
      /\ q.kind # "project" => q.todo \in RestOfView
      /\ q.kind \notin {"project", "record"} => q.service = NoService
  BY DEF Good
<1>5. InTask(l)
  BY <1>3 DEF InTask
<1> QED
  BY <1>2, <1>3, <1>4, <1>5 DEF Good

LEMMA GoodFields ==
  ASSUME NEW q, Good(q)
  PROVE  /\ q.kind \in Kinds /\ q.stage \in Stages /\ q.service \in References \cup {NoService}
         /\ q.todo \in RestOfProjection \cup RestOfView /\ q.value \in Nat /\ q.streak \in Nat
         /\ q.due \subseteq Milestones /\ q.milestone \in Milestones \cup {NoMilestone}
         /\ q.closing \subseteq StepTypes \X Nat /\ q.opening \subseteq StepTypes
         /\ q.row \in Nat /\ q.undisturbed \in BOOLEAN
  BY DEF Good, Locals

LEMMA AtFacts ==
  ASSUME JourneyInv, NEW r \in Requests, NEW task, At(r, task)
  PROVE  /\ Good(req[r]) /\ req[r].stage = "next" /\ req[r].todo # <<>>
         /\ Task(req[r]) = task /\ Busy(r) /\ "next" \in Working
  BY DEF JourneyInv, RequestsGood, At, Task, Busy, Working

LEMMA LoneIsSure ==
  ASSUME JourneyInv, NEW r \in Requests, Busy(r), req[r].undisturbed
  PROVE  Sure(req[r])
  BY DEF JourneyInv, LoneOnesSure

LEMMA FreshIsHarmless ==
  ASSUME JourneyInv, NEW r \in Requests, fresh
  PROVE  Harmless(req[r]) /\ journey = Presences /\ score = Constancy /\ OpenTypes = ActiveTypes
  BY DEF JourneyInv, FreshIsKept, RefreshRepairs

\* Within a task that comes after the log nothing is learnt of deeds or absences.
Early == Counting \cup {"assigning", "emitted", "logging"}

LEMMA InsideTask ==
  ASSUME JourneyInv, NEW r \in Requests, Moved(r),
         UNCHANGED <<attendance, absences, registered, checkpoints, failures>>,
         \A s \in References : logs'[s] = logs[s], spoiled \subseteq spoiled',
         req[r].stage \notin Early, req'[r].stage \notin Early,
         Task(req[r]) \notin {"ensure", "log"},
         req'[r].kind # "project" \/ (req'[r].kind = req[r].kind /\ req'[r].service = req[r].service)
  PROVE  AbsencesKnown' /\ DeedsKnown'
<1>1. req[r].stage \notin Counting /\ req'[r].stage \notin Counting
  BY DEF Early
<1>2. AbsencesKnown'
  BY <1>1, AbsencesAside
<1>3. \A s \in References : /\ Handled(r, s)' => Handled(r, s)
                            /\ ~ Pending(r, s)
                            /\ req'[r].stage # "logging"
  BY DEF Handled, Pending, Early
<1>4. DeedsKnown'
  BY <1>3, DeedsAside
<1> QED
  BY <1>2, <1>4

\* A step that only reads.
LEMMA ReadStep ==
  ASSUME JourneyInv, NEW r \in Requests, Moved(r), UNCHANGED <<tables, bounds, history>>,
         AbsencesKnown', DeedsKnown',
         req[r].stage # "announcing", req'[r].stage # "announcing",
         NEW l, req'[r] = l,
         l.stage # "idle" /\ l.undisturbed => Sure(l),
         fresh => Harmless(l)
  PROVE  JourneyInv'
<1>1. /\ attendance' = attendance /\ absences' = absences /\ journey' = journey
      /\ logs' = logs /\ milestones' = milestones /\ score' = score /\ steps' = steps
      /\ checkpoints' = checkpoints /\ calls' = calls /\ failures' = failures
      /\ registered' = registered /\ spoiled' = spoiled /\ alone' = alone /\ fresh' = fresh
  BY DEF tables, bounds, history
<1>2. RequestsGood' /\ TablesGood' /\ HistoryGood'
  BY <1>1 DEF JourneyInv, Moved, TablesGood, HistoryGood
<1>3. MilestonesKnown'
  BY <1>1, MilestonesAside
<1>4. /\ Presences' = Presences /\ Constancy' = Constancy
      /\ OpenTypes' = OpenTypes /\ ActiveTypes' = ActiveTypes
      /\ \A t \in StepTypes, status \in {"OPEN"} : RowsWith(t, status)' = RowsWith(t, status)
  BY <1>1 DEF Presences, Absences, Constancy, OpenTypes, RowsWith, ActiveTypes
<1>5. Sure(l) => Sure(req[r])'
  BY <1>1, <1>4 DEF Sure, StepsAhead, Task
<1>6. Harmless(l) => Harmless(req[r])'
  BY <1>4 DEF Harmless
<1>7. LoneOnesSure'
  BY <1>5, LoneStep
<1>8. FreshIsKept'
  BY <1>1, <1>6, FreshAside
<1> QED
  BY <1>2, <1>3, <1>7, <1>8 DEF JourneyInv
\* The changes that the steps make, in one form for all of them.
LEMMA ChangeStage ==
  ASSUME NEW q \in Locals, NEW stage,
         NEW p, p = [q EXCEPT !.stage = stage]
  PROVE  p = With(q, stage, q.value, q.streak, q.due, q.milestone, q.closing, q.opening, q.row)
  BY DEF With, Locals

LEMMA ChangeStageValue ==
  ASSUME NEW q \in Locals, NEW stage, NEW value,
         NEW p, p = [q EXCEPT !.stage = stage, !.value = value]
  PROVE  p = With(q, stage, value, q.streak, q.due, q.milestone, q.closing, q.opening, q.row)
  BY DEF With, Locals

LEMMA ChangeStageStreak ==
  ASSUME NEW q \in Locals, NEW stage, NEW streak,
         NEW p, p = [q EXCEPT !.stage = stage, !.streak = streak]
  PROVE  p = With(q, stage, q.value, streak, q.due, q.milestone, q.closing, q.opening, q.row)
  BY DEF With, Locals

LEMMA ChangeStageValueStreak ==
  ASSUME NEW q \in Locals, NEW stage, NEW value, NEW streak,
         NEW p, p = [q EXCEPT !.stage = stage, !.value = value, !.streak = streak]
  PROVE  p = With(q, stage, value, streak, q.due, q.milestone, q.closing, q.opening, q.row)
  BY DEF With, Locals

LEMMA ChangeStageDue ==
  ASSUME NEW q \in Locals, NEW stage, NEW due,
         NEW p, p = [q EXCEPT !.stage = stage, !.due = due]
  PROVE  p = With(q, stage, q.value, q.streak, due, q.milestone, q.closing, q.opening, q.row)
  BY DEF With, Locals

LEMMA ChangeDue ==
  ASSUME NEW q \in Locals, NEW due,
         NEW p, p = [q EXCEPT !.due = due]
  PROVE  p = With(q, q.stage, q.value, q.streak, due, q.milestone, q.closing, q.opening, q.row)
  BY DEF With, Locals

LEMMA ChangeStageMilestone ==
  ASSUME NEW q \in Locals, NEW stage, NEW milestone,
         NEW p, p = [q EXCEPT !.stage = stage, !.milestone = milestone]
  PROVE  p = With(q, stage, q.value, q.streak, q.due, milestone, q.closing, q.opening, q.row)
  BY DEF With, Locals

LEMMA ChangeStageDueMilestone ==
  ASSUME NEW q \in Locals, NEW stage, NEW due, NEW milestone,
         NEW p, p = [q EXCEPT !.stage = stage, !.due = due, !.milestone = milestone]
  PROVE  p = With(q, stage, q.value, q.streak, due, milestone, q.closing, q.opening, q.row)
  BY DEF With, Locals

LEMMA ChangeStageOpening ==
  ASSUME NEW q \in Locals, NEW stage, NEW opening,
         NEW p, p = [q EXCEPT !.stage = stage, !.opening = opening]
  PROVE  p = With(q, stage, q.value, q.streak, q.due, q.milestone, q.closing, opening, q.row)
  BY DEF With, Locals

LEMMA ChangeStageClosingOpening ==
  ASSUME NEW q \in Locals, NEW stage, NEW closing, NEW opening,
         NEW p, p = [q EXCEPT !.stage = stage, !.closing = closing, !.opening = opening]
  PROVE  p = With(q, stage, q.value, q.streak, q.due, q.milestone, closing, opening, q.row)
  BY DEF With, Locals

LEMMA ChangeClosing ==
  ASSUME NEW q \in Locals, NEW closing,
         NEW p, p = [q EXCEPT !.closing = closing]
  PROVE  p = With(q, q.stage, q.value, q.streak, q.due, q.milestone, closing, q.opening, q.row)
  BY DEF With, Locals

LEMMA ChangeOpening ==
  ASSUME NEW q \in Locals, NEW opening,
         NEW p, p = [q EXCEPT !.opening = opening]
  PROVE  p = With(q, q.stage, q.value, q.streak, q.due, q.milestone, q.closing, opening, q.row)
  BY DEF With, Locals

LEMMA ChangeStageRow ==
  ASSUME NEW q \in Locals, NEW stage, NEW row,
         NEW p, p = [q EXCEPT !.stage = stage, !.row = row]
  PROVE  p = With(q, stage, q.value, q.streak, q.due, q.milestone, q.closing, q.opening, row)
  BY DEF With, Locals


-----------------------------------------------------------------------------
(* The steps of the refresh that only read.                                 *)

\* A request that reads within a task after the log and goes on with what it read.
LEMMA ReadInside ==
  ASSUME JourneyInv, NEW r \in Requests, UNCHANGED <<tables, bounds, history>>,
         Good(req[r]), Busy(r), req[r].stage \notin Early \cup {"announcing"},
         Task(req[r]) \notin {"ensure", "log"},
         NEW l, Update(r, l), Good(l), l.stage \notin Early \cup {"announcing", "idle"},
         l.kind = req[r].kind, l.service = req[r].service,
         l.undisturbed = req[r].undisturbed,
         l.undisturbed => Sure(l),
         fresh => Harmless(l)
  PROVE  JourneyInv'
<1>1. Moved(r) /\ req'[r] = l
  BY UpdateMoves DEF JourneyInv
<1>2. UNCHANGED <<attendance, absences, registered, checkpoints, failures>>
      /\ spoiled \subseteq spoiled' /\ logs' = logs
  BY DEF tables, bounds, history
<1>3. AbsencesKnown' /\ DeedsKnown'
  BY <1>1, <1>2, InsideTask
<1> QED
  BY <1>1, <1>3, ReadStep

LEMMA CountTotalsOK ==
  ASSUME JourneyInv, NEW r \in Requests, CountTotals(r)
  PROVE  JourneyInv'
<1> DEFINE q == req[r]
           p == [q EXCEPT !.stage = "totalling", !.value = Presences]
           l == With(q, "totalling", Presences, q.streak, q.due, q.milestone, q.closing,
                     q.opening, q.row)
<1>1. Good(q) /\ q.stage = "next" /\ Task(q) = "totals" /\ Busy(r) /\ q \in Locals
  BY AtFacts DEF CountTotals, Good
<1>2. Update(r, p) /\ UNCHANGED <<tables, bounds, history>>
  BY DEF CountTotals
<1> HIDE DEF q
<1>3. p = [q EXCEPT !.stage = "totalling", !.value = Presences]
  OBVIOUS
<1> HIDE DEF p
<1>4. p = l
  BY <1>1, <1>3, ChangeStageValue
<1>5. "totalling" \in Stages /\ "totalling" \notin Counting /\ "totalling" \in Working
      /\ Fits("totalling", Task(q)) /\ q.kind # "record"
  BY <1>1 DEF Stages, Counting, Working, Fits, Good
<1> HIDE DEF l
<1>6. Good(p)
  BY <1>1, <1>4, <1>5, Counts, GoodFields, WithIsGood DEF l
<1>7. /\ p.kind = q.kind /\ p.service = q.service /\ p.undisturbed = q.undisturbed
      /\ p.stage = "totalling" /\ p.value = Presences /\ Task(p) = "totals"
  BY <1>1, <1>4, WithFields DEF l
<1>8. Sure(p) /\ Harmless(p)
  BY <1>7 DEF Sure, Harmless
<1> QED
  BY <1>1, <1>2, <1>6, <1>7, <1>8, ReadInside DEF q, Early, Counting

LEMMA EvaluateMilestonesOK ==
  ASSUME JourneyInv, NEW r \in Requests, EvaluateMilestones(r)
  PROVE  JourneyInv'
<1> DEFINE q == req[r]
           unlocked == {m \in Milestones : Presences >= Needed[m]}
           p == [q EXCEPT !.stage = "unlocking", !.due = unlocked]
           l == With(q, "unlocking", q.value, q.streak, unlocked, q.milestone, q.closing,
                     q.opening, q.row)
<1>1. Good(q) /\ q.stage = "next" /\ Task(q) = "milestones" /\ Busy(r) /\ q \in Locals
  BY AtFacts DEF EvaluateMilestones, Good
<1>2. Update(r, p) /\ UNCHANGED <<tables, bounds, history>>
  BY DEF EvaluateMilestones
<1>3. unlocked \in SUBSET Milestones
  OBVIOUS
<1>4. q.undisturbed => journey = Presences
  BY <1>1, LoneIsSure DEF Sure
<1> HIDE DEF q, unlocked
<1>5. p = [q EXCEPT !.stage = "unlocking", !.due = unlocked]
  OBVIOUS
<1> HIDE DEF p
<1>6. p = l
  BY <1>1, <1>5, ChangeStageDue
<1>7. "unlocking" \in Stages /\ "unlocking" \notin Counting /\ "unlocking" \in Working
      /\ Fits("unlocking", Task(q)) /\ q.kind # "record"
  BY <1>1 DEF Stages, Counting, Working, Fits, Good
<1> HIDE DEF l
<1>8. Good(p)
  BY <1>1, <1>3, <1>6, <1>7, GoodFields, WithIsGood DEF l
<1>9. /\ p.kind = q.kind /\ p.service = q.service /\ p.undisturbed = q.undisturbed
      /\ p.stage = "unlocking" /\ Task(p) = "milestones"
  BY <1>1, <1>6, WithFields DEF l
<1>10. (p.undisturbed => Sure(p)) /\ Harmless(p)
  BY <1>4, <1>9 DEF Sure, Harmless
<1> QED
  BY <1>1, <1>2, <1>8, <1>9, <1>10, ReadInside DEF q, Early, Counting

LEMMA LookUpMilestoneOK ==
  ASSUME JourneyInv, NEW r \in Requests, LookUpMilestone(r)
  PROVE  JourneyInv'
<1> DEFINE q == req[r]
<1>1. q.stage = "unlocking" /\ Good(q) /\ q \in Locals /\ Busy(r) /\ RequestsGood
  BY DEF LookUpMilestone, Busy, JourneyInv, RequestsGood, Good
<1>2. Task(q) = "milestones" /\ q.todo # <<>> /\ q.stage \in Working /\ q.kind # "record"
  BY <1>1 DEF Good, InTask, Fits, Task, Working, Counting
<1>3. q.undisturbed => journey = Presences
  BY <1>1, <1>2, LoneIsSure DEF Sure
<1>4. UNCHANGED <<tables, bounds, history>>
  BY DEF LookUpMilestone
<1>5. CASE q.due = {}
  <2>1. Update(r, Popped(r))
    BY <1>5 DEF LookUpMilestone
  <2> DEFINE p == Popped(r)
  <2>2. /\ Good(p) /\ p.stage = "next" /\ p.kind = q.kind /\ p.service = q.service
        /\ p.undisturbed = q.undisturbed /\ Task(p) \notin {"ensure", "log", "milestones", "nextSteps"}
    BY <1>1, <1>2, PoppedIsGood
  <2> HIDE DEF p
  <2>3. (p.undisturbed => Sure(p)) /\ Harmless(p)
    BY <1>3, <2>2 DEF Sure, Harmless
  <2> QED
    BY <1>1, <1>2, <1>4, <2>1, <2>2, <2>3, ReadInside DEF p, Early, Counting
<1>6. ASSUME NEW m \in q.due, m \in milestones, Update(r, [q EXCEPT !.due = q.due \ {m}])
      PROVE  JourneyInv'
  <2> DEFINE due == q.due \ {m}
             p == [q EXCEPT !.due = due]
             l == With(q, q.stage, q.value, q.streak, due, q.milestone, q.closing,
                       q.opening, q.row)
  <2>1. due \in SUBSET Milestones
    BY <1>1, GoodFields
  <2>2. Update(r, p)
    BY <1>6
  <2> HIDE DEF q, due
  <2>3. p = [q EXCEPT !.due = due]
    OBVIOUS
  <2> HIDE DEF p
  <2>4. p = l
    BY <1>1, <2>3, ChangeDue
  <2>5. Fits(q.stage, Task(q)) /\ q.stage \notin Counting /\ q.stage \in Stages
    BY <1>1, <1>2, GoodFields DEF Fits, Counting
  <2> HIDE DEF l
  <2>6. Good(p)
    BY <1>1, <1>2, <2>1, <2>4, <2>5, GoodFields, WithIsGood DEF l
  <2>7. /\ p.kind = q.kind /\ p.service = q.service /\ p.undisturbed = q.undisturbed
        /\ p.stage = "unlocking" /\ Task(p) = "milestones"
    BY <1>1, <1>2, <2>4, WithFields DEF l
  <2>8. (p.undisturbed => Sure(p)) /\ Harmless(p)
    BY <1>3, <2>7 DEF Sure, Harmless
  <2> QED
    BY <1>1, <1>2, <1>4, <2>2, <2>6, <2>7, <2>8, ReadInside DEF q, Early, Counting
<1>7. ASSUME NEW m \in q.due, m \notin milestones,
             Update(r, [q EXCEPT !.stage = "awarding", !.milestone = m])
      PROVE  JourneyInv'
  <2> DEFINE p == [q EXCEPT !.stage = "awarding", !.milestone = m]
             l == With(q, "awarding", q.value, q.streak, q.due, m, q.closing, q.opening, q.row)
  <2>1. m \in Milestones
    BY <1>1, GoodFields
  <2>2. Update(r, p)
    BY <1>7
  <2> HIDE DEF q
  <2>3. p = [q EXCEPT !.stage = "awarding", !.milestone = m]
    OBVIOUS
  <2> HIDE DEF p
  <2>4. p = l
    BY <1>1, <2>3, ChangeStageMilestone
  <2>5. "awarding" \in Stages /\ "awarding" \notin Counting /\ "awarding" \in Working
        /\ Fits("awarding", Task(q))
    BY <1>2 DEF Stages, Counting, Working, Fits
  <2> HIDE DEF l
  <2>6. Good(p)
    BY <1>1, <1>2, <2>1, <2>4, <2>5, GoodFields, WithIsGood DEF l
  <2>7. /\ p.kind = q.kind /\ p.service = q.service /\ p.undisturbed = q.undisturbed
        /\ p.stage = "awarding" /\ p.milestone = m /\ Task(p) = "milestones"
    BY <1>1, <1>2, <2>4, WithFields DEF l
  <2>8. (p.undisturbed => Sure(p)) /\ Harmless(p)
    BY <1>3, <1>7, <2>7 DEF Sure, Harmless
  <2> QED
    BY <1>1, <1>2, <1>4, <2>2, <2>6, <2>7, <2>8, ReadInside DEF q, Early, Counting
<1> QED
  BY <1>5, <1>6, <1>7 DEF LookUpMilestone

LEMMA ComputeIndicatorsOK ==
  ASSUME JourneyInv, NEW r \in Requests, ComputeIndicators(r)
  PROVE  JourneyInv'
<1> DEFINE q == req[r]
           p == [q EXCEPT !.stage = "scoring", !.value = Constancy]
           l == With(q, "scoring", Constancy, q.streak, q.due, q.milestone, q.closing,
                     q.opening, q.row)
<1>1. Good(q) /\ q.stage = "next" /\ Task(q) = "indicators" /\ Busy(r) /\ q \in Locals
  BY AtFacts DEF ComputeIndicators, Good
<1>2. Update(r, p) /\ UNCHANGED <<tables, bounds, history>>
  BY DEF ComputeIndicators
<1>3. q.undisturbed => journey = Presences
  BY <1>1, LoneIsSure DEF Sure
<1> HIDE DEF q
<1>4. p = [q EXCEPT !.stage = "scoring", !.value = Constancy]
  OBVIOUS
<1> HIDE DEF p
<1>5. p = l
  BY <1>1, <1>4, ChangeStageValue
<1>6. "scoring" \in Stages /\ "scoring" \notin Counting /\ "scoring" \in Working
      /\ Fits("scoring", Task(q)) /\ q.kind # "record"
  BY <1>1 DEF Stages, Counting, Working, Fits, Good
<1>7. Constancy \in 0..100 /\ Constancy \in Nat
  BY ConstancyType
<1> HIDE DEF l
<1>8. Good(p)
  BY <1>1, <1>5, <1>6, <1>7, GoodFields, WithIsGood DEF l
<1>9. /\ p.kind = q.kind /\ p.service = q.service /\ p.undisturbed = q.undisturbed
      /\ p.stage = "scoring" /\ p.value = Constancy /\ Task(p) = "indicators"
  BY <1>1, <1>5, WithFields DEF l
<1>10. (p.undisturbed => Sure(p)) /\ Harmless(p)
  BY <1>3, <1>9 DEF Sure, Harmless
<1> QED
  BY <1>1, <1>2, <1>8, <1>9, <1>10, ReadInside DEF q, Early, Counting

LEMMA ReadIndicatorsOK ==
  ASSUME JourneyInv, NEW r \in Requests, ReadIndicators(r)
  PROVE  JourneyInv'
<1> DEFINE q == req[r]
           p == [q EXCEPT !.stage = "comparing", !.opening = ActiveTypes]
           l == With(q, "comparing", q.value, q.streak, q.due, q.milestone, q.closing,
                     ActiveTypes, q.row)
<1>1. Good(q) /\ q.stage = "next" /\ Task(q) = "nextSteps" /\ Busy(r) /\ q \in Locals
  BY AtFacts DEF ReadIndicators, Good
<1>2. Update(r, p) /\ UNCHANGED <<tables, bounds, history>>
  BY DEF ReadIndicators
<1>3. q.undisturbed => journey = Presences /\ score = Constancy
  BY <1>1, LoneIsSure DEF Sure
<1> HIDE DEF q
<1>4. p = [q EXCEPT !.stage = "comparing", !.opening = ActiveTypes]
  OBVIOUS
<1> HIDE DEF p
<1>5. p = l
  BY <1>1, <1>4, ChangeStageOpening
<1>6. "comparing" \in Stages /\ "comparing" \notin Counting /\ "comparing" \in Working
      /\ Fits("comparing", Task(q)) /\ q.kind # "record"
  BY <1>1 DEF Stages, Counting, Working, Fits, Good
<1>7. ActiveTypes \in SUBSET StepTypes
  BY DEF ActiveTypes
<1> HIDE DEF l
<1>8. Good(p)
  BY <1>1, <1>5, <1>6, <1>7, GoodFields, WithIsGood DEF l
<1>9. /\ p.kind = q.kind /\ p.service = q.service /\ p.undisturbed = q.undisturbed
      /\ p.stage = "comparing" /\ p.opening = ActiveTypes /\ Task(p) = "nextSteps"
  BY <1>1, <1>5, WithFields DEF l
<1>10. (p.undisturbed => Sure(p)) /\ Harmless(p)
  BY <1>3, <1>9 DEF Sure, Harmless
<1> QED
  BY <1>1, <1>2, <1>8, <1>9, <1>10, ReadInside DEF q, Early, Counting

LEMMA ReadOpenStepsOK ==
  ASSUME JourneyInv, NEW r \in Requests, ReadOpenSteps(r)
  PROVE  JourneyInv'
<1> DEFINE q == req[r]
           closing == ToClose(r)
           opening == q.opening \ OpenTypes
           p == [q EXCEPT !.stage = "stepping", !.closing = closing, !.opening = opening]
           l == With(q, "stepping", q.value, q.streak, q.due, q.milestone, closing, opening,
                     q.row)
<1>1. q.stage = "comparing" /\ Good(q) /\ q \in Locals /\ Busy(r) /\ RequestsGood
  BY DEF ReadOpenSteps, Busy, JourneyInv, RequestsGood, Good
<1>2. Task(q) = "nextSteps" /\ q.todo # <<>> /\ q.stage \in Working /\ q.kind # "record"
  BY <1>1 DEF Good, InTask, Fits, Task, Working, Counting
<1>3. q.undisturbed => journey = Presences /\ score = Constancy /\ q.opening = ActiveTypes
  BY <1>1, <1>2, LoneIsSure DEF Sure
<1>4. Update(r, p) /\ UNCHANGED <<tables, bounds, history>>
  BY <1>1 DEF ReadOpenSteps, Locals
<1>5. closing = {x \in StepTypes \X Nat : /\ x[1] \in StepTypes \ q.opening
                                          /\ x[2] \in RowsWith(x[1], "OPEN")}
  <2>1. \A t \in StepTypes : RowsWith(t, "OPEN") \subseteq Nat
    BY DEF RowsWith, JourneyInv, TablesGood
  <2> QED
    BY <2>1 DEF ToClose
<1>6. closing \in SUBSET (StepTypes \X Nat) /\ opening \in SUBSET StepTypes
  BY <1>1, <1>5, GoodFields
<1>7. fresh => q.opening = ActiveTypes /\ OpenTypes = ActiveTypes
  BY <1>1, FreshIsHarmless DEF Harmless
<1>8. fresh => closing = {} /\ opening = {}
  BY <1>5, <1>7 DEF OpenTypes
<1>9. q.undisturbed =>
         /\ opening \subseteq ActiveTypes /\ opening \cap OpenTypes = {}
         /\ ActiveTypes \subseteq OpenTypes \cup opening
         /\ \A t \in StepTypes \ ActiveTypes : \A i \in RowsWith(t, "OPEN") : <<t, i>> \in closing
         /\ \A x \in closing : x[1] \notin ActiveTypes
  <2>1. \A t \in StepTypes : RowsWith(t, "OPEN") \subseteq Nat
    BY DEF RowsWith, JourneyInv, TablesGood
  <2> QED
    BY <1>3, <1>5, <2>1
<1> HIDE DEF q, closing, opening
<1>10. p = [q EXCEPT !.stage = "stepping", !.closing = closing, !.opening = opening]
  OBVIOUS
<1> HIDE DEF p
<1>11. p = l
  BY <1>1, <1>10, ChangeStageClosingOpening
<1>12. "stepping" \in Stages /\ "stepping" \notin Counting /\ "stepping" \in Working
      /\ Fits("stepping", Task(q))
  BY <1>2 DEF Stages, Counting, Working, Fits
<1> HIDE DEF l
<1>13. Good(p)
  BY <1>1, <1>2, <1>6, <1>11, <1>12, GoodFields, WithIsGood DEF l
<1>14. /\ p.kind = q.kind /\ p.service = q.service /\ p.undisturbed = q.undisturbed
      /\ p.stage = "stepping" /\ p.opening = opening /\ p.closing = closing
      /\ Task(p) = "nextSteps"
  BY <1>1, <1>2, <1>11, WithFields DEF l
<1>15. p.undisturbed => Sure(p)
  BY <1>3, <1>9, <1>14 DEF Sure, StepsAhead
<1>16. fresh => Harmless(p)
  BY <1>8, <1>14 DEF Harmless
<1> QED
  BY <1>1, <1>2, <1>4, <1>13, <1>14, <1>15, <1>16, ReadInside DEF q, Early, Counting

-----------------------------------------------------------------------------
(* The steps of the refresh that write.                                     *)

LEMMA Assembled ==
  ASSUME JourneyInv, NEW r \in Requests, Moved(r), TablesGood', HistoryGood',
         AbsencesKnown', DeedsKnown', MilestonesKnown', FreshIsKept',
         req'[r].stage # "idle" /\ req'[r].undisturbed => Sure(req[r])'
  PROVE  JourneyInv'
<1>1. LoneOnesSure'
  BY LoneStep
<1> QED
  BY <1>1 DEF JourneyInv, Moved

\* Nothing is sure, and nothing can be harmed, once a request is in no task.
LEMMA NothingInHand ==
  ASSUME NEW r \in Requests, req'[r].stage \notin Working, Task(req[r])' = "none"
  PROVE  Sure(req[r])' /\ Harmless(req[r])'
  BY DEF Sure, Harmless, Working

\* A unique key refuses a write.
LEMMA RefusedOK ==
  ASSUME JourneyInv, NEW r \in Requests, Busy(r),
         NEW key \in {"journey", "milestone", "opening", "closing"}, Refused(r, key),
         req[r].stage \notin Early \cup {"announcing"},
         key = "journey" \/ Task(req[r]) \notin {"ensure", "log"},
         req[r].undisturbed => key = "closing"
  PROVE  JourneyInv'
<1>1. /\ Update(r, Caught(r)) /\ spoiled' = spoiled \cup {key}
      /\ alone' = IF req[r].undisturbed THEN alone \cup {key} ELSE alone
      /\ UNCHANGED <<tables, bounds, registered, fresh>>
  BY DEF Refused
<1>2. /\ attendance' = attendance /\ absences' = absences /\ journey' = journey
      /\ logs' = logs /\ milestones' = milestones /\ score' = score /\ steps' = steps
      /\ checkpoints' = checkpoints /\ calls' = calls /\ failures' = failures
      /\ registered' = registered /\ fresh' = fresh
  BY <1>1 DEF tables, bounds
<1>3. RequestsGood /\ LoneOnesSure
  BY DEF JourneyInv
<1> DEFINE l == Caught(r)
<1>4. /\ Good(l) /\ Task(l) = "none"
      /\ l = Idle \/ (/\ l.stage = "marking" /\ l.kind = req[r].kind
                      /\ l.service = req[r].service /\ l.undisturbed = req[r].undisturbed)
  BY <1>3, CaughtIsGood
<1> HIDE DEF l
<1>5. l.stage \in {"idle", "marking"} /\ (l.stage = "idle" => l.kind = "none")
  BY <1>4, IdleIsGood
<1>6. l.stage = "idle" \/ (l.undisturbed => req[r].undisturbed)
  BY <1>4, IdleIsGood
<1>7. Moved(r) /\ req'[r] = l
  BY <1>1, <1>3, <1>4, <1>6, UpdateMoves DEF l
<1>8. TablesGood' /\ HistoryGood'
  <2>1. TablesGood /\ HistoryGood
    BY DEF JourneyInv
  <2>2. spoiled' \subseteq {"twins", "absences", "journey", "milestone", "opening", "closing"}
    BY <1>1, <2>1 DEF HistoryGood
  <2>3. alone' \subseteq {"closing"}
    BY <1>1, <2>1 DEF HistoryGood
  <2> QED
    BY <1>2, <2>1, <2>2, <2>3 DEF TablesGood, HistoryGood
<1>9. AbsencesKnown'
  <2>1. req[r].stage \notin Counting /\ req'[r].stage \notin Counting
    BY <1>5, <1>7 DEF Early, Counting
  <2> QED
    BY <1>1, <1>2, <1>7, <2>1, AbsencesAside
<1>10. DeedsKnown'
  <2>1. req'[r].stage # "logging"
    BY <1>5, <1>7
  <2>2. ASSUME NEW s \in References, Handled(r, s)' PROVE Handled(r, s)
    <3>1. l.kind = "project" /\ l.service = s
      BY <1>7, <2>2 DEF Handled
    <3>2. l.stage # "idle"
      BY <1>5, <3>1
    <3> QED
      BY <1>4, <3>1, <3>2, IdleIsGood DEF Handled, Early
  <2>3. key # "journey" => \A s \in References : ~ Pending(r, s)
    BY DEF Pending, Early
  <2> QED
    BY <1>1, <1>2, <1>7, <2>1, <2>2, <2>3, DeedsAside
<1>11. MilestonesKnown'
  BY <1>2, <1>5, <1>7, MilestonesAside
<1>12. Sure(req[r])' /\ Harmless(req[r])'
  <2>1. Task(req[r])' = "none" /\ req'[r].stage \notin Working
    BY <1>4, <1>5, <1>7 DEF Task, Working
  <2> QED
    BY <2>1, NothingInHand
<1>13. FreshIsKept'
  BY <1>2, <1>7, <1>12, FreshAside
<1> QED
  BY <1>7, <1>8, <1>9, <1>10, <1>11, <1>12, <1>13, Assembled

\* What the write of a total or an indicator needs to know of the task that ends.
LEMMA PoppedFacts ==
  ASSUME JourneyInv, NEW r \in Requests, Busy(r), req[r].stage \in Working,
         req[r].stage \notin Early, Task(req[r]) \notin {"none", "ensure", "log"},
         Update(r, Popped(r))
  PROVE  /\ Moved(r) /\ req'[r] = Popped(r) /\ req'[r].stage = "next"
         /\ req'[r].undisturbed = req[r].undisturbed
         /\ req'[r].kind = req[r].kind /\ req'[r].service = req[r].service
         /\ Task(req[r])' \notin {"ensure", "log"}
         /\ Task(req[r])' = "milestones" => Task(req[r]) = "totals"
         /\ Task(req[r])' = "indicators" => Task(req[r]) = "milestones"
         /\ Task(req[r])' = "nextSteps" => Task(req[r]) = "indicators"
<1>1. RequestsGood /\ LoneOnesSure /\ req[r].todo # <<>>
  BY DEF JourneyInv, Task
<1> DEFINE p == Popped(r)
<1>2. /\ Good(p) /\ p.stage = "next" /\ p.kind = req[r].kind /\ p.service = req[r].service
      /\ p.undisturbed = req[r].undisturbed
      /\ Task(p) \notin {"ensure", "log"}
      /\ Task(p) = "milestones" => Task(req[r]) = "totals"
      /\ Task(p) = "indicators" => Task(req[r]) = "milestones"
      /\ Task(p) = "nextSteps" => Task(req[r]) = "indicators"
  BY <1>1, PoppedIsGood
<1> HIDE DEF p
<1>3. Moved(r) /\ req'[r] = p
  BY <1>1, <1>2, UpdateMoves DEF p
<1>4. Task(req[r])' = Task(p)
  BY <1>3 DEF Task
<1> QED
  BY <1>2, <1>3, <1>4 DEF p

LEMMA StoreTotalsOK ==
  ASSUME JourneyInv, NEW r \in Requests, StoreTotals(r)
  PROVE  JourneyInv'
<1> DEFINE q == req[r]
<1>1. /\ q.stage = "totalling" /\ Good(q) /\ Busy(r) /\ journey' = q.value
      /\ Update(r, Popped(r))
  BY DEF StoreTotals, Busy, JourneyInv, RequestsGood
<1>2. /\ attendance' = attendance /\ absences' = absences
      /\ logs' = logs /\ milestones' = milestones /\ score' = score /\ steps' = steps
      /\ checkpoints' = checkpoints /\ calls' = calls /\ failures' = failures
      /\ registered' = registered /\ spoiled' = spoiled /\ alone' = alone /\ fresh' = fresh
  BY DEF StoreTotals, bounds, history
<1>3. Task(q) = "totals" /\ q.stage \in Working /\ q.stage \notin Early /\ q.value \in Nat
  BY <1>1, GoodFields DEF Good, InTask, Fits, Working, Early, Counting
<1>4. /\ Moved(r) /\ req'[r].stage = "next" /\ req'[r].undisturbed = q.undisturbed
      /\ req'[r].kind = q.kind /\ req'[r].service = q.service
      /\ Task(req[r])' \notin {"ensure", "log", "indicators", "nextSteps"}
  BY <1>1, <1>3, PoppedFacts
<1>5. q.undisturbed => q.value = Presences
  BY <1>1, LoneIsSure DEF Sure
<1>6. fresh => q.value = journey
  BY <1>1, FreshIsHarmless DEF Harmless
<1> HIDE DEF q
<1>7. TablesGood' /\ HistoryGood'
  BY <1>1, <1>2, <1>3 DEF JourneyInv, TablesGood, HistoryGood
<1>8. AbsencesKnown' /\ DeedsKnown'
  <2>1. req'[r].stage \notin Early
    BY <1>4 DEF Early, Counting
  <2> QED
    BY <1>2, <1>3, <1>4, <2>1, InsideTask DEF q
<1>9. MilestonesKnown'
  BY <1>1, <1>2, <1>4, MilestonesAside DEF q
<1>10. req'[r].undisturbed => Sure(req[r])'
  <2>1. Presences' = Presences
    BY <1>2 DEF Presences
  <2> QED
    BY <1>1, <1>4, <1>5, <2>1 DEF Sure
<1>11. FreshIsKept'
  <2>1. Harmless(req[r])'
    BY <1>4 DEF Harmless
  <2>2. CASE fresh
    BY <1>1, <1>2, <1>4, <1>6, <2>1, <2>2, FreshAside
  <2>3. CASE ~ fresh
    BY <1>2, <2>3 DEF FreshIsKept
  <2> QED
    BY <2>2, <2>3
<1> QED
  BY <1>4, <1>7, <1>8, <1>9, <1>10, <1>11, Assembled

LEMMA StoreIndicatorsOK ==
  ASSUME JourneyInv, NEW r \in Requests, StoreIndicators(r)
  PROVE  JourneyInv'
<1> DEFINE q == req[r]
<1>1. /\ q.stage = "scoring" /\ Good(q) /\ Busy(r) /\ score' = q.value
      /\ Update(r, Popped(r))
  BY DEF StoreIndicators, Busy, JourneyInv, RequestsGood
<1>2. /\ attendance' = attendance /\ absences' = absences
      /\ logs' = logs /\ milestones' = milestones /\ journey' = journey /\ steps' = steps
      /\ checkpoints' = checkpoints /\ calls' = calls /\ failures' = failures
      /\ registered' = registered /\ spoiled' = spoiled /\ alone' = alone /\ fresh' = fresh
  BY DEF StoreIndicators, bounds, history
<1>3. Task(q) = "indicators" /\ q.stage \in Working /\ q.stage \notin Early /\ q.value \in 0..100
  BY <1>1 DEF Good, InTask, Fits, Working, Early, Counting
<1>4. /\ Moved(r) /\ req'[r].stage = "next" /\ req'[r].undisturbed = q.undisturbed
      /\ req'[r].kind = q.kind /\ req'[r].service = q.service
      /\ Task(req[r])' \notin {"ensure", "log", "milestones", "indicators"}
  BY <1>1, <1>3, PoppedFacts
<1>5. q.undisturbed => q.value = Constancy /\ journey = Presences
  BY <1>1, <1>3, LoneIsSure DEF Sure
<1>6. fresh => q.value = score
  BY <1>1, FreshIsHarmless DEF Harmless
<1> HIDE DEF q
<1>7. TablesGood' /\ HistoryGood'
  BY <1>1, <1>2, <1>3 DEF JourneyInv, TablesGood, HistoryGood
<1>8. AbsencesKnown' /\ DeedsKnown'
  <2>1. req'[r].stage \notin Early
    BY <1>4 DEF Early, Counting
  <2> QED
    BY <1>2, <1>3, <1>4, <2>1, InsideTask DEF q
<1>9. MilestonesKnown'
  BY <1>1, <1>2, <1>4, MilestonesAside DEF q
<1>10. req'[r].undisturbed => Sure(req[r])'
  <2>1. Presences' = Presences /\ Constancy' = Constancy
    BY <1>2 DEF Presences, Absences, Constancy
  <2> QED
    BY <1>1, <1>2, <1>4, <1>5, <2>1 DEF Sure
<1>11. FreshIsKept'
  <2>1. Harmless(req[r])'
    BY <1>4 DEF Harmless
  <2>2. CASE fresh
    BY <1>1, <1>2, <1>4, <1>6, <2>1, <2>2, FreshAside
  <2>3. CASE ~ fresh
    BY <1>2, <2>3 DEF FreshIsKept
  <2> QED
    BY <2>2, <2>3
<1> QED
  BY <1>4, <1>7, <1>8, <1>9, <1>10, <1>11, Assembled

LEMMA AwardMilestoneOK ==
  ASSUME JourneyInv, NEW r \in Requests, AwardMilestone(r)
  PROVE  JourneyInv'
<1> DEFINE q == req[r]
           m == q.milestone
<1>1. q.stage = "awarding" /\ Good(q) /\ q \in Locals /\ Busy(r) /\ RequestsGood
  BY DEF AwardMilestone, Busy, JourneyInv, RequestsGood, Good
<1>2. /\ Task(q) = "milestones" /\ q.stage \in Working /\ q.kind # "record"
      /\ q.stage \notin Early \cup {"announcing"} /\ m \in Milestones
  BY <1>1 DEF Good, InTask, Fits, Task, Working, Counting, Early
<1>3. q.undisturbed => journey = Presences /\ m \notin milestones
  BY <1>1, <1>2, LoneIsSure DEF Sure
<1>4. CASE m \in milestones
  <2>1. Refused(r, "milestone")
    BY <1>4 DEF AwardMilestone
  <2>2. ~ q.undisturbed
    BY <1>3, <1>4
  <2> QED
    BY <1>1, <1>2, <2>1, <2>2, RefusedOK
<1>5. CASE m \notin milestones
  <2> DEFINE p == [q EXCEPT !.stage = "announcing"]
             l == With(q, "announcing", q.value, q.streak, q.due, q.milestone, q.closing,
                       q.opening, q.row)
  <2>1. milestones' = milestones \cup {m} /\ Update(r, p)
    BY <1>5 DEF AwardMilestone
  <2>2. /\ attendance' = attendance /\ absences' = absences
        /\ logs' = logs /\ journey' = journey /\ score' = score /\ steps' = steps
        /\ checkpoints' = checkpoints /\ calls' = calls /\ failures' = failures
        /\ registered' = registered /\ spoiled' = spoiled /\ alone' = alone /\ fresh' = fresh
    BY <1>5 DEF AwardMilestone, bounds, history
  <2> HIDE DEF q
  <2>3. p = [q EXCEPT !.stage = "announcing"]
    OBVIOUS
  <2> HIDE DEF p
  <2>4. p = l
    BY <1>1, <2>3, ChangeStage
  <2>5. "announcing" \in Stages /\ "announcing" \notin Early /\ "announcing" \notin Counting
        /\ "announcing" \in Working /\ Fits("announcing", Task(q))
    BY <1>2 DEF Stages, Counting, Working, Fits, Early
  <2> HIDE DEF l
  <2>6. Good(p)
    BY <1>1, <1>2, <2>4, <2>5, GoodFields, WithIsGood DEF l
  <2>7. /\ p.kind = q.kind /\ p.service = q.service /\ p.undisturbed = q.undisturbed
        /\ p.stage = "announcing" /\ p.milestone = m /\ Task(p) = "milestones"
    BY <1>1, <1>2, <2>4, WithFields DEF l
  <2>8. Moved(r) /\ req'[r] = p
    BY <1>1, <2>1, <2>6, <2>7, UpdateMoves DEF q, JourneyInv
  <2>9. TablesGood' /\ HistoryGood'
    BY <1>2, <2>1, <2>2 DEF JourneyInv, TablesGood, HistoryGood
  <2>10. AbsencesKnown' /\ DeedsKnown'
    <3>1. req'[r].stage \notin Early
      BY <2>5, <2>7, <2>8
    <3> QED
      BY <1>2, <2>2, <2>7, <2>8, <3>1, InsideTask DEF q
  <2>11. MilestonesKnown'
    <3>1. MilestonesKnown
      BY DEF JourneyInv
    <3>2. \A n \in Milestones : Announcing(r, n)' <=> n = m
      BY <2>7, <2>8 DEF Announcing
    <3>3. \A x \in Requests \ {r}, n \in Milestones : Announcing(x, n)' <=> Announcing(x, n)
      BY <2>8 DEF Moved, Alike, Announcing
    <3>4. \A x \in Requests : ~ Announcing(x, m)
      BY <1>2, <1>5, <3>1 DEF MilestonesKnown
    <3>5. \A n \in Milestones : ~ Announcing(r, n)
      BY <1>1 DEF Announcing, q
    <3> HIDE DEF m
    <3>6. ASSUME NEW n \in Milestones
          PROVE  /\ logs'[n] \in {0, 1}
                 /\ n \notin milestones' => logs'[n] = 0
                 /\ \A x \in Requests : Announcing(x, n)' => n \in milestones' /\ logs'[n] = 0
                 /\ \A x, y \in Requests : Announcing(x, n)' /\ Announcing(y, n)' => x = y
                 /\ n \in milestones' /\ failures' = 0 =>
                       logs'[n] = 1 \/ \E x \in Requests : Announcing(x, n)'
      <4>1. CASE n = m
        BY <1>2, <1>5, <2>1, <2>2, <3>1, <3>2, <3>3, <3>4, <4>1 DEF MilestonesKnown
      <4>2. CASE n # m
        BY <2>1, <2>2, <3>1, <3>2, <3>3, <3>5, <4>2 DEF MilestonesKnown
      <4> QED
        BY <4>1, <4>2
    <3> QED
      BY <3>6 DEF MilestonesKnown
  <2>12. req'[r].undisturbed => Sure(req[r])'
    <3>1. Presences' = Presences
      BY <2>2 DEF Presences
    <3>2. Task(req[r])' = "milestones"
      BY <2>7, <2>8 DEF Task
    <3> QED
      BY <1>3, <2>2, <2>7, <2>8, <3>1, <3>2 DEF Sure
  <2>13. FreshIsKept'
    <3>1. Harmless(req[r])'
      BY <2>7, <2>8 DEF Harmless
    <3> QED
      BY <2>2, <2>8, <3>1, FreshAside
  <2> QED
    BY <2>8, <2>9, <2>10, <2>11, <2>12, <2>13, Assembled
<1> QED
  BY <1>4, <1>5

LEMMA AnnounceMilestoneOK ==
  ASSUME JourneyInv, NEW r \in Requests, AnnounceMilestone(r)
  PROVE  JourneyInv'
<1> DEFINE q == req[r]
           m == q.milestone
           due == q.due \ {m}
           p == [q EXCEPT !.stage = "unlocking", !.due = due, !.milestone = NoMilestone]
           l == With(q, "unlocking", q.value, q.streak, due, NoMilestone, q.closing,
                     q.opening, q.row)
<1>1. q.stage = "announcing" /\ Good(q) /\ q \in Locals /\ Busy(r) /\ RequestsGood
  BY DEF AnnounceMilestone, Busy, JourneyInv, RequestsGood, Good
<1>2. /\ Task(q) = "milestones" /\ q.stage \in Working /\ q.kind # "record"
      /\ q.stage \notin Early /\ m \in Milestones /\ due \in SUBSET Milestones
  BY <1>1, GoodFields DEF Good, InTask, Fits, Task, Working, Counting, Early
<1>3. q.undisturbed => journey = Presences
  BY <1>1, <1>2, LoneIsSure DEF Sure
<1>4. Announcing(r, m) /\ m \in milestones /\ logs[m] = 0
  <2>1. Announcing(r, m)
    BY <1>1 DEF Announcing
  <2> QED
    BY <1>2, <2>1 DEF JourneyInv, MilestonesKnown
<1>5. Update(r, p)
  BY <1>1 DEF AnnounceMilestone, Locals
<1>6. /\ attendance' = attendance /\ absences' = absences /\ milestones' = milestones
      /\ journey' = journey /\ score' = score /\ steps' = steps
      /\ checkpoints' = checkpoints /\ calls' = calls /\ failures' = failures
      /\ registered' = registered /\ spoiled' = spoiled /\ alone' = alone /\ fresh' = fresh
  BY DEF AnnounceMilestone, bounds, history
<1>7. logs' = [logs EXCEPT ![m] = IF logs[m] < 2 THEN logs[m] + 1 ELSE 2]
  BY DEF AnnounceMilestone, Logged
<1>8. /\ logs' \in [References \cup Milestones -> 0..2] /\ logs'[m] = 1
      /\ \A x \in References \cup Milestones : x # m => logs'[x] = logs[x]
  <2>1. logs \in [References \cup Milestones -> 0..2] /\ m \in References \cup Milestones
    BY <1>2 DEF JourneyInv, TablesGood
  <2> HIDE DEF m
  <2> QED
    BY <1>4, <1>7, <2>1
<1>9. \A s \in References : logs'[s] = logs[s]
  BY <1>2, <1>8, ConstantsAssumption DEF References
<1> HIDE DEF q, due
<1>10. p = [q EXCEPT !.stage = "unlocking", !.due = due, !.milestone = NoMilestone]
  OBVIOUS
<1> HIDE DEF p
<1>11. p = l
  BY <1>1, <1>10, ChangeStageDueMilestone
<1>12. "unlocking" \in Stages /\ "unlocking" \notin Early /\ "unlocking" \notin Counting
      /\ "unlocking" \in Working /\ Fits("unlocking", Task(q))
  BY <1>2 DEF Stages, Counting, Working, Fits, Early
<1> HIDE DEF l
<1>13. Good(p)
  BY <1>1, <1>2, <1>11, <1>12, GoodFields, WithIsGood DEF l
<1>14. /\ p.kind = q.kind /\ p.service = q.service /\ p.undisturbed = q.undisturbed
       /\ p.stage = "unlocking" /\ Task(p) = "milestones"
  BY <1>1, <1>2, <1>11, WithFields DEF l
<1>15. Moved(r) /\ req'[r] = p
  BY <1>1, <1>5, <1>13, <1>14, UpdateMoves DEF q, JourneyInv
<1>16. TablesGood' /\ HistoryGood'
  BY <1>6, <1>8 DEF JourneyInv, TablesGood, HistoryGood
<1>17. AbsencesKnown' /\ DeedsKnown'
  <2>1. req'[r].stage \notin Early
    BY <1>12, <1>14, <1>15
  <2> QED
    BY <1>2, <1>6, <1>9, <1>14, <1>15, <2>1, InsideTask DEF q
<1>18. MilestonesKnown'
  <2>1. MilestonesKnown
    BY DEF JourneyInv
  <2>2. \A n \in Milestones : ~ Announcing(r, n)'
    BY <1>14, <1>15 DEF Announcing
  <2>3. \A x \in Requests \ {r}, n \in Milestones : Announcing(x, n)' <=> Announcing(x, n)
    BY <1>15 DEF Moved, Alike, Announcing
  <2>4. \A x \in Requests : Announcing(x, m) => x = r
    BY <1>2, <1>4, <2>1 DEF MilestonesKnown
  <2>5. \A n \in Milestones : Announcing(r, n) => n = m
    BY DEF Announcing, q
  <2> HIDE DEF m
  <2>6. ASSUME NEW n \in Milestones
        PROVE  /\ logs'[n] \in {0, 1}
               /\ n \notin milestones' => logs'[n] = 0
               /\ \A x \in Requests : Announcing(x, n)' => n \in milestones' /\ logs'[n] = 0
               /\ \A x, y \in Requests : Announcing(x, n)' /\ Announcing(y, n)' => x = y
               /\ n \in milestones' /\ failures' = 0 =>
                     logs'[n] = 1 \/ \E x \in Requests : Announcing(x, n)'
    <3>1. CASE n = m
      BY <1>4, <1>6, <1>8, <2>2, <2>3, <2>4, <3>1
    <3>2. CASE n # m
      BY <1>6, <1>8, <2>1, <2>2, <2>3, <2>5, <3>2 DEF MilestonesKnown
    <3> QED
      BY <3>1, <3>2
  <2> QED
    BY <2>6 DEF MilestonesKnown
<1>19. req'[r].undisturbed => Sure(req[r])'
  <2>1. Presences' = Presences
    BY <1>6 DEF Presences
  <2>2. Task(req[r])' = "milestones"
    BY <1>14, <1>15 DEF Task
  <2> QED
    BY <1>3, <1>6, <1>14, <1>15, <2>1, <2>2 DEF Sure
<1>20. FreshIsKept'
  <2>1. Harmless(req[r])'
    BY <1>14, <1>15 DEF Harmless
  <2> QED
    BY <1>6, <1>15, <2>1, FreshAside
<1> QED
  BY <1>15, <1>16, <1>17, <1>18, <1>19, <1>20, Assembled

-----------------------------------------------------------------------------
(* The rows of the next steps.                                             *)

Statuses == {"OPEN", "DONE", "DISMISSED"}

\* An entry of a list is replaced, if the list has it.
LEMMA Restated ==
  ASSUME NEW S, NEW s \in Seq(S), NEW i \in Nat, NEW status \in S, NEW u,
         u = [s EXCEPT ![i] = status]
  PROVE  /\ u \in Seq(S) /\ DOMAIN u = DOMAIN s
         /\ \A j \in DOMAIN s : u[j] = IF j = i THEN status ELSE s[j]
<1>1. CASE i \in 1..Len(s)
  BY <1>1, ExceptSeq
<1>2. CASE i \notin 1..Len(s)
  <2>1. s = [j \in 1..Len(s) |-> s[j]] /\ DOMAIN s = 1..Len(s)
    OBVIOUS
  <2>2. u = s
    BY <1>2, <2>1
  <2> QED
    BY <1>2, <2>1, <2>2
<1> QED
  BY <1>1, <1>2

LEMMA RowsAfterClosing ==
  ASSUME TablesGood, NEW t \in StepTypes, NEW i \in Nat, NEW status \in {"DONE", "DISMISSED"},
         steps' = [steps EXCEPT ![t][i] = status]
  PROVE  /\ DOMAIN steps' = StepTypes
         /\ \A v \in StepTypes : steps'[v] \in Seq(Statuses)
         /\ \A v \in StepTypes \ {t} : RowsWith(v, "OPEN")' = RowsWith(v, "OPEN")
         /\ RowsWith(t, "OPEN")' = RowsWith(t, "OPEN") \ {i}
<1>1. DOMAIN steps = StepTypes /\ \A v \in StepTypes : steps[v] \in Seq(Statuses)
  BY DEF TablesGood, Statuses
<1> DEFINE u == [steps[t] EXCEPT ![i] = status]
<1>2. /\ DOMAIN steps' = StepTypes /\ steps'[t] = u
      /\ \A v \in StepTypes \ {t} : steps'[v] = steps[v]
  BY <1>1
<1>3. /\ u \in Seq(Statuses) /\ DOMAIN u = DOMAIN steps[t]
      /\ \A j \in DOMAIN steps[t] : u[j] = IF j = i THEN status ELSE steps[t][j]
  <2>1. status \in Statuses
    BY DEF Statuses
  <2> QED
    BY <1>1, <2>1, Restated
<1> HIDE DEF u
<1>4. \A v \in StepTypes \ {t} : RowsWith(v, "OPEN")' = RowsWith(v, "OPEN")
  BY <1>2 DEF RowsWith
<1>5. RowsWith(t, "OPEN")' = RowsWith(t, "OPEN") \ {i}
  BY <1>2, <1>3 DEF RowsWith
<1> QED
  BY <1>1, <1>2, <1>3, <1>4, <1>5

LEMMA RowsAfterOpening ==
  ASSUME TablesGood, NEW t \in StepTypes, steps' = [steps EXCEPT ![t] = Append(steps[t], "OPEN")]
  PROVE  /\ DOMAIN steps' = StepTypes
         /\ \A v \in StepTypes : steps'[v] \in Seq(Statuses)
         /\ \A v \in StepTypes \ {t} : RowsWith(v, "OPEN")' = RowsWith(v, "OPEN")
         /\ RowsWith(t, "OPEN")' # {}
<1>1. DOMAIN steps = StepTypes /\ \A v \in StepTypes : steps[v] \in Seq(Statuses)
  BY DEF TablesGood, Statuses
<1> DEFINE u == Append(steps[t], "OPEN")
<1>2. /\ DOMAIN steps' = StepTypes /\ steps'[t] = u
      /\ \A v \in StepTypes \ {t} : steps'[v] = steps[v]
  BY <1>1
<1>3. u \in Seq(Statuses) /\ Len(u) = Len(steps[t]) + 1 /\ u[Len(steps[t]) + 1] = "OPEN"
  <2>1. "OPEN" \in Statuses
    BY DEF Statuses
  <2> QED
    BY <1>1, <2>1, AppendProperties
<1> HIDE DEF u
<1>4. \A v \in StepTypes \ {t} : RowsWith(v, "OPEN")' = RowsWith(v, "OPEN")
  BY <1>2 DEF RowsWith
<1>5. Len(steps[t]) + 1 \in DOMAIN u
  <2>1. Len(steps[t]) \in Nat /\ DOMAIN u = 1..Len(u)
    BY <1>1, <1>3
  <2> QED
    BY <1>3, <2>1
<1>6. RowsWith(t, "OPEN")' # {}
  BY <1>2, <1>3, <1>5 DEF RowsWith
<1> QED
  BY <1>1, <1>2, <1>3, <1>4, <1>6

LEMMA CloseStepOK ==
  ASSUME JourneyInv, NEW r \in Requests, CloseStep(r)
  PROVE  JourneyInv'
<1> DEFINE q == req[r]
<1>1. q.stage = "stepping" /\ Good(q) /\ q \in Locals /\ Busy(r) /\ RequestsGood
  BY DEF CloseStep, Busy, JourneyInv, RequestsGood, Good
<1>2. Task(q) = "nextSteps" /\ q.stage \in Working /\ q.kind # "record"
      /\ q.stage \notin Early \cup {"announcing"}
  BY <1>1 DEF Good, InTask, Fits, Working, Counting, Early
<1>3. PICK x \in q.closing : CloseRow(r, x[1], x[2], "DONE")
  BY DEF CloseStep
<1>4. PICK t \in StepTypes, i \in Nat : x = <<t, i>>
  BY <1>1, <1>3, GoodFields
<1>5. x[1] = t /\ x[2] = i /\ <<t, i>> \in q.closing
  BY <1>3, <1>4
<1>6. CloseRow(r, t, i, "DONE")
  BY <1>3, <1>5
<1>7. ~ fresh
  BY <1>1, <1>5, FreshIsHarmless DEF Harmless
<1>8. q.undisturbed => journey = Presences /\ score = Constancy /\ StepsAhead(q)
  BY <1>1, <1>2, LoneIsSure DEF Sure
<1>9. CASE RowsWith(t, "DONE") \ {i} # {}
  <2>1. Refused(r, "closing")
    BY <1>6, <1>9 DEF CloseRow
  <2> QED
    BY <1>1, <1>2, <2>1, RefusedOK
<1>10. CASE ~ RowsWith(t, "DONE") \ {i} # {}
  <2> DEFINE closing == q.closing \ {<<t, i>>}
             p == [q EXCEPT !.closing = closing]
             l == With(q, q.stage, q.value, q.streak, q.due, q.milestone, closing, q.opening,
                       q.row)
  <2>1. steps' = [steps EXCEPT ![t][i] = "DONE"] /\ Update(r, p) /\ fresh' = fresh
    BY <1>1, <1>6, <1>10 DEF CloseRow, Locals
  <2>2. /\ attendance' = attendance /\ absences' = absences
        /\ logs' = logs /\ milestones' = milestones /\ journey' = journey /\ score' = score
        /\ checkpoints' = checkpoints /\ calls' = calls /\ failures' = failures
        /\ registered' = registered /\ spoiled' = spoiled /\ alone' = alone
    BY <1>6, <1>10 DEF CloseRow, bounds
  <2>3. closing \in SUBSET (StepTypes \X Nat)
    BY <1>1, GoodFields
  <2> HIDE DEF q, closing
  <2>4. p = [q EXCEPT !.closing = closing]
    OBVIOUS
  <2> HIDE DEF p
  <2>5. p = l
    BY <1>1, <2>4, ChangeClosing
  <2>6. q.stage \notin Counting /\ q.stage \in Stages /\ Fits(q.stage, Task(q))
    BY <1>1, <1>2, GoodFields DEF Counting, Fits
  <2> HIDE DEF l
  <2>7. Good(p)
    BY <1>1, <1>2, <2>3, <2>5, <2>6, GoodFields, WithIsGood DEF l
  <2>8. /\ p.kind = q.kind /\ p.service = q.service /\ p.undisturbed = q.undisturbed
        /\ p.stage = "stepping" /\ p.closing = closing /\ p.opening = q.opening
        /\ Task(p) = "nextSteps"
    BY <1>1, <1>2, <2>5, WithFields DEF l
  <2>9. Moved(r) /\ req'[r] = p
    BY <1>1, <2>1, <2>7, <2>8, UpdateMoves DEF q, JourneyInv
  <2>10. /\ DOMAIN steps' = StepTypes
         /\ \A v \in StepTypes : steps'[v] \in Seq(Statuses)
         /\ \A v \in StepTypes \ {t} : RowsWith(v, "OPEN")' = RowsWith(v, "OPEN")
         /\ RowsWith(t, "OPEN")' = RowsWith(t, "OPEN") \ {i}
    BY <2>1, RowsAfterClosing DEF JourneyInv
  <2>11. TablesGood' /\ HistoryGood'
    BY <2>1, <2>2, <2>10 DEF JourneyInv, TablesGood, HistoryGood, Statuses
  <2>12. AbsencesKnown' /\ DeedsKnown'
    <3>1. req'[r].stage \notin Early
      BY <2>8, <2>9 DEF Early, Counting
    <3> QED
      BY <1>2, <2>2, <2>8, <2>9, <3>1, InsideTask DEF q
  <2>13. MilestonesKnown'
    BY <1>1, <2>2, <2>8, <2>9, MilestonesAside DEF q
  <2>14. req'[r].undisturbed => Sure(req[r])'
    <3>1. /\ Presences' = Presences /\ Constancy' = Constancy /\ ActiveTypes' = ActiveTypes
      BY <2>2 DEF Presences, Absences, Constancy, ActiveTypes
    <3>2. Task(req[r])' = "nextSteps"
      BY <2>8, <2>9 DEF Task
    <3>3. ASSUME StepsAhead(q) PROVE StepsAhead(req[r])'
      <4>1. t \notin ActiveTypes
        BY <1>5, <3>3 DEF StepsAhead, q
      <4>2. \A v \in StepTypes : v \in OpenTypes' => v \in OpenTypes
        BY <2>10 DEF OpenTypes
      <4>3. \A v \in StepTypes \ {t} : v \in OpenTypes => v \in OpenTypes'
        BY <2>10 DEF OpenTypes
      <4>4. ActiveTypes \subseteq StepTypes /\ OpenTypes' \subseteq StepTypes
        BY DEF ActiveTypes, OpenTypes
      <4>5. /\ q.opening \subseteq ActiveTypes /\ q.opening \cap OpenTypes' = {}
            /\ ActiveTypes \subseteq OpenTypes' \cup q.opening
        BY <3>3, <4>1, <4>2, <4>3, <4>4 DEF StepsAhead
      <4>6. \A v \in StepTypes \ ActiveTypes : \A j \in RowsWith(v, "OPEN")' : <<v, j>> \in closing
        <5>1. ASSUME NEW v \in StepTypes \ ActiveTypes, NEW j \in RowsWith(v, "OPEN")'
              PROVE  j \in RowsWith(v, "OPEN") /\ <<v, j>> # <<t, i>>
          BY <2>10, <5>1
        <5> QED
          BY <3>3, <5>1 DEF StepsAhead, closing
      <4>7. \A y \in closing : y[1] \notin ActiveTypes
        BY <3>3 DEF StepsAhead, closing
      <4> QED
        BY <2>8, <2>9, <3>1, <4>5, <4>6, <4>7 DEF StepsAhead
    <3> QED
      BY <1>8, <2>2, <2>8, <2>9, <3>1, <3>2, <3>3 DEF Sure
  <2>15. FreshIsKept'
    BY <1>7, <2>1 DEF FreshIsKept
  <2> QED
    BY <2>9, <2>11, <2>12, <2>13, <2>14, <2>15, Assembled
<1> QED
  BY <1>9, <1>10

LEMMA CommitDismissalOK ==
  ASSUME JourneyInv, NEW r \in Requests, CommitDismissal(r)
  PROVE  JourneyInv'
<1> DEFINE q == req[r]
<1>1. q.stage = "dismissing" /\ Good(q) /\ Busy(r) /\ RequestsGood
  BY DEF CommitDismissal, Busy, JourneyInv, RequestsGood
<1>2. Task(q) = "none" /\ q.stage \notin Early \cup {"announcing"}
  BY <1>1 DEF Good, InTask, Task, Working, Counting, Early
<1>3. PICK x \in q.closing : CloseRow(r, x[1], x[2], "DISMISSED")
  BY DEF CommitDismissal
<1>4. PICK t \in StepTypes, i \in Nat : x = <<t, i>>
  BY <1>1, <1>3, GoodFields
<1>5. CloseRow(r, t, i, "DISMISSED")
  BY <1>3, <1>4
<1>6. CASE RowsWith(t, "DISMISSED") \ {i} # {}
  <2>1. Refused(r, "closing")
    BY <1>5, <1>6 DEF CloseRow
  <2> QED
    BY <1>1, <1>2, <2>1, RefusedOK
<1>7. CASE ~ RowsWith(t, "DISMISSED") \ {i} # {}
  <2>1. steps' = [steps EXCEPT ![t][i] = "DISMISSED"] /\ Update(r, Idle) /\ fresh' = FALSE
    BY <1>5, <1>7 DEF CloseRow
  <2>2. /\ attendance' = attendance /\ absences' = absences
        /\ logs' = logs /\ milestones' = milestones /\ journey' = journey /\ score' = score
        /\ checkpoints' = checkpoints /\ calls' = calls /\ failures' = failures
        /\ registered' = registered /\ spoiled' = spoiled /\ alone' = alone
    BY <1>5, <1>7 DEF CloseRow, bounds
  <2>3. Moved(r) /\ req'[r] = Idle
    BY <1>1, <2>1, IdleIsGood, UpdateMoves DEF JourneyInv
  <2>4. req'[r].stage = "idle" /\ req'[r].kind = "none"
    BY <2>3, IdleIsGood
  <2>5. /\ DOMAIN steps' = StepTypes
        /\ \A v \in StepTypes : steps'[v] \in Seq(Statuses)
    BY <2>1, RowsAfterClosing DEF JourneyInv
  <2>6. TablesGood' /\ HistoryGood'
    BY <2>1, <2>2, <2>5 DEF JourneyInv, TablesGood, HistoryGood, Statuses
  <2>7. AbsencesKnown' /\ DeedsKnown'
    <3>1. req'[r].stage \notin Early
      BY <2>4 DEF Early, Counting
    <3> QED
      BY <1>2, <2>2, <2>3, <2>4, <3>1, InsideTask
  <2>8. MilestonesKnown'
    BY <1>1, <2>2, <2>3, <2>4, MilestonesAside
  <2>9. FreshIsKept'
    BY <2>1 DEF FreshIsKept
  <2> QED
    BY <2>3, <2>4, <2>6, <2>7, <2>8, <2>9, Assembled
<1> QED
  BY <1>6, <1>7

LEMMA OpenStepOK ==
  ASSUME JourneyInv, NEW r \in Requests, OpenStep(r)
  PROVE  JourneyInv'
<1> DEFINE q == req[r]
<1>1. q.stage = "stepping" /\ Good(q) /\ q \in Locals /\ Busy(r) /\ RequestsGood /\ q.closing = {}
  BY DEF OpenStep, Busy, JourneyInv, RequestsGood, Good
<1>2. Task(q) = "nextSteps" /\ q.stage \in Working /\ q.kind # "record"
      /\ q.stage \notin Early \cup {"announcing"}
  BY <1>1 DEF Good, InTask, Fits, Working, Counting, Early
<1>3. PICK t \in q.opening :
         IF t \in OpenTypes
         THEN Refused(r, "opening")
         ELSE /\ steps' = [steps EXCEPT ![t] = Append(@, "OPEN")]
              /\ Update(r, [q EXCEPT !.opening = @ \ {t}])
              /\ UNCHANGED <<attendance, absences, journey, logs, milestones, score, checkpoints,
                             bounds, history>>
  BY DEF OpenStep
<1>4. t \in StepTypes
  BY <1>1, GoodFields
<1>5. ~ fresh
  BY <1>1, <1>3, FreshIsHarmless DEF Harmless
<1>6. q.undisturbed => journey = Presences /\ score = Constancy /\ StepsAhead(q)
  BY <1>1, <1>2, LoneIsSure DEF Sure
<1>7. CASE t \in OpenTypes
  <2>1. Refused(r, "opening")
    BY <1>3, <1>7
  <2>2. ~ q.undisturbed
    BY <1>6, <1>7 DEF StepsAhead
  <2> QED
    BY <1>1, <1>2, <2>1, <2>2, RefusedOK
<1>8. CASE t \notin OpenTypes
  <2> DEFINE opening == q.opening \ {t}
             p == [q EXCEPT !.opening = opening]
             l == With(q, q.stage, q.value, q.streak, q.due, q.milestone, q.closing, opening,
                       q.row)
  <2>1. steps' = [steps EXCEPT ![t] = Append(steps[t], "OPEN")] /\ Update(r, p)
    <3>1. DOMAIN steps = StepTypes
      BY DEF JourneyInv, TablesGood
    <3> QED
      BY <1>1, <1>3, <1>4, <1>8, <3>1 DEF Locals
  <2>2. /\ attendance' = attendance /\ absences' = absences
        /\ logs' = logs /\ milestones' = milestones /\ journey' = journey /\ score' = score
        /\ checkpoints' = checkpoints /\ calls' = calls /\ failures' = failures
        /\ registered' = registered /\ spoiled' = spoiled /\ alone' = alone /\ fresh' = fresh
    BY <1>3, <1>8 DEF bounds, history
  <2>3. opening \in SUBSET StepTypes
    BY <1>1, GoodFields
  <2> HIDE DEF q, opening
  <2>4. p = [q EXCEPT !.opening = opening]
    OBVIOUS
  <2> HIDE DEF p
  <2>5. p = l
    BY <1>1, <2>4, ChangeOpening
  <2>6. q.stage \notin Counting /\ q.stage \in Stages /\ Fits(q.stage, Task(q))
    BY <1>1, <1>2, GoodFields DEF Counting, Fits
  <2> HIDE DEF l
  <2>7. Good(p)
    BY <1>1, <1>2, <2>3, <2>5, <2>6, GoodFields, WithIsGood DEF l
  <2>8. /\ p.kind = q.kind /\ p.service = q.service /\ p.undisturbed = q.undisturbed
        /\ p.stage = "stepping" /\ p.closing = {} /\ p.opening = opening
        /\ Task(p) = "nextSteps"
    BY <1>1, <1>2, <2>5, WithFields DEF l
  <2>9. Moved(r) /\ req'[r] = p
    BY <1>1, <2>1, <2>7, <2>8, UpdateMoves DEF q, JourneyInv
  <2>10. /\ DOMAIN steps' = StepTypes
         /\ \A v \in StepTypes : steps'[v] \in Seq(Statuses)
         /\ \A v \in StepTypes \ {t} : RowsWith(v, "OPEN")' = RowsWith(v, "OPEN")
         /\ RowsWith(t, "OPEN")' # {}
    BY <1>4, <2>1, RowsAfterOpening DEF JourneyInv
  <2>11. TablesGood' /\ HistoryGood'
    BY <2>2, <2>10 DEF JourneyInv, TablesGood, HistoryGood, Statuses
  <2>12. AbsencesKnown' /\ DeedsKnown'
    <3>1. req'[r].stage \notin Early
      BY <2>8, <2>9 DEF Early, Counting
    <3> QED
      BY <1>2, <2>2, <2>8, <2>9, <3>1, InsideTask DEF q
  <2>13. MilestonesKnown'
    BY <1>1, <2>2, <2>8, <2>9, MilestonesAside DEF q
  <2>14. req'[r].undisturbed => Sure(req[r])'
    <3>1. /\ Presences' = Presences /\ Constancy' = Constancy /\ ActiveTypes' = ActiveTypes
      BY <2>2 DEF Presences, Absences, Constancy, ActiveTypes
    <3>2. Task(req[r])' = "nextSteps"
      BY <2>8, <2>9 DEF Task
    <3>3. ASSUME StepsAhead(q) PROVE StepsAhead(req[r])'
      <4>1. t \in ActiveTypes
        BY <1>3, <3>3 DEF StepsAhead, q
      <4>2. OpenTypes' = OpenTypes \cup {t}
        BY <1>4, <2>10 DEF OpenTypes
      <4>3. /\ opening \subseteq ActiveTypes /\ opening \cap OpenTypes' = {}
            /\ ActiveTypes \subseteq OpenTypes' \cup opening
        BY <3>3, <4>1, <4>2 DEF StepsAhead, opening
      <4>4. \A v \in StepTypes \ ActiveTypes : \A j \in RowsWith(v, "OPEN")' : <<v, j>> \in {}
        <5>1. \A v \in StepTypes \ ActiveTypes : \A j \in RowsWith(v, "OPEN") : <<v, j>> \in {}
          BY <1>1, <3>3 DEF StepsAhead
        <5>2. \A v \in StepTypes \ ActiveTypes : v # t
          BY <4>1
        <5> QED
          BY <2>10, <5>1, <5>2
      <4> QED
        BY <2>8, <2>9, <3>1, <4>3, <4>4 DEF StepsAhead
    <3> QED
      BY <1>6, <2>2, <2>8, <2>9, <3>1, <3>2, <3>3 DEF Sure
  <2>15. FreshIsKept'
    BY <1>5, <2>2 DEF FreshIsKept
  <2> QED
    BY <2>9, <2>11, <2>12, <2>13, <2>14, <2>15, Assembled
<1> QED
  BY <1>7, <1>8

LEMMA StepsRebuiltOK ==
  ASSUME JourneyInv, NEW r \in Requests, StepsRebuilt(r)
  PROVE  JourneyInv'
<1> DEFINE q == req[r]
<1>1. /\ q.stage = "stepping" /\ Good(q) /\ Busy(r) /\ q.closing = {} /\ q.opening = {}
      /\ Update(r, Popped(r)) /\ fresh' = (fresh \/ q.undisturbed)
  BY DEF StepsRebuilt, Busy, JourneyInv, RequestsGood, Update
<1>2. /\ attendance' = attendance /\ absences' = absences /\ logs' = logs
      /\ milestones' = milestones /\ journey' = journey /\ score' = score /\ steps' = steps
      /\ checkpoints' = checkpoints /\ calls' = calls /\ failures' = failures
      /\ registered' = registered /\ spoiled' = spoiled /\ alone' = alone
  BY DEF StepsRebuilt, tables, bounds
<1>3. Task(q) = "nextSteps" /\ q.stage \in Working /\ q.stage \notin Early \cup {"announcing"}
  BY <1>1 DEF Good, InTask, Fits, Working, Early, Counting
<1>4. /\ Moved(r) /\ req'[r].stage = "next" /\ req'[r].undisturbed = q.undisturbed
      /\ req'[r].kind = q.kind /\ req'[r].service = q.service
      /\ Task(req[r])' \notin {"ensure", "log", "milestones", "indicators", "nextSteps"}
  BY <1>1, <1>3, PoppedFacts
<1>5. q.undisturbed => /\ journey = Presences /\ score = Constancy /\ StepsAhead(q)
                       /\ \A x \in Requests \ {r} : req[x].stage = "idle"
  <2>1. q.undisturbed => Sure(q) /\ \A x \in Requests \ {r} : ~ Busy(x)
    BY <1>1 DEF JourneyInv, LoneOnesSure
  <2> QED
    BY <1>1, <1>3, <2>1 DEF Sure, Busy
<1>6. /\ Presences' = Presences /\ Constancy' = Constancy
      /\ OpenTypes' = OpenTypes /\ ActiveTypes' = ActiveTypes
  BY <1>2 DEF Presences, Absences, Constancy, OpenTypes, RowsWith, ActiveTypes
<1>7. StepsAhead(q) => OpenTypes = ActiveTypes
  <2>1. ASSUME StepsAhead(q), NEW t \in StepTypes \ ActiveTypes PROVE RowsWith(t, "OPEN") = {}
    BY <1>1, <2>1 DEF StepsAhead
  <2>2. OpenTypes \subseteq StepTypes /\ ActiveTypes \subseteq StepTypes
    BY DEF OpenTypes, ActiveTypes
  <2>3. StepsAhead(q) => ActiveTypes \subseteq OpenTypes
    BY <1>1 DEF StepsAhead
  <2>4. StepsAhead(q) => \A t \in StepTypes \ ActiveTypes : t \notin OpenTypes
    BY <2>1 DEF OpenTypes
  <2> QED
    BY <2>2, <2>3, <2>4
<1> HIDE DEF q
<1>8. TablesGood' /\ HistoryGood'
  <2>1. fresh' \in BOOLEAN
    BY <1>1
  <2> QED
    BY <1>2, <2>1 DEF JourneyInv, TablesGood, HistoryGood
<1>9. AbsencesKnown' /\ DeedsKnown'
  <2>1. req'[r].stage \notin Early
    BY <1>4 DEF Early, Counting
  <2> QED
    BY <1>2, <1>3, <1>4, <2>1, InsideTask DEF q
<1>10. MilestonesKnown'
  BY <1>2, <1>3, <1>4, MilestonesAside DEF q
<1>11. req'[r].undisturbed => Sure(req[r])'
  BY <1>4 DEF Sure
<1>12. FreshIsKept'
  <2>1. Harmless(req[r])'
    BY <1>4 DEF Harmless
  <2>2. CASE fresh
    BY <1>2, <1>4, <2>1, <2>2, FreshAside
  <2>3. CASE ~ fresh /\ q.undisturbed
    <3>1. \A x \in Requests \ {r} : req'[x].stage = "idle"
      BY <1>4, <1>5, <2>3 DEF Moved, Alike
    <3>2. \A x \in Requests \ {r} : Harmless(req[x])'
      BY <3>1 DEF Harmless
    <3>3. RefreshRepairs'
      BY <1>2, <1>5, <1>6, <1>7, <2>3 DEF RefreshRepairs
    <3> QED
      BY <2>1, <3>2, <3>3 DEF FreshIsKept
  <2>4. CASE ~ fresh /\ ~ q.undisturbed
    BY <1>1, <2>4 DEF FreshIsKept, q
  <2> QED
    BY <2>2, <2>3, <2>4
<1> QED
  BY <1>4, <1>8, <1>9, <1>10, <1>11, <1>12, Assembled

-----------------------------------------------------------------------------
(* The journey and the log.                                                *)

\* A projection that gets something else to do.
LEMMA TodoIsGood ==
  ASSUME NEW q, Good(q), q.kind = "project"
  PROVE  \A todo \in RestOfProjection : \A p :
            p = [q EXCEPT !.stage = "next", !.todo = todo] =>
               /\ Good(p) /\ p.stage = "next" /\ p.kind = "project" /\ p.service = q.service
               /\ p.undisturbed = q.undisturbed /\ p.todo = todo
<1> TAKE todo \in RestOfProjection
<1> TAKE p
<1> HAVE p = [q EXCEPT !.stage = "next", !.todo = todo]
<1>1. q \in Locals /\ q.service \in References
  BY DEF Good
<1>2. p = [kind |-> q.kind, stage |-> "next", service |-> q.service, todo |-> todo,
           value |-> q.value, streak |-> q.streak, due |-> q.due, milestone |-> q.milestone,
           closing |-> q.closing, opening |-> q.opening, row |-> q.row,
           undisturbed |-> q.undisturbed]
  BY <1>1 DEF Locals
<1>3. "next" \in Stages /\ "next" \notin Counting /\ "next" \in Working
  BY DEF Stages, Counting, Working
<1>4. p \in Locals
  BY <1>1, <1>2, <1>3 DEF Locals
<1>5. InTask(p)
  BY <1>2, <1>3 DEF InTask, Fits
<1> QED
  BY <1>1, <1>2, <1>3, <1>4, <1>5 DEF Good

\* Only a projection looks into the log.
LEMMA LogIsOfProjections ==
  ASSUME NEW q, Good(q), Task(q) = "log"
  PROVE  q.kind = "project" /\ q.service \in References
<1>1. q.todo # <<>> /\ Head(q.todo) = "log"
  BY DEF Task
<1>2. q.todo \notin RestOfView
  BY <1>1, AllRestFacts DEF RestFacts
<1> QED
  BY <1>2 DEF Good

LEMMA EnsureJourneyOK ==
  ASSUME JourneyInv, NEW r \in Requests, EnsureJourney(r)
  PROVE  JourneyInv'
<1> DEFINE q == req[r]
<1>1. /\ Good(q) /\ q.stage = "next" /\ q.todo # <<>> /\ Task(q) = "ensure" /\ Busy(r)
      /\ q \in Locals /\ q.stage \in Working /\ RequestsGood /\ LoneOnesSure
  BY AtFacts DEF EnsureJourney, Good, JourneyInv
<1>2. UNCHANGED <<tables, bounds, history>>
  BY DEF EnsureJourney
<1>3. /\ attendance' = attendance /\ absences' = absences /\ logs' = logs
      /\ registered' = registered /\ checkpoints' = checkpoints /\ failures' = failures
      /\ spoiled' = spoiled
  BY <1>2 DEF tables, bounds, history
<1>4. q.stage \notin Counting
  BY <1>1 DEF Counting
<1>5. CASE journey = NoJourney
  <2> DEFINE p == [q EXCEPT !.stage = "creating"]
             l == With(q, "creating", q.value, q.streak, q.due, q.milestone, q.closing,
                       q.opening, q.row)
  <2>1. Update(r, p)
    BY <1>5 DEF EnsureJourney
  <2> HIDE DEF q
  <2>2. p = [q EXCEPT !.stage = "creating"]
    OBVIOUS
  <2> HIDE DEF p
  <2>3. p = l
    BY <1>1, <2>2, ChangeStage
  <2>4. "creating" \in Stages /\ "creating" \notin Counting /\ "creating" \in Working
        /\ Fits("creating", Task(q)) /\ q.kind # "record"
    BY <1>1 DEF Stages, Counting, Working, Fits, Good
  <2> HIDE DEF l
  <2>5. Good(p)
    BY <1>1, <2>3, <2>4, GoodFields, WithIsGood DEF l
  <2>6. /\ p.kind = q.kind /\ p.service = q.service /\ p.undisturbed = q.undisturbed
        /\ p.stage = "creating" /\ Task(p) = "ensure"
    BY <1>1, <2>3, WithFields DEF l
  <2>7. Moved(r) /\ req'[r] = p
    BY <1>1, <2>1, <2>5, <2>6, UpdateMoves DEF q
  <2>8. AbsencesKnown'
    BY <1>3, <1>4, <2>4, <2>6, <2>7, AbsencesAside DEF q
  <2>9. DeedsKnown'
    <3>1. \A s \in References : /\ Handled(r, s)' => Handled(r, s)
                                /\ Pending(r, s) => Pending(r, s)'
      BY <1>1, <1>4, <2>4, <2>6, <2>7 DEF Handled, Pending, Task, q
    <3>2. req'[r].stage # "logging"
      BY <2>6, <2>7
    <3> QED
      BY <1>3, <2>7, <3>1, <3>2, DeedsAside
  <2>10. Sure(p) /\ Harmless(p)
    BY <1>5, <2>6 DEF Sure, Harmless
  <2> QED
    BY <1>1, <1>2, <2>6, <2>7, <2>8, <2>9, <2>10, ReadStep DEF q
<1>6. CASE journey # NoJourney
  <2> DEFINE p == Popped(r)
  <2>1. Update(r, p)
    BY <1>6 DEF EnsureJourney
  <2>2. /\ Good(p) /\ p.stage = "next" /\ p.kind = q.kind /\ p.service = q.service
        /\ p.undisturbed = q.undisturbed
        /\ Task(p) \notin {"milestones", "indicators", "nextSteps"}
        /\ q.kind = "project" => Task(p) = "log"
    BY <1>1, PoppedIsGood
  <2> HIDE DEF q, p
  <2>3. Moved(r) /\ req'[r] = p
    BY <1>1, <2>1, <2>2, UpdateMoves DEF q
  <2>4. AbsencesKnown'
    BY <1>1, <1>3, <1>4, <2>2, <2>3, AbsencesAside DEF q
  <2>5. DeedsKnown'
    <3>1. \A s \in References : /\ Handled(r, s)' => Handled(r, s)
                                /\ Pending(r, s) => Pending(r, s)'
      BY <1>1, <1>4, <2>2, <2>3 DEF Handled, Pending, Task, q
    <3>2. req'[r].stage # "logging"
      BY <2>2, <2>3
    <3> QED
      BY <1>3, <2>3, <3>1, <3>2, DeedsAside
  <2>6. Sure(p) /\ Harmless(p)
    BY <2>2 DEF Sure, Harmless
  <2> QED
    BY <1>1, <1>2, <2>2, <2>3, <2>4, <2>5, <2>6, ReadStep DEF q
<1> QED
  BY <1>5, <1>6

LEMMA CreateJourneyOK ==
  ASSUME JourneyInv, NEW r \in Requests, CreateJourney(r)
  PROVE  JourneyInv'
<1> DEFINE q == req[r]
<1>1. q.stage = "creating" /\ Good(q) /\ Busy(r) /\ RequestsGood /\ LoneOnesSure
  BY DEF CreateJourney, Busy, JourneyInv, RequestsGood
<1>2. Task(q) = "ensure" /\ q.todo # <<>> /\ q.stage \in Working
      /\ q.stage \notin Early \cup {"announcing"} /\ q.stage \notin Counting
  BY <1>1 DEF Good, InTask, Fits, Task, Working, Early, Counting
<1>3. q.undisturbed => journey = NoJourney
  BY <1>1, LoneIsSure DEF Sure
<1>4. CASE journey # NoJourney
  <2>1. Refused(r, "journey")
    BY <1>4 DEF CreateJourney
  <2> QED
    BY <1>1, <1>2, <1>3, <1>4, <2>1, RefusedOK
<1>5. CASE journey = NoJourney
  <2> DEFINE p == Popped(r)
  <2>1. Update(r, p) /\ journey' = 0
    BY <1>5 DEF CreateJourney
  <2>2. /\ attendance' = attendance /\ absences' = absences
        /\ logs' = logs /\ milestones' = milestones /\ score' = score /\ steps' = steps
        /\ checkpoints' = checkpoints /\ calls' = calls /\ failures' = failures
        /\ registered' = registered /\ spoiled' = spoiled /\ alone' = alone /\ fresh' = fresh
    BY <1>5 DEF CreateJourney, bounds, history
  <2>3. ~ fresh
    BY <1>5, FreshIsHarmless, Counts, ConstantsAssumption
  <2>4. /\ Good(p) /\ p.stage = "next" /\ p.kind = q.kind /\ p.service = q.service
        /\ p.undisturbed = q.undisturbed
        /\ Task(p) \notin {"milestones", "indicators", "nextSteps"}
        /\ q.kind = "project" => Task(p) = "log"
    BY <1>1, <1>2, PoppedIsGood
  <2> HIDE DEF q, p
  <2>5. Moved(r) /\ req'[r] = p
    BY <1>1, <2>1, <2>4, UpdateMoves DEF q
  <2>6. TablesGood' /\ HistoryGood'
    BY <2>1, <2>2 DEF JourneyInv, TablesGood, HistoryGood
  <2>7. AbsencesKnown'
    <3>1. req'[r].stage \notin Counting
      BY <2>4, <2>5 DEF Counting
    <3> QED
      BY <1>2, <2>2, <2>5, <3>1, AbsencesAside DEF q
  <2>8. DeedsKnown'
    <3>1. \A s \in References : Handled(r, s)' => Handled(r, s)
      BY <1>1, <2>4, <2>5 DEF Handled, Counting, q
    <3>2. \A s \in References : Pending(r, s) => Pending(r, s)'
      <4>1. req'[r].stage \notin Counting \cup {"assigning"}
        BY <2>4, <2>5 DEF Counting
      <4> QED
        BY <2>4, <2>5, <4>1 DEF Handled, Pending, Task, q
    <3>3. req'[r].stage # "logging"
      BY <2>4, <2>5
    <3> QED
      BY <2>2, <2>5, <3>1, <3>2, <3>3, DeedsAside
  <2>9. MilestonesKnown'
    BY <1>1, <2>2, <2>4, <2>5, MilestonesAside DEF q
  <2>10. Sure(req[r])'
    <3>1. Task(req[r])' \notin {"milestones", "indicators", "nextSteps"}
      BY <2>4, <2>5 DEF Task
    <3> QED
      BY <2>4, <2>5, <3>1 DEF Sure
  <2>11. FreshIsKept'
    BY <2>2, <2>3 DEF FreshIsKept
  <2> QED
    BY <2>5, <2>6, <2>7, <2>8, <2>9, <2>10, <2>11, Assembled
<1> QED
  BY <1>4, <1>5

LEMMA LookUpLogOK ==
  ASSUME JourneyInv, NEW r \in Requests, LookUpLog(r)
  PROVE  JourneyInv'
<1> DEFINE q == req[r]
<1>1. /\ Good(q) /\ q.stage = "next" /\ q.todo # <<>> /\ Task(q) = "log" /\ Busy(r)
      /\ q \in Locals /\ q.stage \in Working /\ RequestsGood /\ LoneOnesSure
  BY AtFacts DEF LookUpLog, Good, JourneyInv
<1>2. UNCHANGED <<tables, bounds, history>>
  BY DEF LookUpLog
<1>3. /\ attendance' = attendance /\ absences' = absences /\ logs' = logs
      /\ registered' = registered /\ checkpoints' = checkpoints /\ failures' = failures
      /\ spoiled' = spoiled
  BY <1>2 DEF tables, bounds, history
<1>4. q.stage \notin Counting
  BY <1>1 DEF Counting
<1>5. q.kind = "project" /\ q.service \in References
  BY <1>1, LogIsOfProjections
<1>6. CASE logs[q.service] > 0
  <2> DEFINE nothing == <<>>
             p == [q EXCEPT !.stage = "next", !.todo = nothing]
  <2>1. Update(r, p)
    BY <1>6 DEF LookUpLog
  <2>2. nothing \in RestOfProjection
    BY DEF RestOfProjection, RestOfRefresh
  <2> HIDE DEF q, nothing
  <2>3. p = [q EXCEPT !.stage = "next", !.todo = nothing]
    OBVIOUS
  <2> HIDE DEF p
  <2>4. /\ Good(p) /\ p.stage = "next" /\ p.kind = "project" /\ p.service = q.service
        /\ p.undisturbed = q.undisturbed /\ p.todo = nothing
    <3>1. Good(q) /\ q.kind = "project"
      BY <1>1, <1>5
    <3>2. \A todo \in RestOfProjection : \A x :
             x = [q EXCEPT !.stage = "next", !.todo = todo] =>
                /\ Good(x) /\ x.stage = "next" /\ x.kind = "project" /\ x.service = q.service
                /\ x.undisturbed = q.undisturbed /\ x.todo = todo
      BY <3>1, TodoIsGood
    <3>3. \A x : x = [q EXCEPT !.stage = "next", !.todo = nothing] =>
                /\ Good(x) /\ x.stage = "next" /\ x.kind = "project" /\ x.service = q.service
                /\ x.undisturbed = q.undisturbed /\ x.todo = nothing
      BY <2>2, <3>2, ZenonT(60)
    <3> QED
      BY <2>3, <3>3, Zenon
  <2>5. Moved(r) /\ req'[r] = p /\ Task(p) = "none"
    BY <1>1, <2>1, <2>4, UpdateMoves DEF q, Task, nothing
  <2>6. AbsencesKnown'
    BY <1>1, <1>3, <1>4, <2>4, <2>5, AbsencesAside DEF q
  <2>7. DeedsKnown'
    <3>1. \A s \in References : /\ Handled(r, s)' => Handled(r, s)
                                /\ Pending(r, s) => logs[s] # 0
      BY <1>1, <1>4, <1>5, <1>6, <2>4, <2>5 DEF Handled, Pending, q
    <3>2. req'[r].stage # "logging"
      BY <2>4, <2>5
    <3> QED
      BY <1>3, <2>5, <3>1, <3>2, DeedsAside
  <2>8. Sure(p) /\ Harmless(p)
    BY <2>4, <2>5 DEF Sure, Harmless
  <2> QED
    BY <1>1, <1>2, <2>4, <2>5, <2>6, <2>7, <2>8, ReadStep DEF q
<1>7. CASE ~ logs[q.service] > 0
  <2> DEFINE p == [q EXCEPT !.stage = "logging"]
             l == With(q, "logging", q.value, q.streak, q.due, q.milestone, q.closing,
                       q.opening, q.row)
  <2>1. Update(r, p)
    BY <1>7 DEF LookUpLog
  <2> HIDE DEF q
  <2>2. p = [q EXCEPT !.stage = "logging"]
    OBVIOUS
  <2> HIDE DEF p
  <2>3. p = l
    BY <1>1, <2>2, ChangeStage
  <2>4. "logging" \in Stages /\ "logging" \notin Counting /\ "logging" \in Working
        /\ Fits("logging", Task(q)) /\ q.kind # "record"
    BY <1>1, <1>5 DEF Stages, Counting, Working, Fits
  <2> HIDE DEF l
  <2>5. Good(p)
    BY <1>1, <2>3, <2>4, GoodFields, WithIsGood DEF l
  <2>6. /\ p.kind = q.kind /\ p.service = q.service /\ p.undisturbed = q.undisturbed
        /\ p.stage = "logging" /\ Task(p) = "log"
    BY <1>1, <2>3, WithFields DEF l
  <2>7. Moved(r) /\ req'[r] = p
    BY <1>1, <2>1, <2>5, <2>6, UpdateMoves DEF q
  <2>8. AbsencesKnown'
    BY <1>3, <1>4, <2>4, <2>6, <2>7, AbsencesAside DEF q
  <2>9. DeedsKnown'
    <3>1. \A s \in References : /\ Handled(r, s)' => Handled(r, s)
                                /\ Pending(r, s) => Pending(r, s)'
      BY <1>1, <1>4, <2>4, <2>6, <2>7 DEF Handled, Pending, Task, q
    <3>2. logs[q.service] = 0
      <4>1. logs[q.service] \in 0..2
        BY <1>5 DEF JourneyInv, TablesGood
      <4> QED
        BY <1>7, <4>1
    <3>3. \A s \in References : Handled(r, s)' => s = q.service
      BY <2>6, <2>7 DEF Handled
    <3> QED
      BY <1>3, <2>7, <3>1, <3>2, <3>3, DeedsAside
  <2>10. Sure(p) /\ Harmless(p)
    BY <2>6 DEF Sure, Harmless
  <2> QED
    BY <1>1, <1>2, <2>6, <2>7, <2>8, <2>9, <2>10, ReadStep DEF q
<1> QED
  BY <1>6, <1>7

LEMMA CreateLogOK ==
  ASSUME JourneyInv, NEW r \in Requests, CreateLog(r)
  PROVE  JourneyInv'
<1> DEFINE q == req[r]
           p == Popped(r)
<1>1. q.stage = "logging" /\ Good(q) /\ Busy(r) /\ RequestsGood /\ LoneOnesSure /\ Update(r, p)
  BY DEF CreateLog, Busy, JourneyInv, RequestsGood
<1>2. Task(q) = "log" /\ q.todo # <<>> /\ q.stage \in Working /\ q.stage \notin Counting
  BY <1>1 DEF Good, InTask, Fits, Task, Working, Counting
<1>3. PICK s \in References : q.kind = "project" /\ q.service = s
  BY <1>1, <1>2, LogIsOfProjections
<1>4. /\ attendance' = attendance /\ absences' = absences /\ milestones' = milestones
      /\ journey' = journey /\ score' = score /\ steps' = steps
      /\ checkpoints' = checkpoints /\ calls' = calls /\ failures' = failures
      /\ registered' = registered /\ spoiled' = spoiled /\ alone' = alone /\ fresh' = fresh
  BY DEF CreateLog, bounds, history
<1>5. logs' = [logs EXCEPT ![s] = IF logs[s] < 2 THEN logs[s] + 1 ELSE 2]
  BY <1>3 DEF CreateLog, Logged
<1>6. /\ Good(p) /\ p.stage = "next" /\ p.kind = q.kind /\ p.service = q.service
      /\ p.undisturbed = q.undisturbed
      /\ Task(p) \notin {"ensure", "log", "milestones", "indicators", "nextSteps"}
  BY <1>1, <1>2, PoppedIsGood
<1>7. Handled(r, s)
  BY <1>1, <1>2, <1>3 DEF Handled, q
<1> HIDE DEF q, p
<1>8. Moved(r) /\ req'[r] = p
  BY <1>1, <1>6, UpdateMoves DEF q
<1>9. /\ logs \in [References \cup Milestones -> 0..2]
      /\ logs' \in [References \cup Milestones -> 0..2] /\ (logs[s] = 0 => logs'[s] = 1)
      /\ \A x \in References \cup Milestones : x # s => logs'[x] = logs[x]
  <2>1. logs \in [References \cup Milestones -> 0..2] /\ s \in References \cup Milestones
    BY <1>3 DEF JourneyInv, TablesGood
  <2>2. logs[s] \in 0..2
    BY <2>1
  <2> QED
    BY <1>5, <2>1, <2>2
<1>10. \A m \in Milestones : logs'[m] = logs[m]
  BY <1>3, <1>9, ConstantsAssumption DEF References
<1>11. TablesGood' /\ HistoryGood'
  BY <1>4, <1>9 DEF JourneyInv, TablesGood, HistoryGood
<1>12. req'[r].stage \notin Counting
  BY <1>6, <1>8 DEF Counting
<1>13. AbsencesKnown'
  BY <1>2, <1>4, <1>8, <1>12, AbsencesAside DEF q
<1>14. DeedsKnown'
  <2>1. \A x \in Requests \ {r}, v \in References :
           /\ Handled(x, v)' <=> Handled(x, v)
           /\ Pending(x, v)' <=> Pending(x, v)
           /\ req'[x].stage = req[x].stage
    BY <1>8 DEF Moved, Alike, Handled, Pending, Task
  <2>2. \A x \in Requests, v \in References : Handled(x, v)' => Handled(x, v)
    BY <1>1, <1>2, <1>6, <1>8, <2>1 DEF Handled, q
  <2>3. \A v \in References : Handled(r, v) => v = s
    BY <1>3 DEF Handled, q
  <2>4. s \in registered
    BY <1>3, <1>7 DEF JourneyInv, DeedsKnown
  <2>5. DeedsKnown
    BY DEF JourneyInv
  <2>6. ASSUME NEW v \in References, v \notin registered'
        PROVE  logs'[v] = 0 /\ \A x \in Requests : ~ Handled(x, v)'
    BY <1>4, <1>9, <2>2, <2>4, <2>5, <2>6 DEF DeedsKnown
  <2>7. ASSUME failures' = 0, spoiled' \cap {"twins", "journey"} = {}
        PROVE  /\ \A v \in References :
                     /\ \A x, y \in Requests : Handled(x, v)' /\ Handled(y, v)' => x = y
                     /\ \A x \in Requests : Handled(x, v)' /\ req'[x].stage = "logging" =>
                           logs'[v] = 0
                     /\ logs'[v] \in {0, 1}
                     /\ v \in registered' /\ logs'[v] = 0 =>
                           \E x \in Requests : Pending(x, v)'
               /\ \A i \in DOMAIN checkpoints' :
                     checkpoints'[i] \in References => logs'[checkpoints'[i]] = 1
    <3>1. /\ \A v \in References :
                /\ \A x, y \in Requests : Handled(x, v) /\ Handled(y, v) => x = y
                /\ \A x \in Requests : Handled(x, v) /\ req[x].stage = "logging" => logs[v] = 0
                /\ logs[v] \in {0, 1}
                /\ v \in registered /\ logs[v] = 0 => \E x \in Requests : Pending(x, v)
          /\ \A i \in DOMAIN checkpoints :
                checkpoints[i] \in References => logs[checkpoints[i]] = 1
      BY <1>4, <2>5, <2>7 DEF DeedsKnown
    <3>2. logs[s] = 0 /\ logs'[s] = 1
      BY <1>1, <1>3, <1>7, <1>9, <3>1 DEF q
    <3>3. \A x \in Requests \ {r} : ~ Handled(x, s)'
      BY <1>3, <1>7, <2>1, <3>1
    <3>4. req'[r].stage # "logging"
      BY <1>6, <1>8
    <3>5. ASSUME NEW v \in References
          PROVE  /\ \A x, y \in Requests : Handled(x, v)' /\ Handled(y, v)' => x = y
                 /\ \A x \in Requests : Handled(x, v)' /\ req'[x].stage = "logging" =>
                       logs'[v] = 0
                 /\ logs'[v] \in {0, 1}
                 /\ v \in registered' /\ logs'[v] = 0 => \E x \in Requests : Pending(x, v)'
      <4>1. CASE v = s
        BY <2>2, <3>1, <3>2, <3>3, <3>4, <4>1
      <4>2. CASE v # s
        <5>1. ~ Pending(r, v)
          BY <2>3, <4>2 DEF Pending
        <5> QED
          BY <1>4, <1>9, <2>1, <2>2, <2>3, <3>1, <4>2, <5>1
      <4> QED
        BY <4>1, <4>2
    <3>6. \A i \in DOMAIN checkpoints' :
             checkpoints'[i] \in References => logs'[checkpoints'[i]] = 1
      BY <1>4, <1>9, <3>1, <3>2
    <3> QED
      BY <3>5, <3>6
  <2> QED
    BY <2>6, <2>7 DEF DeedsKnown
<1>15. MilestonesKnown'
  BY <1>1, <1>4, <1>6, <1>8, <1>10, MilestonesAside DEF q
<1>16. Sure(req[r])'
  <2>1. Task(req[r])' \notin {"milestones", "indicators", "nextSteps"}
    BY <1>6, <1>8 DEF Task
  <2> QED
    BY <1>6, <1>8, <2>1 DEF Sure
<1>17. FreshIsKept'
  <2>1. Harmless(req[r])'
    BY <1>6, <1>8 DEF Harmless
  <2> QED
    BY <1>4, <1>8, <2>1, FreshAside
<1> QED
  BY <1>8, <1>11, <1>13, <1>14, <1>15, <1>16, <1>17, Assembled

\* A request that leaves it at that, or ends, without a task.
LEMMA TasklessOK ==
  ASSUME JourneyInv, NEW r \in Requests, UNCHANGED <<tables, bounds, history>>,
         Busy(r), req[r].stage \notin Counting \cup {"announcing"},
         NEW l, Update(r, l), Good(l),
         l.stage \notin Working, l.stage \notin Counting, l.stage # "announcing",
         l.kind = "none" \/ (/\ l.kind = req[r].kind /\ l.service = req[r].service
                             /\ l.undisturbed = req[r].undisturbed
                             /\ req[r].stage \notin {"assigning", "emitted"}),
         failures = 0 /\ spoiled \cap {"twins", "journey"} = {} =>
            \A s \in References : Pending(r, s) => logs[s] # 0
  PROVE  JourneyInv'
<1>1. RequestsGood /\ LoneOnesSure
  BY DEF JourneyInv
<1>2. l.stage = "idle" \/ (l.undisturbed => req[r].undisturbed)
  BY DEF Good
<1>3. Moved(r) /\ req'[r] = l
  BY <1>1, <1>2, UpdateMoves
<1>4. /\ attendance' = attendance /\ absences' = absences /\ logs' = logs
      /\ registered' = registered /\ checkpoints' = checkpoints /\ failures' = failures
      /\ spoiled' = spoiled
  BY DEF tables, bounds, history
<1>5. AbsencesKnown'
  BY <1>3, <1>4, AbsencesAside
<1>6. DeedsKnown'
  <2>1. \A s \in References : Handled(r, s)' => Handled(r, s)
    BY <1>3 DEF Handled
  <2>2. req'[r].stage # "logging"
    BY <1>3 DEF Working
  <2> QED
    BY <1>3, <1>4, <2>1, <2>2, DeedsAside
<1>7. Task(l) = "none"
  BY DEF Good, InTask, Task
<1>8. Sure(l) /\ Harmless(l)
  BY <1>7, SureAside
<1> QED
  BY <1>3, <1>5, <1>6, <1>8, ReadStep

LEMMA CheckLastEventOK ==
  ASSUME JourneyInv, NEW r \in Requests, CheckLastEvent(r)
  PROVE  JourneyInv'
<1> DEFINE q == req[r]
<1>1. /\ q.stage = "emitted" /\ Good(q) /\ Busy(r) /\ RequestsGood /\ LoneOnesSure
      /\ q \in Locals
  BY DEF CheckLastEvent, Busy, JourneyInv, RequestsGood, Good
<1>2. /\ q.kind = "project" /\ q.service \in References /\ q.todo = <<>>
      /\ q.stage \notin Counting \cup {"announcing"}
  BY <1>1 DEF Good, InTask, Working, Counting
<1>3. UNCHANGED <<tables, bounds, history>>
  BY DEF CheckLastEvent
<1>4. PICK i \in SomeCheckpoint :
         Update(r, IF i # 0 /\ checkpoints[i] = q.service THEN Idle
                   ELSE [q EXCEPT !.stage = "next", !.todo = Projection])
  BY DEF CheckLastEvent
<1>5. CASE i # 0 /\ checkpoints[i] = q.service
  <2>1. Update(r, Idle)
    BY <1>4, <1>5
  <2>2. i \in DOMAIN checkpoints
    BY <1>5 DEF SomeCheckpoint
  <2>3. ASSUME failures = 0, spoiled \cap {"twins", "journey"} = {},
               NEW s \in References, Pending(r, s)
        PROVE  logs[s] # 0
    <3>1. s = q.service
      BY <2>3 DEF Pending, Handled
    <3>2. \A j \in DOMAIN checkpoints : checkpoints[j] \in References => logs[checkpoints[j]] = 1
      BY <2>3 DEF JourneyInv, DeedsKnown
    <3> QED
      BY <1>2, <1>5, <2>2, <3>1, <3>2
  <2>4. Idle.stage \notin Working /\ Idle.stage \notin Counting /\ Idle.stage # "announcing"
    BY IdleIsGood DEF Working, Counting
  <2> QED
    BY <1>1, <1>2, <1>3, <2>1, <2>3, <2>4, IdleIsGood, TasklessOK
<1>6. CASE ~ (i # 0 /\ checkpoints[i] = q.service)
  <2> DEFINE p == [q EXCEPT !.stage = "next", !.todo = Projection]
  <2>1. Update(r, p)
    BY <1>4, <1>6
  <2> HIDE DEF q
  <2>2. p = [q EXCEPT !.stage = "next", !.todo = Projection]
    OBVIOUS
  <2> HIDE DEF p
  <2>3. /\ Good(p) /\ p.stage = "next" /\ p.kind = "project" /\ p.service = q.service
        /\ p.undisturbed = q.undisturbed /\ p.todo = Projection
    <3>1. Good(q) /\ q.kind = "project"
      BY <1>1, <1>2
    <3>2. \A todo \in RestOfProjection : \A x :
             x = [q EXCEPT !.stage = "next", !.todo = todo] =>
                /\ Good(x) /\ x.stage = "next" /\ x.kind = "project" /\ x.service = q.service
                /\ x.undisturbed = q.undisturbed /\ x.todo = todo
      BY <3>1, TodoIsGood
    <3>3. \A x : x = [q EXCEPT !.stage = "next", !.todo = Projection] =>
                /\ Good(x) /\ x.stage = "next" /\ x.kind = "project" /\ x.service = q.service
                /\ x.undisturbed = q.undisturbed /\ x.todo = Projection
      BY <3>2, ProjectionIsRest, ZenonT(60)
    <3> QED
      BY <2>2, <3>3, Zenon
  <2>4. Moved(r) /\ req'[r] = p
    BY <1>1, <2>1, <2>3, UpdateMoves DEF q
  <2>5. Task(p) = "ensure" /\ "next" \notin Counting
    BY <2>3, ProjectionIsRest DEF Task, Counting
  <2>6. /\ attendance' = attendance /\ absences' = absences /\ logs' = logs
        /\ registered' = registered /\ checkpoints' = checkpoints /\ failures' = failures
        /\ spoiled' = spoiled
    BY <1>3 DEF tables, bounds, history
  <2>7. AbsencesKnown'
    BY <1>2, <2>3, <2>4, <2>5, <2>6, AbsencesAside DEF q
  <2>8. DeedsKnown'
    <3>1. \A s \in References : /\ Handled(r, s)' => Handled(r, s)
                                /\ Pending(r, s) => Pending(r, s)'
      BY <1>1, <1>2, <2>3, <2>4, <2>5 DEF Handled, Pending, Task, q
    <3>2. req'[r].stage # "logging"
      BY <2>3, <2>4
    <3> QED
      BY <2>4, <2>6, <3>1, <3>2, DeedsAside
  <2>9. Sure(p) /\ Harmless(p)
    BY <2>3, <2>5 DEF Sure, Harmless
  <2> QED
    BY <1>1, <1>3, <2>3, <2>4, <2>7, <2>8, <2>9, ReadStep DEF q
<1> QED
  BY <1>5, <1>6

LEMMA FinishOK ==
  ASSUME JourneyInv, NEW r \in Requests, Finish(r)
  PROVE  JourneyInv'
<1>1. /\ req[r].stage = "next" /\ req[r].todo = <<>> /\ Busy(r) /\ RequestsGood
      /\ UNCHANGED <<tables, bounds, history>>
  BY DEF Finish, Busy, JourneyInv
<1>2. req[r].stage \notin Counting \cup {"announcing", "assigning", "emitted"}
  BY <1>1 DEF Counting
<1>3. \A s \in References : ~ Pending(r, s)
  BY <1>1, <1>2 DEF Pending, Task
<1>4. CASE req[r].kind \in {"project", "reconcile", "rebuild"}
  <2> DEFINE l == Marking(r)
  <2>1. /\ Good(l) /\ l.stage = "marking" /\ l.kind = req[r].kind /\ l.service = req[r].service
        /\ l.undisturbed = req[r].undisturbed
    BY <1>1, <1>4, MarkingIsGood
  <2>2. Update(r, l)
    BY <1>4 DEF Finish
  <2> HIDE DEF l
  <2>3. l.stage \notin Working /\ l.stage \notin Counting /\ l.stage # "announcing"
    BY <2>1 DEF Working, Counting
  <2> QED
    BY <1>1, <1>2, <1>3, <2>1, <2>2, <2>3, TasklessOK
<1>5. CASE req[r].kind \notin {"project", "reconcile", "rebuild"}
  <2>1. Update(r, Idle)
    BY <1>5 DEF Finish
  <2>2. Idle.stage \notin Working /\ Idle.stage \notin Counting /\ Idle.stage # "announcing"
    BY IdleIsGood DEF Working, Counting
  <2> QED
    BY <1>1, <1>2, <1>3, <2>1, <2>2, IdleIsGood, TasklessOK
<1> QED
  BY <1>4, <1>5

LEMMA FindCheckpointOK ==
  ASSUME JourneyInv, NEW r \in Requests, FindCheckpoint(r)
  PROVE  JourneyInv'
<1> DEFINE q == req[r]
<1>1. /\ q.stage = "marking" /\ Good(q) /\ q \in Locals /\ Busy(r)
      /\ UNCHANGED <<tables, bounds, history>>
  BY DEF FindCheckpoint, Busy, JourneyInv, RequestsGood, Good
<1>2. /\ q.stage \notin Counting \cup {"announcing", "assigning", "emitted"}
      /\ q.todo = <<>> /\ Task(q) = "none" /\ q.kind # "record"
  BY <1>1 DEF Good, InTask, Task, Working, Counting
<1>3. PICK i \in SomeCheckpoint : Update(r, [q EXCEPT !.stage = "noting", !.row = i])
  BY DEF FindCheckpoint
<1>4. i \in Nat
  BY DEF SomeCheckpoint, JourneyInv, TablesGood
<1>5. \A s \in References : ~ Pending(r, s)
  BY <1>1, <1>2 DEF Pending
<1> DEFINE p == [q EXCEPT !.stage = "noting", !.row = i]
           l == With(q, "noting", q.value, q.streak, q.due, q.milestone, q.closing, q.opening, i)
<1> HIDE DEF q
<1>6. p = [q EXCEPT !.stage = "noting", !.row = i] /\ Update(r, p)
  BY <1>3
<1> HIDE DEF p
<1>7. p = l
  BY <1>1, <1>6, ChangeStageRow
<1>8. "noting" \in Stages /\ "noting" \notin Counting /\ "noting" \notin Working
      /\ Fits("noting", Task(q))
  BY DEF Stages, Counting, Working, Fits
<1> HIDE DEF l
<1>9. Good(p)
  BY <1>1, <1>2, <1>4, <1>7, <1>8, GoodFields, WithIsGood DEF l
<1>10. /\ p.kind = q.kind /\ p.service = q.service /\ p.undisturbed = q.undisturbed
       /\ p.stage = "noting"
  BY <1>7, WithFields DEF l
<1> QED
  BY <1>1, <1>2, <1>5, <1>6, <1>8, <1>9, <1>10, TasklessOK DEF q

LEMMA WriteCheckpointOK ==
  ASSUME JourneyInv, NEW r \in Requests, WriteCheckpoint(r)
  PROVE  JourneyInv'
<1> DEFINE q == req[r]
<1>1. /\ q.stage = "noting" /\ Good(q) /\ Busy(r) /\ RequestsGood /\ Update(r, Idle)
      /\ checkpoints' = IF q.row = 0 THEN Append(checkpoints, q.service)
                        ELSE IF q.kind = "project"
                        THEN [checkpoints EXCEPT ![q.row] = q.service]
                        ELSE checkpoints
  BY DEF WriteCheckpoint, Busy, JourneyInv, RequestsGood
<1>2. /\ q.todo = <<>> /\ q.stage \notin Counting /\ q.stage \notin Early \cup {"announcing"}
      /\ Task(q) = "none" /\ q.service \in References \cup {NoService} /\ q.row \in Nat
      /\ q.kind # "none" /\ q.kind # "record"
  BY <1>1, GoodFields DEF Good, InTask, Task, Working, Counting, Early
<1>3. /\ attendance' = attendance /\ absences' = absences /\ milestones' = milestones
      /\ journey' = journey /\ score' = score /\ steps' = steps /\ logs' = logs
      /\ calls' = calls /\ failures' = failures
      /\ registered' = registered /\ spoiled' = spoiled /\ alone' = alone /\ fresh' = fresh
  BY DEF WriteCheckpoint, bounds, history
<1>4. Moved(r) /\ req'[r] = Idle
  BY <1>1, IdleIsGood, UpdateMoves DEF JourneyInv
<1>5. req'[r].stage = "idle" /\ req'[r].kind = "none"
  BY <1>4, IdleIsGood
<1>6. PICK service \in References \cup {NoService} : q.service = service
  BY <1>2
<1>7. PICK row \in Nat : q.row = row
  BY <1>2
<1>8. checkpoints \in Seq(References \cup {NoService})
  BY DEF JourneyInv, TablesGood
<1>9. /\ checkpoints' \in Seq(References \cup {NoService})
      /\ \A i \in DOMAIN checkpoints' :
            \/ i \in DOMAIN checkpoints /\ checkpoints'[i] = checkpoints[i]
            \/ checkpoints'[i] = service
  <2> DEFINE S == References \cup {NoService}
  <2>1. CASE q.row = 0
    <3> DEFINE u == Append(checkpoints, service)
    <3>1. checkpoints' = u
      BY <1>1, <1>6, <2>1
    <3>2. /\ u \in Seq(S) /\ Len(u) = Len(checkpoints) + 1
          /\ \A i \in 1..Len(checkpoints) : u[i] = checkpoints[i]
          /\ u[Len(checkpoints) + 1] = service
      BY <1>6, <1>8, AppendProperties
    <3> HIDE DEF u, S
    <3>3. /\ DOMAIN u = 1..Len(u) /\ DOMAIN checkpoints = 1..Len(checkpoints)
          /\ Len(checkpoints) \in Nat
      BY <1>8, <3>2
    <3>4. \A i \in DOMAIN u : \/ i \in DOMAIN checkpoints /\ u[i] = checkpoints[i]
                              \/ u[i] = service
      BY <3>2, <3>3
    <3> QED
      BY <3>1, <3>2, <3>4 DEF S
  <2>2. CASE q.row # 0 /\ q.kind = "project"
    <3> DEFINE u == [checkpoints EXCEPT ![row] = service]
    <3>1. checkpoints' = u
      BY <1>1, <1>6, <1>7, <2>2
    <3>2. /\ u \in Seq(S) /\ DOMAIN u = DOMAIN checkpoints
          /\ \A i \in DOMAIN checkpoints : u[i] = IF i = row THEN service ELSE checkpoints[i]
      BY <1>6, <1>7, <1>8, Restated
    <3> HIDE DEF u
    <3> QED
      BY <3>1, <3>2
  <2>3. CASE q.row # 0 /\ q.kind # "project"
    BY <1>1, <1>8, <2>3
  <2> QED
    BY <2>1, <2>2, <2>3
<1> HIDE DEF q
<1>10. TablesGood' /\ HistoryGood'
  BY <1>3, <1>9 DEF JourneyInv, TablesGood, HistoryGood
<1>11. AbsencesKnown'
  <2>1. req'[r].stage \notin Counting
    BY <1>5 DEF Counting
  <2> QED
    BY <1>2, <1>3, <1>4, <2>1, AbsencesAside DEF q
<1>12. DeedsKnown'
  <2>1. \A x \in Requests \ {r}, v \in References :
           /\ Handled(x, v)' <=> Handled(x, v)
           /\ Pending(x, v)' <=> Pending(x, v)
           /\ req'[x].stage = req[x].stage
    BY <1>4 DEF Moved, Alike, Handled, Pending, Task
  <2>2. \A v \in References : ~ Handled(r, v)' /\ ~ Pending(r, v)
    BY <1>2, <1>5 DEF Handled, Pending, Early, q
  <2>3. DeedsKnown
    BY DEF JourneyInv
  <2>4. ASSUME NEW v \in References, v \notin registered'
        PROVE  logs'[v] = 0 /\ \A x \in Requests : ~ Handled(x, v)'
    BY <1>3, <2>1, <2>2, <2>3, <2>4 DEF DeedsKnown
  <2>5. ASSUME failures' = 0, spoiled' \cap {"twins", "journey"} = {}
        PROVE  /\ \A v \in References :
                     /\ \A x, y \in Requests : Handled(x, v)' /\ Handled(y, v)' => x = y
                     /\ \A x \in Requests : Handled(x, v)' /\ req'[x].stage = "logging" =>
                           logs'[v] = 0
                     /\ logs'[v] \in {0, 1}
                     /\ v \in registered' /\ logs'[v] = 0 =>
                           \E x \in Requests : Pending(x, v)'
               /\ \A i \in DOMAIN checkpoints' :
                     checkpoints'[i] \in References => logs'[checkpoints'[i]] = 1
    <3>1. /\ \A v \in References :
                /\ \A x, y \in Requests : Handled(x, v) /\ Handled(y, v) => x = y
                /\ \A x \in Requests : Handled(x, v) /\ req[x].stage = "logging" => logs[v] = 0
                /\ logs[v] \in {0, 1}
                /\ v \in registered /\ logs[v] = 0 => \E x \in Requests : Pending(x, v)
          /\ \A i \in DOMAIN checkpoints :
                checkpoints[i] \in References => logs[checkpoints[i]] = 1
      BY <1>3, <2>3, <2>5 DEF DeedsKnown
    <3>2. service \in References => logs[service] = 1
      <4>1. ASSUME service \in References PROVE Handled(r, service)
        <5>1. q.kind = "project"
          BY <1>1, <1>2, <1>6, <4>1, ConstantsAssumption DEF Good, References, q
        <5> QED
          BY <1>2, <1>6, <5>1 DEF Handled, Early, q
      <4>2. ASSUME service \in References PROVE service \in registered
        BY <2>3, <4>1, <4>2 DEF DeedsKnown
      <4>3. ASSUME service \in References, NEW x \in Requests PROVE ~ Pending(x, service)
        BY <2>2, <3>1, <4>1, <4>3 DEF Pending
      <4> QED
        BY <3>1, <4>2, <4>3
    <3>3. ASSUME NEW v \in References
          PROVE  /\ \A x, y \in Requests : Handled(x, v)' /\ Handled(y, v)' => x = y
                 /\ \A x \in Requests : Handled(x, v)' /\ req'[x].stage = "logging" =>
                       logs'[v] = 0
                 /\ logs'[v] \in {0, 1}
                 /\ v \in registered' /\ logs'[v] = 0 => \E x \in Requests : Pending(x, v)'
      BY <1>3, <2>1, <2>2, <3>1
    <3>4. \A i \in DOMAIN checkpoints' :
             checkpoints'[i] \in References => logs'[checkpoints'[i]] = 1
      BY <1>3, <1>9, <3>1, <3>2
    <3> QED
      BY <3>3, <3>4
  <2> QED
    BY <2>4, <2>5 DEF DeedsKnown
<1>13. MilestonesKnown'
  BY <1>2, <1>3, <1>4, <1>5, MilestonesAside DEF q
<1>14. FreshIsKept'
  <2>1. Harmless(req[r])'
    BY <1>5 DEF Harmless
  <2> QED
    BY <1>3, <1>4, <2>1, FreshAside
<1> QED
  BY <1>4, <1>5, <1>10, <1>11, <1>12, <1>13, <1>14, Assembled

LEMMA FailOK ==
  ASSUME JourneyInv, NEW r \in Requests, Fail(r)
  PROVE  JourneyInv'
<1>1. /\ Busy(r) /\ failures < MaxFailures /\ failures' = failures + 1
      /\ \/ Update(r, Idle)
         \/ /\ req[r].stage \notin Counting \cup {"assigning", "emitted", "marking", "noting"}
            /\ Update(r, Caught(r))
      /\ UNCHANGED <<tables, calls, history>>
  BY DEF Fail
<1>2. /\ attendance' = attendance /\ absences' = absences /\ journey' = journey
      /\ logs' = logs /\ milestones' = milestones /\ score' = score /\ steps' = steps
      /\ checkpoints' = checkpoints /\ calls' = calls
      /\ registered' = registered /\ spoiled' = spoiled /\ alone' = alone /\ fresh' = fresh
  BY <1>1 DEF tables, history
<1>3. RequestsGood /\ LoneOnesSure /\ TablesGood /\ HistoryGood
  BY DEF JourneyInv
<1>4. failures' # 0 /\ failures' \in 0..MaxFailures
  BY <1>1, <1>3, ConstantsAssumption DEF HistoryGood
<1>5. PICK l \in {Idle, Caught(r)} :
         /\ Update(r, l)
         /\ l = Idle \/ req[r].stage \notin Counting \cup {"assigning", "emitted"}
  BY <1>1
<1>6. /\ Good(l) /\ Task(l) = "none" /\ l.stage \in {"idle", "marking"}
      /\ \/ l.kind = "none"
         \/ /\ l.kind = req[r].kind /\ l.service = req[r].service
            /\ l.undisturbed = req[r].undisturbed
            /\ req[r].stage \notin Counting \cup {"assigning", "emitted"}
  BY <1>3, <1>5, CaughtIsGood, IdleIsGood DEF Task
<1>7. Moved(r) /\ req'[r] = l
  BY <1>1, <1>3, <1>5, <1>6, UpdateMoves DEF Good
<1>8. TablesGood' /\ HistoryGood'
  BY <1>2, <1>3, <1>4 DEF TablesGood, HistoryGood
<1>9. AbsencesKnown'
  BY <1>4 DEF AbsencesKnown
<1>10. DeedsKnown'
  <2>1. \A s \in References : Handled(r, s)' => Handled(r, s)
    BY <1>6, <1>7 DEF Handled
  <2>2. req'[r].stage # "logging"
    BY <1>6, <1>7
  <2> QED
    BY <1>2, <1>4, <1>7, <2>1, <2>2, DeedsAside
<1>11. MilestonesKnown'
  BY <1>2, <1>4, <1>6, <1>7, MilestonesAside
<1>12. Sure(req[r])' /\ Harmless(req[r])'
  <2>1. Task(req[r])' = "none" /\ req'[r].stage \notin Working
    BY <1>6, <1>7 DEF Task, Working
  <2> QED
    BY <2>1, NothingInHand
<1>13. FreshIsKept'
  BY <1>2, <1>7, <1>12, FreshAside
<1> QED
  BY <1>7, <1>8, <1>9, <1>10, <1>11, <1>12, <1>13, Assembled

-----------------------------------------------------------------------------
(* The counting of absences, and what emits an event.                      *)

\* A step that counts: nothing is known of a request in it but what it counted.
LEMMA CountingOK ==
  ASSUME JourneyInv, NEW r \in Requests, UNCHANGED <<tables, bounds, history>>,
         Busy(r), req[r].stage \in Counting,
         NEW l, Update(r, l), Good(l), l.stage \in Counting,
         l.undisturbed = req[r].undisturbed,
         failures = 0 /\ "absences" \notin spoiled =>
            /\ l.stage \in {"streaking", "storing"} => l.value = Absences
            /\ l.stage = "storing" => l.streak = Streak
  PROVE  JourneyInv'
<1>1. Moved(r) /\ req'[r] = l
  BY UpdateMoves DEF JourneyInv
<1>2. /\ attendance' = attendance /\ absences' = absences /\ logs' = logs
      /\ registered' = registered /\ checkpoints' = checkpoints /\ failures' = failures
      /\ spoiled' = spoiled
  BY DEF tables, bounds, history
<1>3. AbsencesKnown'
  <2>1. Absences' = Absences /\ Streak' = Streak
    BY <1>2 DEF Absences, Streak
  <2>2. ASSUME failures' = 0, "absences" \notin spoiled', NEW x \in Requests
        PROVE  /\ req'[x].stage \in {"streaking", "storing"} => req'[x].value = Absences'
               /\ req'[x].stage = "storing" => req'[x].streak = Streak'
    <3>1. CASE x = r
      BY <1>1, <1>2, <2>1, <2>2, <3>1
    <3>2. CASE x # r
      BY <1>1, <1>2, <2>1, <2>2, <3>2 DEF Moved, Alike, JourneyInv, AbsencesKnown
    <3> QED
      BY <3>1, <3>2
  <2> QED
    BY <1>1, <2>2 DEF AbsencesKnown
<1>4. DeedsKnown'
  <2>1. \A s \in References : ~ Handled(r, s)' /\ ~ Pending(r, s)
    BY <1>1 DEF Handled, Pending
  <2> QED
    BY <1>1, <1>2, <2>1, DeedsAside
<1>5. Sure(l) /\ Harmless(l)
  <2>1. l.stage \notin Working /\ Task(l) = "none"
    BY DEF Working, Counting, Good, InTask, Task
  <2> QED
    BY <2>1, SureAside
<1>6. req[r].stage # "announcing" /\ l.stage # "announcing"
  BY DEF Counting
<1> QED
  BY <1>1, <1>3, <1>4, <1>5, <1>6, ReadStep

LEMMA CountAbsencesOK ==
  ASSUME JourneyInv, NEW r \in Requests, CountAbsences(r)
  PROVE  JourneyInv'
<1> DEFINE q == req[r]
           p == [q EXCEPT !.stage = "streaking", !.value = Absences]
           l == With(q, "streaking", Absences, q.streak, q.due, q.milestone, q.closing,
                     q.opening, q.row)
<1>1. /\ q.stage = "counting" /\ Good(q) /\ q \in Locals /\ Busy(r)
      /\ Update(r, p) /\ UNCHANGED <<tables, bounds, history>>
  BY DEF CountAbsences, Busy, JourneyInv, RequestsGood, Good
<1>2. q.stage \in Counting /\ q.todo = <<>> /\ Task(q) = "none"
  BY <1>1 DEF Good, InTask, Task, Working, Counting
<1> HIDE DEF q
<1>3. p = [q EXCEPT !.stage = "streaking", !.value = Absences]
  OBVIOUS
<1> HIDE DEF p
<1>4. p = l
  BY <1>1, <1>3, ChangeStageValue
<1>5. "streaking" \in Stages /\ "streaking" \in Counting /\ "streaking" \notin Working
      /\ Fits("streaking", Task(q))
  BY <1>1 DEF Stages, Counting, Working, Fits
<1> HIDE DEF l
<1>6. Good(p)
  BY <1>1, <1>2, <1>4, <1>5, Counts, GoodFields, WithIsGood DEF l
<1>7. p.undisturbed = q.undisturbed /\ p.stage = "streaking" /\ p.value = Absences
  BY <1>4, WithFields DEF l
<1> QED
  BY <1>1, <1>2, <1>5, <1>6, <1>7, CountingOK DEF q

LEMMA CountStreakOK ==
  ASSUME JourneyInv, NEW r \in Requests, CountStreak(r)
  PROVE  JourneyInv'
<1> DEFINE q == req[r]
           p == [q EXCEPT !.stage = "storing", !.streak = Streak]
           l == With(q, "storing", q.value, Streak, q.due, q.milestone, q.closing,
                     q.opening, q.row)
<1>1. /\ q.stage = "streaking" /\ Good(q) /\ q \in Locals /\ Busy(r)
      /\ Update(r, p) /\ UNCHANGED <<tables, bounds, history>>
  BY DEF CountStreak, Busy, JourneyInv, RequestsGood, Good
<1>2. q.stage \in Counting /\ q.todo = <<>> /\ Task(q) = "none"
  BY <1>1 DEF Good, InTask, Task, Working, Counting
<1>3. failures = 0 /\ "absences" \notin spoiled => q.value = Absences
  BY <1>1 DEF JourneyInv, AbsencesKnown
<1> HIDE DEF q
<1>4. p = [q EXCEPT !.stage = "storing", !.streak = Streak]
  OBVIOUS
<1> HIDE DEF p
<1>5. p = l
  BY <1>1, <1>4, ChangeStageStreak
<1>6. "storing" \in Stages /\ "storing" \in Counting /\ "storing" \notin Working
      /\ Fits("storing", Task(q))
  BY <1>1 DEF Stages, Counting, Working, Fits
<1> HIDE DEF l
<1>7. Good(p)
  BY <1>1, <1>2, <1>5, <1>6, Counts, GoodFields, WithIsGood DEF l
<1>8. /\ p.undisturbed = q.undisturbed /\ p.stage = "storing" /\ p.streak = Streak
      /\ p.value = q.value
  BY <1>5, WithFields DEF l
<1> QED
  BY <1>1, <1>2, <1>3, <1>6, <1>7, <1>8, CountingOK DEF q

\* r emits an event of s.
LEMMA EmittingIsKnown ==
  ASSUME JourneyInv, NEW r \in Requests, Moved(r), NEW s \in References,
         req'[r].kind = "project", req'[r].service = s, req'[r].stage = "emitted",
         \A v \in References : ~ Handled(r, v),
         registered' = registered \cup {s}, spoiled' = Twins(s),
         UNCHANGED <<logs, checkpoints, failures>>
  PROVE  DeedsKnown'
<1>1. \A x \in Requests \ {r}, v \in References :
         /\ Handled(x, v)' <=> Handled(x, v)
         /\ Pending(x, v)' <=> Pending(x, v)
         /\ req'[x].stage = req[x].stage
  BY DEF Moved, Alike, Handled, Pending, Task
<1>2. \A v \in References : /\ Handled(r, v)' <=> v = s
                            /\ Pending(r, v)' <=> v = s
                            /\ ~ Pending(r, v)
  BY DEF Handled, Pending, Counting
<1>3. spoiled \subseteq spoiled' /\ ("twins" \notin spoiled' => \A x \in Requests : ~ Handled(x, s))
  BY DEF Twins
<1>4. DeedsKnown
  BY DEF JourneyInv
<1>5. ASSUME NEW v \in References, v \notin registered'
      PROVE  logs'[v] = 0 /\ \A x \in Requests : ~ Handled(x, v)'
  BY <1>1, <1>2, <1>4, <1>5 DEF DeedsKnown
<1>6. ASSUME failures' = 0, spoiled' \cap {"twins", "journey"} = {}
      PROVE  /\ \A v \in References :
                   /\ \A x, y \in Requests : Handled(x, v)' /\ Handled(y, v)' => x = y
                   /\ \A x \in Requests : Handled(x, v)' /\ req'[x].stage = "logging" =>
                         logs'[v] = 0
                   /\ logs'[v] \in {0, 1}
                   /\ v \in registered' /\ logs'[v] = 0 =>
                         \E x \in Requests : Pending(x, v)'
             /\ \A i \in DOMAIN checkpoints' :
                   checkpoints'[i] \in References => logs'[checkpoints'[i]] = 1
  <2>1. spoiled \cap {"twins", "journey"} = {} /\ \A x \in Requests : ~ Handled(x, s)
    BY <1>3, <1>6
  <2>2. /\ \A v \in References :
              /\ \A x, y \in Requests : Handled(x, v) /\ Handled(y, v) => x = y
              /\ \A x \in Requests : Handled(x, v) /\ req[x].stage = "logging" => logs[v] = 0
              /\ logs[v] \in {0, 1}
              /\ v \in registered /\ logs[v] = 0 => \E x \in Requests : Pending(x, v)
        /\ \A i \in DOMAIN checkpoints :
              checkpoints[i] \in References => logs[checkpoints[i]] = 1
    BY <1>4, <1>6, <2>1 DEF DeedsKnown
  <2>3. req'[r].stage # "logging"
    OBVIOUS
  <2>4. ASSUME NEW v \in References
        PROVE  /\ \A x, y \in Requests : Handled(x, v)' /\ Handled(y, v)' => x = y
               /\ \A x \in Requests : Handled(x, v)' /\ req'[x].stage = "logging" =>
                     logs'[v] = 0
               /\ logs'[v] \in {0, 1}
               /\ v \in registered' /\ logs'[v] = 0 => \E x \in Requests : Pending(x, v)'
    BY <1>1, <1>2, <2>1, <2>2, <2>3
  <2> QED
    BY <2>2, <2>4
<1> QED
  BY <1>5, <1>6 DEF DeedsKnown

\* What an event leaves as it is.
LEMMA EmittedIsKnown ==
  ASSUME JourneyInv, NEW r \in Requests, Moved(r), req[r].stage # "announcing",
         req'[r].stage \notin Working, Task(req[r])' = "none",
         UNCHANGED <<attendance, journey, logs, milestones, score, steps, checkpoints, failures,
                     alone, fresh>>,
         absences' \in [monthly : Nat, consecutive : Nat], calls' \in 0..MaxCalls,
         registered' \subseteq References,
         spoiled' \subseteq spoiled \cup {"twins"},
         AbsencesKnown', DeedsKnown'
  PROVE  JourneyInv'
<1>1. TablesGood' /\ HistoryGood'
  <2>1. TablesGood /\ HistoryGood
    BY DEF JourneyInv
  <2>2. spoiled' \subseteq {"twins", "absences", "journey", "milestone", "opening", "closing"}
    BY <2>1 DEF HistoryGood
  <2> QED
    BY <2>1, <2>2 DEF TablesGood, HistoryGood
<1>2. MilestonesKnown'
  <2>1. req'[r].stage # "announcing"
    BY DEF Working
  <2> QED
    BY <2>1, MilestonesAside
<1>3. Sure(req[r])' /\ Harmless(req[r])'
  BY NothingInHand
<1>4. FreshIsKept'
  BY <1>3, FreshAside
<1> QED
  BY <1>1, <1>2, <1>3, <1>4, Assembled

LEMMA StoreAbsencesOK ==
  ASSUME JourneyInv, NEW r \in Requests, StoreAbsences(r)
  PROVE  JourneyInv'
<1> DEFINE q == req[r]
<1>1. /\ q.stage = "storing" /\ Good(q) /\ q \in Locals /\ Busy(r) /\ RequestsGood
      /\ absences' = [monthly |-> q.value, consecutive |-> q.streak]
  BY DEF StoreAbsences, Busy, JourneyInv, RequestsGood, Good
<1>2. /\ q.stage \in Counting /\ q.todo = <<>> /\ Task(q) = "none" /\ q.stage # "announcing"
      /\ q.kind \in {"project", "record"} /\ q.service \in Services /\ q.service \in References
  BY <1>1 DEF Good, InTask, Task, Working, Counting, References
<1>3. /\ attendance' = attendance /\ journey' = journey /\ logs' = logs
      /\ milestones' = milestones /\ score' = score /\ steps' = steps
      /\ checkpoints' = checkpoints /\ calls' = calls /\ failures' = failures
      /\ alone' = alone /\ fresh' = fresh
  BY DEF StoreAbsences, bounds
<1>4. \A v \in References : ~ Handled(r, v) /\ ~ Pending(r, v)
  BY <1>2 DEF Handled, Pending, q
<1>5. absences' \in [monthly : Nat, consecutive : Nat]
  BY <1>1, GoodFields
<1>6. spoiled' = spoiled \/ spoiled' = Twins(q.service)
  BY DEF StoreAbsences
<1>7. spoiled \subseteq spoiled' /\ spoiled' \subseteq spoiled \cup {"twins"}
  BY <1>6 DEF Twins
<1>8. registered' \subseteq References /\ calls' \in 0..MaxCalls
  <2>1. HistoryGood
    BY DEF JourneyInv
  <2>2. registered' \in {registered, registered \cup {q.service}}
    BY DEF StoreAbsences
  <2> QED
    BY <1>2, <1>3, <2>1, <2>2 DEF HistoryGood
<1>9. ASSUME Moved(r), req'[r].stage \in {"idle", "emitted"} PROVE AbsencesKnown'
  <2>1. Absences' = Absences /\ Streak' = Streak
    BY <1>3 DEF Absences, Streak
  <2>2. ASSUME failures' = 0, "absences" \notin spoiled'
        PROVE  /\ \A x \in Requests :
                     /\ req'[x].stage \in {"streaking", "storing"} => req'[x].value = Absences
                     /\ req'[x].stage = "storing" => req'[x].streak = Streak
               /\ absences' = [monthly |-> Absences, consecutive |-> Streak]
    <3>1. \A x \in Requests :
             /\ req[x].stage \in {"streaking", "storing"} => req[x].value = Absences
             /\ req[x].stage = "storing" => req[x].streak = Streak
      BY <1>3, <1>7, <2>2 DEF JourneyInv, AbsencesKnown
    <3>2. \A x \in Requests \ {r} : /\ req'[x].stage = req[x].stage
                                    /\ req'[x].value = req[x].value
                                    /\ req'[x].streak = req[x].streak
      BY <1>9 DEF Moved, Alike
    <3> QED
      BY <1>1, <1>9, <3>1, <3>2
  <2> QED
    BY <2>1, <2>2 DEF AbsencesKnown
<1>10. CASE q.kind = "record"
  <2>1. Update(r, Idle) /\ registered' = registered /\ spoiled' = spoiled
    BY <1>10 DEF StoreAbsences
  <2>2. Moved(r) /\ req'[r] = Idle
    BY <1>1, <2>1, IdleIsGood, UpdateMoves DEF JourneyInv
  <2>3. /\ req'[r].stage = "idle" /\ req'[r].kind = "none" /\ Task(req[r])' = "none"
        /\ req'[r].stage \notin Working
    BY <2>2, IdleIsGood DEF Task, Working
  <2>4. DeedsKnown'
    <3>1. \A s \in References : ~ Handled(r, s)'
      BY <2>3 DEF Handled
    <3> QED
      BY <1>3, <1>4, <2>1, <2>2, <3>1, DeedsAside
  <2> QED
    BY <1>2, <1>3, <1>5, <1>7, <1>8, <1>9, <2>2, <2>3, <2>4, EmittedIsKnown
<1>11. CASE q.kind # "record"
  <2> DEFINE p == [q EXCEPT !.stage = "emitted", !.value = 0, !.streak = 0]
             l == With(q, "emitted", 0, 0, q.due, q.milestone, q.closing, q.opening, q.row)
  <2>1. /\ Update(r, p) /\ registered' = registered \cup {q.service}
        /\ spoiled' = Twins(q.service)
    BY <1>11 DEF StoreAbsences
  <2>2. PICK s \in References : q.service = s
    BY <1>2
  <2> HIDE DEF q
  <2>3. p = [q EXCEPT !.stage = "emitted", !.value = 0, !.streak = 0]
    OBVIOUS
  <2> HIDE DEF p
  <2>4. p = l
    BY <1>1, <2>3, ChangeStageValueStreak
  <2>5. "emitted" \in Stages /\ "emitted" \notin Counting /\ "emitted" \notin Working
        /\ Fits("emitted", Task(q)) /\ q.kind = "project"
    BY <1>2, <1>11 DEF Stages, Counting, Working, Fits
  <2> HIDE DEF l
  <2>6. Good(p)
    BY <1>1, <1>2, <2>4, <2>5, GoodFields, WithIsGood DEF l
  <2>7. /\ p.kind = "project" /\ p.service = s /\ p.undisturbed = q.undisturbed
        /\ p.stage = "emitted" /\ Task(p) = "none"
    BY <1>2, <2>2, <2>4, <2>5, WithFields DEF l
  <2>8. Moved(r) /\ req'[r] = p
    BY <1>1, <2>1, <2>6, <2>7, UpdateMoves DEF q, JourneyInv
  <2>9. Task(req[r])' = "none"
    BY <2>7, <2>8 DEF Task
  <2>10. DeedsKnown'
    BY <1>3, <1>4, <2>1, <2>2, <2>7, <2>8, EmittingIsKnown
  <2> QED
    BY <1>2, <1>3, <1>5, <1>7, <1>8, <1>9, <2>5, <2>7, <2>8, <2>9, <2>10, EmittedIsKnown DEF q
<1> QED
  BY <1>10, <1>11

LEMMA FindAssigneeOK ==
  ASSUME JourneyInv, NEW r \in Requests, FindAssignee(r)
  PROVE  JourneyInv'
<1> DEFINE q == req[r]
<1>1. /\ q.stage = "assigning" /\ Good(q) /\ q \in Locals /\ Busy(r) /\ RequestsGood
      /\ UNCHANGED <<tables, bounds, alone, fresh>>
      /\ \/ Update(r, Idle) /\ UNCHANGED <<registered, spoiled>>
         \/ /\ Update(r, [q EXCEPT !.stage = "emitted"])
            /\ registered' = registered \cup {q.service}
            /\ spoiled' = Twins(q.service)
  BY DEF FindAssignee, Busy, JourneyInv, RequestsGood, Good
<1>2. /\ q.stage \notin Counting /\ q.todo = <<>> /\ Task(q) = "none" /\ q.stage # "announcing"
      /\ q.kind = "project" /\ q.service \in References
  BY <1>1 DEF Good, InTask, Task, Working, Counting
<1>3. /\ attendance' = attendance /\ journey' = journey /\ logs' = logs
      /\ milestones' = milestones /\ score' = score /\ steps' = steps /\ absences' = absences
      /\ checkpoints' = checkpoints /\ calls' = calls /\ failures' = failures
      /\ alone' = alone /\ fresh' = fresh
  BY <1>1 DEF bounds, tables
<1>4. \A v \in References : ~ Handled(r, v) /\ ~ Pending(r, v)
  BY <1>1 DEF Handled, Pending, q
<1>5. absences' \in [monthly : Nat, consecutive : Nat] /\ calls' \in 0..MaxCalls
      /\ registered \subseteq References
  BY <1>3 DEF JourneyInv, TablesGood, HistoryGood
<1>6. CASE Update(r, Idle) /\ UNCHANGED <<registered, spoiled>>
  <2>1. Moved(r) /\ req'[r] = Idle
    BY <1>1, <1>6, IdleIsGood, UpdateMoves DEF JourneyInv
  <2>2. /\ req'[r].stage = "idle" /\ req'[r].kind = "none" /\ Task(req[r])' = "none"
        /\ req'[r].stage \notin Working /\ req'[r].stage \notin Counting
    BY <2>1, IdleIsGood DEF Task, Working, Counting
  <2>3. AbsencesKnown'
    BY <1>2, <1>3, <1>6, <2>1, <2>2, AbsencesAside
  <2>4. DeedsKnown'
    <3>1. \A s \in References : ~ Handled(r, s)'
      BY <2>2 DEF Handled
    <3> QED
      BY <1>3, <1>4, <1>6, <2>1, <3>1, DeedsAside
  <2> QED
    BY <1>2, <1>3, <1>5, <1>6, <2>1, <2>2, <2>3, <2>4, EmittedIsKnown
<1>7. CASE /\ Update(r, [q EXCEPT !.stage = "emitted"])
           /\ registered' = registered \cup {q.service}
           /\ spoiled' = Twins(q.service)
  <2> DEFINE p == [q EXCEPT !.stage = "emitted"]
             l == With(q, "emitted", q.value, q.streak, q.due, q.milestone, q.closing,
                       q.opening, q.row)
  <2>1. PICK s \in References : q.service = s
    BY <1>2
  <2>2. Update(r, p)
    BY <1>7
  <2> HIDE DEF q
  <2>3. p = [q EXCEPT !.stage = "emitted"]
    OBVIOUS
  <2> HIDE DEF p
  <2>4. p = l
    BY <1>1, <2>3, ChangeStage
  <2>5. "emitted" \in Stages /\ "emitted" \notin Counting /\ "emitted" \notin Working
        /\ Fits("emitted", Task(q))
    BY <1>2 DEF Stages, Counting, Working, Fits
  <2> HIDE DEF l
  <2>6. Good(p)
    BY <1>1, <1>2, <2>4, <2>5, GoodFields, WithIsGood DEF l
  <2>7. /\ p.kind = "project" /\ p.service = s /\ p.undisturbed = q.undisturbed
        /\ p.stage = "emitted" /\ Task(p) = "none"
    BY <1>2, <2>1, <2>4, WithFields DEF l
  <2>8. Moved(r) /\ req'[r] = p
    BY <1>1, <2>2, <2>6, <2>7, UpdateMoves DEF q, JourneyInv
  <2>9. Task(req[r])' = "none"
    BY <2>7, <2>8 DEF Task
  <2>10. spoiled \subseteq spoiled' /\ spoiled' \subseteq spoiled \cup {"twins"}
    BY <1>7 DEF Twins
  <2>11. AbsencesKnown'
    BY <1>2, <1>3, <2>5, <2>7, <2>8, <2>10, AbsencesAside DEF q
  <2>12. DeedsKnown'
    BY <1>3, <1>4, <1>7, <2>1, <2>7, <2>8, EmittingIsKnown
  <2>13. registered' \subseteq References
    BY <1>2, <1>5, <1>7
  <2> QED
    BY <1>2, <1>3, <1>5, <2>5, <2>7, <2>8, <2>9, <2>10, <2>11, <2>12, <2>13, EmittedIsKnown DEF q
<1> QED
  BY <1>1, <1>6, <1>7

-----------------------------------------------------------------------------
(* The calls.                                                              *)

\* What a request begins with.
Start(kind, stage, service, todo, closing) ==
    [kind |-> kind, stage |-> stage, service |-> service, todo |-> todo, value |-> 0,
     streak |-> 0, due |-> {}, milestone |-> NoMilestone, closing |-> closing, opening |-> {},
     row |-> 0, undisturbed |-> TRUE]

LEMMA StartOfTasks ==
  ASSUME NEW kind, NEW stage, NEW todo, NEW p,
         p = [Idle EXCEPT !.kind = kind, !.stage = stage, !.todo = todo]
  PROVE  p = Start(kind, stage, NoService, todo, {})
<1>1. Idle \in Locals
  BY IdleIsGood DEF Good
<1>2. p = [kind |-> kind, stage |-> stage, service |-> Idle.service, todo |-> todo,
           value |-> Idle.value, streak |-> Idle.streak, due |-> Idle.due,
           milestone |-> Idle.milestone, closing |-> Idle.closing, opening |-> Idle.opening,
           row |-> Idle.row, undisturbed |-> Idle.undisturbed]
  BY <1>1 DEF Locals
<1> QED
  BY <1>2 DEF Idle, Start

LEMMA StartOfDismissal ==
  ASSUME NEW kind, NEW stage, NEW closing, NEW p,
         p = [Idle EXCEPT !.kind = kind, !.stage = stage, !.closing = closing]
  PROVE  p = Start(kind, stage, NoService, <<>>, closing)
<1>1. Idle \in Locals
  BY IdleIsGood DEF Good
<1>2. p = [kind |-> kind, stage |-> stage, service |-> Idle.service, todo |-> Idle.todo,
           value |-> Idle.value, streak |-> Idle.streak, due |-> Idle.due,
           milestone |-> Idle.milestone, closing |-> closing, opening |-> Idle.opening,
           row |-> Idle.row, undisturbed |-> Idle.undisturbed]
  BY <1>1 DEF Locals
<1> QED
  BY <1>2 DEF Idle, Start

LEMMA StartOfDeed ==
  ASSUME NEW kind, NEW stage, NEW service, NEW p,
         p = [Idle EXCEPT !.kind = kind, !.service = service, !.stage = stage]
  PROVE  p = Start(kind, stage, service, <<>>, {})
<1>1. Idle \in Locals
  BY IdleIsGood DEF Good
<1>2. p = [kind |-> kind, stage |-> stage, service |-> service, todo |-> Idle.todo,
           value |-> Idle.value, streak |-> Idle.streak, due |-> Idle.due,
           milestone |-> Idle.milestone, closing |-> Idle.closing, opening |-> Idle.opening,
           row |-> Idle.row, undisturbed |-> Idle.undisturbed]
  BY <1>1 DEF Locals
<1> QED
  BY <1>2 DEF Idle, Start

LEMMA StartOfRecord ==
  ASSUME NEW kind, NEW stage, NEW service, NEW o, o = [Idle EXCEPT !.kind = kind],
         NEW p, p = [o EXCEPT !.stage = stage, !.service = service]
  PROVE  p = Start(kind, stage, service, <<>>, {})
<1>1. Idle \in Locals
  BY IdleIsGood DEF Good
<1>2. p = [kind |-> kind, stage |-> stage, service |-> service, todo |-> Idle.todo,
           value |-> Idle.value, streak |-> Idle.streak, due |-> Idle.due,
           milestone |-> Idle.milestone, closing |-> Idle.closing, opening |-> Idle.opening,
           row |-> Idle.row, undisturbed |-> Idle.undisturbed]
  <2>1. o = [kind |-> kind, stage |-> Idle.stage, service |-> Idle.service, todo |-> Idle.todo,
             value |-> Idle.value, streak |-> Idle.streak, due |-> Idle.due,
             milestone |-> Idle.milestone, closing |-> Idle.closing, opening |-> Idle.opening,
             row |-> Idle.row, undisturbed |-> Idle.undisturbed]
    BY <1>1 DEF Locals
  <2> QED
    BY <2>1
<1> QED
  BY <1>2 DEF Idle, Start

LEMMA StartIsGood ==
  ASSUME NEW kind \in Kinds \ {"none"}, NEW stage \in Stages \ {"idle"},
         NEW service \in References \cup {NoService},
         NEW todo \in RestOfProjection \cup RestOfView,
         NEW closing \in SUBSET (StepTypes \X Nat),
         stage \in Counting => kind \in {"project", "record"} /\ service \in Services,
         stage \in {"assigning", "emitted"} => kind = "project",
         kind = "record" => stage \in Counting,
         kind = "project" => service \in References /\ todo \in RestOfProjection,
         kind # "project" => todo \in RestOfView,
         kind \notin {"project", "record"} => service = NoService,
         stage \notin Working => todo = <<>>,
         stage \in Working => stage = "next",
         NEW l, l = Start(kind, stage, service, todo, closing)
  PROVE  /\ Good(l) /\ l.kind = kind /\ l.stage = stage /\ l.service = service
         /\ l.todo = todo
<1>1. /\ l.kind = kind /\ l.stage = stage /\ l.service = service /\ l.todo = todo
      /\ l.closing = closing
  BY DEF Start
<1>2. l \in Locals
  BY DEF Start, Locals
<1>3. InTask(l) /\ stage \notin {"awarding", "announcing", "scoring"}
  BY <1>1 DEF InTask, Fits, Working
<1> QED
  BY <1>1, <1>2, <1>3 DEF Good

\* What somebody begins with who reads or rebuilds.
LEMMA TasksAreGood ==
  ASSUME NEW kind \in {"view", "reconcile", "rebuild"}, NEW todo \in RestOfView,
         NEW l, l = Start(kind, "next", NoService, todo, {})
  PROVE  Good(l) /\ l.kind = kind /\ l.stage = "next" /\ l.todo = todo
<1>1. kind \in Kinds \ {"none"} /\ "next" \in Stages \ {"idle"} /\ "next" \notin Counting
      /\ "next" \in Working
  BY DEF Kinds, Stages, Counting, Working
<1>2. {} \in SUBSET (StepTypes \X Nat) /\ todo \in RestOfProjection \cup RestOfView
  OBVIOUS
<1> QED
  BY <1>1, <1>2, StartIsGood

LEMMA CallOK ==
  ASSUME JourneyInv, NEW r \in Requests, NEW l, Good(l), Begin(r, l),
         l.stage \in {"next", "dismissing", "assigning", "emitted"},
         Task(l) \notin {"milestones", "indicators", "nextSteps"},
         UNCHANGED <<tables, failures, alone, fresh>>, calls' \in 0..MaxCalls,
         registered' \subseteq References,
         spoiled \subseteq spoiled', spoiled' \subseteq spoiled \cup {"twins"},
         DeedsKnown'
  PROVE  JourneyInv'
<1>1. Moved(r) /\ Alike(req'[r], l) /\ req[r].stage = "idle"
  BY BeginMoves DEF JourneyInv
<1>2. /\ attendance' = attendance /\ absences' = absences /\ journey' = journey
      /\ logs' = logs /\ milestones' = milestones /\ score' = score /\ steps' = steps
      /\ checkpoints' = checkpoints /\ failures' = failures
      /\ alone' = alone /\ fresh' = fresh
  BY DEF tables
<1>3. req'[r].stage = l.stage /\ Task(req[r])' = Task(l)
  BY <1>1 DEF Alike, Task
<1>4. TablesGood' /\ HistoryGood'
  <2>1. TablesGood /\ HistoryGood
    BY DEF JourneyInv
  <2>2. spoiled' \subseteq {"twins", "absences", "journey", "milestone", "opening", "closing"}
    BY <2>1 DEF HistoryGood
  <2> QED
    BY <1>2, <2>1, <2>2 DEF TablesGood, HistoryGood
<1>5. AbsencesKnown'
  <2>1. req[r].stage \notin Counting /\ req'[r].stage \notin Counting
    BY <1>1, <1>3 DEF Counting
  <2> QED
    BY <1>1, <1>2, <2>1, AbsencesAside
<1>6. MilestonesKnown'
  BY <1>1, <1>2, <1>3, MilestonesAside
<1>7. Sure(req[r])' /\ Harmless(req[r])'
  BY <1>3 DEF Sure, Harmless
<1>8. FreshIsKept'
  BY <1>1, <1>2, <1>7, FreshAside
<1> QED
  BY <1>1, <1>4, <1>5, <1>6, <1>7, <1>8, Assembled

\* A call that emits nothing yet.
LEMMA QuietCallOK ==
  ASSUME JourneyInv, NEW r \in Requests, NEW l, Good(l), Begin(r, l),
         \/ l.stage \in {"next", "dismissing"} /\ l.kind # "project"
         \/ l.stage = "assigning",
         Task(l) \notin {"milestones", "indicators", "nextSteps"},
         UNCHANGED <<tables, failures, history>>, calls' \in 0..MaxCalls
  PROVE  JourneyInv'
<1>1. Moved(r) /\ Alike(req'[r], l) /\ req[r].stage = "idle"
  BY BeginMoves DEF JourneyInv
<1>2. /\ registered' = registered /\ spoiled' = spoiled /\ alone' = alone /\ fresh' = fresh
      /\ checkpoints' = checkpoints /\ logs' = logs
  BY DEF tables, history
<1>3. \A s \in References : ~ Handled(r, s)' /\ ~ Pending(r, s)
  <2>1. \A s \in References : ~ Handled(r, s)'
    BY <1>1 DEF Handled, Alike
  <2>2. req[r].kind # "project"
    BY <1>1 DEF JourneyInv, RequestsGood, Good
  <2> QED
    BY <2>1, <2>2 DEF Pending, Handled
<1>4. DeedsKnown'
  BY <1>1, <1>2, <1>3, DeedsAside
<1>5. registered' \subseteq References
  BY <1>2 DEF JourneyInv, HistoryGood
<1> QED
  BY <1>2, <1>4, <1>5, CallOK

\* The bound on the calls.
LEMMA CalledFacts ==
  ASSUME JourneyInv, Called
  PROVE  calls' \in 0..MaxCalls /\ failures' = failures
  BY ConstantsAssumption DEF Called, JourneyInv, HistoryGood

LEMMA ViewOK ==
  ASSUME JourneyInv, NEW r \in Requests, View(r)
  PROVE  JourneyInv'
<1>1. /\ calls' \in 0..MaxCalls /\ failures' = failures
      /\ UNCHANGED <<tables, failures, history>>
  BY CalledFacts DEF View
<1>2. PICK todo \in Views :
         Begin(r, [Idle EXCEPT !.kind = "view", !.stage = "next", !.todo = todo])
  BY DEF View
<1> DEFINE l == Start("view", "next", NoService, todo, {})
<1>3. todo \in RestOfView
  BY ViewsAreRest
<1>4. Head(todo) = "ensure" /\ todo # <<>>
  <2>1. CASE todo = <<"ensure", "totals">>
    BY <2>1
  <2>2. CASE todo = <<"ensure", "totals", "milestones">>
    BY <2>2
  <2>3. CASE todo = <<"ensure">> \o Refresh
    BY <2>3 DEF Refresh
  <2> QED
    BY <2>1, <2>2, <2>3 DEF Views
<1>6. Begin(r, l)
  <2> DEFINE p == [Idle EXCEPT !.kind = "view", !.stage = "next", !.todo = todo]
  <2>1. Begin(r, p)
    BY <1>2
  <2>2. p = [Idle EXCEPT !.kind = "view", !.stage = "next", !.todo = todo]
    OBVIOUS
  <2> HIDE DEF p
  <2> QED
    BY <2>1, <2>2, StartOfTasks
<1>7. l = Start("view", "next", NoService, todo, {})
  OBVIOUS
<1> HIDE DEF l
<1>8. Good(l) /\ l.kind = "view" /\ l.stage = "next" /\ l.todo = todo
  BY <1>3, <1>7, TasksAreGood
<1>9. Task(l) = "ensure"
  BY <1>4, <1>8 DEF Task
<1> QED
  BY <1>1, <1>6, <1>8, <1>9, QuietCallOK

LEMMA BeginRebuildOK ==
  ASSUME JourneyInv, NEW r \in Requests, NEW kind \in {"reconcile", "rebuild"},
         BeginRebuild(r, kind),
         UNCHANGED <<tables, failures, history>>, calls' \in 0..MaxCalls
  PROVE  JourneyInv'
<1> DEFINE l == Start(kind, "next", NoService, Refresh, {})
<1>1. Begin(r, l)
  <2> DEFINE p == [Idle EXCEPT !.kind = kind, !.stage = "next", !.todo = Refresh]
  <2>1. Begin(r, p)
    BY DEF BeginRebuild
  <2>2. p = [Idle EXCEPT !.kind = kind, !.stage = "next", !.todo = Refresh]
    OBVIOUS
  <2> HIDE DEF p
  <2> QED
    BY <2>1, <2>2, StartOfTasks
<1>2. Refresh \in RestOfView /\ Refresh # <<>> /\ Head(Refresh) = "totals"
  BY RefreshIsRest DEF RestOfView, Refresh
<1>4. l = Start(kind, "next", NoService, Refresh, {})
  OBVIOUS
<1> HIDE DEF l
<1>5. Good(l) /\ l.kind = kind /\ l.stage = "next" /\ l.todo = Refresh
  BY <1>2, <1>4, TasksAreGood
<1>6. Task(l) = "totals"
  BY <1>2, <1>5 DEF Task
<1> QED
  BY <1>1, <1>5, <1>6, QuietCallOK

LEMMA DismissNextStepOK ==
  ASSUME JourneyInv, NEW r \in Requests, DismissNextStep(r)
  PROVE  JourneyInv'
<1>1. /\ calls' \in 0..MaxCalls /\ failures' = failures
      /\ UNCHANGED <<tables, failures, history>>
  BY CalledFacts DEF DismissNextStep
<1>2. PICK t \in StepTypes : \E i \in RowsWith(t, "OPEN") :
         Begin(r, [Idle EXCEPT !.kind = "dismiss", !.stage = "dismissing",
                               !.closing = {<<t, i>>}])
  BY DEF DismissNextStep
<1>3. PICK i \in RowsWith(t, "OPEN") :
         Begin(r, [Idle EXCEPT !.kind = "dismiss", !.stage = "dismissing",
                               !.closing = {<<t, i>>}])
  BY <1>2
<1>4. i \in Nat
  BY DEF RowsWith, JourneyInv, TablesGood
<1> DEFINE closing == {<<t, i>>}
           nothing == <<>>
           l == Start("dismiss", "dismissing", NoService, nothing, closing)
<1>5. closing \in SUBSET (StepTypes \X Nat)
  BY <1>4
<1>6. "dismiss" \in Kinds \ {"none"} /\ "dismissing" \in Stages \ {"idle"}
      /\ "dismissing" \notin Counting /\ "dismissing" \notin Working /\ nothing \in RestOfView
      /\ nothing = <<>>
  BY DEF Kinds, Stages, Counting, Working, RestOfView, RestOfRefresh
<1>7. Begin(r, l)
  <2> DEFINE p == [Idle EXCEPT !.kind = "dismiss", !.stage = "dismissing", !.closing = closing]
  <2>1. Begin(r, p)
    BY <1>3
  <2> HIDE DEF closing
  <2>2. p = [Idle EXCEPT !.kind = "dismiss", !.stage = "dismissing", !.closing = closing]
    OBVIOUS
  <2> HIDE DEF p
  <2> QED
    BY <2>1, <2>2, StartOfDismissal
<1> HIDE DEF closing, nothing
<1>8. l = Start("dismiss", "dismissing", NoService, nothing, closing)
  OBVIOUS
<1> HIDE DEF l
<1>9. Good(l) /\ l.kind = "dismiss" /\ l.stage = "dismissing" /\ l.todo = nothing
  BY <1>5, <1>6, <1>8, StartIsGood
<1>10. Task(l) = "none"
  BY <1>6, <1>9 DEF Task
<1> QED
  BY <1>1, <1>7, <1>9, <1>10, QuietCallOK

LEMMA RegisterDeedOK ==
  ASSUME JourneyInv, NEW r \in Requests, NEW d \in Deeds, RegisterDeed(r, d)
  PROVE  JourneyInv'
<1> DEFINE stage == IF d \in TaskDeeds THEN "assigning" ELSE "emitted"
           nothing == <<>>
           l == Start("project", stage, d, nothing, {})
<1>1. /\ calls' \in 0..MaxCalls /\ failures' = failures
      /\ UNCHANGED <<tables, alone, fresh>>
      /\ IF d \in TaskDeeds THEN UNCHANGED <<registered, spoiled>>
         ELSE registered' = registered \cup {d} /\ spoiled' = Twins(d)
  BY CalledFacts DEF RegisterDeed
<1>2. Begin(r, l)
  <2> DEFINE p == [Idle EXCEPT !.kind = "project", !.service = d, !.stage = stage]
  <2>1. Begin(r, p)
    BY DEF RegisterDeed
  <2> HIDE DEF stage
  <2>2. p = [Idle EXCEPT !.kind = "project", !.service = d, !.stage = stage]
    OBVIOUS
  <2> HIDE DEF p
  <2> QED
    BY <2>1, <2>2, StartOfDeed
<1>3. stage \in {"assigning", "emitted"} /\ nothing = <<>>
  OBVIOUS
<1> HIDE DEF nothing, stage
<1>4. "project" \in Kinds \ {"none"} /\ stage \in Stages \ {"idle"}
      /\ stage \notin Counting /\ stage \notin Working /\ nothing \in RestOfProjection
      /\ d \in References
  BY <1>3 DEF Kinds, Stages, Counting, Working, RestOfProjection, RestOfRefresh, References
<1>5. l = Start("project", stage, d, nothing, {})
  OBVIOUS
<1> HIDE DEF l
<1>6. Good(l) /\ l.kind = "project" /\ l.stage = stage /\ l.todo = nothing /\ l.service = d
  BY <1>3, <1>4, <1>5, StartIsGood
<1>7. Task(l) = "none"
  BY <1>3, <1>6 DEF Task
<1>8. CASE d \in TaskDeeds
  <2>1. stage = "assigning"
    BY <1>8 DEF stage
  <2>2. UNCHANGED <<tables, failures, history>>
    BY <1>1, <1>8 DEF history
  <2> QED
    BY <1>1, <1>2, <1>6, <1>7, <2>1, <2>2, QuietCallOK
<1>9. CASE d \notin TaskDeeds
  <2>1. stage = "emitted"
    BY <1>9 DEF stage
  <2>2. Moved(r) /\ Alike(req'[r], l) /\ req[r].stage = "idle"
    BY <1>2, <1>3, <1>6, BeginMoves DEF JourneyInv
  <2>3. /\ registered' = registered \cup {d} /\ spoiled' = Twins(d)
        /\ logs' = logs /\ checkpoints' = checkpoints
    BY <1>1, <1>9 DEF tables
  <2>4. \A v \in References : ~ Handled(r, v)
    BY <2>2 DEF Handled, JourneyInv, RequestsGood, Good
  <2>5. DeedsKnown'
    BY <1>1, <1>4, <1>6, <2>1, <2>2, <2>3, <2>4, EmittingIsKnown DEF Alike
  <2>6. spoiled \subseteq spoiled' /\ spoiled' \subseteq spoiled \cup {"twins"}
    BY <2>3 DEF Twins
  <2>7. registered' \subseteq References
    BY <1>4, <2>3 DEF JourneyInv, HistoryGood
  <2> QED
    BY <1>1, <1>2, <1>6, <1>7, <2>1, <2>5, <2>6, <2>7, CallOK
<1> QED
  BY <1>8, <1>9

LEMMA RecordOK ==
  ASSUME JourneyInv, NEW r \in Requests, NEW s \in Services,
         NEW kind \in AttendanceKinds, NEW deed \in {"project", "record"},
         Record(r, s, kind, [Idle EXCEPT !.kind = deed])
  PROVE  JourneyInv'
<1> DEFINE nothing == <<>>
           l == Start(deed, "counting", s, nothing, {})
<1>1. /\ calls' \in 0..MaxCalls /\ failures' = failures
      /\ attendance' = [attendance EXCEPT ![s] = kind]
      /\ spoiled' = Outdated(r) /\ fresh' = FALSE
  BY CalledFacts DEF Record
<1>2. /\ journey' = journey /\ logs' = logs /\ milestones' = milestones /\ score' = score
      /\ steps' = steps /\ checkpoints' = checkpoints /\ absences' = absences
      /\ registered' = registered /\ alone' = alone
  BY DEF Record
<1>3. Begin(r, l)
  <2> DEFINE o == [Idle EXCEPT !.kind = deed]
             p == [o EXCEPT !.stage = "counting", !.service = s]
  <2>1. Begin(r, p)
    BY DEF Record
  <2>2. o = [Idle EXCEPT !.kind = deed]
    OBVIOUS
  <2> HIDE DEF o
  <2>3. p = [o EXCEPT !.stage = "counting", !.service = s]
    OBVIOUS
  <2> HIDE DEF p
  <2> QED
    BY <2>1, <2>2, <2>3, StartOfRecord
<1>4. nothing = <<>>
  OBVIOUS
<1> HIDE DEF nothing
<1>5. deed \in Kinds \ {"none"} /\ "counting" \in Stages \ {"idle"}
      /\ "counting" \in Counting /\ "counting" \notin Working
      /\ nothing \in RestOfProjection /\ nothing \in RestOfView
      /\ s \in References
  BY <1>4 DEF Kinds, Stages, Counting, Working, RestOfProjection, RestOfView, RestOfRefresh,
              References
<1>6. l = Start(deed, "counting", s, nothing, {})
  OBVIOUS
<1> HIDE DEF l
<1>7. Good(l) /\ l.stage = "counting" /\ l.todo = nothing
  BY <1>4, <1>5, <1>6, StartIsGood
<1>8. Moved(r) /\ Alike(req'[r], l) /\ req[r].stage = "idle"
  BY <1>3, <1>7, BeginMoves DEF JourneyInv
<1>9. req'[r].stage = "counting" /\ Task(req[r])' = "none"
  BY <1>4, <1>7, <1>8 DEF Alike, Task
<1>10. spoiled \subseteq spoiled' /\ spoiled' \subseteq spoiled \cup {"absences"}
  BY <1>1 DEF Outdated
<1>11. TablesGood' /\ HistoryGood'
  <2>1. TablesGood /\ HistoryGood
    BY DEF JourneyInv
  <2>2. spoiled' \subseteq {"twins", "absences", "journey", "milestone", "opening", "closing"}
    BY <1>10, <2>1 DEF HistoryGood
  <2>3. attendance' \in [Services -> AttendanceKinds]
    BY <1>1, <2>1 DEF TablesGood
  <2> QED
    BY <1>1, <1>2, <2>1, <2>2, <2>3 DEF TablesGood, HistoryGood
<1>12. AbsencesKnown'
  <2>1. ASSUME "absences" \notin spoiled', NEW x \in Requests \ {r}
        PROVE  req'[x].stage \notin {"streaking", "storing"}
    <3>1. req[x].stage \notin {"streaking", "storing"}
      BY <1>1, <2>1 DEF Outdated
    <3> QED
      BY <1>8, <3>1 DEF Moved, Alike
  <2>2. "counting" \in Counting
    BY DEF Counting
  <2> QED
    BY <1>9, <2>1, <2>2 DEF AbsencesKnown
<1>13. DeedsKnown'
  <2>1. \A v \in References : ~ Handled(r, v)' /\ ~ Pending(r, v)
    <3>1. \A v \in References : ~ Handled(r, v)'
      BY <1>9 DEF Handled, Counting
    <3>2. req[r].kind # "project"
      BY <1>8 DEF JourneyInv, RequestsGood, Good
    <3> QED
      BY <3>1, <3>2 DEF Pending, Handled
  <2> QED
    BY <1>1, <1>2, <1>8, <1>10, <2>1, DeedsAside
<1>14. MilestonesKnown'
  BY <1>1, <1>2, <1>8, <1>9, MilestonesAside
<1>15. Sure(req[r])'
  <2>1. req'[r].stage \notin Working
    BY <1>9 DEF Working
  <2> QED
    BY <1>9, <2>1, NothingInHand
<1>16. FreshIsKept'
  BY <1>1 DEF FreshIsKept
<1> QED
  BY <1>8, <1>11, <1>12, <1>13, <1>14, <1>15, <1>16, Assembled

-----------------------------------------------------------------------------
(* The theorems.                                                           *)

LEMMA InitInv == Init => JourneyInv
<1> SUFFICES ASSUME Init PROVE JourneyInv
  OBVIOUS
<1>1. DOMAIN req = Requests /\ \A r \in Requests : req[r] = Idle
  BY DEF Init
<1>2. \A r \in Requests : /\ Good(req[r]) /\ req[r].stage = "idle" /\ req[r].kind = "none"
                          /\ ~ Busy(r)
  BY <1>1, IdleIsGood DEF Busy
<1>3. RequestsGood
  BY <1>1, <1>2 DEF RequestsGood
<1>4. TablesGood
  <2>1. <<>> \in Seq({"OPEN", "DONE", "DISMISSED"}) /\ <<>> \in Seq(References \cup {NoService})
    OBVIOUS
  <2>2. "none" \in AttendanceKinds
    BY DEF AttendanceKinds
  <2> QED
    BY <2>1, <2>2 DEF Init, TablesGood
<1>5. HistoryGood
  <2>1. calls \in 0..MaxCalls /\ failures \in 0..MaxFailures
    BY ConstantsAssumption DEF Init
  <2>2. registered = {} /\ spoiled = {} /\ alone = {} /\ fresh = FALSE
    BY DEF Init
  <2> QED
    BY <2>1, <2>2 DEF HistoryGood
<1>6. AbsencesKnown
  <2>1. Absences = Cardinality({}) /\ Streak = Cardinality({})
    BY DEF Init, Absences, Streak
  <2>2. Absences = 0 /\ Streak = 0
    BY <2>1, FS_EmptySet, Zenon
  <2>3. absences = [monthly |-> 0, consecutive |-> 0]
    BY DEF Init
  <2>4. \A r \in Requests : req[r].stage \notin {"streaking", "storing"}
    BY <1>2
  <2> QED
    BY <2>2, <2>3, <2>4 DEF AbsencesKnown
<1>7. DeedsKnown
  <2>1. \A r \in Requests, s \in References : ~ Handled(r, s)
    BY <1>2 DEF Handled
  <2>2. \A s \in References : logs[s] = 0 /\ s \notin registered
    BY DEF Init
  <2>3. DOMAIN checkpoints = {}
    BY DEF Init
  <2> QED
    BY <2>1, <2>2, <2>3 DEF DeedsKnown
<1>8. MilestonesKnown
  <2>1. \A r \in Requests, m \in Milestones : ~ Announcing(r, m)
    BY <1>2 DEF Announcing
  <2>2. \A m \in Milestones : logs[m] = 0 /\ m \notin milestones
    BY DEF Init
  <2> QED
    BY <2>1, <2>2 DEF MilestonesKnown
<1>9. LoneOnesSure
  BY <1>2 DEF LoneOnesSure
<1>10. FreshIsKept
  BY DEF Init, FreshIsKept
<1> QED
  BY <1>3, <1>4, <1>5, <1>6, <1>7, <1>8, <1>9, <1>10 DEF JourneyInv

\* What a request does by itself keeps the invariant.
LEMMA WorkOK ==
  ASSUME JourneyInv, NEW r \in Requests, Work(r)
  PROVE  JourneyInv'
<1>1. CASE CountAbsences(r) \/ CountStreak(r) \/ StoreAbsences(r) \/ FindAssignee(r)
  BY <1>1, CountAbsencesOK, CountStreakOK, StoreAbsencesOK, FindAssigneeOK
<1>2. CASE CheckLastEvent(r) \/ EnsureJourney(r) \/ CreateJourney(r) \/ LookUpLog(r) \/ CreateLog(r)
  BY <1>2, CheckLastEventOK, EnsureJourneyOK, CreateJourneyOK, LookUpLogOK, CreateLogOK
<1>3. CASE CountTotals(r) \/ StoreTotals(r) \/ EvaluateMilestones(r) \/ LookUpMilestone(r)
  BY <1>3, CountTotalsOK, StoreTotalsOK, EvaluateMilestonesOK, LookUpMilestoneOK
<1>4. CASE AwardMilestone(r) \/ AnnounceMilestone(r) \/ ComputeIndicators(r) \/ StoreIndicators(r)
  BY <1>4, AwardMilestoneOK, AnnounceMilestoneOK, ComputeIndicatorsOK, StoreIndicatorsOK
<1>5. CASE ReadIndicators(r) \/ ReadOpenSteps(r) \/ CloseStep(r) \/ OpenStep(r) \/ StepsRebuilt(r)
  BY <1>5, ReadIndicatorsOK, ReadOpenStepsOK, CloseStepOK, OpenStepOK, StepsRebuiltOK
<1>6. CASE Finish(r) \/ FindCheckpoint(r) \/ WriteCheckpoint(r) \/ CommitDismissal(r)
  BY <1>6, FinishOK, FindCheckpointOK, WriteCheckpointOK, CommitDismissalOK
<1> QED
  BY <1>1, <1>2, <1>3, <1>4, <1>5, <1>6 DEF Work

LEMMA CallsOK ==
  ASSUME JourneyInv, NEW r \in Requests
  PROVE  /\ Reconcile(r) => JourneyInv'
         /\ RebuildAll(r) => JourneyInv'
         /\ RebuildOne(r) => JourneyInv'
         /\ \A s \in Services, kind \in AttendanceKinds :
               CheckIn(r, s, kind) \/ CorrectAttendance(r, s, kind) => JourneyInv'
<1>1. ASSUME Reconcile(r) PROVE JourneyInv'
  <2>1. calls' = calls /\ failures' = failures
    BY <1>1 DEF Reconcile, bounds
  <2>2. calls' \in 0..MaxCalls /\ UNCHANGED <<tables, failures, history>>
    BY <1>1, <2>1 DEF Reconcile, JourneyInv, HistoryGood
  <2>3. BeginRebuild(r, "reconcile")
    BY <1>1 DEF Reconcile
  <2> QED
    BY <2>2, <2>3, BeginRebuildOK
<1>2. ASSUME RebuildAll(r) PROVE JourneyInv'
  <2>1. calls' \in 0..MaxCalls /\ UNCHANGED <<tables, failures, history>>
    BY <1>2, CalledFacts DEF RebuildAll
  <2>2. BeginRebuild(r, "reconcile")
    BY <1>2 DEF RebuildAll
  <2> QED
    BY <2>1, <2>2, BeginRebuildOK
<1>3. ASSUME RebuildOne(r) PROVE JourneyInv'
  <2>1. calls' \in 0..MaxCalls /\ UNCHANGED <<tables, failures, history>>
    BY <1>3, CalledFacts DEF RebuildOne
  <2>2. BeginRebuild(r, "rebuild")
    BY <1>3 DEF RebuildOne
  <2> QED
    BY <2>1, <2>2, BeginRebuildOK
<1>4. ASSUME NEW s \in Services, NEW kind \in AttendanceKinds, CheckIn(r, s, kind)
      PROVE  JourneyInv'
  <2> DEFINE deed == IF kind = "neither" THEN "record" ELSE "project"
  <2>1. deed \in {"project", "record"} /\ Record(r, s, kind, [Idle EXCEPT !.kind = deed])
    BY <1>4 DEF CheckIn
  <2> HIDE DEF deed
  <2> QED
    BY <2>1, RecordOK
<1>5. ASSUME NEW s \in Services, NEW kind \in AttendanceKinds, CorrectAttendance(r, s, kind)
      PROVE  JourneyInv'
  <2>1. PICK deed \in {"project", "record"} : deed = "record"
    OBVIOUS
  <2>2. Record(r, s, kind, [Idle EXCEPT !.kind = deed])
    BY <1>5, <2>1 DEF CorrectAttendance
  <2> QED
    BY <2>2, RecordOK
<1> QED
  BY <1>1, <1>2, <1>3, <1>4, <1>5

LEMMA NextInv ==
  ASSUME JourneyInv, [Next]_vars
  PROVE  JourneyInv'
<1>1. CASE UNCHANGED vars
  <2>1. /\ attendance' = attendance /\ absences' = absences /\ journey' = journey
        /\ logs' = logs /\ milestones' = milestones /\ score' = score /\ steps' = steps
        /\ checkpoints' = checkpoints /\ req' = req /\ calls' = calls /\ failures' = failures
        /\ registered' = registered /\ spoiled' = spoiled /\ alone' = alone /\ fresh' = fresh
    BY <1>1 DEF vars, tables, bounds, history
  <2>2. RequestsGood' /\ TablesGood' /\ HistoryGood'
    BY <2>1 DEF JourneyInv, RequestsGood, TablesGood, HistoryGood
  <2>3. AbsencesKnown'
    BY <2>1 DEF JourneyInv, AbsencesKnown, Absences, Streak
  <2>4. DeedsKnown'
    BY <2>1 DEF JourneyInv, DeedsKnown, Pending, Handled
  <2>5. MilestonesKnown'
    BY <2>1 DEF JourneyInv, MilestonesKnown, Announcing
  <2>6. /\ Presences' = Presences /\ Constancy' = Constancy
        /\ OpenTypes' = OpenTypes /\ ActiveTypes' = ActiveTypes
        /\ \A t \in StepTypes : RowsWith(t, "OPEN")' = RowsWith(t, "OPEN")
    BY <2>1 DEF Presences, Absences, Constancy, OpenTypes, RowsWith, ActiveTypes
  <2>7. \A r \in Requests : (Busy(r)' <=> Busy(r)) /\ (Sure(req[r]) => Sure(req[r])')
    BY <2>1, <2>6 DEF Sure, StepsAhead, Busy
  <2>8. LoneOnesSure'
    BY <2>1, <2>7 DEF JourneyInv, LoneOnesSure
  <2>9. FreshIsKept'
    BY <2>1, <2>6 DEF JourneyInv, FreshIsKept, RefreshRepairs, Harmless
  <2> QED
    BY <2>2, <2>3, <2>4, <2>5, <2>8, <2>9 DEF JourneyInv
<1>2. ASSUME NEW r \in Requests,
             \/ Work(r)
             \/ Fail(r)
             \/ View(r)
             \/ DismissNextStep(r)
             \/ Reconcile(r)
             \/ RebuildAll(r)
             \/ RebuildOne(r)
             \/ \E d \in Deeds : RegisterDeed(r, d)
             \/ \E s \in Services, kind \in AttendanceKinds \ {"none"} :
                   CheckIn(r, s, kind) \/ CorrectAttendance(r, s, kind)
      PROVE  JourneyInv'
  <2>1. CASE Work(r)
    BY <2>1, WorkOK
  <2>2. CASE Fail(r) \/ View(r) \/ DismissNextStep(r)
    BY <2>2, FailOK, ViewOK, DismissNextStepOK
  <2>3. CASE Reconcile(r) \/ RebuildAll(r) \/ RebuildOne(r)
    BY <2>3, CallsOK
  <2>4. ASSUME NEW d \in Deeds, RegisterDeed(r, d) PROVE JourneyInv'
    BY <2>4, RegisterDeedOK
  <2>5. ASSUME NEW s \in Services, NEW kind \in AttendanceKinds \ {"none"},
               CheckIn(r, s, kind) \/ CorrectAttendance(r, s, kind)
        PROVE  JourneyInv'
    BY <2>5, CallsOK
  <2> QED
    BY <1>2, <2>1, <2>2, <2>3, <2>4, <2>5
<1> QED
  BY <1>1, <1>2 DEF Next

\* The inductive invariant holds from the first state of a servant's journey on,
\* whatever requests, failures and reconciliations come together.
THEOREM JourneyInvariant == Spec => []JourneyInv
<1>1. JourneyInv /\ [Next]_vars => JourneyInv'
  BY NextInv
<1> QED
  BY InitInv, <1>1, PTL DEF Spec

\* Type correctness: no request of the journey modules carries, and no table holds,
\* what it should not; in particular the constancy stays a percentage.
THEOREM TypesAreRight == Spec => []TypeOK
<1>1. JourneyInv => TypeOK
  <2> SUFFICES ASSUME JourneyInv PROVE TypeOK
    OBVIOUS
  <2>1. DOMAIN req = Requests /\ \A r \in Requests : Good(req[r])
    BY DEF JourneyInv, RequestsGood
  <2>2. ASSUME NEW r \in Requests
        PROVE  /\ req[r].kind \in Kinds /\ req[r].stage \in Stages
               /\ req[r].service \in References \cup {NoService}
               /\ req[r].todo \in Seq(Tasks)
               /\ req[r].due \subseteq Milestones
               /\ req[r].milestone \in Milestones \cup {NoMilestone}
               /\ req[r].closing \subseteq StepTypes \X Nat
               /\ req[r].opening \subseteq StepTypes
               /\ req[r].value \in Nat /\ req[r].streak \in Nat /\ req[r].row \in Nat
               /\ req[r].undisturbed \in BOOLEAN
    <3>1. RestFacts(req[r].todo)
      BY <2>1, GoodFields, AllRestFacts
    <3>2. req[r].todo \in Seq(Tasks)
      BY <3>1 DEF RestFacts
    <3> QED
      BY <2>1, <3>2, GoodFields
  <2>3. /\ spoiled \subseteq {"twins", "absences", "journey", "milestone", "opening", "closing"}
        /\ alone \subseteq {"journey", "milestone", "opening", "closing"}
        /\ calls \in 0..MaxCalls /\ failures \in 0..MaxFailures
        /\ registered \subseteq References /\ fresh \in BOOLEAN
    BY DEF JourneyInv, HistoryGood
  <2> QED
    BY <2>1, <2>2, <2>3 DEF JourneyInv, TablesGood, TypeOK
<1> QED
  BY <1>1, JourneyInvariant, PTL

\* registerJourneyEvent projects every event once, and evaluateMilestones announces
\* every milestone once, whatever overlaps and in whatever order the events come.
THEOREM EventsProjectedOnce == Spec => []ProjectedOnce
<1>1. JourneyInv => ProjectedOnce
  <2> SUFFICES ASSUME JourneyInv PROVE ProjectedOnce
    OBVIOUS
  <2>1. ASSUME failures = 0, spoiled \cap {"twins", "journey"} = {},
               NEW s \in References, \A r \in Requests : req[r].service # s
        PROVE  logs[s] = IF s \in registered THEN 1 ELSE 0
    <3>1. CASE s \in registered
      <4>1. \A r \in Requests : ~ Pending(r, s)
        BY <2>1 DEF Pending, Handled
      <4> QED
        BY <2>1, <3>1, <4>1 DEF JourneyInv, DeedsKnown
    <3>2. CASE s \notin registered
      BY <3>2 DEF JourneyInv, DeedsKnown
    <3> QED
      BY <3>1, <3>2
  <2>2. ASSUME NEW m \in Milestones
        PROVE  /\ logs[m] <= 1
               /\ m \in milestones /\ failures = 0 =>
                     logs[m] = 1 \/ \E r \in Requests : req[r].milestone = m
    <3>1. logs[m] \in {0, 1}
      BY DEF JourneyInv, MilestonesKnown
    <3>2. \A r \in Requests : Announcing(r, m) => req[r].milestone = m
      BY DEF Announcing
    <3> QED
      BY <3>1, <3>2 DEF JourneyInv, MilestonesKnown
  <2> QED
    BY <2>1, <2>2 DEF ProjectedOnce
<1> QED
  BY <1>1, JourneyInvariant, PTL

\* A request that nothing overlaps never meets a unique key of the journey tables,
\* but for the one that keeps a type of step from being closed twice.
THEOREM LoneRequestsAreSafe == Spec => []LoneRequestsSucceed
<1>1. JourneyInv => LoneRequestsSucceed
  BY DEF JourneyInv, HistoryGood, LoneRequestsSucceed
<1> QED
  BY <1>1, JourneyInvariant, PTL

\* A refresh that overlapped nothing leaves totals, indicators and open steps that
\* agree with the attendances, and the counters of absences agree with them when
\* nobody is counting.
THEOREM DerivedRowsAgree == Spec => []DerivedAgree
<1>1. JourneyInv => DerivedAgree
  <2> SUFFICES ASSUME JourneyInv PROVE DerivedAgree
    OBVIOUS
  <2>1. RefreshRepairs
    BY DEF JourneyInv, FreshIsKept, RefreshRepairs
  <2>2. AbsencesCounted
    BY DEF JourneyInv, AbsencesKnown, AbsencesCounted
  <2> QED
    BY <2>1, <2>2 DEF DerivedAgree
<1> QED
  BY <1>1, JourneyInvariant, PTL
=============================================================================
