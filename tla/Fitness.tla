------------------------------ MODULE Fitness ------------------------------
(***************************************************************************)
(* Who may serve: the talents of servants (modules/talents) and the shift  *)
(* they are not available for, and what the parts that give servants work  *)
(* ask of them.  Slots, rows of the rota, the generation, tasks and lists  *)
(* each have a query of their own for it, over the tables that Accounts    *)
(* and PastoralCare change.                                                *)
(*                                                                         *)
(* All of them ask about one service here, so availability is a set of     *)
(* servants; whom the rota has already is in ScheduleSlots and Rota.       *)
(***************************************************************************)
EXTENDS PastoralCare

CONSTANTS
    Talents,        \* ids of talents, in the order they are made: bound on them
    Misfits,        \* servants with another aptitude than the function of the slot has
    NoTalent

\* RECRUTA and EM_TREINAMENTO are treated as EM_AVALIACAO is.
Stages == {"EM_AVALIACAO", "APROVADO", "REPROVADO"}
Reviews == {"NOT_REQUIRED", "PENDING_ADMIN_REVIEW", "ADMIN_CONFIRMED_REJECTION", "ADMIN_REVERSED_REJECTION"}
TalentRow == [servant : Servants, stage : Stages, review : Reviews]

ASSUME FitnessAssumption ==
    /\ Talents \subseteq Nat /\ Talents # {} /\ NoTalent \notin Talents \cup TalentRow
    /\ Misfits \subseteq Servants

VARIABLES
    talents,        \* Talent
    latest,         \* the talent of a servant that was written last
    unavailable     \* servants with a ServantAvailability that says no

fitnessVars == <<talents, latest, unavailable>>

-----------------------------------------------------------------------------
(* Talents.                                                                *)

Known(k) == talents[k] # NoTalent
TalentsOf(s) == {k \in Talents : Known(k) /\ talents[k].servant = s}
FreeTalents == {k \in Talents : ~ Known(k)}
Rejection(k) == <<"rejection", k>>

WriteTalent(k, talent) ==
    /\ talents' = [talents EXCEPT ![k] = talent]
    /\ latest' = [latest EXCEPT ![talent.servant] = k]

\* create, at any stage: a talent that is rejected at once awaits no review.
CreateTalent(s, stage) ==
    /\ Present(s) /\ FreeTalents # {}
    /\ WriteTalent(First(FreeTalents), [servant |-> s, stage |-> stage, review |-> "NOT_REQUIRED"])
    /\ CallAtOnce({})
    /\ UNCHANGED <<accountVars, unavailable>>

AtStage(k, stage) == [talents[k] EXCEPT !.stage = stage, !.review = "NOT_REQUIRED"]

\* moveStage, whatever the stage was and whether a review is due.
MoveStage(k, stage) ==
    /\ Known(k) /\ stage \notin {"APROVADO", "REPROVADO"}
    /\ WriteTalent(k, AtStage(k, stage))
    /\ CallAtOnce({Rejection(k)})
    /\ UNCHANGED <<accountVars, unavailable>>

\* moveStage to APROVADO, and approve: the talent first, the servant next.
CallApproveTalent(r, k) ==
    /\ Known(k)
    /\ WriteTalent(k, AtStage(k, "APROVADO"))
    /\ Call(r, [kind |-> "talent", stage |-> "activating",
                touches |-> {talents[k].servant, Rejection(k)}, servant |-> talents[k].servant])
    /\ UNCHANGED <<accountVars, unavailable>>

CommitActive(r) ==
    /\ req[r].stage = "activating"
    /\ servants' = [servants EXCEPT ![req[r].servant].status = "ATIVO"]
    /\ Finish(r)
    /\ UNCHANGED <<users, tokens, resets, teams, coordinators, enforced, unguarded, fitnessVars>>

RejectTalent(k) ==
    /\ Known(k)
    /\ WriteTalent(k, [talents[k] EXCEPT !.stage = "REPROVADO", !.review = "PENDING_ADMIN_REVIEW"])
    /\ CallAtOnce({Rejection(k)})
    /\ UNCHANGED <<accountVars, unavailable>>

CallReviewRejection(r, k, reversed) ==
    /\ Known(k) /\ talents[k].review = "PENDING_ADMIN_REVIEW"
    /\ Call(r, [kind |-> "review", stage |-> "reviewing", touches |-> {Rejection(k)},
                talent |-> k, reversed |-> reversed])
    /\ UNCHANGED <<accountVars, fitnessVars>>

CommitReview(r) ==
    LET k == req[r].talent
    IN  /\ req[r].stage = "reviewing"
        /\ WriteTalent(k, IF req[r].reversed
              THEN [talents[k] EXCEPT !.stage = "EM_AVALIACAO", !.review = "ADMIN_REVERSED_REJECTION"]
              ELSE [talents[k] EXCEPT !.stage = "REPROVADO", !.review = "ADMIN_CONFIRMED_REJECTION"])
        /\ Finish(r)
        /\ UNCHANGED <<accountVars, unavailable>>

\* me.putMyAvailability, in one transaction.
PutAvailability(s) ==
    /\ Present(s) /\ \E u \in AccountsOf(s) : Admitted(u)
    /\ unavailable' = (unavailable \ {s}) \cup ({s} \ unavailable)
    /\ CallAtOnce({})
    /\ UNCHANGED <<accountVars, talents, latest>>

-----------------------------------------------------------------------------
(* What is asked of a servant who is given work in a ministry.             *)

\* buildEligibleCandidatesBySector, validate..., listSlotEligibility: he has the
\* ministry as his main one or among the others.
Belongs(s, m) == Among(s, {m})

\* getServantsWithActivePastoralPendencies, hasActivePastoralPending.
PastoralPending(s) == OpenCases(s) # {} \/ OpenAlerts(s) # {}

Main(s, m) == servants[s].main = m /\ servants[s].summary = "COMPLETED"

\* Seeded fault: the relation is not asked for where the ministry is the main one.
HasCompletedTraining_Main(s, m) == Trained(s, m) \/ Main(s, m)

\* hasCompletedTrainingForMinistry: the relation decides where there is one.
HasCompletedTraining(s, m) ==
    IF m \in Serving(s) THEN Trained(s, m) ELSE Main(s, m)

\* training.rule.ts, and the query of the tasks: either will do.
TrainingRule(s, m) == Trained(s, m) \/ Main(s, m)

ActiveRule(s) == servants[s].status = "ATIVO" /\ servants[s].approved

\* availability.rule.ts and isCandidateAvailableForService: he has
\* not said no for the weekday and the shift of the service.
Available(s) == s \notin unavailable

\* talent.rule.ts: the aptitude that is unknown fits.
Fits(s) == s \notin Misfits

\* listSlotEligibility with the rules of the engine, for a slot that asks for training.
SlotAccepts(s, m) ==
    /\ Belongs(s, m) /\ ActiveRule(s) /\ TrainingRule(s, m)
    /\ ~ PastoralPending(s) /\ Available(s) /\ Fits(s)

\* ensureServantEligibleForSector, for the rows of the rota and their swaps.
RowAccepts(s, m) ==
    /\ Belongs(s, m) /\ ActiveRule(s) /\ HasCompletedTraining(s, m)
    /\ ~ PastoralPending(s) /\ Available(s)
    /\ latest[s] # NoTalent => talents[latest[s]].stage # "REPROVADO"

\* buildEligibleCandidatesBySector with isCandidateAvailableForService, where no
\* team is asked for.
Draws(s, m) ==
    /\ Belongs(s, m) /\ ActiveRule(s) /\ HasCompletedTraining(s, m)
    /\ ~ PastoralPending(s) /\ Available(s)
    /\ \A k \in TalentsOf(s) : talents[k].stage # "REPROVADO"

\* assertServantEligible of the tasks: nobody asks for the approval.
TaskAccepts(s, m) ==
    /\ Belongs(s, m) /\ servants[s].status = "ATIVO" /\ TrainingRule(s, m)
    /\ ~ PastoralPending(s)

\* listActiveServantsBySector.
Lists(s, m) ==
    /\ servants[s].status = "ATIVO" /\ Belongs(s, m)
    /\ Trained(s, m) \/ (m \notin Serving(s) /\ Main(s, m))

-----------------------------------------------------------------------------
FitnessTypeOK ==
    /\ talents \in [Talents -> {NoTalent} \cup TalentRow]
    /\ latest \in [Servants -> Talents \cup {NoTalent}]
    /\ \A s \in Servants : latest[s] \in TalentsOf(s) \cup {NoTalent}
    /\ unavailable \subseteq Servants

\* The first servant may have a talent that awaits its review.
FitnessInit(rejected) ==
    /\ talents = [k \in Talents |->
          IF rejected /\ k = First(Talents)
          THEN [servant |-> FirstServant, stage |-> "REPROVADO", review |-> "PENDING_ADMIN_REVIEW"]
          ELSE NoTalent]
    /\ latest = [s \in Servants |->
          IF rejected /\ s = FirstServant THEN First(Talents) ELSE NoTalent]
    /\ unavailable = {}

FitnessCall(r) ==
    \/ \E k \in Talents : CallApproveTalent(r, k)
    \/ \E k \in Talents, reversed \in BOOLEAN : CallReviewRejection(r, k, reversed)

FitnessAtOnce ==
    \/ \E s \in Servants, stage \in Stages : CreateTalent(s, stage)
    \/ \E k \in Talents : MoveStage(k, "EM_AVALIACAO") \/ RejectTalent(k)
    \/ \E s \in Servants : PutAvailability(s)

FitnessStep(r) == CommitActive(r) \/ CommitReview(r)

-----------------------------------------------------------------------------
(* Properties                                                              *)

\* A chain in one direction: whoever the generation draws would be accepted in a
\* row, and whoever is accepted in a row is listed, and accepted for a task and,
\* where his aptitude fits, in a slot; not the other way round.  Who is accepted in a row has completed the training of the
\* ministry itself, not only that of his others, unless the members of the ministry
\* were replaced and he is not among them any more.
PathsAgree ==
    \A s \in Servants, m \in Ministries : Present(s) =>
       /\ Draws(s, m) => RowAccepts(s, m)
       /\ RowAccepts(s, m) =>
             /\ Lists(s, m) /\ TaskAccepts(s, m)
             /\ Fits(s) => SlotAccepts(s, m)
             /\ Trained(s, m) \/ m \in unguarded

\* A slot that asks for training accepts nobody whose training in its ministry is
\* pending (schedules.service.spec.ts, "blocks assign when ministry training is
\* pending").
TrainedForSlot ==
    \A s \in Servants, m \in Ministries :
       Present(s) /\ m \in Serving(s) /\ SlotAccepts(s, m) => Trained(s, m)
=============================================================================
