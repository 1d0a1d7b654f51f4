------------------------------- MODULE People -------------------------------
(***************************************************************************)
(* Accounts, servants, teams, the care for servants, who may serve and the *)
(* timeline, beside each other in one database: the composition that is    *)
(* checked.                                                                *)
(***************************************************************************)
EXTENDS Fitness, Timeline

vars == <<accountVars, careVars, fitnessVars, timelineVars, handlers>>

\* The tables and the requests have their types, and a servant has one account at
\* most, whoever links, makes or repairs accounts at the same time.
TypeOK ==
    /\ HandlersTypeOK /\ AccountsTypeOK /\ CareTypeOK /\ FitnessTypeOK
    /\ TimelineTypeOK

\* Stages of a request that has written something already.
HalfDone == {"opening", "repairing", "surveying", "seekingCase", "following", "clearing", "settling",
             "activating"}

\* What one part does leaves the tables of the others alone.
AccountsMove == UNCHANGED <<careVars, fitnessVars, timelineVars>>
CareMoves == UNCHANGED <<accountVars, fitnessVars, timelineVars>>
FitnessMoves == UNCHANGED <<careVars, timelineVars>>
TimelineMoves == UNCHANGED <<accountVars, careVars, fitnessVars>>

Next ==
    \/ \E r \in Requests :
          \/ /\ calls < MaxCalls /\ ~ Busy(r)
             /\ \/ AccountCall(r) /\ AccountsMove
                \/ CareCall(r) /\ CareMoves
                \/ FitnessCall(r) /\ FitnessMoves
                \/ TimelineCall(r) /\ TimelineMoves
          \/ /\ Busy(r)
             /\ \/ AccountStep(r) /\ AccountsMove
                \/ CareStep(r) /\ CareMoves
                \/ FitnessStep(r) /\ FitnessMoves
                \/ TimelineStep(r) /\ TimelineMoves
                \/ Break(r, HalfDone) /\ UNCHANGED <<accountVars, careVars, fitnessVars, timelineVars>>
    \/ (AccountAtOnce \/ ApplyMigration) /\ AccountsMove
    \/ CareAtOnce /\ CareMoves
    \/ FitnessAtOnce /\ FitnessMoves

\* An alert, a case, a rejection or an entry may stand where the accounts are as they are first.
Init ==
    /\ HandlersInit
    /\ \E others \in BOOLEAN, stray \in BOOLEAN, status \in {"ACTIVE", "INACTIVE"},
          alert \in BOOLEAN, case \in CaseStatuses \cup {"none"},
          known \in {{}} \cup {{n} : n \in News}, rejected \in BOOLEAN :
          /\ stray => others
          /\ others => status = "ACTIVE"
          /\ alert \/ case # "none" => ~ others /\ status = "ACTIVE"
          /\ known # {} => ~ others /\ status = "ACTIVE" /\ ~ alert /\ case = "none"
          /\ rejected => ~ others /\ status = "ACTIVE" /\ ~ alert /\ case = "none" /\ known = {}
          /\ AccountsInit(others, stray, status)
          /\ CareInit(alert, case)
          /\ FitnessInit(rejected)
          /\ TimelineInit(known)

Spec == Init /\ [][Next]_vars

-----------------------------------------------------------------------------
(* Properties                                                              *)

\* A training that is completed stays so while the servant stays in the ministry,
\* unless two requests changed the servant at the same time, or the ministry was
\* given its members anew.
TrainingStands ==
    [][\A s \in Servants, m \in Ministries :
          Trained(s, m) => \/ Trained(s, m)'
                           \/ m \notin Serving(s)'
                           \/ s \in raced' \/ m \in unguarded']_vars

\* A servant who was taken out of service is active again only by a request that
\* says so, or approves a talent of his, not for a training he completed.  And a
\* review decides about a rejection, not about a talent that was moved on.  Unless
\* the servant, or the talent, was changed by two requests at the same time.
DecisionsStand ==
    [][/\ \A s \in Servants :
             Present(s) /\ servants[s].status = "INATIVO" /\ servants'[s].status = "ATIVO" =>
                \/ s \in raced
                \/ \E r \in Requests :
                      /\ req[r].stage \in {"activating", "updatingProfile"}
                      /\ req[r].servant = s /\ (req[r].kind = "profile" => ~ req[r].promotes)
       /\ \A k \in Talents :
             Known(k) /\ talents[k].review = "NOT_REQUIRED" =>
                \/ talents'[k].review \in {"NOT_REQUIRED", "PENDING_ADMIN_REVIEW"}
                \/ Rejection(k) \in raced]_vars
=============================================================================
