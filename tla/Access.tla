------------------------------- MODULE Access -------------------------------
(***************************************************************************)
(* What an account may see (common/auth/access-scope.ts).  Every query is  *)
(* filtered twice: by the role of the account and by the scope it was      *)
(* given, where the roles of servants and coordinators overrule the scope  *)
(* that is stored.  The filters read tables that other services change, so *)
(* what one account sees depends on what was done to many.                 *)
(*                                                                         *)
(* The strategy of the tokens (auth/strategies/jwt.strategy.ts) reads role *)
(* and servant from the database for every request, so no answer is        *)
(* computed from an old role.  Churches are left out.                      *)
(***************************************************************************)
EXTENDS Accounts

\* resolveCoordinatorSectorIds: the ministries he coordinates and those he is
\* bound to, whatever scope the bindings were made with.
RoleMinistries(u) ==
    IF users[u].role = "COORDENADOR"
    THEN {m \in Ministries : coordinators[m] = u} \cup users[u].grant.ministries ELSE {}

\* loadActorScopeContext.
ScopeOf(u) ==
    CASE users[u].role = "SERVO" -> "SELF"
      [] users[u].role = "COORDENADOR" -> "MINISTRY"
      [] users[u].role = "ADMIN" -> users[u].grant.scope
ScopeMinistries(u) == users[u].grant.ministries \cup RoleMinistries(u)

\* A servant counts among a ministry's by its relation or as his main one.
Among(s, ms) == servants[s].main \in ms \/ Serving(s) \cap ms # {}

RoleSeesServant(u, s) ==
    \/ users[u].role = "ADMIN"
    \/ users[u].role = "SERVO" /\ users[u].servant = s
    \/ users[u].role = "COORDENADOR" /\ Among(s, RoleMinistries(u))

ScopeSeesServant(u, s) ==
    LET scope == ScopeOf(u)
    IN  \/ scope = "GLOBAL"
        \/ scope = "SELF" /\ users[u].servant = s
        \/ scope = "MINISTRY" /\ Among(s, ScopeMinistries(u))
        \/ scope = "EQUIPE" /\ servants[s].team \in users[u].grant.teams

\* Attendances and cases are filtered by their servant, as he is himself.
SeesServant(u, s) == RoleSeesServant(u, s) /\ ScopeSeesServant(u, s)

\* The row of servant s for ministry m goes by its own ministry.
RoleSeesRow(u, s, m) ==
    \/ users[u].role = "ADMIN"
    \/ users[u].role = "SERVO" /\ users[u].servant = s
    \/ users[u].role = "COORDENADOR" /\ m \in RoleMinistries(u)

ScopeSeesRow(u, s, m) ==
    LET scope == ScopeOf(u)
    IN  \/ scope = "GLOBAL"
        \/ scope = "SELF" /\ users[u].servant = s
        \/ scope = "MINISTRY" /\ m \in ScopeMinistries(u)
        \/ scope = "EQUIPE" /\ servants[s].team \in users[u].grant.teams

SeesRow(u, s, m) == RoleSeesRow(u, s, m) /\ ScopeSeesRow(u, s, m)

RoleSeesMinistry(u, m) == users[u].role = "ADMIN" \/ m \in RoleMinistries(u)
ScopeSeesMinistry(u, m) ==
    \/ ScopeOf(u) = "GLOBAL"
    \/ ScopeOf(u) \in {"MINISTRY", "EQUIPE"} /\ m \in ScopeMinistries(u)
SeesMinistry(u, m) == RoleSeesMinistry(u, m) /\ ScopeSeesMinistry(u, m)

\* A team goes by its ministry or, for a scope of teams, by itself.
ScopeSeesTeam(u, t) ==
    LET scope == ScopeOf(u)
    IN  \/ scope = "GLOBAL"
        \/ scope = "MINISTRY" /\ MinistryOf[t] \in ScopeMinistries(u)
        \/ scope = "EQUIPE" /\ t \in users[u].grant.teams
SeesTeam(u, t) == RoleSeesMinistry(u, MinistryOf[t]) /\ ScopeSeesTeam(u, t)

\* Accounts are filtered by the scope alone.
SeesUser(u, v) ==
    \/ ScopeOf(u) = "GLOBAL" \/ v = u
    \/ ScopeOf(u) # "SELF" /\ users[v].servant # Nobody /\ ScopeSeesServant(u, users[v].servant)

-----------------------------------------------------------------------------
(* Properties                                                              *)

\* A SERVO account is linked to a servant, whoever creates, links, removes,
\* repairs or changes it, but one that was an orphan at first; two requests that
\* change it at the same time unlink it only where the database has no check.
\* And it sees no account but its own, whatever scope it was given, or had as a
\* coordinator.
AccountsHold ==
    \A u \in Users : Exists(u) =>
       /\ Orphan(u) => ~ enforced /\ u \in raced \cup unguarded
       /\ users[u].role = "SERVO" => \A v \in Users : Exists(v) /\ SeesUser(u, v) => v = u

\* Whoever sees a team sees its members, and who sees the row of a servant in one
\* of his ministries sees the servant; a leader leads one active team.  Not if
\* the members of the ministry were replaced, or a team was made active again.
TeamsHold ==
    /\ \A u \in Users, s \in Servants : Exists(u) /\ Present(s) =>
          /\ \A t \in Teams :
                s \notin raced /\ servants[s].team = t /\ SeesTeam(u, t) =>
                   MinistryOf[t] \in unguarded \/ SeesServant(u, s)
          /\ \A m \in Serving(s) : SeesRow(u, s, m) => SeesServant(u, s)
    /\ \A u \in Users \ (raced \cup unguarded) :
          Cardinality({t \in Teams : teams[t].status = "ACTIVE" /\ teams[t].leader = u}) <= 1
=============================================================================
