------------------------------ MODULE Accounts ------------------------------
(***************************************************************************)
(* Who may use the system and as whom: accounts (modules/users), their     *)
(* sessions (modules/auth), the servants they belong to with ministries    *)
(* and training (modules/servants, modules/ministries), teams              *)
(* (modules/teams), and the script that repairs the links of accounts      *)
(* (scripts/servant-user-integrity.ts).                                    *)
(*                                                                         *)
(* The link of an account and a servant, the ministries of a servant and   *)
(* his team, a leader and his teams are each written by several services,  *)
(* and each decides by what it read before.  The database guards the       *)
(* unique key of User.servantId and, once a migration has been applied,    *)
(* that a SERVO has a servant; `prisma db push' leaves the check out, and *)
(* the migration fails while a SERVO has none.  Names, e-mail addresses,   *)
(* churches and who asks are left out, and with them the refusals they     *)
(* cause: what an account may see is in Access.  "ADMIN" stands for the    *)
(* three roles that see everything their scope lets them.                  *)
(***************************************************************************)
EXTENDS Handlers

CONSTANTS
    Users,          \* ids of accounts: bound on them
    Servants, Ministries, Teams,
    MinistryOf,     \* the ministry a team belongs to
    LooksLike,      \* the servant whose name and phone an account has, or Nobody
    Tokens,         \* ids of refresh tokens, in the order they are made
    Given,          \* the scopes that are given to accounts: bound on them
    FirstServo, FirstLeader, FirstServant, FirstTeam,   \* who and what there is at first
    Nobody, NoUser, NoServant, NoTeam, NoToken

Roles == {"ADMIN", "COORDENADOR", "SERVO"}
Scopes == {"GLOBAL", "MINISTRY", "EQUIPE", "SELF"}
Statuses == {"ACTIVE", "INACTIVE"}

\* Of a servant.  RECICLAGEM is treated as RECRUTAMENTO is, AFASTADO as INATIVO.
ServantStatuses == {"RECRUTAMENTO", "ATIVO", "INATIVO"}
Trainings == {"PENDING", "COMPLETED"}

\* Scopes with bindings, as validateScopeBindingsInput lets them pass.
Unbound(scope) == [scope |-> scope, ministries |-> {}, teams |-> {}]
ValidBinding(scope, ms, ts) ==
    /\ ms # {} => \A t \in ts : MinistryOf[t] \in ms
    /\ scope = "MINISTRY" => ms # {}
    /\ scope = "EQUIPE" => ms # {} \/ ts # {}
    /\ scope = "SELF" => ms = {} /\ ts = {}
Grants ==
    {g \in [scope : {"GLOBAL", "MINISTRY", "EQUIPE", "SELF"},
            ministries : SUBSET Ministries, teams : SUBSET Teams] :
        ValidBinding(g.scope, g.ministries, g.teams)}

\* replaceUserScopeBindings: a scope that needs no bindings keeps none.
Bound(grant) == IF grant.scope \in {"GLOBAL", "SELF"} THEN Unbound(grant.scope) ELSE grant

\* Rows of the tables.
UserRow ==
    [role : Roles, servant : Servants \cup {Nobody}, status : Statuses,
     grant : [scope : Scopes, ministries : SUBSET Ministries, teams : SUBSET Teams],
     gone : BOOLEAN, password : Nat, period : Nat]
TokenRow == [user : Users, password : Nat, period : Nat, live : BOOLEAN, session : Tokens]
ServantRow ==
    [main : Ministries, training : UNION {[ms -> Trainings] : ms \in SUBSET Ministries},
     summary : Trainings, team : Teams \cup {NoTeam}, status : ServantStatuses,
     approved : BOOLEAN]
TeamRow == [status : Statuses, leader : Users \cup {Nobody}]

ASSUME AccountsAssumption ==
    /\ MinistryOf \in [Teams -> Ministries]
    /\ LooksLike \in [Users -> Servants \cup {Nobody}]
    /\ Nobody \notin Users \cup Servants /\ NoTeam \notin Teams
    /\ NoUser \notin UserRow /\ NoToken \notin TokenRow /\ NoServant \notin ServantRow
    /\ Tokens \subseteq Nat \ {0} /\ Given \subseteq Grants
    /\ {FirstServo, FirstLeader} \subseteq Users /\ FirstServo # FirstLeader
    /\ FirstServant \in Servants /\ FirstTeam \in Teams

VARIABLES
    users,          \* User with its scope; password and period tell one hash
                    \* and one time of being active from the next
    tokens,         \* RefreshToken
    resets,         \* accounts with a PasswordResetToken that can be used
    servants,       \* Servant with its ServantMinistry relations; summary is its
                    \* own trainingStatus, training that of the relations
    teams,          \* Team
    coordinators,   \* Ministry.coordinatorUserId
    enforced,       \* has the database the check that a SERVO has a servant?
    unguarded       \* history: what was broken at first, or changed by an
                    \* operation that does not look at what hangs on it

accountTables == <<users, tokens, resets, servants, teams, coordinators, enforced>>
accountVars == <<accountTables, unguarded>>

-----------------------------------------------------------------------------
(* Accounts and the servants they are linked to.                           *)

Account(role, s, status, grant) ==
    [role |-> role, servant |-> s, status |-> status, grant |-> grant,
     gone |-> FALSE, password |-> 0, period |-> 0]

Exists(u) == users[u] # NoUser
Present(s) == servants[s] # NoServant
Unused == {u \in Users : ~ Exists(u)}
AccountsOf(s) == {u \in Users : Exists(u) /\ users[u].servant = s}
Orphan(u) == Exists(u) /\ users[u].role = "SERVO" /\ users[u].servant = Nobody

\* Seeded fault: servantId has no unique key.
Clash_Never(u, s) == FALSE

\* The unique key of servantId.
Clash(u, s) == s # Nobody /\ ~ AccountsOf(s) \subseteq {u}

\* The check User_servo_requires_servant_ck.
Checked(role, s) == enforced => role # "SERVO" \/ s # Nobody

\* The migration that adds it.
ApplyMigration ==
    /\ ~ enforced /\ \A u \in Users : ~ Orphan(u)
    /\ enforced' = TRUE
    /\ UNCHANGED <<users, tokens, resets, servants, teams, coordinators, unguarded, handlers>>

AddUser(account) ==
    LET u == CHOOSE u \in Users : ~ Exists(u)
    IN  users' = [users EXCEPT ![u] = account]

\* users.create, and createUserAccess with role SERVO: the servant is free when
\* asked about; the key refuses him later.
CallCreateUser(r, role, s, grant) ==
    /\ Unused # {}
    /\ role = "SERVO" => s # Nobody /\ grant = Unbound("SELF")
    /\ s # Nobody => Present(s) /\ AccountsOf(s) = {}
    /\ Call(r, [kind |-> "createUser", stage |-> "creatingUser", touches |-> {s} \ {Nobody},
                account |-> Account(role, s, "ACTIVE", Bound(grant))])
    /\ UNCHANGED accountVars

\* The status came with the call and matters from here on.
CommitCreateUser(r, status) ==
    /\ req[r].stage = "creatingUser" /\ Unused # {}
    /\ IF Clash(Nobody, req[r].account.servant)
       THEN UNCHANGED users ELSE AddUser([req[r].account EXCEPT !.status = status])
    /\ Finish(r)
    /\ UNCHANGED <<tokens, resets, servants, teams, unguarded, coordinators, enforced>>

\* Seeded fault: unlinking asks for no role.
CallSetServantLink_AnyRole(r, u, s) ==
    /\ Exists(u) /\ (s # Nobody => Present(s) /\ AccountsOf(s) \subseteq {u})
    /\ Call(r, [kind |-> "link", stage |-> "linking", touches |-> {u, s} \ {Nobody},
                user |-> u, servant |-> s])
    /\ UNCHANGED accountVars

\* setServantLink: a SERVO is not unlinked, a servant not taken from another.
CallSetServantLink(r, u, s) ==
    /\ Exists(u)
    /\ IF s = Nobody THEN users[u].role # "SERVO"
                     ELSE Present(s) /\ AccountsOf(s) \subseteq {u}
    /\ Call(r, [kind |-> "link", stage |-> "linking", touches |-> {u, s} \ {Nobody},
                user |-> u, servant |-> s])
    /\ UNCHANGED accountVars

\* servants.linkUser, which takes no account from another servant either.
CallLinkUser(r, u, s) ==
    /\ Exists(u) /\ Present(s)
    /\ users[u].servant \in {Nobody, s} /\ AccountsOf(s) \subseteq {u}
    /\ Call(r, [kind |-> "link", stage |-> "linking", touches |-> {u, s},
                user |-> u, servant |-> s])
    /\ UNCHANGED accountVars

CommitLink(r) ==
    /\ req[r].stage = "linking"
    /\ users' = IF \/ Clash(req[r].user, req[r].servant)
                   \/ ~ Checked(users[req[r].user].role, req[r].servant)
                THEN users
                ELSE [users EXCEPT ![req[r].user].servant = req[r].servant]
    /\ Finish(r)
    /\ UNCHANGED <<tokens, resets, servants, teams, unguarded, coordinators, enforced>>

\* updateRole.  The ministries a coordinator was bound to stay on a SERVO.
CallUpdateRole(r, u, role) ==
    /\ Exists(u) /\ users[u].role # role
    /\ role = "SERVO" => users[u].servant # Nobody
    /\ Call(r, [kind |-> "role", stage |-> "settingRole", touches |-> {u},
                user |-> u, role |-> role])
    /\ UNCHANGED accountVars

CommitRole(r) ==
    /\ req[r].stage = "settingRole"
    /\ users' = IF Checked(req[r].role, users[req[r].user].servant)
                THEN [users EXCEPT ![req[r].user].role = req[r].role,
                                   ![req[r].user].grant.scope = IF req[r].role = "SERVO" THEN "SELF" ELSE @]
                ELSE users
    /\ Finish(r)
    /\ UNCHANGED <<tokens, resets, servants, teams, unguarded, coordinators, enforced>>

\* updateScope, in one transaction, whatever the role: bindings are dropped and,
\* for a scope that has them, made anew.
UpdateScope(u, grant) ==
    /\ Exists(u)
    /\ users' = [users EXCEPT ![u].grant = Bound(grant)]
    /\ CallAtOnce({u})
    /\ UNCHANGED <<tokens, resets, servants, teams, unguarded, coordinators, enforced>>

-----------------------------------------------------------------------------
(* Sessions.                                                               *)

Live(t) == tokens[t] # NoToken /\ tokens[t].live
Revoked(ids) ==
    [t \in Tokens |-> IF t \in ids THEN [tokens[t] EXCEPT !.live = FALSE] ELSE tokens[t]]
TokensOf(u) == {t \in Tokens : tokens[t] # NoToken /\ tokens[t].user = u}
NextToken == CHOOSE t \in Tokens : tokens[t] = NoToken /\ \A v \in Tokens : v < t => tokens[v] # NoToken

\* Who may open a session, or carry one on.
Admitted(u) == Exists(u) /\ users[u].status = "ACTIVE" /\ ~ Orphan(u)

\* A token remembers the hash and the period its session was opened in, and the
\* first token of the session, which a login does not have yet.
Session(u) ==
    [user |-> u, password |-> users[u].password, period |-> users[u].period,
     live |-> TRUE, session |-> 0]

CallLogin(r, u) ==
    /\ Admitted(u)
    /\ \E t \in Tokens : tokens[t] = NoToken
    /\ Call(r, [kind |-> "login", stage |-> "opening", touches |-> {u},
                token |-> Session(u)])
    /\ UNCHANGED accountVars

\* refresh takes the token it is given out of use, and only then makes the next.
CallRefresh(r, t) ==
    /\ Live(t) /\ Admitted(tokens[t].user)
    /\ Call(r, [kind |-> "refresh", stage |-> "rotating", touches |-> {tokens[t].user},
                old |-> t, token |-> tokens[t]])
    /\ UNCHANGED accountVars

Rotate(r) ==
    /\ req[r].stage = "rotating"
    /\ tokens' = Revoked({req[r].old})
    /\ Step(r, [req[r] EXCEPT !.stage = "opening"])
    /\ UNCHANGED <<users, resets, servants, teams, unguarded, coordinators, enforced>>

OpenSession(r) ==
    /\ req[r].stage = "opening"
    /\ \E t \in Tokens : tokens[t] = NoToken
    /\ tokens' = [tokens EXCEPT ![NextToken] =
                     [req[r].token EXCEPT !.session = IF @ = 0 THEN NextToken ELSE @]]
    /\ Finish(r)
    /\ UNCHANGED <<users, resets, servants, teams, unguarded, coordinators, enforced>>

Logout(t) ==
    /\ Live(t)
    /\ tokens' = Revoked({t})
    /\ CallAtOnce({tokens[t].user})
    /\ UNCHANGED <<users, resets, servants, teams, unguarded, coordinators, enforced>>

\* A transaction of every way to a new password.
NewPassword(u) ==
    /\ users' = [users EXCEPT ![u].password = @ + 1]
    /\ tokens' = Revoked(TokensOf(u))

\* changePassword, of auth and of me, compares the password it is given with the
\* hash it has read.
CallChangePassword(r, u) ==
    /\ Exists(u) /\ users[u].status = "ACTIVE"
    /\ Call(r, [kind |-> "password", stage |-> "hashing", touches |-> {u},
                user |-> u, used |-> FALSE])
    /\ UNCHANGED accountVars

\* An account has one such token at a time here (a bound).
ForgotPassword(u) ==
    /\ Exists(u) /\ u \notin resets
    /\ resets' = resets \cup {u}
    /\ CallAtOnce({})
    /\ UNCHANGED <<users, tokens, servants, teams, unguarded, coordinators, enforced>>

\* resetPassword with the token of ForgotPassword: the account may be inactive.
CallResetPassword(r, u) ==
    /\ u \in resets
    /\ Call(r, [kind |-> "password", stage |-> "hashing", touches |-> {u},
                user |-> u, used |-> TRUE])
    /\ UNCHANGED accountVars

CommitPassword(r) ==
    /\ req[r].stage = "hashing"
    /\ NewPassword(req[r].user)
    /\ resets' = IF req[r].used THEN resets \ {req[r].user} ELSE resets
    /\ Finish(r)
    /\ UNCHANGED <<servants, teams, unguarded, coordinators, enforced>>

\* Seeded fault: the sessions of the account go on.
AdminResetPassword_KeepsSessions(u) ==
    /\ Exists(u)
    /\ users' = [users EXCEPT ![u].password = @ + 1]
    /\ CallAtOnce({u})
    /\ UNCHANGED <<tokens, resets, servants, teams, unguarded, coordinators, enforced>>

\* users.resetPassword, by an administrator.
AdminResetPassword(u) ==
    /\ Exists(u)
    /\ NewPassword(u)
    /\ CallAtOnce({u})
    /\ UNCHANGED <<resets, servants, teams, unguarded, coordinators, enforced>>

-----------------------------------------------------------------------------
(* The status of an account.                                               *)

\* An active account that stops being active has had its time.
Standing(u, status) ==
    [users[u] EXCEPT !.status = status,
                     !.period = IF users[u].status = "ACTIVE" /\ status = "INACTIVE"
                                THEN @ + 1 ELSE @]

\* users.updateStatus: sessions end only if the account was not inactive when it
\* was read.  A removed account can be activated like any other.
CallUpdateStatus(r, u, status) ==
    /\ Exists(u)
    /\ Call(r, [kind |-> "status", stage |-> "settingStatus", touches |-> {u}, user |-> u,
                status |-> status,
                ends |-> status = "INACTIVE" /\ users[u].status # "INACTIVE"])
    /\ UNCHANGED accountVars

CommitStatus(r) ==
    /\ req[r].stage = "settingStatus"
    /\ users' = [users EXCEPT ![req[r].user] = Standing(req[r].user, req[r].status)]
    /\ tokens' = IF req[r].ends THEN Revoked(TokensOf(req[r].user)) ELSE tokens
    /\ Finish(r)
    /\ UNCHANGED <<resets, servants, teams, unguarded, coordinators, enforced>>

\* users.remove: not of a SERVO who is linked.
CallRemove(r, u) ==
    /\ Exists(u)
    /\ ~ (users[u].role = "SERVO" /\ users[u].servant # Nobody)
    /\ Call(r, [kind |-> "remove", stage |-> "removing", touches |-> {u}, user |-> u])
    /\ UNCHANGED accountVars

CommitRemove(r) ==
    /\ req[r].stage = "removing"
    /\ IF Checked(users[req[r].user].role, Nobody)
       THEN /\ users' = [users EXCEPT ![req[r].user] =
                    [Standing(req[r].user, "INACTIVE") EXCEPT !.servant = Nobody, !.gone = TRUE]]
            /\ tokens' = Revoked(TokensOf(req[r].user))
       ELSE UNCHANGED <<users, tokens>>
    /\ Finish(r)
    /\ UNCHANGED <<resets, servants, teams, unguarded, coordinators, enforced>>

\* servants.updateApproval sets the status of the account the servant had when
\* he was read, if any.  It ends no session and counts for none: a rejected
\* account is refused while it is inactive, and its sessions go on once it is
\* approved.
CallUpdateApproval(r, s, status) ==
    /\ Present(s)
    /\ \E u \in IF AccountsOf(s) = {} THEN {Nobody} ELSE AccountsOf(s) :
          Call(r, [kind |-> "approval", stage |-> "approving", touches |-> {u, s} \ {Nobody},
                   user |-> u, servant |-> s, status |-> status])
    /\ UNCHANGED accountVars

CommitApproval(r) ==
    /\ req[r].stage = "approving"
    /\ servants' = [servants EXCEPT ![req[r].servant].approved = req[r].status = "ACTIVE"]
    /\ users' = IF req[r].user = Nobody THEN users
                ELSE [users EXCEPT ![req[r].user].status = req[r].status]
    /\ Finish(r)
    /\ UNCHANGED <<tokens, resets, teams, unguarded, coordinators, enforced>>

-----------------------------------------------------------------------------
(* Servants: ministries, training, teams.                                  *)

\* training maps the ministries of a servant to the state of his training.
Serving(s) == DOMAIN servants[s].training
Trained(s, m) == Present(s) /\ m \in Serving(s) /\ servants[s].training[m] = "COMPLETED"
Servant(main, training, team, status) ==
    [main |-> main, training |-> training, summary |-> "PENDING", team |-> team,
     status |-> status, approved |-> TRUE]
Untrained(ms) == [m \in ms |-> "PENDING"]
TeamFits(t, ms) == t # NoTeam => MinistryOf[t] \in ms

\* createWithUser: servant, ministries and account in one transaction.  A servant
\* of a coordinator is in RECRUTAMENTO.
CreateWithUser(s, main, ms, t, standing, status) ==
    /\ ~ Present(s) /\ Unused # {}
    /\ main \in ms /\ TeamFits(t, ms)
    /\ servants' = [servants EXCEPT ![s] = Servant(main, Untrained(ms), t, standing)]
    /\ AddUser(Account("SERVO", s, status, Unbound("SELF")))
    /\ CallAtOnce({s})
    /\ UNCHANGED <<tokens, resets, teams, unguarded, coordinators, enforced>>

\* servants.update with ministries: who gives no team loses his.
CallUpdateServant(r, s, main, ms, t) ==
    /\ Present(s) /\ main \in ms /\ TeamFits(t, ms)
    /\ Call(r, [kind |-> "servant", stage |-> "updatingServant", touches |-> {s}, servant |-> s,
                main |-> main, ministries |-> ms, team |-> t, found |-> servants[s].training])
    /\ UNCHANGED accountVars

\* Seeded fault: all relations are made anew.
CommitServant_Anew(r) ==
    /\ req[r].stage = "updatingServant"
    /\ servants' = [servants EXCEPT ![req[r].servant] =
          [@ EXCEPT !.main = req[r].main, !.training = Untrained(req[r].ministries),
                    !.team = req[r].team]]
    /\ Finish(r)
    /\ UNCHANGED <<users, tokens, resets, teams, unguarded, coordinators, enforced>>

\* The relations that stay are written back as they were read; if one of them is
\* gone the transaction fails.
CommitServant(r) ==
    LET s == req[r].servant
        found == req[r].found
        kept == req[r].ministries \cap DOMAIN found
        training == [m \in req[r].ministries |->
                        IF m \in kept THEN found[m]
                        ELSE IF m \in Serving(s) THEN servants[s].training[m] ELSE "PENDING"]
    IN  /\ req[r].stage = "updatingServant"
        /\ servants' = IF kept \subseteq Serving(s)
                       THEN [servants EXCEPT ![s] =
                                [@ EXCEPT !.main = req[r].main, !.training = training,
                                          !.team = req[r].team]]
                       ELSE servants
        /\ Finish(r)
        /\ UNCHANGED <<users, tokens, resets, teams, unguarded, coordinators, enforced>>

\* Seeded fault: whatever the servant is, he is made active.
Promotes_Anyone(status) == status # "ATIVO"

\* shouldPromoteToActiveOnTrainingCompletion.
Promotes(status) == status = "RECRUTAMENTO"

\* servants.update with a status or a summary of the training ("same" where
\* none is given), and updateStatus: a summary that is completed may promote.
Profile(s, status, summary, promotes) ==
    [kind |-> "profile", stage |-> "updatingProfile", touches |-> {s}, servant |-> s,
     status |-> IF promotes THEN "ATIVO" ELSE status, summary |-> summary, promotes |-> promotes]

CallUpdateProfile(r, s, status, summary) ==
    /\ Present(s)
    /\ Call(r, Profile(s, status, summary,
                       /\ status = "same" /\ summary = "COMPLETED"
                       /\ Promotes(servants[s].status)))
    /\ UNCHANGED accountVars

\* updateStatus does nothing if the status is what it was read to be.
CallUpdateServantStatus(r, s, status) ==
    /\ Present(s) /\ servants[s].status # status
    /\ Call(r, Profile(s, status, "same", FALSE))
    /\ UNCHANGED accountVars

CommitProfile(r) ==
    /\ req[r].stage = "updatingProfile"
    /\ servants' = [servants EXCEPT
          ![req[r].servant].status = IF req[r].status = "same" THEN @ ELSE req[r].status,
          ![req[r].servant].summary = IF req[r].summary = "same" THEN @ ELSE req[r].summary]
    /\ Finish(r)
    /\ UNCHANGED <<users, tokens, resets, teams, unguarded, coordinators, enforced>>

CallCompleteTraining(r, s, m) ==
    /\ Present(s) /\ m \in Serving(s)
    /\ Call(r, [kind |-> "training", stage |-> "training", touches |-> {s}, servant |-> s,
                ministry |-> m, promotes |-> Promotes(servants[s].status)])
    /\ UNCHANGED accountVars

\* The relation, the summary over all relations there are by then, and the status.
CommitTraining(r) ==
    LET s == req[r].servant
        m == req[r].ministry
        all == \A n \in Serving(s) \ {m} : Trained(s, n)
    IN  /\ req[r].stage = "training"
        /\ servants' = IF m \in Serving(s)
                       THEN [servants EXCEPT
                               ![s].training[m] = "COMPLETED",
                               ![s].summary = IF all THEN "COMPLETED" ELSE "PENDING",
                               ![s].status = IF req[r].promotes THEN "ATIVO" ELSE @]
                       ELSE servants
        /\ Finish(r)
        /\ UNCHANGED <<users, tokens, resets, teams, unguarded, coordinators, enforced>>

\* ministries.update with members: every relation of the ministry is made anew.
\* Main ministries and teams stay.
ReplaceMembers(m, members) ==
    /\ \A s \in members : Present(s)
    /\ servants' = [s \in Servants |->
          IF ~ Present(s) THEN NoServant
          ELSE [servants[s] EXCEPT !.training =
                  [n \in (Serving(s) \ {m}) \cup (IF s \in members THEN {m} ELSE {}) |->
                      IF n = m THEN "PENDING" ELSE @[n]]]]
    /\ unguarded' = unguarded \cup {m}
    /\ CallAtOnce({})
    /\ UNCHANGED <<users, tokens, resets, teams, coordinators, enforced>>

\* ministries.update with a coordinator, who need not be one.
Appoint(m, u) ==
    /\ Exists(u)
    /\ coordinators' = [coordinators EXCEPT ![m] = u]
    /\ CallAtOnce({})
    /\ UNCHANGED <<users, tokens, resets, servants, teams, unguarded, enforced>>

\* addMember: the main ministry counts, though the servant may have left it.
TeamOpenTo(s) == {t \in Teams : MinistryOf[t] \in Serving(s) \cup {servants[s].main}}

CallSetTeam(r, s, t) ==
    /\ Call(r, [kind |-> "team", stage |-> "joining", touches |-> {s},
                servant |-> s, team |-> t])
    /\ UNCHANGED accountVars

CallJoinTeam(r, s, t) ==
    /\ Present(s) /\ t \in TeamOpenTo(s) /\ teams[t].status = "ACTIVE"
    /\ CallSetTeam(r, s, t)

\* servants.update with a team alone, which may be inactive.
CallUpdateTeamOf(r, s, t) ==
    /\ Present(s) /\ t \in TeamOpenTo(s) \cup {NoTeam}
    /\ CallSetTeam(r, s, t)

\* removeMember of the team the servant is in.
CallLeaveTeam(r, s) ==
    /\ Present(s) /\ servants[s].team # NoTeam
    /\ CallSetTeam(r, s, NoTeam)

CommitMember(r) ==
    /\ req[r].stage = "joining"
    /\ servants' = [servants EXCEPT ![req[r].servant].team = req[r].team]
    /\ Finish(r)
    /\ UNCHANGED <<users, tokens, resets, teams, unguarded, coordinators, enforced>>

\* teams.update and teams.remove.  A team that becomes active again brings the
\* leader back that it had.
SetTeamStatus(t, status) ==
    /\ teams[t].status # status
    /\ teams' = [teams EXCEPT ![t].status = status]
    /\ unguarded' = IF status = "ACTIVE" THEN unguarded \cup {teams[t].leader} ELSE unguarded
    /\ CallAtOnce({teams[t].leader})
    /\ UNCHANGED <<users, tokens, resets, servants, coordinators, enforced>>

LeadsElsewhere(u, t) == \E v \in Teams \ {t} : teams[v].status = "ACTIVE" /\ teams[v].leader = u

\* Seeded fault: another team is not looked for.
CallUpdateLeader_AnyTeam(r, t, u) ==
    /\ Exists(u) /\ users[u].role = "COORDENADOR"
    /\ Call(r, [kind |-> "leader", stage |-> "leading", touches |-> {u}, team |-> t, user |-> u])
    /\ UNCHANGED accountVars

\* updateLeader: an active account is not asked for.
CallUpdateLeader(r, t, u) ==
    /\ Exists(u) /\ users[u].role = "COORDENADOR" /\ ~ LeadsElsewhere(u, t)
    /\ Call(r, [kind |-> "leader", stage |-> "leading", touches |-> {u}, team |-> t, user |-> u])
    /\ UNCHANGED accountVars

CommitLeader(r) ==
    /\ req[r].stage = "leading"
    /\ teams' = [teams EXCEPT ![req[r].team].leader = req[r].user]
    /\ Finish(r)
    /\ UNCHANGED <<users, tokens, resets, servants, unguarded, coordinators, enforced>>

ClearLeader(t) ==
    /\ teams[t].leader # Nobody
    /\ teams' = [teams EXCEPT ![t].leader = Nobody]
    /\ CallAtOnce({teams[t].leader})
    /\ UNCHANGED <<users, tokens, resets, servants, unguarded, coordinators, enforced>>

-----------------------------------------------------------------------------
(* The script that repairs links, run beside the live system.              *)

\* What is unlinked on both sides when the script reads the tables, and who has
\* the name and phone of whom.  An account is linked to the only servant it
\* looks like, though others may look like him too.
Stray == {u \in Users : Orphan(u) /\ ~ users[u].gone}
Unlinked == {s \in Servants : Present(s) /\ AccountsOf(s) = {}}
Matches == {<<u, LooksLike[u]>> : u \in {v \in Stray : LooksLike[v] \in Unlinked}}
Unmatched == {s \in Unlinked : Cardinality({u \in Stray : LooksLike[u] = s}) # 1}

CallRepair(r, provision) ==
    LET without == IF provision THEN Unmatched ELSE {}
    IN  /\ Matches # {} \/ without # {}
        /\ Call(r, [kind |-> "repair", stage |-> "repairing", touches |-> {},
                    links |-> Matches, without |-> without])
        /\ UNCHANGED accountVars

RepairNext(r, links, without) ==
    IF links = {} /\ without = {} THEN Finish(r)
    ELSE Step(r, [req[r] EXCEPT !.links = links, !.without = without])

\* Every link is looked at again in the transaction that makes it.
RepairLink(r) ==
    /\ req[r].stage = "repairing"
    /\ \E link \in req[r].links :
          LET u == link[1]
              s == link[2]
              safe == /\ users[u].role = "SERVO" /\ users[u].servant \in {Nobody, s}
                      /\ ~ Clash(u, s)
          IN  /\ users' = IF safe
                          THEN [users EXCEPT ![u].servant = s, ![u].grant.scope = "SELF"] ELSE users
              /\ RepairNext(r, req[r].links \ {link}, req[r].without)
    /\ UNCHANGED <<tokens, resets, servants, teams, unguarded, coordinators, enforced>>

\* A servant nobody looks like gets an account that is inactive.
RepairProvision(r) ==
    /\ req[r].stage = "repairing" /\ req[r].links = {}
    /\ \E s \in req[r].without :
          /\ IF AccountsOf(s) = {} /\ Unused # {}
             THEN AddUser(Account("SERVO", s, "INACTIVE", Unbound("SELF"))) ELSE UNCHANGED users
          /\ RepairNext(r, req[r].links, req[r].without \ {s})
    /\ UNCHANGED <<tokens, resets, servants, teams, unguarded, coordinators, enforced>>
-----------------------------------------------------------------------------
AccountsTypeOK ==
    /\ users \in [Users -> {NoUser} \cup UserRow]
    /\ tokens \in [Tokens -> {NoToken} \cup TokenRow]
    /\ resets \subseteq Users
    /\ servants \in [Servants -> {NoServant} \cup ServantRow]
    /\ teams \in [Teams -> TeamRow]
    /\ coordinators \in [Ministries -> {u \in Users : Exists(u)} \cup {Nobody}]
    /\ enforced \in BOOLEAN
    /\ \A s \in Servants : Cardinality(AccountsOf(s)) <= 1

\* A SERVO in a team, with a session, a link to reset his password and a training
\* done; a coordinator who leads the team.  There may be other servants, and
\* accounts that look like them and should be linked, in a database without the
\* check.
AccountsInit(others, stray, status) ==
    LET m == MinistryOf[FirstTeam]
    IN  /\ users = [u \in Users |->
              IF u = FirstServo THEN Account("SERVO", FirstServant, "ACTIVE", Unbound("SELF"))
              ELSE IF u = FirstLeader THEN Account("COORDENADOR", Nobody, "ACTIVE", [scope |-> "MINISTRY", ministries |-> {m}, teams |-> {}])
              ELSE IF stray THEN Account("SERVO", Nobody, "ACTIVE", Unbound("SELF")) ELSE NoUser]
        /\ tokens = [t \in Tokens |->
              IF t # 1 THEN NoToken
              ELSE [user |-> FirstServo, password |-> 0, period |-> 0, live |-> TRUE, session |-> 1]]
        /\ resets = {FirstServo}
        /\ servants = [s \in Servants |->
              IF s = FirstServant
              THEN Servant(m, [n \in Ministries |-> IF n = m THEN "COMPLETED" ELSE "PENDING"], FirstTeam, "ATIVO")
              ELSE IF others THEN Servant(m, Untrained({m}), NoTeam, IF stray THEN "RECRUTAMENTO" ELSE "INATIVO")
              ELSE NoServant]
        /\ teams = [t \in Teams |-> IF t = FirstTeam THEN [status |-> status, leader |-> FirstLeader]
                                    ELSE [status |-> "ACTIVE", leader |-> Nobody]]
        /\ coordinators = [n \in Ministries |-> Nobody]
        /\ unguarded = {u \in Users : Orphan(u)}
        /\ enforced = ~ stray

AccountCall(r) ==
    \/ \E role \in Roles, s \in Servants \cup {Nobody}, grant \in Given :
          CallCreateUser(r, role, s, grant)
    \/ \E u \in Users, s \in Servants \cup {Nobody} : CallSetServantLink(r, u, s)
    \/ \E u \in Users, s \in Servants : CallLinkUser(r, u, s)
    \/ \E u \in Users, role \in Roles : CallUpdateRole(r, u, role)
    \/ \E u \in Users : CallLogin(r, u) \/ CallRemove(r, u)
    \/ \E t \in Tokens : CallRefresh(r, t)
    \/ \E u \in Users : CallChangePassword(r, u) \/ CallResetPassword(r, u)
    \/ \E u \in Users, status \in Statuses : CallUpdateStatus(r, u, status)
    \/ \E s \in Servants, status \in Statuses : CallUpdateApproval(r, s, status)
    \/ \E s \in Servants, ms \in SUBSET Ministries, t \in Teams \cup {NoTeam} :
          \E main \in ms : CallUpdateServant(r, s, main, ms, t)
    \/ \E s \in Servants, status \in {"ATIVO", "INATIVO"} :
          \/ CallUpdateProfile(r, s, status, "same")
          \/ CallUpdateServantStatus(r, s, status)
    \/ \E s \in Servants, summary \in Trainings : CallUpdateProfile(r, s, "same", summary)
    \/ \E s \in Servants, m \in Ministries : CallCompleteTraining(r, s, m)
    \/ \E s \in Servants, t \in Teams : CallJoinTeam(r, s, t)
    \/ \E s \in Servants, t \in Teams \cup {NoTeam} : CallUpdateTeamOf(r, s, t)
    \/ \E s \in Servants : CallLeaveTeam(r, s)
    \/ \E t \in Teams, u \in Users : CallUpdateLeader(r, t, u)
    \/ \E provision \in BOOLEAN : CallRepair(r, provision)

AccountAtOnce ==
    \/ \E u \in Users, grant \in Given : UpdateScope(u, grant)
    \/ \E t \in Tokens : Logout(t)
    \/ \E u \in Users : ForgotPassword(u) \/ AdminResetPassword(u)
    \/ \E s \in Servants, ms \in SUBSET Ministries, t \in Teams \cup {NoTeam} :
          \E main \in ms, standing \in {"RECRUTAMENTO", "ATIVO"}, status \in Statuses :
             CreateWithUser(s, main, ms, t, standing, status)
    \/ \E m \in Ministries, members \in SUBSET Servants : ReplaceMembers(m, members)
    \/ \E m \in Ministries, u \in Users : Appoint(m, u)
    \/ \E t \in Teams, status \in Statuses : SetTeamStatus(t, status)
    \/ \E t \in Teams : ClearLeader(t)

AccountStep(r) ==
    \/ \E status \in Statuses : CommitCreateUser(r, status)
    \/ CommitLink(r) \/ CommitRole(r)
    \/ Rotate(r) \/ OpenSession(r) \/ CommitPassword(r)
    \/ CommitStatus(r) \/ CommitRemove(r) \/ CommitApproval(r)
    \/ CommitServant(r) \/ CommitProfile(r) \/ CommitTraining(r)
    \/ CommitMember(r) \/ CommitLeader(r)
    \/ RepairLink(r) \/ RepairProvision(r)

-----------------------------------------------------------------------------
(* Properties                                                              *)

\* A refresh token that works carries the password and the period of activity its
\* account has now, and is the only one of its session that works, unless two
\* requests about the account (logins, refreshes, changes of password, role, status
\* or approval) were in flight together at some time.
SessionsEnd ==
    \A t, v \in Tokens :
       Live(t) /\ tokens[t].user \notin raced =>
          /\ tokens[t].password = users[tokens[t].user].password
          /\ tokens[t].period = users[tokens[t].user].period
          /\ Live(v) /\ v # t => tokens[v].session # tokens[t].session
=============================================================================
