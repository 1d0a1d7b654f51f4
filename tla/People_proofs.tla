---------------------------- MODULE People_proofs ----------------------------
(***************************************************************************)
(* The proofs about People: whatever requests are in flight beside each    *)
(* other, the tables hold what AccountsHold, SessionsEnd, TeamsHold,       *)
(* CareHolds, TimelineTells and PathsAgree say, and no step breaks         *)
(* TrainingStands or DecisionsStand.                                       *)
(*                                                                         *)
(* A request reads, decides, and writes later.  So the invariant says what *)
(* each request carries at its stage (Carries), which is what its writes   *)
(* rest on to keep the tables well formed, and what it knows of the tables *)
(* unless it has raced (Knows): what it has read still stands when it      *)
(* writes.  Who changes what another request knows of decides about the    *)
(* same thing, so both are known to have raced: that is what Touched says, *)
(* and each part of the invariant has an operator (LinksMove, ...,         *)
(* TimelineMove) for what a step may do to the tables for that part to     *)
(* hold.  In order:                                                        *)
(*                                                                         *)
(*   - the invariant, PeopleInv, in parts;                                 *)
(*   - the types: every operation keeps the tables well formed (Kept) and  *)
(*     its request at a stage where it carries and knows what it needs     *)
(*     (Proceeds); together that is Advances;                              *)
(*   - the first state;                                                    *)
(*   - links and sessions, teams, trainings and decisions, alerts and      *)
(*     cases, the timeline: for each what a step may do, that such steps   *)
(*     keep the part of the invariant, and that every operation is one;    *)
(*   - the steps of People put together, and the theorems.                 *)
(***************************************************************************)
EXTENDS People, Handlers_proofs

-----------------------------------------------------------------------------
(* What a request carries at its stage.                                    *)

AccountCarries(r) ==
  LET q == req[r] IN
    /\ q.stage = "creatingUser" =>
          /\ q.account \in UserRow
          /\ q.account.role = "SERVO" => q.account.servant # Nobody
          /\ q.account.servant # Nobody => Present(q.account.servant)
    /\ q.stage = "linking" =>
          /\ q.user \in Users \cap q.touches /\ Exists(q.user)
          /\ q.servant \in Servants \cup {Nobody}
          /\ q.servant # Nobody => Present(q.servant)
    /\ q.stage = "settingRole" =>
          q.user \in Users \cap q.touches /\ Exists(q.user) /\ q.role \in Roles
    /\ q.stage = "rotating" =>
          /\ q \in [kind : {"refresh"}, stage : {"rotating"}, touches : {{u} : u \in Users},
                    old : Tokens, token : TokenRow]
          /\ q.token.live /\ q.token.user \in q.touches
          /\ tokens[q.old] # NoToken /\ tokens[q.old].user = q.token.user
    /\ q.stage = "opening" =>
          /\ q.token \in [user : Users, password : Nat, period : Nat, live : {TRUE},
                          session : Tokens \cup {0}]
          /\ q.token.user \in q.touches
    /\ q.stage \in {"rotating", "opening"} =>
          /\ Exists(q.token.user)
          /\ q.token.session \in Tokens =>
                /\ tokens[q.token.session] # NoToken
                /\ tokens[q.token.session].user = q.token.user
    /\ q.stage = "hashing" =>
          q.user \in Users \cap q.touches /\ Exists(q.user)
    /\ q.stage = "settingStatus" =>
          /\ q.user \in Users \cap q.touches /\ Exists(q.user)
          /\ q.status \in Statuses /\ q.ends \in BOOLEAN
    /\ q.stage = "removing" =>
          q.user \in Users \cap q.touches /\ Exists(q.user)
    /\ q.stage = "approving" =>
          /\ q.user # Nobody => q.user \in Users \cap q.touches /\ Exists(q.user)
          /\ q.servant \in Servants \cap q.touches /\ Present(q.servant)
          /\ q.status \in Statuses
    /\ q.stage = "repairing" =>
          /\ q \in [kind : {"repair"}, stage : {"repairing"}, touches : {{}},
                    links : SUBSET (Users \X Servants), without : SUBSET Servants]
          /\ \A link \in q.links : Exists(link[1]) /\ Present(link[2])
          /\ \A s \in q.without : Present(s)

ServantCarries(r) ==
  LET q == req[r] IN
    /\ q.stage = "updatingServant" =>
          /\ q.servant \in Servants \cap q.touches /\ Present(q.servant)
          /\ q.ministries \in SUBSET Ministries /\ q.main \in q.ministries
          /\ q.team \in Teams \cup {NoTeam} /\ TeamFits(q.team, q.ministries)
          /\ q.found \in UNION {[ms -> Trainings] : ms \in SUBSET Ministries}
    /\ q.stage = "updatingProfile" =>
          /\ q.kind = "profile"
          /\ q.servant \in Servants \cap q.touches /\ Present(q.servant)
          /\ q.status \in ServantStatuses \cup {"same"}
          /\ q.summary \in Trainings \cup {"same"}
          /\ q.promotes \in BOOLEAN
    /\ q.stage = "training" =>
          /\ q.servant \in Servants \cap q.touches /\ Present(q.servant)
          /\ q.ministry \in Ministries /\ q.promotes \in BOOLEAN
    /\ q.stage = "joining" =>
          /\ q.servant \in Servants \cap q.touches /\ Present(q.servant)
          /\ q.team \in Teams \cup {NoTeam}
    /\ q.stage = "leading" =>
          q.user \in Users \cap q.touches /\ Exists(q.user) /\ q.team \in Teams
    /\ q.stage = "activating" =>
          /\ q.kind = "talent"
          /\ q.servant \in Servants \cap q.touches /\ Present(q.servant)
    /\ q.stage = "reviewing" =>
          /\ q.talent \in Talents /\ Known(q.talent) /\ Rejection(q.talent) \in q.touches
          /\ q.reversed \in BOOLEAN

CareCarries(r) ==
  LET q == req[r] IN
    /\ q.stage \in {"raising", "seekingCase"} =>
          /\ q \in [kind : {"signal"}, stage : {"raising", "seekingCase"},
                    touches : {{<<key, s>>} : key \in Keys, s \in Servants},
                    key : Keys, servant : Servants, todo : SUBSET Servants]
          /\ <<q.key, q.servant>> \in q.touches
    /\ q.stage = "surveying" => q.todo \in SUBSET Servants
    /\ q.stage = "following" =>
          q.todo \in SUBSET Servants /\ q.visit \in Visits /\ Opened(q.visit)
    /\ q.stage = "openingCase" =>
          q.servant \in Servants /\ Case(q.servant) \in q.touches
    /\ q.stage \in {"writingCase", "clearing"} =>
          q \in [kind : {"case"}, stage : {"writingCase", "clearing"},
                 touches : {{Case(s)} : s \in Servants},
                 visit : Visits, status : CaseStatuses, resolving : BOOLEAN]
    /\ q.stage \in {"adding", "settling"} =>
          q \in [kind : {"followUp"}, stage : {"adding", "settling"},
                 touches : {{Case(s)} : s \in Servants}, visit : Visits, status : CaseStatuses]
    /\ q.stage \in {"writingCase", "clearing", "adding", "settling"} =>
          Opened(q.visit) /\ Case(visits[q.visit].servant) \in q.touches

TimelineCarries(r) ==
  LET q == req[r] IN
    /\ q.stage \in {"writingEntry", "addingToEntry"} =>
          q.key \in News \cap q.touches /\ q.at \in 0..hour
    /\ q.stage = "addingToEntry" =>
          /\ q.entry \in EntriesOf(q.key) /\ q.count \in Nat \ {0}

Carries(r) ==
    AccountCarries(r) /\ ServantCarries(r) /\ CareCarries(r) /\ TimelineCarries(r)

-----------------------------------------------------------------------------
(* The tables.                                                             *)

\* What is linked to what exists, and a servant has one account.
AccountsTyped ==
    /\ users \in [Users -> {NoUser} \cup UserRow]
    /\ tokens \in [Tokens -> {NoToken} \cup TokenRow]
    /\ servants \in [Servants -> {NoServant} \cup ServantRow]
    /\ teams \in [Teams -> TeamRow]
    /\ coordinators \in [Ministries -> Users \cup {Nobody}]
    /\ \A m \in Ministries : coordinators[m] \in Users => Exists(coordinators[m])
    /\ enforced \in BOOLEAN

AccountsLinked ==
    /\ resets \subseteq Users /\ \A u \in resets : Exists(u)
    /\ \A u \in Users : Exists(u) /\ users[u].servant # Nobody => Present(users[u].servant)
    /\ \A u, v \in Users :
          Exists(u) /\ Exists(v) /\ users[u].servant = users[v].servant
             /\ users[u].servant # Nobody => u = v

TokensLinked ==
    \A t \in Tokens : tokens[t] # NoToken =>
       /\ Exists(tokens[t].user)
       /\ tokens[tokens[t].session] # NoToken
       /\ tokens[tokens[t].session].user = tokens[t].user

CareTyped == CareTypeOK /\ \A a \in covered : Raised(a)
FitnessTyped == FitnessTypeOK /\ \A k \in Talents : Known(k) => Present(talents[k].servant)
TimelineTyped == TimelineTypeOK /\ \A e \in Entries : Written(e) => entries[e].at <= hour

TypesInv ==
    /\ ReqFn /\ RacesKnown /\ HandlersTypeOK
    /\ AccountsTyped /\ AccountsLinked /\ TokensLinked
    /\ CareTyped /\ FitnessTyped /\ TimelineTyped
    /\ \A r \in Requests : Carries(r)

\* What there is stays, and stays whose it is.
AccountsGrow ==
    /\ \A u \in Users : Exists(u) => Exists(u)'
    /\ \A s \in Servants : Present(s) => Present(s)'
    /\ \A t \in Tokens : tokens[t] # NoToken =>
          tokens'[t] # NoToken /\ tokens'[t].user = tokens[t].user
CareGrows ==
    \A v \in Visits : Opened(v) => Opened(v)' /\ visits'[v].servant = visits[v].servant
FitnessGrows == \A k \in Talents : Known(k) => Known(k)'
TimelineGrows ==
    /\ \A e \in Entries : Written(e) => Written(e)' /\ entries'[e].key = entries[e].key
    /\ hour \in Nat /\ hour' \in Nat /\ hour <= hour'

LEMMA CarriesKept ==
  ASSUME NEW r \in Requests, req'[r] = req[r], Carries(r), CareTyped, TokensLinked, AccountsTyped,
         AccountsGrow, CareGrows, FitnessGrows, TimelineGrows
  PROVE  Carries(r)'
<1>1. AccountCarries(r)'
  <2>0. AccountCarries(r)
    BY DEF Carries
  <2>1. PICK q : q = req[r] /\ q = req'[r]
    OBVIOUS
  <2>2. \A s \in Servants \cup {Nobody} : s # Nobody /\ Present(s) => Present(s)'
    BY DEF AccountsGrow
  <2>3. AccountCarries(r)
    BY <2>0
  <2>4. q.stage = "repairing" =>
          /\ \A link \in q.links : Exists(link[1])' /\ Present(link[2])'
          /\ \A s \in q.without : Present(s)'
    BY <2>1, <2>3 DEF AccountCarries, AccountsGrow
  <2>5. q.stage = "creatingUser" /\ q.account.servant # Nobody =>
           Present(q.account.servant)'
    BY <2>1, <2>2, <2>3 DEF AccountCarries, UserRow
  <2>6. q.stage \in {"rotating", "opening"} =>
          /\ Exists(q.token.user)'
          /\ q.token.session \in Tokens =>
                tokens'[q.token.session] # NoToken /\ tokens'[q.token.session].user = q.token.user
    BY <2>1, <2>3 DEF AccountCarries, AccountsGrow, TokenRow
  <2> QED
    BY ZenonT(60), <2>1, <2>2, <2>3, <2>4, <2>5, <2>6 DEF AccountCarries, AccountsGrow
<1>2. ServantCarries(r)'
  <2>0. ServantCarries(r)
    BY DEF Carries
  <2>1. PICK q : q = req[r] /\ q = req'[r]
    OBVIOUS
  <2> QED
    BY <2>0, <2>1 DEF ServantCarries, AccountsGrow, FitnessGrows
<1>3. CareCarries(r)'
  <2>0. CareCarries(r)
    BY DEF Carries
  <2>1. PICK q : q = req[r] /\ q = req'[r]
    OBVIOUS
  <2> QED
    BY <2>0, <2>1 DEF CareCarries, CareGrows
<1>4. TimelineCarries(r)'
  <2>0. TimelineCarries(r)
    BY DEF Carries
  <2>1. PICK q : q = req[r] /\ q = req'[r]
    OBVIOUS
  <2> QED
    BY <2>0, <2>1 DEF TimelineCarries, TimelineGrows, EntriesOf
<1> QED
  BY <1>1, <1>2, <1>3, <1>4 DEF Carries

-----------------------------------------------------------------------------
(* What a request knows unless it has raced, and what holds of the tables. *)

KnowsLink(r) ==
  LET q == req[r] IN
    /\ q.stage = "linking" /\ q.servant = Nobody =>
          users[q.user].role # "SERVO" \/ q.user \in raced
    /\ q.stage = "settingRole" /\ q.role = "SERVO" =>
          users[q.user].servant # Nobody \/ q.user \in raced
    /\ q.stage = "removing" /\ users[q.user].role = "SERVO" => q.user \in raced \cup unguarded

LinksInv ==
    /\ \A u \in Users : Orphan(u) => ~ enforced /\ u \in raced \cup unguarded
    /\ \A r \in Requests : KnowsLink(r)

KnowsSession(r) ==
  LET q == req[r] IN
    /\ q.stage \in {"rotating", "opening"} /\ q.token.user \notin raced =>
          /\ q.token.password = users[q.token.user].password
          /\ q.token.period = users[q.token.user].period
          /\ \A v \in Tokens :
                Live(v) /\ tokens[v].session = q.token.session => q.stage = "rotating" /\ v = q.old
    /\ q.stage = "settingStatus" /\ q.user \notin raced =>
          (q.ends <=> q.status = "INACTIVE" /\ users[q.user].status # "INACTIVE")

SessionsInv == SessionsEnd /\ \A r \in Requests : KnowsSession(r)

\* A ministry where the servant may be in a team.
Open(s, m) == m \in unguarded \cup Serving(s) \cup {servants[s].main}

KnowsTeam(r) ==
  LET q == req[r] IN
    /\ q.stage = "joining" /\ q.servant \notin raced /\ q.team \in Teams =>
          Open(q.servant, MinistryOf[q.team])
    /\ q.stage = "leading" /\ q.user \notin raced \cup unguarded =>
          ~ LeadsElsewhere(q.user, q.team)

TeamsInv ==
    /\ \A s \in Servants :
          Present(s) /\ s \notin raced /\ servants[s].team \in Teams =>
             Open(s, MinistryOf[servants[s].team])
    /\ \A t, v \in Teams :
          teams[t].status = "ACTIVE" /\ teams[v].status = "ACTIVE"
             /\ teams[t].leader = teams[v].leader
             /\ teams[t].leader \in Users \ (raced \cup unguarded) => t = v
    /\ \A r \in Requests : KnowsTeam(r)

KnowsTraining(r) ==
  LET q == req[r] IN
    q.stage = "updatingServant" /\ q.servant \notin raced =>
       \A m \in DOMAIN q.found : Trained(q.servant, m) => q.found[m] = "COMPLETED" \/ m \in unguarded

TrainingInv ==
    /\ \A s \in Servants : Present(s) => servants[s].main \in Serving(s) \cup unguarded
    /\ \A r \in Requests : KnowsTraining(r)

KnowsDecision(r) ==
  LET q == req[r] IN
    /\ q.stage \in {"updatingProfile", "training"} /\ q.promotes /\ q.servant \notin raced =>
          servants[q.servant].status # "INATIVO"
    /\ q.stage = "reviewing" /\ Rejection(q.talent) \notin raced =>
          talents[q.talent].review = "PENDING_ADMIN_REVIEW"

DecisionsInv == \A r \in Requests : KnowsDecision(r)

KnowsCare(r) ==
  LET q == req[r] IN
    /\ q.stage = "raising" /\ <<q.key, q.servant>> \notin raced =>
          OpenDuplicates(q.key, q.servant) = {}
    /\ q.stage = "openingCase" /\ Case(q.servant) \notin raced /\ q.servant \notin beside =>
          OpenCases(q.servant) = {}
    /\ q.stage = "writingCase" /\ Case(visits[q.visit].servant) \notin raced =>
          (q.resolving <=> q.status = "RESOLVIDA" /\ visits[q.visit].status # "RESOLVIDA")

\* The alert was resolved with the case, or will be.
Settled(a) ==
    \/ Case(alerts[a].servant) \in raced \/ alerts[a].status = "RESOLVED"
    \/ \E r \in Requests :
          req[r].stage = "clearing" /\ visits[req[r].visit].servant = alerts[a].servant

CareInv ==
    /\ \A s \in Servants, key \in Keys : <<key, s>> \notin raced =>
          \A a, b \in OpenDuplicates(key, s) : a = b
    /\ \A s \in Servants : Case(s) \notin raced /\ s \notin beside =>
          \A v, w \in OpenCases(s) : v = w
    /\ failures = 0 => \A a \in covered : Settled(a)
    /\ \A r \in Requests : KnowsCare(r)

KnowsEntries(r) ==
  LET q == req[r] IN
    /\ q.stage = "writingEntry" /\ q.key \notin raced =>
          /\ ~ Skips(q.key) /\ ~ Adds(q.key, q.at)
          /\ \A e \in EntriesOf(q.key) : entries[e].at <= q.at
    /\ q.stage = "addingToEntry" /\ q.key \notin raced =>
          /\ q.key[1] \in Deduped \cap Aggregatable
          /\ q.count = entries[q.entry].count + 1
          /\ entries[q.entry].at <= q.at
          /\ \A e \in EntriesOf(q.key) : entries[e].at <= entries[q.entry].at

TimelineInv == TimelineTells /\ \A r \in Requests : KnowsEntries(r)

PeopleInv ==
    /\ TypesInv /\ LinksInv /\ SessionsInv /\ TeamsInv /\ TrainingInv /\ DecisionsInv
    /\ CareInv /\ TimelineInv

-----------------------------------------------------------------------------
(* Writing a row of an account, of a token, of a servant.                  *)

\* The new row may link the account to a servant nobody else is linked to.
LEMMA UserWritten ==
  ASSUME AccountsTyped, AccountsLinked, NEW u \in Users, NEW row \in UserRow,
         users' = [users EXCEPT ![u] = row],
         row.servant # Nobody =>
            /\ Present(row.servant)'
            /\ \A v \in Users \ {u} : Exists(v) => users[v].servant # row.servant,
         \A s \in Servants : Present(s) => Present(s)',
         resets' \subseteq resets, coordinators' = coordinators
  PROVE  /\ users' \in [Users -> {NoUser} \cup UserRow] /\ AccountsLinked'
         /\ \A v \in Users : Exists(v) => Exists(v)'
         /\ (\A m \in Ministries : coordinators[m] \in Users => Exists(coordinators[m]))'
         /\ users'[u] = row /\ Exists(u)' /\ \A v \in Users \ {u} : users'[v] = users[v]
<1>1. /\ users' \in [Users -> {NoUser} \cup UserRow]
      /\ users'[u] = row /\ \A v \in Users \ {u} : users'[v] = users[v]
  BY DEF AccountsTyped
<1>2. Exists(u)'
  BY <1>1, AccountsAssumption DEF Exists
<1>3. \A v \in Users : Exists(v) => Exists(v)'
  BY <1>1, <1>2 DEF Exists
<1>4. (\A m \in Ministries : coordinators[m] \in Users => Exists(coordinators[m]))'
  BY <1>3 DEF AccountsTyped, Exists
<1>5. resets' \subseteq Users /\ \A v \in resets' : Exists(v)'
  BY <1>3 DEF AccountsLinked
<1>6. (\A v \in Users : Exists(v) /\ users[v].servant # Nobody => Present(users[v].servant))'
  <2> SUFFICES ASSUME NEW v \in Users, Exists(v)', users'[v].servant # Nobody
               PROVE  Present(users[v].servant)'
    OBVIOUS
  <2>1. CASE v = u
    BY <1>1, <2>1 DEF Present
  <2>2. CASE v # u
    <3>1. users'[v] = users[v] /\ Exists(v)
      BY <1>1, <2>2 DEF Exists
    <3>2. PICK s : s = users[v].servant
      OBVIOUS
    <3>3. s \in Servants /\ Present(s)
      BY <3>1, <3>2 DEF AccountsLinked, AccountsTyped, Exists, UserRow
    <3> QED
      BY <3>1, <3>2, <3>3 DEF Present
  <2> QED
    BY <2>1, <2>2
<1>7. \A v, w \in Users :
         Exists(v)' /\ Exists(w)' /\ users'[v].servant = users'[w].servant
            /\ users'[v].servant # Nobody => v = w
  BY <1>1 DEF AccountsLinked, Exists
<1> QED
  BY <1>1, <1>2, <1>3, <1>4, <1>5, <1>6, <1>7 DEF AccountsLinked, Exists

\* Accounts that are told from each other by more than their links.
LEMMA UsersStay ==
  ASSUME AccountsTyped, AccountsLinked, users' = users, resets' \subseteq resets,
         \A s \in Servants : Present(s) => Present(s)', coordinators' = coordinators
  PROVE  /\ users' \in [Users -> {NoUser} \cup UserRow] /\ AccountsLinked'
         /\ \A v \in Users : Exists(v) => Exists(v)'
         /\ (\A m \in Ministries : coordinators[m] \in Users => Exists(coordinators[m]))'
<1>1. \A v \in Users : Exists(v)' <=> Exists(v)
  BY DEF Exists
<1>2. (\A v \in Users : Exists(v) /\ users[v].servant # Nobody => Present(users[v].servant))'
  <2> SUFFICES ASSUME NEW v \in Users, Exists(v), users[v].servant # Nobody
               PROVE  Present(users[v].servant)'
    BY <1>1 DEF Present
  <2>2. PICK s : s = users[v].servant
    OBVIOUS
  <2>3. s \in Servants /\ Present(s)
    BY <2>2 DEF AccountsLinked, AccountsTyped, Exists, UserRow
  <2> QED
    BY <2>2, <2>3 DEF Present
<1> QED
  BY <1>1, <1>2 DEF AccountsTyped, AccountsLinked, Exists

LEMMA TokensRevoked ==
  ASSUME AccountsTyped, TokensLinked, \A u \in Users : Exists(u) => Exists(u)',
         NEW ids \in SUBSET Tokens, \A t \in ids : tokens[t] # NoToken,
         tokens' = Revoked(ids)
  PROVE  /\ tokens' \in [Tokens -> {NoToken} \cup TokenRow] /\ TokensLinked'
         /\ \A t \in Tokens :
               /\ tokens[t] = NoToken <=> tokens'[t] = NoToken
               /\ tokens[t] # NoToken =>
                     /\ tokens'[t].user = tokens[t].user
                     /\ tokens'[t].session = tokens[t].session
                     /\ tokens'[t].password = tokens[t].password
                     /\ tokens'[t].period = tokens[t].period
               /\ Live(t)' <=> Live(t) /\ t \notin ids
<1>1. ASSUME NEW t \in Tokens
      PROVE  /\ tokens'[t] \in {NoToken} \cup TokenRow
             /\ tokens[t] = NoToken <=> tokens'[t] = NoToken
             /\ tokens[t] # NoToken =>
                   /\ tokens'[t].user = tokens[t].user
                   /\ tokens'[t].session = tokens[t].session
                   /\ tokens'[t].password = tokens[t].password
                   /\ tokens'[t].period = tokens[t].period
             /\ Live(t)' <=> Live(t) /\ t \notin ids
  <2>1. CASE t \in ids
    <3>1. tokens[t] \in TokenRow /\ tokens'[t] = [tokens[t] EXCEPT !.live = FALSE]
      BY <2>1 DEF AccountsTyped, Revoked
    <3>2. tokens'[t] \in TokenRow
      BY <3>1 DEF TokenRow
    <3> QED
      BY <2>1, <3>1, <3>2, AccountsAssumption DEF TokenRow, Live
  <2>2. CASE t \notin ids
    BY <2>2 DEF AccountsTyped, Revoked, Live
  <2> QED
    BY <2>1, <2>2
<1>2. tokens' \in [Tokens -> {NoToken} \cup TokenRow]
  BY <1>1 DEF Revoked
<1>3. TokensLinked'
  <2> SUFFICES ASSUME NEW t \in Tokens, tokens'[t] # NoToken
               PROVE  /\ Exists(tokens[t].user)'
                      /\ tokens'[tokens'[t].session] # NoToken
                      /\ tokens'[tokens'[t].session].user = tokens'[t].user
    BY DEF TokensLinked, Exists
  <2>1. PICK u, v : u = tokens[t].user /\ v = tokens[t].session
    OBVIOUS
  <2>2. u \in Users /\ v \in Tokens /\ Exists(u) /\ tokens[v] # NoToken /\ tokens[v].user = u
    BY <1>1, <2>1 DEF AccountsTyped, TokensLinked, TokenRow
  <2>3. Exists(u)'
    BY <2>2
  <2> QED
    BY <1>1, <2>1, <2>2, <2>3 DEF Exists
<1> QED
  BY <1>1, <1>2, <1>3

LEMMA TokensStay ==
  ASSUME AccountsTyped, TokensLinked, \A u \in Users : Exists(u) => Exists(u)', tokens' = tokens
  PROVE  TokensLinked'
<1> SUFFICES ASSUME NEW t \in Tokens, tokens[t] # NoToken PROVE Exists(tokens[t].user)'
  BY DEF TokensLinked, Exists
<1>1. PICK u : u = tokens[t].user
  OBVIOUS
<1>2. u \in Users /\ Exists(u)
  BY <1>1 DEF AccountsTyped, TokensLinked, TokenRow
<1> QED
  BY <1>1, <1>2 DEF Exists

LEMMA ServantWritten ==
  ASSUME AccountsTyped, NEW s \in Servants, NEW row \in ServantRow,
         servants' = [servants EXCEPT ![s] = row]
  PROVE  /\ servants' \in [Servants -> {NoServant} \cup ServantRow]
         /\ servants'[s] = row /\ Present(s)'
         /\ \A p \in Servants \ {s} : servants'[p] = servants[p]
         /\ \A p \in Servants : Present(p) => Present(p)'
  BY AccountsAssumption DEF AccountsTyped, Present

-----------------------------------------------------------------------------
(* The steps of requests on accounts keep the types of the tables.         *)

AccountsKept == AccountsTyped' /\ AccountsLinked' /\ TokensLinked' /\ AccountsGrow

\* Where only the row of one account changes, and no token is made.
LEMMA UserStep ==
  ASSUME TypesInv, NEW u \in Users, NEW row \in UserRow,
         users' = [users EXCEPT ![u] = row] \/ users' = users,
         row.servant # Nobody =>
            /\ Present(row.servant)'
            /\ \A v \in Users \ {u} : Exists(v) => users[v].servant # row.servant,
         servants' \in [Servants -> {NoServant} \cup ServantRow],
         \A s \in Servants : Present(s) => Present(s)',
         resets' \subseteq resets,
         \/ tokens' = tokens
         \/ \E ids \in SUBSET Tokens :
               (\A t \in ids : tokens[t] # NoToken) /\ tokens' = Revoked(ids),
         UNCHANGED <<teams, coordinators, enforced>>
  PROVE  AccountsKept
<1>0. AccountsTyped /\ AccountsLinked /\ TokensLinked
  BY DEF TypesInv
<1>1. /\ users' \in [Users -> {NoUser} \cup UserRow] /\ AccountsLinked'
      /\ \A v \in Users : Exists(v) => Exists(v)'
      /\ (\A m \in Ministries : coordinators[m] \in Users => Exists(coordinators[m]))'
  <2>1. CASE users' = users
    BY <1>0, <2>1, UsersStay
  <2>2. CASE users' = [users EXCEPT ![u] = row]
    BY <1>0, <2>2, UserWritten
  <2> QED
    BY <2>1, <2>2
<1>2. /\ tokens' \in [Tokens -> {NoToken} \cup TokenRow] /\ TokensLinked'
      /\ \A t \in Tokens : tokens[t] # NoToken =>
            tokens'[t] # NoToken /\ tokens'[t].user = tokens[t].user
  <2>1. CASE tokens' = tokens
    BY <1>0, <1>1, <2>1, TokensStay DEF AccountsTyped
  <2>2. ASSUME NEW ids \in SUBSET Tokens, \A t \in ids : tokens[t] # NoToken,
               tokens' = Revoked(ids)
        PROVE  /\ tokens' \in [Tokens -> {NoToken} \cup TokenRow] /\ TokensLinked'
               /\ \A t \in Tokens : tokens[t] # NoToken =>
                     tokens'[t] # NoToken /\ tokens'[t].user = tokens[t].user
    BY <1>0, <1>1, <2>2, TokensRevoked
  <2> QED
    BY <2>1, <2>2
<1>3. AccountsTyped'
  BY <1>0, <1>1, <1>2 DEF AccountsTyped
<1>4. AccountsGrow
  BY <1>1, <1>2 DEF AccountsGrow
<1> QED
  BY <1>1, <1>2, <1>3, <1>4 DEF AccountsKept

LEMMA ServantStep ==
  ASSUME TypesInv, NEW s \in Servants, NEW row \in ServantRow,
         servants' = [servants EXCEPT ![s] = row] \/ servants' = servants,
         UNCHANGED <<users, tokens, resets, teams, coordinators, enforced>>
  PROVE  AccountsKept
<1>0. AccountsTyped /\ AccountsLinked /\ TokensLinked
  BY DEF TypesInv
<1>1. /\ servants' \in [Servants -> {NoServant} \cup ServantRow]
      /\ \A p \in Servants : Present(p) => Present(p)'
  <2>1. CASE servants' = servants
    BY <1>0, <2>1 DEF AccountsTyped, Present
  <2>2. CASE servants' = [servants EXCEPT ![s] = row]
    BY <1>0, <2>2, ServantWritten
  <2> QED
    BY <2>1, <2>2
<1>2. /\ users' \in [Users -> {NoUser} \cup UserRow] /\ AccountsLinked'
      /\ \A v \in Users : Exists(v) => Exists(v)'
      /\ (\A m \in Ministries : coordinators[m] \in Users => Exists(coordinators[m]))'
  BY <1>0, <1>1, UsersStay
<1>3. TokensLinked'
  BY <1>0, <1>2, TokensStay
<1>4. AccountsTyped'
  BY <1>0, <1>1, <1>2 DEF AccountsTyped
<1>5. AccountsGrow
  BY <1>1, <1>2 DEF AccountsGrow
<1> QED
  BY <1>2, <1>3, <1>4, <1>5 DEF AccountsKept

LEMMA AccountsSame ==
  ASSUME TypesInv, UNCHANGED accountTables
  PROVE  AccountsKept
<1>0. AccountsTyped /\ AccountsLinked /\ TokensLinked
  BY DEF TypesInv
<1>1. UNCHANGED <<users, tokens, resets, servants, teams, coordinators, enforced>>
  BY DEF accountTables
<1>2. \A p \in Servants : Present(p) => Present(p)'
  BY <1>1 DEF Present
<1>3. /\ users' \in [Users -> {NoUser} \cup UserRow] /\ AccountsLinked'
      /\ \A v \in Users : Exists(v) => Exists(v)'
      /\ (\A m \in Ministries : coordinators[m] \in Users => Exists(coordinators[m]))'
  BY <1>0, <1>1, <1>2, UsersStay
<1>4. TokensLinked'
  BY <1>0, <1>1, <1>3, TokensStay
<1>5. AccountsTyped'
  BY <1>0, <1>1, <1>3 DEF AccountsTyped
<1>6. AccountsGrow
  BY <1>1, <1>2, <1>3 DEF AccountsGrow
<1> QED
  BY <1>3, <1>4, <1>5, <1>6 DEF AccountsKept

LEMMA UserTyped ==
  ASSUME AccountsTyped, NEW u \in Users, Exists(u)
  PROVE  /\ users[u] \in UserRow /\ users[u].servant \in Servants \cup {Nobody}
         /\ users[u].role \in Roles /\ users[u].status \in Statuses
  BY DEF AccountsTyped, Exists, UserRow

LEMMA ServantTyped ==
  ASSUME AccountsTyped, NEW s \in Servants, Present(s)
  PROVE  /\ servants[s] \in ServantRow /\ servants[s].main \in Ministries
         /\ servants[s].training \in UNION {[ms -> Trainings] : ms \in SUBSET Ministries}
         /\ Serving(s) \subseteq Ministries
         /\ \A m \in Serving(s) : servants[s].training[m] \in Trainings
         /\ servants[s].team \in Teams \cup {NoTeam} /\ servants[s].status \in ServantStatuses
<1>1. servants[s] \in ServantRow
  BY DEF AccountsTyped, Present
<1>2. PICK ms \in SUBSET Ministries : servants[s].training \in [ms -> Trainings]
  BY <1>1 DEF ServantRow
<1> QED
  BY <1>1, <1>2 DEF ServantRow, Serving

\* The link of an account that exists may be written again.
LEMMA KeptLink ==
  ASSUME TypesInv, NEW u \in Users, Exists(u), users[u].servant # Nobody
  PROVE  /\ Present(users[u].servant)
         /\ \A v \in Users \ {u} : Exists(v) => users[v].servant # users[u].servant
  BY DEF TypesInv, AccountsLinked

LEMMA AddedUser ==
  ASSUME Unused # {}, NEW account, AddUser(account)
  PROVE  \E u \in Users : ~ Exists(u) /\ users' = [users EXCEPT ![u] = account]
<1>1. PICK u \in Users : u = CHOOSE v \in Users : ~ Exists(v)
  BY DEF Unused
<1>2. ~ Exists(u)
  BY <1>1 DEF Unused
<1> QED
  BY <1>1, <1>2 DEF AddUser

\* A step that writes a row of an account, its link as it was or gone.
LEMMA SameLinkStep ==
  ASSUME TypesInv, NEW u \in Users, Exists(u), NEW row \in UserRow,
         row.servant \in {Nobody, users[u].servant},
         users' = [users EXCEPT ![u] = row] \/ users' = users,
         servants' \in [Servants -> {NoServant} \cup ServantRow],
         \A s \in Servants : Present(s) => Present(s)',
         resets' \subseteq resets,
         \/ tokens' = tokens
         \/ \E ids \in SUBSET Tokens :
               (\A t \in ids : tokens[t] # NoToken) /\ tokens' = Revoked(ids),
         UNCHANGED <<teams, coordinators, enforced>>
  PROVE  AccountsKept
<1>1. row.servant # Nobody =>
         /\ Present(row.servant)'
         /\ \A v \in Users \ {u} : Exists(v) => users[v].servant # row.servant
  <2> SUFFICES ASSUME row.servant # Nobody
               PROVE  /\ Present(row.servant)'
                      /\ \A v \in Users \ {u} : Exists(v) => users[v].servant # row.servant
    OBVIOUS
  <2>1. PICK s : s = row.servant /\ s = users[u].servant
    OBVIOUS
  <2>2. s \in Servants
    BY <2>1, UserTyped DEF TypesInv
  <2> QED
    BY <2>1, <2>2, KeptLink
<1> QED
  BY <1>1, UserStep

LEMMA ServantsStay ==
  ASSUME TypesInv, servants' = servants
  PROVE  /\ servants' \in [Servants -> {NoServant} \cup ServantRow]
         /\ \A s \in Servants : Present(s) => Present(s)'
  BY DEF TypesInv, AccountsTyped, Present

LEMMA CommitCreateUserTypes ==
  ASSUME TypesInv, NEW r \in Requests, NEW status \in Statuses, CommitCreateUser(r, status)
  PROVE  AccountsKept
<1>1. req[r].stage = "creatingUser" /\ AccountCarries(r)
  BY DEF CommitCreateUser, TypesInv, Carries
<1>2. UNCHANGED <<tokens, resets, servants, teams, coordinators, enforced>>
  BY DEF CommitCreateUser
<1>3. CASE Clash(Nobody, req[r].account.servant)
  BY <1>2, <1>3, AccountsSame DEF CommitCreateUser, accountTables
<1>4. CASE ~ Clash(Nobody, req[r].account.servant)
  <2>1. PICK row : row = [req[r].account EXCEPT !.status = status]
    OBVIOUS
  <2>2. row \in UserRow /\ row.servant = req[r].account.servant
    BY <1>1, <2>1 DEF AccountCarries, UserRow
  <2>3. PICK u \in Users : ~ Exists(u) /\ users' = [users EXCEPT ![u] = row]
    BY <1>4, <2>1, AddedUser DEF CommitCreateUser
  <2>4. row.servant # Nobody =>
         /\ Present(row.servant)'
         /\ \A v \in Users \ {u} : Exists(v) => users[v].servant # row.servant
    <3> SUFFICES ASSUME row.servant # Nobody
                 PROVE  /\ Present(row.servant)'
                        /\ \A v \in Users \ {u} : Exists(v) => users[v].servant # row.servant
      OBVIOUS
    <3>1. Present(row.servant)'
      BY <1>1, <1>2, <2>2 DEF AccountCarries, Present
    <3>2. ASSUME NEW v \in Users, Exists(v), users[v].servant = row.servant PROVE FALSE
      <4>1. v \in AccountsOf(row.servant) /\ v # Nobody
        BY <3>2, AccountsAssumption DEF AccountsOf
      <4> QED
        BY <1>4, <2>2, <4>1 DEF Clash
    <3> QED
      BY <3>1, <3>2
  <2> QED
    BY <1>2, <2>2, <2>3, <2>4, UserStep, ServantsStay
<1> QED
  BY <1>3, <1>4

LEMMA CommitLinkTypes ==
  ASSUME TypesInv, NEW r \in Requests, CommitLink(r)
  PROVE  AccountsKept
<1>1. PICK u, s : u = req[r].user /\ s = req[r].servant
  OBVIOUS
<1>2. /\ u \in Users /\ Exists(u) /\ s \in Servants \cup {Nobody}
      /\ s # Nobody => Present(s)
  BY <1>1 DEF CommitLink, TypesInv, Carries, AccountCarries
<1>3. UNCHANGED <<tokens, resets, servants, teams, coordinators, enforced>>
  BY DEF CommitLink
<1>4. CASE users' = users
  BY <1>3, <1>4, AccountsSame DEF accountTables
<1>5. CASE users' # users
  <2>1. PICK row : row = [users[u] EXCEPT !.servant = s]
    OBVIOUS
  <2>2. row \in UserRow /\ row.servant = s
    BY <1>2, <2>1, UserTyped DEF UserRow, TypesInv
  <2>3. users' = [users EXCEPT ![u] = row] /\ ~ Clash(u, s)
    BY <1>1, <1>5, <2>1 DEF CommitLink
  <2>4. s # Nobody => Present(s)' /\ \A v \in Users \ {u} : Exists(v) => users[v].servant # s
    BY <1>2, <1>3, <2>3 DEF Clash, AccountsOf, Present
  <2> QED
    BY <1>2, <1>3, <2>2, <2>3, <2>4, UserStep, ServantsStay
<1> QED
  BY <1>4, <1>5

LEMMA CommitRoleTypes ==
  ASSUME TypesInv, NEW r \in Requests, CommitRole(r)
  PROVE  AccountsKept
<1>1. PICK u, role : u = req[r].user /\ role = req[r].role
  OBVIOUS
<1>2. u \in Users /\ Exists(u) /\ role \in Roles
  BY <1>1 DEF CommitRole, TypesInv, Carries, AccountCarries
<1>3. UNCHANGED <<tokens, resets, servants, teams, coordinators, enforced>>
  BY DEF CommitRole
<1>4. CASE users' = users
  BY <1>3, <1>4, AccountsSame DEF accountTables
<1>5. CASE users' # users
  <2>1. PICK row : row = [users[u] EXCEPT !.role = role,
                                          !.grant.scope = IF role = "SERVO" THEN "SELF" ELSE @]
    OBVIOUS
  <2>2. row \in UserRow /\ row.servant = users[u].servant
    BY ZenonT(60), <1>2, <2>1, UserTyped DEF UserRow, TypesInv, Scopes
  <2>3. users' = [users EXCEPT ![u] = row]
    BY <1>1, <1>5, <2>1 DEF CommitRole
  <2> QED
    BY <1>2, <1>3, <2>2, <2>3, SameLinkStep, ServantsStay
<1> QED
  BY <1>4, <1>5

LEMMA RotateTypes ==
  ASSUME TypesInv, NEW r \in Requests, Rotate(r)
  PROVE  AccountsKept
<1>1. PICK old : old = req[r].old
  OBVIOUS
<1>2. old \in Tokens /\ tokens[old] # NoToken
  BY <1>1 DEF Rotate, TypesInv, Carries, AccountCarries
<1>3. /\ UNCHANGED <<users, resets, servants, teams, coordinators, enforced>>
      /\ tokens' = Revoked({old})
  BY <1>1 DEF Rotate
<1>4. AccountsTyped /\ AccountsLinked /\ TokensLinked
  BY DEF TypesInv
<1>5. /\ users' \in [Users -> {NoUser} \cup UserRow] /\ AccountsLinked'
      /\ \A v \in Users : Exists(v) => Exists(v)'
      /\ (\A m \in Ministries : coordinators[m] \in Users => Exists(coordinators[m]))'
      /\ \A p \in Servants : Present(p) => Present(p)'
  BY <1>3, <1>4, UsersStay, ServantsStay
<1>6. {old} \in SUBSET Tokens /\ \A t \in {old} : tokens[t] # NoToken
  BY <1>2
<1>7. /\ tokens' \in [Tokens -> {NoToken} \cup TokenRow] /\ TokensLinked'
      /\ \A t \in Tokens : tokens[t] # NoToken =>
            tokens'[t] # NoToken /\ tokens'[t].user = tokens[t].user
  BY <1>3, <1>4, <1>5, <1>6, TokensRevoked
<1> QED
  BY <1>3, <1>4, <1>5, <1>7 DEF AccountsKept, AccountsTyped, AccountsGrow

\* The next token is one there was none of.
LEMMA NextTokenFree ==
  ASSUME \E t \in Tokens : tokens[t] = NoToken
  PROVE  NextToken \in Tokens /\ tokens[NextToken] = NoToken
<1>1. PICK t \in {v \in Tokens : tokens[v] = NoToken} :
         \A v \in {w \in Tokens : tokens[w] = NoToken} : t <= v
  BY LeastNatural, AccountsAssumption
<1>2. \A v \in Tokens : v < t => tokens[v] # NoToken
  BY <1>1, AccountsAssumption
<1> QED
  BY <1>1, <1>2 DEF NextToken

\* The token that is opened is of the session it says, or starts one.
LEMMA OpenedToken ==
  ASSUME TypesInv, NEW r \in Requests, OpenSession(r)
  PROVE  \E n \in Tokens, row \in TokenRow :
            /\ n = NextToken /\ tokens[n] = NoToken
            /\ tokens' = [tokens EXCEPT ![n] = row]
            /\ row.user = req[r].token.user /\ Exists(row.user) /\ row.live
            /\ row.password = req[r].token.password /\ row.period = req[r].token.period
            /\ \/ row.session = n /\ req[r].token.session = 0
               \/ /\ row.session = req[r].token.session
                  /\ tokens[row.session] # NoToken /\ tokens[row.session].user = row.user
<1>1. PICK token, n : token = req[r].token /\ n = NextToken
  OBVIOUS
<1>2. /\ token \in [user : Users, password : Nat, period : Nat, live : {TRUE},
                     session : Tokens \cup {0}]
      /\ Exists(token.user)
      /\ token.session \in Tokens =>
            tokens[token.session] # NoToken /\ tokens[token.session].user = token.user
  BY <1>1 DEF OpenSession, TypesInv, Carries, AccountCarries
<1>3. n \in Tokens /\ tokens[n] = NoToken
  BY <1>1, NextTokenFree DEF OpenSession
<1>4. PICK row : row = [token EXCEPT !.session = IF @ = 0 THEN n ELSE @]
  OBVIOUS
<1>5. row \in TokenRow
  BY <1>2, <1>3, <1>4 DEF TokenRow
<1>6. /\ row.user = token.user /\ row.live
      /\ row.password = token.password /\ row.period = token.period
      /\ row.session = IF token.session = 0 THEN n ELSE token.session
  BY <1>2, <1>4
<1>7. tokens' = [tokens EXCEPT ![n] = row]
  BY <1>1, <1>4 DEF OpenSession
<1> QED
  BY ZenonT(60), <1>1, <1>2, <1>3, <1>5, <1>6, <1>7, AccountsAssumption DEF Exists

LEMMA OpenSessionTypes ==
  ASSUME TypesInv, NEW r \in Requests, OpenSession(r)
  PROVE  AccountsKept
<1>1. UNCHANGED <<users, resets, servants, teams, coordinators, enforced>>
  BY DEF OpenSession
<1>2. AccountsTyped /\ AccountsLinked /\ TokensLinked
  BY DEF TypesInv
<1>3. /\ users' \in [Users -> {NoUser} \cup UserRow] /\ AccountsLinked'
      /\ \A v \in Users : Exists(v) => Exists(v)'
      /\ (\A m \in Ministries : coordinators[m] \in Users => Exists(coordinators[m]))'
      /\ \A p \in Servants : Present(p) => Present(p)'
  BY <1>1, <1>2, UsersStay, ServantsStay
<1>4. PICK n \in Tokens, row \in TokenRow :
         /\ tokens[n] = NoToken
         /\ tokens' = [tokens EXCEPT ![n] = row]
         /\ Exists(row.user)
         /\ \/ row.session = n
            \/ tokens[row.session] # NoToken /\ tokens[row.session].user = row.user
  BY OpenedToken
<1>5. /\ tokens' \in [Tokens -> {NoToken} \cup TokenRow]
      /\ tokens'[n] = row /\ row # NoToken /\ \A t \in Tokens \ {n} : tokens'[t] = tokens[t]
  BY <1>2, <1>4, AccountsAssumption DEF AccountsTyped
<1>6. TokensLinked'
  <2> SUFFICES ASSUME NEW t \in Tokens, tokens'[t] # NoToken
               PROVE  /\ Exists(tokens[t].user)'
                      /\ tokens'[tokens'[t].session] # NoToken
                      /\ tokens'[tokens'[t].session].user = tokens'[t].user
    BY DEF TokensLinked
  <2>1. CASE t = n
    BY <1>1, <1>4, <1>5, <2>1 DEF Exists, TokenRow
  <2>2. CASE t # n
    <3>1. PICK v : v = tokens[t].session
      OBVIOUS
    <3>2. /\ v \in Tokens \ {n} /\ tokens[v] # NoToken /\ tokens[v].user = tokens[t].user
          /\ Exists(tokens[t].user)
      BY <1>2, <1>4, <1>5, <2>2, <3>1 DEF TokensLinked, AccountsTyped, TokenRow
    <3> QED
      BY <1>1, <1>5, <2>2, <3>1, <3>2 DEF Exists
  <2> QED
    BY <2>1, <2>2
<1> QED
  BY <1>1, <1>2, <1>3, <1>4, <1>5, <1>6 DEF AccountsKept, AccountsTyped, AccountsGrow

LEMMA TokensOfTyped ==
  ASSUME NEW u
  PROVE  TokensOf(u) \in SUBSET Tokens /\ \A t \in TokensOf(u) : tokens[t] # NoToken
  BY DEF TokensOf

\* A new password, whoever sets it.
LEMMA NewPasswordTypes ==
  ASSUME TypesInv, NEW u \in Users, Exists(u), NewPassword(u), resets' \subseteq resets,
         UNCHANGED <<servants, teams, coordinators, enforced>>
  PROVE  AccountsKept
<1>1. PICK row : row = [users[u] EXCEPT !.password = @ + 1]
  OBVIOUS
<1>2. row \in UserRow /\ row.servant = users[u].servant
  BY <1>1, UserTyped DEF UserRow, TypesInv
<1>3. users' = [users EXCEPT ![u] = row] /\ tokens' = Revoked(TokensOf(u))
  BY <1>1 DEF NewPassword
<1> QED
  BY <1>2, <1>3, SameLinkStep, ServantsStay, TokensOfTyped

LEMMA CommitPasswordTypes ==
  ASSUME TypesInv, NEW r \in Requests, CommitPassword(r)
  PROVE  AccountsKept
<1>1. PICK u : u = req[r].user
  OBVIOUS
<1>2. u \in Users /\ Exists(u)
  BY <1>1 DEF CommitPassword, TypesInv, Carries, AccountCarries
<1>3. /\ NewPassword(u) /\ resets' \subseteq resets
      /\ UNCHANGED <<servants, teams, coordinators, enforced>>
  BY <1>1 DEF CommitPassword
<1> QED
  BY <1>2, <1>3, NewPasswordTypes

\* The row of an account that is given a status.
LEMMA StandingRow ==
  ASSUME TypesInv, NEW u \in Users, Exists(u), NEW status \in Statuses
  PROVE  /\ Standing(u, status) \in UserRow
         /\ Standing(u, status).servant = users[u].servant
         /\ Standing(u, status).role = users[u].role
         /\ Standing(u, status).status = status
         /\ Standing(u, status).password = users[u].password
         /\ Standing(u, status).period = IF users[u].status = "ACTIVE" /\ status = "INACTIVE"
                                         THEN users[u].period + 1 ELSE users[u].period
<1>1. PICK p : p = users[u] /\ p \in UserRow
  BY UserTyped DEF TypesInv
<1>2. PICK n : n = IF p.status = "ACTIVE" /\ status = "INACTIVE" THEN p.period + 1 ELSE p.period
  OBVIOUS
<1>3. n \in Nat
  BY <1>1, <1>2 DEF UserRow
<1>4. Standing(u, status) = [p EXCEPT !.status = status, !.period = n]
  BY <1>1, <1>2 DEF Standing
<1>5. [p EXCEPT !.status = status, !.period = n] \in UserRow
  BY <1>1, <1>3 DEF UserRow
<1>6. PICK row : row = [p EXCEPT !.status = status, !.period = n]
  OBVIOUS
<1>7. /\ row.servant = p.servant /\ row.role = p.role /\ row.status = status
      /\ row.password = p.password /\ row.period = n
  BY <1>1, <1>6 DEF UserRow
<1> QED
  BY <1>1, <1>2, <1>4, <1>5, <1>6, <1>7

LEMMA CommitStatusTypes ==
  ASSUME TypesInv, NEW r \in Requests, CommitStatus(r)
  PROVE  AccountsKept
<1>1. PICK u, status : u = req[r].user /\ status = req[r].status
  OBVIOUS
<1>2. u \in Users /\ Exists(u) /\ status \in Statuses
  BY <1>1 DEF CommitStatus, TypesInv, Carries, AccountCarries
<1>3. /\ users' = [users EXCEPT ![u] = Standing(u, status)]
      /\ tokens' = tokens \/ tokens' = Revoked(TokensOf(u))
      /\ UNCHANGED <<resets, servants, teams, coordinators, enforced>>
  BY <1>1 DEF CommitStatus
<1>4. PICK row : row = Standing(u, status)
  OBVIOUS
<1>5. row \in UserRow /\ row.servant = users[u].servant
  BY <1>2, <1>4, StandingRow
<1>6. \/ tokens' = tokens
      \/ \E ids \in SUBSET Tokens :
            (\A t \in ids : tokens[t] # NoToken) /\ tokens' = Revoked(ids)
  BY <1>3, TokensOfTyped
<1> QED
  BY <1>2, <1>3, <1>4, <1>5, <1>6, SameLinkStep, ServantsStay

LEMMA CommitRemoveTypes ==
  ASSUME TypesInv, NEW r \in Requests, CommitRemove(r)
  PROVE  AccountsKept
<1>1. PICK u : u = req[r].user
  OBVIOUS
<1>2. u \in Users /\ Exists(u)
  BY <1>1 DEF CommitRemove, TypesInv, Carries, AccountCarries
<1>3. UNCHANGED <<resets, servants, teams, coordinators, enforced>>
  BY DEF CommitRemove
<1>4. CASE UNCHANGED <<users, tokens>>
  BY <1>3, <1>4, AccountsSame DEF accountTables
<1>5. CASE ~ UNCHANGED <<users, tokens>>
  <2>1. PICK row : row = [Standing(u, "INACTIVE") EXCEPT !.servant = Nobody, !.gone = TRUE]
    OBVIOUS
  <2>2. users' = [users EXCEPT ![u] = row] /\ tokens' = Revoked(TokensOf(u))
    BY <1>1, <1>5, <2>1 DEF CommitRemove
  <2>3. row \in UserRow /\ row.servant = Nobody
    BY ZenonT(60), <1>2, <2>1, StandingRow DEF UserRow, Statuses
  <2> QED
    BY <1>2, <1>3, <2>2, <2>3, SameLinkStep, ServantsStay, TokensOfTyped
<1> QED
  BY <1>4, <1>5

\* Of a row of a servant that is written, what stays as it was.
SamePost(row, s) ==
    row.main = servants[s].main /\ row.training = servants[s].training
SameStatus(row, s) == row.status = servants[s].status

LEMMA ApprovedServant ==
  ASSUME TypesInv, NEW r \in Requests, CommitApproval(r)
  PROVE  \E s \in Servants, row \in ServantRow :
            /\ s = req[r].servant /\ Present(s) /\ servants' = [servants EXCEPT ![s] = row]
            /\ SamePost(row, s) /\ SameStatus(row, s) /\ row.team = servants[s].team
<1>1. PICK s : s = req[r].servant
  OBVIOUS
<1>2. s \in Servants /\ Present(s)
  BY <1>1 DEF CommitApproval, TypesInv, Carries, AccountCarries
<1>3. PICK p, yes : p = servants[s] /\ yes = (req[r].status = "ACTIVE")
  OBVIOUS
<1>4. p \in ServantRow /\ yes \in BOOLEAN
  BY <1>2, <1>3, ServantTyped DEF TypesInv
<1>5. PICK row : row = [p EXCEPT !.approved = yes]
  OBVIOUS
<1>6. /\ row \in ServantRow /\ row.main = p.main /\ row.training = p.training
      /\ row.team = p.team /\ row.status = p.status
  BY <1>4, <1>5 DEF ServantRow
<1>7. servants' = [servants EXCEPT ![s] = row]
  BY <1>1, <1>3, <1>5 DEF CommitApproval
<1> QED
  BY <1>1, <1>2, <1>3, <1>6, <1>7 DEF SamePost, SameStatus

LEMMA MovedServant ==
  ASSUME TypesInv, NEW r \in Requests, CommitMember(r)
  PROVE  \E s \in Servants, row \in ServantRow :
            /\ s = req[r].servant /\ Present(s) /\ servants' = [servants EXCEPT ![s] = row]
            /\ SamePost(row, s) /\ SameStatus(row, s) /\ row.team = req[r].team
<1>1. PICK s, t : s = req[r].servant /\ t = req[r].team
  OBVIOUS
<1>2. s \in Servants /\ Present(s) /\ t \in Teams \cup {NoTeam}
  BY <1>1 DEF CommitMember, TypesInv, Carries, ServantCarries
<1>3. PICK p : p = servants[s]
  OBVIOUS
<1>4. p \in ServantRow
  BY <1>2, <1>3, ServantTyped DEF TypesInv
<1>5. PICK row : row = [p EXCEPT !.team = t]
  OBVIOUS
<1>6. /\ row \in ServantRow /\ row.main = p.main /\ row.training = p.training
      /\ row.team = t /\ row.status = p.status
  BY <1>2, <1>4, <1>5 DEF ServantRow
<1>7. servants' = [servants EXCEPT ![s] = row]
  BY <1>1, <1>3, <1>5 DEF CommitMember
<1> QED
  BY <1>1, <1>2, <1>3, <1>6, <1>7 DEF SamePost, SameStatus

LEMMA ActiveServant ==
  ASSUME TypesInv, NEW r \in Requests, CommitActive(r)
  PROVE  \E s \in Servants, row \in ServantRow :
            /\ s = req[r].servant /\ Present(s) /\ servants' = [servants EXCEPT ![s] = row]
            /\ SamePost(row, s) /\ row.status = "ATIVO" /\ row.team = servants[s].team
<1>1. PICK s : s = req[r].servant
  OBVIOUS
<1>2. s \in Servants /\ Present(s)
  BY <1>1 DEF CommitActive, TypesInv, Carries, ServantCarries
<1>3. PICK p : p = servants[s]
  OBVIOUS
<1>4. p \in ServantRow
  BY <1>2, <1>3, ServantTyped DEF TypesInv
<1>5. PICK row : row = [p EXCEPT !.status = "ATIVO"]
  OBVIOUS
<1>6. /\ row \in ServantRow /\ row.main = p.main /\ row.training = p.training
      /\ row.team = p.team /\ row.status = "ATIVO"
  BY <1>4, <1>5 DEF ServantRow, ServantStatuses
<1>7. servants' = [servants EXCEPT ![s] = row]
  BY <1>1, <1>3, <1>5 DEF CommitActive
<1> QED
  BY <1>1, <1>2, <1>3, <1>6, <1>7 DEF SamePost

LEMMA ProfiledServant ==
  ASSUME TypesInv, NEW r \in Requests, CommitProfile(r)
  PROVE  \E s \in Servants, row \in ServantRow :
            /\ s = req[r].servant /\ Present(s) /\ servants' = [servants EXCEPT ![s] = row]
            /\ SamePost(row, s) /\ row.team = servants[s].team
            /\ row.status \in {servants[s].status, req[r].status}
<1>1. PICK s : s = req[r].servant
  OBVIOUS
<1>2. /\ s \in Servants /\ Present(s)
      /\ req[r].status \in ServantStatuses \cup {"same"}
      /\ req[r].summary \in Trainings \cup {"same"}
  BY <1>1 DEF CommitProfile, TypesInv, Carries, ServantCarries
<1>3. PICK p, status, summary :
         /\ p = servants[s]
         /\ status = (IF req[r].status = "same" THEN p.status ELSE req[r].status)
         /\ summary = (IF req[r].summary = "same" THEN p.summary ELSE req[r].summary)
  OBVIOUS
<1>4. p \in ServantRow
  BY <1>2, <1>3, ServantTyped DEF TypesInv
<1>5. status \in ServantStatuses /\ summary \in Trainings
  BY <1>2, <1>3, <1>4 DEF ServantRow
<1>6. PICK row : row = [p EXCEPT !.status = status, !.summary = summary]
  OBVIOUS
<1>7. /\ row \in ServantRow /\ row.main = p.main /\ row.training = p.training
      /\ row.team = p.team /\ row.status = status
  BY <1>4, <1>5, <1>6 DEF ServantRow
<1>8. servants \in [Servants -> {NoServant} \cup ServantRow]
  BY DEF TypesInv, AccountsTyped
<1>9. servants' = [servants EXCEPT ![s] = row]
  BY <1>1, <1>2, <1>3, <1>6, <1>8 DEF CommitProfile
<1> QED
  BY <1>1, <1>2, <1>3, <1>7, <1>9 DEF SamePost

LEMMA TrainedServant ==
  ASSUME TypesInv, NEW r \in Requests, CommitTraining(r), servants' # servants
  PROVE  \E s \in Servants, row \in ServantRow :
            /\ s = req[r].servant /\ Present(s) /\ servants' = [servants EXCEPT ![s] = row]
            /\ row.main = servants[s].main /\ row.team = servants[s].team
            /\ DOMAIN row.training = Serving(s)
            /\ \A m \in Serving(s) :
                  row.training[m] \in {servants[s].training[m], "COMPLETED"}
            /\ row.status = IF req[r].promotes THEN "ATIVO" ELSE servants[s].status
<1>1. PICK s, m : s = req[r].servant /\ m = req[r].ministry
  OBVIOUS
<1>2. /\ s \in Servants /\ Present(s)
      /\ m \in Ministries /\ req[r].promotes \in BOOLEAN
  BY <1>1 DEF CommitTraining, TypesInv, Carries, ServantCarries
<1>3. PICK p, status, summary, all :
         /\ p = servants[s]
         /\ all = (\A n \in Serving(s) \ {m} : Trained(s, n))
         /\ status = (IF req[r].promotes THEN "ATIVO" ELSE p.status)
         /\ summary = (IF all THEN "COMPLETED" ELSE "PENDING")
  OBVIOUS
<1>4. p \in ServantRow /\ m \in DOMAIN p.training
  BY <1>1, <1>2, <1>3, ServantTyped DEF TypesInv, CommitTraining, Serving
<1>5. status \in ServantStatuses /\ summary \in Trainings
  BY <1>2, <1>3, <1>4 DEF ServantRow, ServantStatuses, Trainings
<1>6. PICK ms \in SUBSET Ministries : p.training \in [ms -> Trainings]
  BY <1>4 DEF ServantRow
<1>7. PICK training : training = [p.training EXCEPT ![m] = "COMPLETED"]
  OBVIOUS
<1>8. /\ training \in [ms -> Trainings] /\ DOMAIN training = DOMAIN p.training
      /\ \A n \in DOMAIN p.training : training[n] \in {p.training[n], "COMPLETED"}
  BY <1>6, <1>7 DEF Trainings
<1>9. PICK row : row = [p EXCEPT !.training = training, !.summary = summary, !.status = status]
  OBVIOUS
<1>10. /\ row \in ServantRow /\ row.main = p.main /\ row.training = training
       /\ row.team = p.team /\ row.status = status
  BY <1>4, <1>5, <1>6, <1>8, <1>9 DEF ServantRow
<1>11. servants \in [Servants -> {NoServant} \cup ServantRow]
  BY DEF TypesInv, AccountsTyped
<1>12. servants' = [servants EXCEPT ![s].training[m] = "COMPLETED",
                                    ![s].summary = summary, ![s].status = status]
  BY <1>1, <1>3, <1>4 DEF CommitTraining
<1>13. servants' = [servants EXCEPT ![s] = row]
  BY <1>2, <1>3, <1>4, <1>7, <1>9, <1>11, <1>12
<1> QED
  BY <1>1, <1>2, <1>3, <1>8, <1>10, <1>13 DEF Serving

\* servants.update with ministries: the training of those that stay is what was
\* read, or what it is.
Reposted(r, s, row) ==
    /\ s = req[r].servant /\ Present(s) /\ servants' = [servants EXCEPT ![s] = row]
    /\ SameStatus(row, s)
    /\ row.main = req[r].main /\ row.team = req[r].team
    /\ DOMAIN row.training = req[r].ministries
    /\ \A m \in req[r].ministries \cap Serving(s) :
          \/ m \in DOMAIN req[r].found /\ row.training[m] = req[r].found[m]
          \/ m \notin DOMAIN req[r].found /\ row.training[m] = servants[s].training[m]

LEMMA UpdatedServant ==
  ASSUME TypesInv, NEW r \in Requests, CommitServant(r), servants' # servants
  PROVE  \E s \in Servants, row \in ServantRow : Reposted(r, s, row)
<1>1. PICK s, main, ms, team, found :
         /\ s = req[r].servant /\ main = req[r].main /\ ms = req[r].ministries
         /\ team = req[r].team /\ found = req[r].found
  OBVIOUS
<1>2. /\ s \in Servants /\ Present(s)
      /\ ms \in SUBSET Ministries /\ main \in Ministries /\ team \in Teams \cup {NoTeam}
      /\ found \in UNION {[ns -> Trainings] : ns \in SUBSET Ministries}
  BY <1>1 DEF CommitServant, TypesInv, Carries, ServantCarries
<1>3. PICK p, training :
         /\ p = servants[s]
         /\ training = [m \in ms |->
                          IF m \in ms \cap DOMAIN found THEN found[m]
                          ELSE IF m \in Serving(s) THEN servants[s].training[m] ELSE "PENDING"]
  OBVIOUS
<1>4. p \in ServantRow
  BY <1>2, <1>3, ServantTyped DEF TypesInv
<1>5. \A m \in DOMAIN found : found[m] \in Trainings
  BY <1>2
<1>6. \A m \in Serving(s) : servants[s].training[m] \in Trainings
  BY <1>2, ServantTyped DEF TypesInv
<1>7. training \in [ms -> Trainings]
  BY <1>3, <1>5, <1>6 DEF Trainings
<1>8. training \in UNION {[ns -> Trainings] : ns \in SUBSET Ministries}
  BY <1>2, <1>7
<1>9. PICK row : row = [p EXCEPT !.main = main, !.training = training, !.team = team]
  OBVIOUS
<1>10. /\ row \in ServantRow /\ row.main = main /\ row.training = training
       /\ row.team = team /\ row.status = p.status
  BY <1>2, <1>4, <1>8, <1>9 DEF ServantRow
<1>11. servants' = [servants EXCEPT ![s] = row]
  BY <1>1, <1>3, <1>9 DEF CommitServant
<1>12. /\ DOMAIN training = ms
       /\ \A m \in ms \cap Serving(s) :
             \/ m \in DOMAIN found /\ training[m] = found[m]
             \/ m \notin DOMAIN found /\ training[m] = servants[s].training[m]
  BY <1>3
<1>13. /\ s = req[r].servant /\ Present(s) /\ servants' = [servants EXCEPT ![s] = row]
       /\ SameStatus(row, s)
       /\ row.main = req[r].main /\ row.team = req[r].team
       /\ DOMAIN row.training = req[r].ministries
  BY <1>1, <1>2, <1>3, <1>10, <1>11, <1>12 DEF SameStatus
<1>14. \A m \in req[r].ministries \cap Serving(s) :
          \/ m \in DOMAIN req[r].found /\ row.training[m] = req[r].found[m]
          \/ m \notin DOMAIN req[r].found /\ row.training[m] = servants[s].training[m]
  BY <1>1, <1>10, <1>12
<1>15. s \in Servants /\ row \in ServantRow
  BY <1>2, <1>10
<1>16. Reposted(r, s, row)
  BY <1>13, <1>14 DEF Reposted
<1> QED
  BY <1>15, <1>16

LEMMA CommitApprovalTypes ==
  ASSUME TypesInv, NEW r \in Requests, CommitApproval(r)
  PROVE  AccountsKept
<1>1. PICK u, status : u = req[r].user /\ status = req[r].status
  OBVIOUS
<1>2. /\ u # Nobody => u \in Users /\ Exists(u)
      /\ status \in Statuses
  BY <1>1 DEF CommitApproval, TypesInv, Carries, AccountCarries
<1>3. UNCHANGED <<tokens, resets, teams, coordinators, enforced>>
  BY DEF CommitApproval
<1>4. PICK s \in Servants, srow \in ServantRow : servants' = [servants EXCEPT ![s] = srow]
  BY ApprovedServant
<1>5. /\ servants' \in [Servants -> {NoServant} \cup ServantRow]
      /\ \A p \in Servants : Present(p) => Present(p)'
  BY <1>4, ServantWritten DEF TypesInv
<1>6. CASE u = Nobody
  <2>1. users' = users
    BY <1>1, <1>6 DEF CommitApproval
  <2> QED
    BY <1>3, <1>4, <2>1, ServantStep
<1>7. CASE u # Nobody
  <2>1. PICK row : row = [users[u] EXCEPT !.status = status]
    OBVIOUS
  <2>2. row \in UserRow /\ row.servant = users[u].servant
    BY <1>2, <1>7, <2>1, UserTyped DEF UserRow, TypesInv
  <2>3. users' = [users EXCEPT ![u] = row]
    BY <1>1, <1>7, <2>1 DEF CommitApproval
  <2> QED
    BY <1>2, <1>3, <1>5, <1>7, <2>2, <2>3, SameLinkStep
<1> QED
  BY <1>6, <1>7

LEMMA CommitLeaderTypes ==
  ASSUME TypesInv, NEW t \in Teams, NEW u \in Users \cup {Nobody},
         teams' = [teams EXCEPT ![t].leader = u],
         UNCHANGED <<users, tokens, resets, servants, coordinators, enforced>>
  PROVE  AccountsKept
<1>1. teams' \in [Teams -> TeamRow]
  BY DEF TypesInv, AccountsTyped, TeamRow
<1>2. AccountsTyped /\ AccountsLinked /\ TokensLinked
  BY DEF TypesInv
<1> QED
  BY <1>1, <1>2 DEF AccountsKept, AccountsTyped, AccountsLinked, TokensLinked, AccountsGrow,
                    Exists, Present

LEMMA SetTeamStatusTypes ==
  ASSUME TypesInv, NEW t \in Teams, NEW status \in Statuses,
         teams' = [teams EXCEPT ![t].status = status],
         UNCHANGED <<users, tokens, resets, servants, coordinators, enforced>>
  PROVE  AccountsKept
<1>1. teams' \in [Teams -> TeamRow]
  BY DEF TypesInv, AccountsTyped, TeamRow
<1>2. AccountsTyped /\ AccountsLinked /\ TokensLinked
  BY DEF TypesInv
<1> QED
  BY <1>1, <1>2 DEF AccountsKept, AccountsTyped, AccountsLinked, TokensLinked, AccountsGrow,
                    Exists, Present

-----------------------------------------------------------------------------
(* The script.                                                             *)

LEMMA RepairLinkTypes ==
  ASSUME TypesInv, NEW r \in Requests, RepairLink(r)
  PROVE  AccountsKept
<1>1. PICK link \in req[r].links :
         users' = IF /\ users[link[1]].role = "SERVO"
                     /\ users[link[1]].servant \in {Nobody, link[2]}
                     /\ ~ Clash(link[1], link[2])
                  THEN [users EXCEPT ![link[1]].servant = link[2], ![link[1]].grant.scope = "SELF"]
                  ELSE users
  BY DEF RepairLink
<1>2. PICK u, s : u = link[1] /\ s = link[2]
  OBVIOUS
<1>3. u \in Users /\ s \in Servants /\ Exists(u) /\ Present(s)
  BY ZenonT(60), <1>1, <1>2 DEF RepairLink, TypesInv, Carries, AccountCarries
<1>4. UNCHANGED <<tokens, resets, servants, teams, coordinators, enforced>>
  BY DEF RepairLink
<1>5. CASE users' = users
  BY <1>4, <1>5, AccountsSame DEF accountTables
<1>6. CASE users' # users
  <2>1. PICK row : row = [users[u] EXCEPT !.servant = s, !.grant.scope = "SELF"]
    OBVIOUS
  <2>2. row \in UserRow /\ row.servant = s
    BY <1>3, <2>1, UserTyped DEF UserRow, TypesInv, Scopes
  <2>3. users' = [users EXCEPT ![u] = row] /\ ~ Clash(u, s)
    BY <1>1, <1>2, <1>6, <2>1
  <2>4. Present(s)' /\ s # Nobody
    BY <1>3, <1>4, AccountsAssumption DEF Present
  <2>5. \A v \in Users \ {u} : Exists(v) => users[v].servant # s
    BY <2>3, <2>4 DEF Clash, AccountsOf
  <2> QED
    BY <1>3, <1>4, <2>2, <2>3, <2>4, <2>5, UserStep, ServantsStay
<1> QED
  BY <1>5, <1>6

LEMMA NewServo ==
  ASSUME NEW s \in Servants, NEW status \in Statuses
  PROVE  /\ Account("SERVO", s, status, Unbound("SELF")) \in UserRow
         /\ Account("SERVO", s, status, Unbound("SELF")).servant = s
         /\ Account("SERVO", s, status, Unbound("SELF")).role = "SERVO"
  BY DEF Account, Unbound, UserRow, Roles, Scopes

LEMMA RepairProvisionTypes ==
  ASSUME TypesInv, NEW r \in Requests, RepairProvision(r)
  PROVE  AccountsKept
<1>1. PICK s \in req[r].without :
         IF AccountsOf(s) = {} /\ Unused # {}
         THEN AddUser(Account("SERVO", s, "INACTIVE", Unbound("SELF"))) ELSE UNCHANGED users
  BY DEF RepairProvision
<1>3. s \in Servants /\ Present(s)
  BY <1>1 DEF RepairProvision, TypesInv, Carries, AccountCarries
<1>4. UNCHANGED <<tokens, resets, servants, teams, coordinators, enforced>>
  BY DEF RepairProvision
<1>5. CASE users' = users
  BY <1>4, <1>5, AccountsSame DEF accountTables
<1>6. CASE users' # users
  <2>1. PICK row : row = Account("SERVO", s, "INACTIVE", Unbound("SELF"))
    OBVIOUS
  <2>2. row \in UserRow /\ row.servant = s
    BY <1>3, <2>1, NewServo DEF Statuses
  <2>3. AccountsOf(s) = {} /\ Unused # {} /\ AddUser(row)
    BY <1>1, <1>6, <2>1
  <2>4. PICK u \in Users : users' = [users EXCEPT ![u] = row]
    BY <2>3, AddedUser
  <2>5. Present(s)'
    BY <1>3, <1>4 DEF Present
  <2>6. \A v \in Users \ {u} : Exists(v) => users[v].servant # s
    BY <2>3 DEF AccountsOf
  <2> QED
    BY <1>3, <1>4, <2>2, <2>4, <2>5, <2>6, UserStep, ServantsStay
<1> QED
  BY <1>5, <1>6

-----------------------------------------------------------------------------
(* What is done to accounts at once keeps the types of the tables.         *)

LEMMA ApplyMigrationTypes ==
  ASSUME TypesInv, ApplyMigration
  PROVE  AccountsKept
<1>1. /\ enforced' = TRUE
      /\ UNCHANGED <<users, tokens, resets, servants, teams, coordinators>>
  BY DEF ApplyMigration
<1>2. AccountsTyped /\ AccountsLinked /\ TokensLinked
  BY DEF TypesInv
<1> QED
  BY <1>1, <1>2 DEF AccountsKept, AccountsTyped, AccountsLinked, TokensLinked, AccountsGrow,
                    Exists, Present

LEMMA BoundTyped ==
  ASSUME NEW grant \in Given
  PROVE  Bound(grant) \in [scope : Scopes, ministries : SUBSET Ministries, teams : SUBSET Teams]
<1>1. grant \in [scope : Scopes, ministries : SUBSET Ministries, teams : SUBSET Teams]
  BY AccountsAssumption DEF Grants, Scopes
<1> QED
  BY <1>1 DEF Bound, Unbound, Scopes

LEMMA UpdateScopeTypes ==
  ASSUME TypesInv, NEW u \in Users, NEW grant \in Given, UpdateScope(u, grant)
  PROVE  AccountsKept
<1>1. PICK bound : bound = Bound(grant)
  OBVIOUS
<1>2. bound \in [scope : Scopes, ministries : SUBSET Ministries, teams : SUBSET Teams]
  BY <1>1, BoundTyped
<1>3. PICK row : row = [users[u] EXCEPT !.grant = bound]
  OBVIOUS
<1>4. Exists(u) /\ UNCHANGED <<tokens, resets, servants, teams, coordinators, enforced>>
  BY DEF UpdateScope
<1>5. row \in UserRow /\ row.servant = users[u].servant
  BY <1>2, <1>3, <1>4, UserTyped DEF UserRow, TypesInv
<1>6. users' = [users EXCEPT ![u] = row]
  BY <1>1, <1>3 DEF UpdateScope
<1> QED
  BY <1>4, <1>5, <1>6, SameLinkStep, ServantsStay

LEMMA LogoutTypes ==
  ASSUME TypesInv, NEW t \in Tokens, Logout(t)
  PROVE  AccountsKept
<1>1. /\ tokens[t] # NoToken /\ tokens' = Revoked({t})
      /\ UNCHANGED <<users, resets, servants, teams, coordinators, enforced>>
  BY DEF Logout, Live
<1>2. AccountsTyped /\ AccountsLinked /\ TokensLinked
  BY DEF TypesInv
<1>3. /\ users' \in [Users -> {NoUser} \cup UserRow] /\ AccountsLinked'
      /\ \A v \in Users : Exists(v) => Exists(v)'
      /\ (\A m \in Ministries : coordinators[m] \in Users => Exists(coordinators[m]))'
      /\ \A p \in Servants : Present(p) => Present(p)'
  BY <1>1, <1>2, UsersStay, ServantsStay
<1>4. {t} \in SUBSET Tokens /\ \A v \in {t} : tokens[v] # NoToken
  BY <1>1
<1>5. /\ tokens' \in [Tokens -> {NoToken} \cup TokenRow] /\ TokensLinked'
      /\ \A v \in Tokens : tokens[v] # NoToken =>
            tokens'[v] # NoToken /\ tokens'[v].user = tokens[v].user
  BY <1>1, <1>2, <1>3, <1>4, TokensRevoked
<1> QED
  BY <1>1, <1>2, <1>3, <1>5 DEF AccountsKept, AccountsTyped, AccountsGrow

LEMMA ForgotPasswordTypes ==
  ASSUME TypesInv, NEW u \in Users, ForgotPassword(u)
  PROVE  AccountsKept
<1>1. /\ resets' = resets \cup {u} /\ Exists(u)
      /\ UNCHANGED <<users, tokens, servants, teams, coordinators, enforced>>
  BY DEF ForgotPassword
<1>2. AccountsTyped /\ AccountsLinked /\ TokensLinked
  BY DEF TypesInv
<1> QED
  BY <1>1, <1>2 DEF AccountsKept, AccountsTyped, AccountsLinked, TokensLinked, AccountsGrow,
                    Exists, Present

LEMMA AdminResetPasswordTypes ==
  ASSUME TypesInv, NEW u \in Users, AdminResetPassword(u)
  PROVE  AccountsKept
  BY NewPasswordTypes DEF AdminResetPassword

LEMMA NewServantTyped ==
  ASSUME NEW main \in Ministries, NEW ms \in SUBSET Ministries, NEW t \in Teams \cup {NoTeam},
         NEW standing \in ServantStatuses
  PROVE  \E row \in ServantRow :
            /\ row = Servant(main, Untrained(ms), t, standing)
            /\ row.main = main /\ row.training = Untrained(ms) /\ row.team = t
<1>1. PICK training : training = Untrained(ms)
  OBVIOUS
<1>2. training \in [ms -> Trainings]
  BY <1>1 DEF Untrained, Trainings
<1>3. training \in UNION {[ns -> Trainings] : ns \in SUBSET Ministries}
  BY <1>2
<1>4. PICK row : row = Servant(main, training, t, standing)
  OBVIOUS
<1>5. row \in ServantRow /\ row.main = main /\ row.training = training /\ row.team = t
  BY <1>3, <1>4 DEF Servant, ServantRow, Trainings
<1> QED
  BY <1>1, <1>4, <1>5

LEMMA CreateWithUserTypes ==
  ASSUME TypesInv, NEW s \in Servants, NEW main, NEW ms \in SUBSET Ministries,
         NEW t \in Teams \cup {NoTeam}, NEW standing \in {"RECRUTAMENTO", "ATIVO"},
         NEW status \in Statuses, main \in ms,
         CreateWithUser(s, main, ms, t, standing, status)
  PROVE  AccountsKept
<1>1. /\ ~ Present(s) /\ Unused # {}
      /\ AddUser(Account("SERVO", s, status, Unbound("SELF")))
      /\ UNCHANGED <<tokens, resets, teams, coordinators, enforced>>
  BY DEF CreateWithUser
<1>2. main \in Ministries /\ standing \in ServantStatuses
  BY DEF ServantStatuses
<1>3. PICK srow \in ServantRow : srow = Servant(main, Untrained(ms), t, standing)
  BY <1>2, NewServantTyped
<1>4. servants' = [servants EXCEPT ![s] = srow]
  BY <1>3 DEF CreateWithUser
<1>5. /\ servants' \in [Servants -> {NoServant} \cup ServantRow] /\ Present(s)'
      /\ \A p \in Servants : Present(p) => Present(p)'
  BY <1>4, ServantWritten DEF TypesInv
<1>6. PICK row : row = Account("SERVO", s, status, Unbound("SELF"))
  OBVIOUS
<1>7. row \in UserRow /\ row.servant = s
  BY <1>6, NewServo
<1>8. PICK u \in Users : users' = [users EXCEPT ![u] = row]
  BY <1>1, <1>6, AddedUser
<1>9. ASSUME NEW v \in Users, Exists(v), users[v].servant = s PROVE FALSE
  BY <1>1, <1>9, AccountsAssumption DEF TypesInv, AccountsLinked
<1>10. Present(row.servant)'
  BY <1>5, <1>7 DEF Present
<1> QED
  BY <1>1, <1>5, <1>7, <1>8, <1>9, <1>10, UserStep

\* The row of a servant when the members of a ministry are replaced.
LEMMA ReplacedMember ==
  ASSUME TypesInv, NEW m \in Ministries, NEW members \in SUBSET Servants,
         ReplaceMembers(m, members), NEW s \in Servants, Present(s)
  PROVE  /\ servants'[s] \in ServantRow
         /\ servants'[s].main = servants[s].main /\ servants'[s].team = servants[s].team
         /\ servants'[s].status = servants[s].status
         /\ DOMAIN servants'[s].training \ {m} = Serving(s) \ {m}
         /\ \A n \in Serving(s) \ {m} : servants'[s].training[n] = servants[s].training[n]
<1>1. PICK p, ms, training :
         /\ p = servants[s]
         /\ ms = (Serving(s) \ {m}) \cup (IF s \in members THEN {m} ELSE {})
         /\ training = [n \in ms |-> IF n = m THEN "PENDING" ELSE p.training[n]]
  OBVIOUS
<1>2. p \in ServantRow /\ ms \in SUBSET Ministries
  BY <1>1, ServantTyped DEF TypesInv
<1>3. \A n \in ms : n # m => p.training[n] \in Trainings
  BY <1>1, ServantTyped DEF TypesInv
<1>4. training \in [ms -> Trainings]
  BY <1>1, <1>3 DEF Trainings
<1>5. training \in UNION {[ns -> Trainings] : ns \in SUBSET Ministries}
  BY <1>2, <1>4
<1>6. PICK row : row = [p EXCEPT !.training = training]
  OBVIOUS
<1>7. /\ row \in ServantRow /\ row.main = p.main /\ row.training = training
      /\ row.team = p.team /\ row.status = p.status
  BY <1>2, <1>5, <1>6 DEF ServantRow
<1>8. servants'[s] = row
  BY <1>1, <1>6 DEF ReplaceMembers
<1>9. /\ DOMAIN training \ {m} = Serving(s) \ {m}
      /\ \A n \in Serving(s) \ {m} : training[n] = p.training[n]
  BY <1>1
<1> QED
  BY <1>1, <1>7, <1>8, <1>9

LEMMA ReplaceMembersTypes ==
  ASSUME TypesInv, NEW m \in Ministries, NEW members \in SUBSET Servants,
         ReplaceMembers(m, members)
  PROVE  AccountsKept
<1>1. UNCHANGED <<users, tokens, resets, teams, coordinators, enforced>>
  BY DEF ReplaceMembers
<1>2. ASSUME NEW s \in Servants
      PROVE  /\ servants'[s] \in {NoServant} \cup ServantRow
             /\ Present(s) => Present(s)'
  <2>1. CASE Present(s)
    BY <2>1, ReplacedMember, AccountsAssumption DEF Present
  <2>2. CASE ~ Present(s)
    BY <2>2 DEF ReplaceMembers
  <2> QED
    BY <2>1, <2>2
<1>3. \E f : servants' = [s \in Servants |-> f[s]]
  <2> DEFINE g == [s \in Servants |->
          IF ~ Present(s) THEN NoServant
          ELSE [servants[s] EXCEPT !.training =
                  [n \in (Serving(s) \ {m}) \cup (IF s \in members THEN {m} ELSE {}) |->
                      IF n = m THEN "PENDING" ELSE @[n]]]]
  <2>1. servants' = g
    BY DEF ReplaceMembers
  <2>2. g = [s \in Servants |-> g[s]]
    OBVIOUS
  <2> QED
    BY <2>1, <2>2
<1>4. servants' \in [Servants -> {NoServant} \cup ServantRow]
  BY <1>2, <1>3
<1>5. AccountsTyped /\ AccountsLinked /\ TokensLinked
  BY DEF TypesInv
<1>6. /\ users' \in [Users -> {NoUser} \cup UserRow] /\ AccountsLinked'
      /\ \A v \in Users : Exists(v) => Exists(v)'
      /\ (\A n \in Ministries : coordinators[n] \in Users => Exists(coordinators[n]))'
  BY <1>1, <1>2, <1>5, UsersStay
<1>7. TokensLinked'
  BY <1>1, <1>5, <1>6, TokensStay
<1> QED
  BY <1>1, <1>2, <1>4, <1>5, <1>6, <1>7 DEF AccountsKept, AccountsTyped, AccountsGrow

LEMMA AppointTypes ==
  ASSUME TypesInv, NEW m \in Ministries, NEW u \in Users, Appoint(m, u)
  PROVE  AccountsKept
<1>1. /\ coordinators' = [coordinators EXCEPT ![m] = u] /\ Exists(u)
      /\ UNCHANGED <<users, tokens, resets, servants, teams, enforced>>
  BY DEF Appoint
<1>2. AccountsTyped /\ AccountsLinked /\ TokensLinked
  BY DEF TypesInv
<1>3. AccountsTyped'
  BY <1>1, <1>2 DEF AccountsTyped, Exists
<1> QED
  BY <1>1, <1>2, <1>3 DEF AccountsKept, AccountsLinked, TokensLinked, AccountsGrow,
                          Exists, Present

-----------------------------------------------------------------------------
(* What a request carries and knows depends on its stage alone.            *)

AccountStages ==
    {"creatingUser", "linking", "settingRole", "rotating", "opening", "hashing",
     "settingStatus", "removing", "approving", "repairing"}
ServantStages ==
    {"updatingServant", "updatingProfile", "training", "joining", "leading", "activating",
     "reviewing"}
CareStages ==
    {"raising", "seekingCase", "surveying", "following", "openingCase", "writingCase",
     "clearing", "adding", "settling"}
EntryStages == {"writingEntry", "addingToEntry"}

LEMMA CarriesByStage ==
  ASSUME NEW r \in Requests,
         req'[r].stage \in AccountStages => AccountCarries(r)',
         req'[r].stage \in ServantStages => ServantCarries(r)',
         req'[r].stage \in CareStages => CareCarries(r)',
         req'[r].stage \in EntryStages => TimelineCarries(r)'
  PROVE  Carries(r)'
<1>1. AccountCarries(r)'
  BY DEF AccountCarries, AccountStages
<1>2. ServantCarries(r)'
  BY DEF ServantCarries, ServantStages
<1>3. CareCarries(r)'
  BY DEF CareCarries, CareStages
<1>4. TimelineCarries(r)'
  BY DEF TimelineCarries, EntryStages
<1> QED
  BY <1>1, <1>2, <1>3, <1>4 DEF Carries

\* All that a request knows of accounts, servants, care and the timeline.
Knows(r) ==
    /\ KnowsLink(r) /\ KnowsSession(r) /\ KnowsTeam(r) /\ KnowsTraining(r)
    /\ KnowsDecision(r) /\ KnowsCare(r) /\ KnowsEntries(r)

LEMMA KnowsByStage ==
  ASSUME NEW r \in Requests,
         req'[r].stage \in {"linking", "settingRole", "removing"} => KnowsLink(r)',
         req'[r].stage \in {"rotating", "opening", "settingStatus"} => KnowsSession(r)',
         req'[r].stage \in {"joining", "leading"} => KnowsTeam(r)',
         req'[r].stage = "updatingServant" => KnowsTraining(r)',
         req'[r].stage \in {"updatingProfile", "training", "reviewing"} => KnowsDecision(r)',
         req'[r].stage \in {"raising", "openingCase", "writingCase"} => KnowsCare(r)',
         req'[r].stage \in EntryStages => KnowsEntries(r)'
  PROVE  Knows(r)'
<1>1. KnowsLink(r)'
  BY DEF KnowsLink
<1>2. KnowsSession(r)'
  BY DEF KnowsSession
<1>3. KnowsTeam(r)'
  BY DEF KnowsTeam
<1>4. KnowsTraining(r)'
  BY DEF KnowsTraining
<1>5. KnowsDecision(r)'
  BY DEF KnowsDecision
<1>6. KnowsCare(r)'
  BY DEF KnowsCare
<1>7. KnowsEntries(r)'
  BY DEF KnowsEntries, EntryStages
<1> QED
  BY <1>1, <1>2, <1>3, <1>4, <1>5, <1>6, <1>7 DEF Knows

\* A call comes in, at a stage it carries everything for.
Enters(r, stage) ==
    /\ Moved(r) /\ HandlersTypeOK' /\ failures' = failures
    /\ req[r] = Idle /\ req'[r].stage = stage
    /\ Carries(r)' /\ Knows(r)'

LEMMA AccountEnters ==
  ASSUME TypesInv, NEW r \in Requests, NEW q, q.kind # "none", Call(r, q),
         q.stage \in AccountStages,
         Moved(r) /\ req'[r] = q => AccountCarries(r)',
         Moved(r) /\ req'[r] = q /\ q.stage \in {"linking", "settingRole", "removing"} => KnowsLink(r)',
         Moved(r) /\ req'[r] = q /\ q.stage \in {"rotating", "opening", "settingStatus"} => KnowsSession(r)'
  PROVE  Enters(r, q.stage) /\ req'[r] = q
<1>1. Moved(r) /\ req'[r] = q /\ HandlersTypeOK' /\ failures' = failures /\ req[r] = Idle
  BY CallMoves DEF TypesInv
<1>2. Carries(r)'
  BY <1>1, CarriesByStage DEF AccountStages, ServantStages, CareStages, EntryStages
<1>3. Knows(r)'
  BY <1>1, KnowsByStage DEF AccountStages, EntryStages
<1> QED
  BY <1>1, <1>2, <1>3 DEF Enters

LEMMA ServantEnters ==
  ASSUME TypesInv, NEW r \in Requests, NEW q, q.kind # "none", Call(r, q),
         q.stage \in ServantStages,
         Moved(r) /\ req'[r] = q => ServantCarries(r)',
         Moved(r) /\ req'[r] = q /\ q.stage \in {"joining", "leading"} => KnowsTeam(r)',
         Moved(r) /\ req'[r] = q /\ q.stage = "updatingServant" => KnowsTraining(r)',
         Moved(r) /\ req'[r] = q /\ q.stage \in {"updatingProfile", "training", "reviewing"} => KnowsDecision(r)'
  PROVE  Enters(r, q.stage) /\ req'[r] = q
<1>1. Moved(r) /\ req'[r] = q /\ HandlersTypeOK' /\ failures' = failures /\ req[r] = Idle
  BY CallMoves DEF TypesInv
<1>2. Carries(r)'
  BY <1>1, CarriesByStage DEF AccountStages, ServantStages, CareStages, EntryStages
<1>3. Knows(r)'
  BY <1>1, KnowsByStage DEF ServantStages, EntryStages
<1> QED
  BY <1>1, <1>2, <1>3 DEF Enters

-----------------------------------------------------------------------------
(* Calls on accounts.                                                      *)

LEMMA CallCreateUserEnters ==
  ASSUME TypesInv, NEW r \in Requests, NEW role \in Roles, NEW s \in Servants \cup {Nobody},
         NEW grant \in Given, CallCreateUser(r, role, s, grant)
  PROVE  Enters(r, "creatingUser")
<1>1. PICK bound, account : bound = Bound(grant) /\ account = Account(role, s, "ACTIVE", bound)
  OBVIOUS
<1>2. bound \in [scope : Scopes, ministries : SUBSET Ministries, teams : SUBSET Teams]
  BY <1>1, BoundTyped
<1>3. account \in UserRow /\ account.role = role /\ account.servant = s
  BY <1>1, <1>2 DEF Account, UserRow, Statuses
<1>4. PICK q : q = [kind |-> "createUser", stage |-> "creatingUser", touches |-> {s} \ {Nobody},
                    account |-> account]
  OBVIOUS
<1>5. /\ Call(r, q) /\ UNCHANGED accountVars
      /\ role = "SERVO" => s # Nobody
      /\ s # Nobody => Present(s)
  BY <1>1, <1>4 DEF CallCreateUser
<1>6. ASSUME Moved(r), req'[r] = q PROVE AccountCarries(r)'
  BY <1>3, <1>4, <1>5, <1>6 DEF AccountCarries, accountVars, accountTables, Present
<1> QED
  BY <1>4, <1>5, <1>6, AccountEnters DEF AccountStages

LEMMA CallSetServantLinkEnters ==
  ASSUME TypesInv, NEW r \in Requests, NEW u \in Users, NEW s \in Servants \cup {Nobody},
         CallSetServantLink(r, u, s)
  PROVE  Enters(r, "linking")
<1>1. PICK q : q = [kind |-> "link", stage |-> "linking", touches |-> {u, s} \ {Nobody},
                    user |-> u, servant |-> s]
  OBVIOUS
<1>2. /\ Call(r, q) /\ Exists(u)
      /\ s = Nobody => users[u].role # "SERVO"
      /\ s # Nobody => Present(s)
      /\ UNCHANGED <<users, servants>>
  BY <1>1 DEF CallSetServantLink, accountVars, accountTables
<1>3. ASSUME Moved(r), req'[r] = q PROVE AccountCarries(r)'
  BY <1>1, <1>2, <1>3, AccountsAssumption DEF AccountCarries, Exists, Present
<1>4. ASSUME Moved(r), req'[r] = q PROVE KnowsLink(r)'
  BY <1>1, <1>2, <1>4 DEF KnowsLink
<1> QED
  BY <1>1, <1>2, <1>3, <1>4, AccountEnters DEF AccountStages

LEMMA CallLinkUserEnters ==
  ASSUME TypesInv, NEW r \in Requests, NEW u \in Users, NEW s \in Servants,
         CallLinkUser(r, u, s)
  PROVE  Enters(r, "linking")
<1>1. PICK q : q = [kind |-> "link", stage |-> "linking", touches |-> {u, s},
                    user |-> u, servant |-> s]
  OBVIOUS
<1>2. /\ Call(r, q) /\ Exists(u) /\ Present(s) /\ s # Nobody
      /\ UNCHANGED <<users, servants>>
  BY <1>1, AccountsAssumption DEF CallLinkUser, accountVars, accountTables
<1>3. ASSUME Moved(r), req'[r] = q PROVE AccountCarries(r)'
  BY <1>1, <1>2, <1>3 DEF AccountCarries, Exists, Present
<1>4. ASSUME Moved(r), req'[r] = q PROVE KnowsLink(r)'
  BY <1>1, <1>2, <1>4 DEF KnowsLink
<1> QED
  BY <1>1, <1>2, <1>3, <1>4, AccountEnters DEF AccountStages

LEMMA CallUpdateRoleEnters ==
  ASSUME TypesInv, NEW r \in Requests, NEW u \in Users, NEW role \in Roles,
         CallUpdateRole(r, u, role)
  PROVE  Enters(r, "settingRole")
<1>1. PICK q : q = [kind |-> "role", stage |-> "settingRole", touches |-> {u},
                    user |-> u, role |-> role]
  OBVIOUS
<1>2. /\ Call(r, q) /\ Exists(u) /\ users' = users
      /\ role = "SERVO" => users[u].servant # Nobody
  BY <1>1 DEF CallUpdateRole, accountVars, accountTables
<1>3. ASSUME Moved(r), req'[r] = q PROVE AccountCarries(r)'
  BY <1>1, <1>2, <1>3 DEF AccountCarries, Exists
<1>4. ASSUME Moved(r), req'[r] = q PROVE KnowsLink(r)'
  BY <1>1, <1>2, <1>4 DEF KnowsLink
<1> QED
  BY <1>1, <1>2, <1>3, <1>4, AccountEnters DEF AccountStages

LEMMA CallRemoveEnters ==
  ASSUME TypesInv, LinksInv, NEW r \in Requests, NEW u \in Users, CallRemove(r, u)
  PROVE  Enters(r, "removing")
<1>1. PICK q : q = [kind |-> "remove", stage |-> "removing", touches |-> {u}, user |-> u]
  OBVIOUS
<1>2. /\ Call(r, q) /\ Exists(u) /\ users' = users /\ unguarded' = unguarded
      /\ users[u].role = "SERVO" => u \in raced \cup unguarded
  BY <1>1 DEF CallRemove, accountVars, accountTables, LinksInv, Orphan
<1>3. ASSUME Moved(r), req'[r] = q PROVE AccountCarries(r)'
  BY <1>1, <1>2, <1>3 DEF AccountCarries, Exists
<1>4. ASSUME Moved(r), req'[r] = q PROVE KnowsLink(r)'
  BY <1>1, <1>2, <1>4 DEF KnowsLink, Moved
<1> QED
  BY <1>1, <1>2, <1>3, <1>4, AccountEnters DEF AccountStages

LEMMA CallLoginEnters ==
  ASSUME TypesInv, NEW r \in Requests, NEW u \in Users, CallLogin(r, u)
  PROVE  Enters(r, "opening")
<1>1. PICK q : q = [kind |-> "login", stage |-> "opening", touches |-> {u}, token |-> Session(u)]
  OBVIOUS
<1>2. Call(r, q) /\ Exists(u) /\ users' = users /\ tokens' = tokens
  BY <1>1 DEF CallLogin, Admitted, accountVars, accountTables
<1>3. PICK token : token = Session(u)
  OBVIOUS
<1>4. users[u].password \in Nat /\ users[u].period \in Nat
  BY <1>2, UserTyped DEF TypesInv, UserRow
<1>5. /\ token \in [user : Users, password : Nat, period : Nat, live : {TRUE},
                    session : Tokens \cup {0}]
      /\ token.user = u /\ token.session = 0 /\ 0 \notin Tokens
      /\ token.password = users[u].password /\ token.period = users[u].period
  BY <1>3, <1>4, AccountsAssumption DEF Session
<1>6. ASSUME Moved(r), req'[r] = q PROVE AccountCarries(r)'
  <2>1. q.stage = "opening" /\ q.touches = {u} /\ q.token = token
    BY <1>1, <1>3
  <2> HIDE <1>1, <1>3
  <2> QED
    BY <1>2, <1>5, <1>6, <2>1 DEF AccountCarries, Exists
<1>7. ASSUME Moved(r), req'[r] = q PROVE KnowsSession(r)'
  <2>1. ASSUME NEW v \in Tokens, Live(v)' PROVE tokens'[v].session # 0
    BY <1>2, <1>5, <2>1 DEF TypesInv, AccountsTyped, TokenRow, Live
  <2> QED
    BY <1>1, <1>2, <1>3, <1>5, <1>7, <2>1 DEF KnowsSession
<1> QED
  BY <1>1, <1>2, <1>6, <1>7, AccountEnters DEF AccountStages

LEMMA CallRefreshEnters ==
  ASSUME TypesInv, SessionsInv, NEW r \in Requests, NEW t \in Tokens, CallRefresh(r, t)
  PROVE  Enters(r, "rotating")
<1>1. PICK u, token : u = tokens[t].user /\ token = tokens[t]
  OBVIOUS
<1>2. PICK q : q = [kind |-> "refresh", stage |-> "rotating", touches |-> {u},
                    old |-> t, token |-> token]
  OBVIOUS
<1>3. Call(r, q) /\ Live(t) /\ Exists(u) /\ users' = users /\ tokens' = tokens
  BY <1>1, <1>2 DEF CallRefresh, Admitted, accountVars, accountTables
<1>4. /\ token \in TokenRow /\ token.live /\ u \in Users /\ token.user = u
      /\ tokens[token.session] # NoToken /\ tokens[token.session].user = u
  BY <1>1, <1>3 DEF TypesInv, AccountsTyped, TokensLinked, Live, TokenRow
<1>5. ASSUME Moved(r), req'[r] = q PROVE AccountCarries(r)'
  <2>1. /\ q \in [kind : {"refresh"}, stage : {"rotating"}, touches : {{v} : v \in Users},
                  old : Tokens, token : TokenRow]
        /\ q.stage = "rotating" /\ q.touches = {u} /\ q.token = token /\ q.old = t
    BY <1>2, <1>4
  <2>2. tokens[t] # NoToken /\ tokens[t].user = u
    BY <1>1, <1>3 DEF Live
  <2>3. PICK session : session = token.session
    OBVIOUS
  <2>4. tokens'[session] # NoToken /\ tokens'[session].user = u
    BY <1>3, <1>4, <2>3
  <2> QED
    BY <1>3, <1>4, <1>5, <2>1, <2>2, <2>3, <2>4 DEF AccountCarries, Exists
<1>6. ASSUME Moved(r), req'[r] = q PROVE KnowsSession(r)'
  <2>1. raced \subseteq raced'
    BY <1>6 DEF Moved
  <2>2. u \notin raced' =>
           /\ token.password = users[u].password /\ token.period = users[u].period
           /\ \A v \in Tokens : Live(v) /\ tokens[v].session = token.session => v = t
    BY <1>1, <1>3, <2>1 DEF SessionsInv, SessionsEnd
  <2>3. \A v \in Tokens : Live(v)' <=> Live(v)
    BY <1>3 DEF Live
  <2> QED
    BY <1>2, <1>3, <1>4, <1>6, <2>2, <2>3 DEF KnowsSession
<1> QED
  BY <1>2, <1>3, <1>5, <1>6, AccountEnters DEF AccountStages

LEMMA CallPasswordEnters ==
  ASSUME TypesInv, NEW r \in Requests, NEW u \in Users,
         CallChangePassword(r, u) \/ CallResetPassword(r, u)
  PROVE  Enters(r, "hashing")
<1>1. PICK used \in BOOLEAN :
         Call(r, [kind |-> "password", stage |-> "hashing", touches |-> {u},
                  user |-> u, used |-> used])
  BY DEF CallChangePassword, CallResetPassword
<1>2. PICK q : q = [kind |-> "password", stage |-> "hashing", touches |-> {u},
                    user |-> u, used |-> used]
  OBVIOUS
<1>3. Exists(u) /\ users' = users
  BY DEF CallChangePassword, CallResetPassword, accountVars, accountTables, TypesInv, AccountsLinked
<1>4. ASSUME Moved(r), req'[r] = q PROVE AccountCarries(r)'
  BY <1>2, <1>3, <1>4 DEF AccountCarries, Exists
<1> QED
  BY <1>1, <1>2, <1>4, AccountEnters DEF AccountStages

LEMMA CallUpdateStatusEnters ==
  ASSUME TypesInv, NEW r \in Requests, NEW u \in Users, NEW status \in Statuses,
         CallUpdateStatus(r, u, status)
  PROVE  Enters(r, "settingStatus")
<1>1. PICK ends : ends = (status = "INACTIVE" /\ users[u].status # "INACTIVE")
  OBVIOUS
<1>2. PICK q : q = [kind |-> "status", stage |-> "settingStatus", touches |-> {u}, user |-> u,
                    status |-> status, ends |-> ends]
  OBVIOUS
<1>3. Call(r, q) /\ Exists(u) /\ users' = users /\ ends \in BOOLEAN
  BY <1>1, <1>2 DEF CallUpdateStatus, accountVars, accountTables
<1>4. ASSUME Moved(r), req'[r] = q PROVE AccountCarries(r)'
  BY <1>2, <1>3, <1>4 DEF AccountCarries, Exists
<1>5. ASSUME Moved(r), req'[r] = q PROVE KnowsSession(r)'
  <2>1. /\ q.stage = "settingStatus" /\ q.user = u /\ q.status = status
        /\ q.ends <=> status = "INACTIVE" /\ users[u].status # "INACTIVE"
    BY <1>1, <1>2
  <2> QED
    BY <1>3, <1>5, <2>1 DEF KnowsSession
<1> QED
  BY <1>2, <1>3, <1>4, <1>5, AccountEnters DEF AccountStages

LEMMA CallUpdateApprovalEnters ==
  ASSUME TypesInv, NEW r \in Requests, NEW s \in Servants, NEW status \in Statuses,
         CallUpdateApproval(r, s, status)
  PROVE  Enters(r, "approving")
<1>1. PICK u \in IF AccountsOf(s) = {} THEN {Nobody} ELSE AccountsOf(s) :
          Call(r, [kind |-> "approval", stage |-> "approving", touches |-> {u, s} \ {Nobody},
                   user |-> u, servant |-> s, status |-> status])
  BY DEF CallUpdateApproval
<1>2. PICK q : q = [kind |-> "approval", stage |-> "approving", touches |-> {u, s} \ {Nobody},
                    user |-> u, servant |-> s, status |-> status]
  OBVIOUS
<1>3. /\ Present(s) /\ users' = users /\ servants' = servants /\ s # Nobody
      /\ u # Nobody => u \in Users /\ Exists(u)
  BY <1>1, AccountsAssumption DEF CallUpdateApproval, accountVars, accountTables, AccountsOf
<1>4. ASSUME Moved(r), req'[r] = q PROVE AccountCarries(r)'
  BY <1>2, <1>3, <1>4 DEF AccountCarries, Exists, Present
<1> QED
  BY <1>1, <1>2, <1>4, AccountEnters DEF AccountStages

LEMMA CallRepairEnters ==
  ASSUME TypesInv, NEW r \in Requests, NEW provision \in BOOLEAN, CallRepair(r, provision)
  PROVE  Enters(r, "repairing")
<1>1. PICK links, without :
         links = Matches /\ without = (IF provision THEN Unmatched ELSE {})
  OBVIOUS
<1>2. PICK q : q = [kind |-> "repair", stage |-> "repairing", touches |-> {},
                    links |-> links, without |-> without]
  OBVIOUS
<1>3. Call(r, q) /\ users' = users /\ servants' = servants
  BY <1>1, <1>2 DEF CallRepair, accountVars, accountTables
<1>4. /\ links \in SUBSET (Users \X Servants) /\ without \in SUBSET Servants
      /\ \A link \in links : Exists(link[1]) /\ Present(link[2])
      /\ \A s \in without : Present(s)
  BY <1>1 DEF Matches, Unmatched, Unlinked, Stray, Orphan
<1>5. ASSUME Moved(r), req'[r] = q PROVE AccountCarries(r)'
  <2>1. q \in [kind : {"repair"}, stage : {"repairing"}, touches : {{}},
               links : SUBSET (Users \X Servants), without : SUBSET Servants]
    BY <1>2, <1>4
  <2> QED
    BY <1>2, <1>3, <1>4, <1>5, <2>1 DEF AccountCarries, Exists, Present
<1> QED
  BY <1>2, <1>3, <1>5, AccountEnters DEF AccountStages

-----------------------------------------------------------------------------
(* Calls on servants and teams.                                            *)

LEMMA CallUpdateServantEnters ==
  ASSUME TypesInv, NEW r \in Requests, NEW s \in Servants, NEW main,
         NEW ms \in SUBSET Ministries, NEW t \in Teams \cup {NoTeam},
         CallUpdateServant(r, s, main, ms, t)
  PROVE  Enters(r, "updatingServant")
<1>1. PICK found : found = servants[s].training
  OBVIOUS
<1>2. PICK q : q = [kind |-> "servant", stage |-> "updatingServant", touches |-> {s}, servant |-> s,
                    main |-> main, ministries |-> ms, team |-> t, found |-> found]
  OBVIOUS
<1>3. Call(r, q) /\ Present(s) /\ servants' = servants /\ main \in ms /\ TeamFits(t, ms)
  BY <1>1, <1>2 DEF CallUpdateServant, accountVars, accountTables
<1>4. found \in UNION {[ns -> Trainings] : ns \in SUBSET Ministries}
  BY <1>1, <1>3, ServantTyped DEF TypesInv
<1>5. ASSUME Moved(r), req'[r] = q PROVE ServantCarries(r)'
  BY <1>2, <1>3, <1>4, <1>5 DEF ServantCarries, Present, TeamFits
<1>6. ASSUME Moved(r), req'[r] = q PROVE KnowsTraining(r)'
  BY <1>1, <1>2, <1>3, <1>6 DEF KnowsTraining, Trained
<1> QED
  BY <1>2, <1>3, <1>5, <1>6, ServantEnters DEF ServantStages

LEMMA CallProfileEnters ==
  ASSUME TypesInv, NEW r \in Requests, NEW s \in Servants,
         NEW status \in ServantStatuses \cup {"same"}, NEW summary \in Trainings \cup {"same"},
         CallUpdateProfile(r, s, status, summary)
           \/ (summary = "same" /\ CallUpdateServantStatus(r, s, status))
  PROVE  Enters(r, "updatingProfile")
<1>1. PICK promotes \in BOOLEAN :
         /\ promotes => servants[s].status = "RECRUTAMENTO"
         /\ Call(r, Profile(s, status, summary, promotes))
  <2>1. CASE CallUpdateProfile(r, s, status, summary)
    BY <2>1 DEF CallUpdateProfile, Promotes
  <2>2. CASE summary = "same" /\ CallUpdateServantStatus(r, s, status)
    BY <2>2 DEF CallUpdateServantStatus
  <2> QED
    BY <2>1, <2>2
<1>2. Present(s) /\ servants' = servants
  BY DEF CallUpdateProfile, CallUpdateServantStatus, accountVars, accountTables
<1>3. PICK to : to = (IF promotes THEN "ATIVO" ELSE status)
  OBVIOUS
<1>4. to \in ServantStatuses \cup {"same"}
  BY <1>3 DEF ServantStatuses
<1>5. PICK q : q = [kind |-> "profile", stage |-> "updatingProfile", touches |-> {s},
                    servant |-> s, status |-> to, summary |-> summary, promotes |-> promotes]
  OBVIOUS
<1>6. Call(r, q)
  BY <1>1, <1>3, <1>5 DEF Profile
<1>7. ASSUME Moved(r), req'[r] = q PROVE ServantCarries(r)'
  BY <1>2, <1>4, <1>5, <1>7 DEF ServantCarries, Present
<1>8. ASSUME Moved(r), req'[r] = q PROVE KnowsDecision(r)'
  BY <1>1, <1>2, <1>5, <1>8 DEF KnowsDecision
<1> QED
  BY <1>5, <1>6, <1>7, <1>8, ServantEnters DEF ServantStages

LEMMA CallCompleteTrainingEnters ==
  ASSUME TypesInv, NEW r \in Requests, NEW s \in Servants, NEW m \in Ministries,
         CallCompleteTraining(r, s, m)
  PROVE  Enters(r, "training")
<1>1. PICK promotes : promotes = Promotes(servants[s].status)
  OBVIOUS
<1>2. PICK q : q = [kind |-> "training", stage |-> "training", touches |-> {s}, servant |-> s,
                    ministry |-> m, promotes |-> promotes]
  OBVIOUS
<1>3. Call(r, q) /\ Present(s) /\ servants' = servants /\ promotes \in BOOLEAN
      /\ (promotes => servants[s].status = "RECRUTAMENTO")
  BY <1>1, <1>2 DEF CallCompleteTraining, Promotes, accountVars, accountTables
<1>4. ASSUME Moved(r), req'[r] = q PROVE ServantCarries(r)'
  BY <1>2, <1>3, <1>4 DEF ServantCarries, Present
<1>5. ASSUME Moved(r), req'[r] = q PROVE KnowsDecision(r)'
  BY <1>2, <1>3, <1>5 DEF KnowsDecision
<1> QED
  BY <1>2, <1>3, <1>4, <1>5, ServantEnters DEF ServantStages

LEMMA CallSetTeamEnters ==
  ASSUME TypesInv, NEW r \in Requests, NEW s \in Servants, NEW t \in Teams \cup {NoTeam},
         Present(s), t \in TeamOpenTo(s) \cup {NoTeam}, CallSetTeam(r, s, t)
  PROVE  Enters(r, "joining")
<1>1. PICK q : q = [kind |-> "team", stage |-> "joining", touches |-> {s}, servant |-> s, team |-> t]
  OBVIOUS
<1>2. Call(r, q) /\ servants' = servants /\ unguarded' = unguarded
  BY <1>1 DEF CallSetTeam, accountVars, accountTables
<1>3. t \in Teams => Open(s, MinistryOf[t])
  BY AccountsAssumption DEF TeamOpenTo, Open
<1>4. ASSUME Moved(r), req'[r] = q PROVE ServantCarries(r)'
  BY <1>1, <1>2, <1>4 DEF ServantCarries, Present
<1>5. ASSUME Moved(r), req'[r] = q PROVE KnowsTeam(r)'
  BY <1>1, <1>2, <1>3, <1>5 DEF KnowsTeam, Open, Serving
<1> QED
  BY <1>1, <1>2, <1>4, <1>5, ServantEnters DEF ServantStages

LEMMA CallUpdateLeaderEnters ==
  ASSUME TypesInv, NEW r \in Requests, NEW t \in Teams, NEW u \in Users, CallUpdateLeader(r, t, u)
  PROVE  Enters(r, "leading")
<1>1. PICK q : q = [kind |-> "leader", stage |-> "leading", touches |-> {u}, team |-> t, user |-> u]
  OBVIOUS
<1>2. Call(r, q) /\ Exists(u) /\ ~ LeadsElsewhere(u, t) /\ users' = users /\ teams' = teams
  BY <1>1 DEF CallUpdateLeader, accountVars, accountTables
<1>3. ASSUME Moved(r), req'[r] = q PROVE ServantCarries(r)'
  BY <1>1, <1>2, <1>3 DEF ServantCarries, Exists
<1>4. ASSUME Moved(r), req'[r] = q PROVE KnowsTeam(r)'
  BY <1>1, <1>2, <1>4 DEF KnowsTeam, LeadsElsewhere
<1> QED
  BY <1>1, <1>2, <1>3, <1>4, ServantEnters DEF ServantStages

LEMMA AccountCallEnters ==
  ASSUME TypesInv, LinksInv, SessionsInv, NEW r \in Requests, AccountCall(r)
  PROVE  UNCHANGED accountVars
         /\ \E stage \in AccountStages \cup ServantStages : Enters(r, stage)
<1>1. UNCHANGED accountVars
  BY DEF AccountCall, CallCreateUser, CallSetServantLink, CallLinkUser, CallUpdateRole, CallLogin,
         CallRemove, CallRefresh, CallChangePassword, CallResetPassword, CallUpdateStatus,
         CallUpdateApproval, CallUpdateServant, CallUpdateProfile, CallUpdateServantStatus,
         CallCompleteTraining, CallJoinTeam, CallUpdateTeamOf, CallLeaveTeam, CallSetTeam,
         CallUpdateLeader, CallRepair
<1>2. ASSUME NEW s \in Servants, NEW t \in Teams, CallJoinTeam(r, s, t)
      PROVE  Enters(r, "joining")
  BY <1>2, CallSetTeamEnters DEF CallJoinTeam
<1>3. ASSUME NEW s \in Servants, NEW t \in Teams \cup {NoTeam}, CallUpdateTeamOf(r, s, t)
      PROVE  Enters(r, "joining")
  BY <1>3, CallSetTeamEnters DEF CallUpdateTeamOf
<1>4. ASSUME NEW s \in Servants, CallLeaveTeam(r, s)
      PROVE  Enters(r, "joining")
  BY <1>4, CallSetTeamEnters DEF CallLeaveTeam
<1>5. ASSUME NEW s \in Servants, NEW status \in {"ATIVO", "INATIVO"},
             CallUpdateProfile(r, s, status, "same") \/ CallUpdateServantStatus(r, s, status)
      PROVE  Enters(r, "updatingProfile")
  BY <1>5, CallProfileEnters DEF ServantStatuses
<1>6. ASSUME NEW s \in Servants, NEW summary \in Trainings, CallUpdateProfile(r, s, "same", summary)
      PROVE  Enters(r, "updatingProfile")
  BY <1>6, CallProfileEnters
<1>7. \E stage : Enters(r, stage) /\ stage \in AccountStages \cup ServantStages
  BY <1>2, <1>3, <1>4, <1>5, <1>6, CallCreateUserEnters, CallSetServantLinkEnters,
     CallLinkUserEnters, CallUpdateRoleEnters, CallRemoveEnters, CallLoginEnters,
     CallRefreshEnters, CallPasswordEnters, CallUpdateStatusEnters, CallUpdateApprovalEnters,
     CallUpdateServantEnters, CallCompleteTrainingEnters, CallUpdateLeaderEnters,
     CallRepairEnters DEF AccountCall, AccountStages, ServantStages
<1> QED
  BY <1>1, <1>7

-----------------------------------------------------------------------------
(* The steps of requests.                                                  *)

\* A request goes on, or is over, with all it needs.
Proceeds(r) ==
    /\ Moved(r) /\ HandlersTypeOK' /\ failures' = failures
    /\ Carries(r)' /\ Knows(r)'

LEMMA IdleCarries ==
  ASSUME NEW r \in Requests, req'[r] = Idle
  PROVE  Carries(r)' /\ Knows(r)'
<1>1. Carries(r)'
  BY IdleFacts, CarriesByStage DEF AccountStages, ServantStages, CareStages, EntryStages
<1>2. Knows(r)'
  BY IdleFacts, KnowsByStage DEF EntryStages
<1> QED
  BY <1>1, <1>2

LEMMA FinishProceeds ==
  ASSUME TypesInv, NEW r \in Requests, Finish(r)
  PROVE  Proceeds(r) /\ req'[r] = Idle
<1>1. Moved(r) /\ req'[r] = Idle /\ HandlersTypeOK' /\ failures' = failures
  BY FinishMoves DEF TypesInv
<1> QED
  BY <1>1, IdleCarries DEF Proceeds

LEMMA EntersProceeds ==
  ASSUME NEW r \in Requests, NEW stage, Enters(r, stage)
  PROVE  Proceeds(r)
BY DEF Enters, Proceeds

LEMMA RotateProceeds ==
  ASSUME TypesInv, SessionsInv, NEW r \in Requests, Rotate(r)
  PROVE  Proceeds(r)
<1>1. PICK q, u, token, old : q = req[r] /\ token = q.token /\ u = token.user /\ old = q.old
  OBVIOUS
<1>2. AccountCarries(r) /\ KnowsSession(r) /\ q.stage = "rotating"
  BY <1>1 DEF Rotate, TypesInv, Carries, SessionsInv
<1>3. /\ q \in [kind : {"refresh"}, stage : {"rotating"}, touches : {{v} : v \in Users},
                old : Tokens, token : TokenRow]
      /\ token \in TokenRow /\ token.live /\ u \in q.touches /\ old \in Tokens
      /\ tokens[old] # NoToken /\ tokens[old].user = u /\ Exists(u)
      /\ tokens[token.session] # NoToken /\ tokens[token.session].user = u
  BY <1>1, <1>2 DEF AccountCarries, TokenRow
<1>4. PICK next : next = [q EXCEPT !.stage = "opening"]
  OBVIOUS
<1>5. /\ next.kind # "none" /\ next.stage = "opening" /\ next.touches = q.touches
      /\ next.token = token
  BY <1>1, <1>3, <1>4
<1>6. Step(r, next) /\ tokens' = Revoked({old}) /\ users' = users
  BY <1>1, <1>4 DEF Rotate
<1>7. Moved(r) /\ req'[r] = next /\ HandlersTypeOK' /\ failures' = failures
  BY <1>5, <1>6, StepMoves DEF TypesInv
<1>8. \A t \in Tokens :
         /\ tokens[t] = NoToken <=> tokens'[t] = NoToken
         /\ tokens[t] # NoToken =>
               /\ tokens'[t].user = tokens[t].user /\ tokens'[t].session = tokens[t].session
         /\ Live(t)' <=> Live(t) /\ t \notin {old}
  <2>1. {old} \in SUBSET Tokens /\ \A t \in {old} : tokens[t] # NoToken
    BY <1>3
  <2>2. \A v \in Users : Exists(v) => Exists(v)'
    BY <1>6 DEF Exists
  <2>3. AccountsTyped /\ TokensLinked
    BY DEF TypesInv
  <2> QED
    BY <1>6, <2>1, <2>2, <2>3, TokensRevoked
<1>9. AccountCarries(r)'
  <2>1. token \in [user : Users, password : Nat, period : Nat, live : {TRUE},
                   session : Tokens \cup {0}]
    BY <1>3 DEF TokenRow
  <2>2. PICK session : session = token.session
    OBVIOUS
  <2>3. session \in Tokens /\ tokens'[session] # NoToken /\ tokens'[session].user = u
    BY <1>3, <1>8, <2>2 DEF TokenRow
  <2>4. Exists(u)'
    BY <1>3, <1>6 DEF Exists
  <2> HIDE <1>4
  <2> QED
    BY ZenonT(60), <1>1, <1>3, <1>5, <1>7, <2>1, <2>2, <2>3, <2>4 DEF AccountCarries, Exists
<1>10. KnowsSession(r)'
  <2>1. raced \subseteq raced'
    BY <1>7 DEF Moved
  <2>2. u \notin raced' =>
           /\ token.password = users[u].password /\ token.period = users[u].period
           /\ \A v \in Tokens : Live(v) /\ tokens[v].session = token.session => v = old
    BY <1>1, <1>2, <2>1 DEF KnowsSession
  <2>3. \A v \in Tokens : Live(v)' => v # old /\ Live(v) /\ tokens'[v].session = tokens[v].session
    BY <1>8 DEF Live
  <2> QED
    BY <1>1, <1>5, <1>6, <1>7, <2>2, <2>3 DEF KnowsSession
<1>11. Carries(r)'
  BY <1>5, <1>7, <1>9, CarriesByStage DEF ServantStages, CareStages, EntryStages
<1>12. Knows(r)'
  BY <1>5, <1>7, <1>10, KnowsByStage DEF EntryStages
<1> QED
  BY <1>7, <1>11, <1>12 DEF Proceeds

\* The script goes on with fewer links and servants.
LEMMA RepairProceeds ==
  ASSUME TypesInv, AccountsKept, NEW r \in Requests, req[r].stage = "repairing",
         NEW links \in SUBSET req[r].links, NEW without \in SUBSET req[r].without,
         RepairNext(r, links, without)
  PROVE  Proceeds(r)
<1>1. CASE links = {} /\ without = {}
  BY <1>1, FinishProceeds DEF RepairNext
<1>2. CASE ~ (links = {} /\ without = {})
  <2>1. PICK q : q = req[r]
    OBVIOUS
  <2>2. /\ q \in [kind : {"repair"}, stage : {"repairing"}, touches : {{}},
                  links : SUBSET (Users \X Servants), without : SUBSET Servants]
        /\ \A link \in q.links : Exists(link[1]) /\ Present(link[2])
        /\ \A s \in q.without : Present(s)
    BY <2>1 DEF TypesInv, Carries, AccountCarries
  <2>3. PICK next : next = [q EXCEPT !.links = links, !.without = without]
    OBVIOUS
  <2>4. /\ next \in [kind : {"repair"}, stage : {"repairing"}, touches : {{}},
                     links : SUBSET (Users \X Servants), without : SUBSET Servants]
        /\ next.links = links /\ next.without = without
    BY <2>1, <2>2, <2>3
  <2>5. Step(r, next)
    BY <1>2, <2>1, <2>3 DEF RepairNext
  <2>6. Moved(r) /\ req'[r] = next /\ HandlersTypeOK' /\ failures' = failures
    BY <2>4, <2>5, StepMoves DEF TypesInv
  <2>7. \A link \in links : Exists(link[1])' /\ Present(link[2])'
    BY <2>1, <2>2 DEF AccountsKept, AccountsGrow
  <2>8. \A s \in without : Present(s)'
    BY <2>1, <2>2 DEF AccountsKept, AccountsGrow
  <2>9. AccountCarries(r)'
    <3> HIDE <2>3
    <3> QED
      BY <2>4, <2>6, <2>7, <2>8 DEF AccountCarries, Exists, Present
  <2>10. Carries(r)'
    BY <2>4, <2>6, <2>9, CarriesByStage DEF ServantStages, CareStages, EntryStages
  <2>11. Knows(r)'
    BY <2>4, <2>6, KnowsByStage DEF EntryStages
  <2> QED
    BY <2>6, <2>10, <2>11 DEF Proceeds
<1> QED
  BY <1>1, <1>2

LEMMA AccountStepKept ==
  ASSUME TypesInv, NEW r \in Requests, AccountStep(r)
  PROVE  AccountsKept
<1>0. ASSUME CommitServant(r) PROVE AccountsKept
  <2>1. UNCHANGED <<users, tokens, resets, teams, coordinators, enforced>>
    BY <1>0 DEF CommitServant
  <2>2. CASE servants' = servants
    BY <2>1, <2>2, AccountsSame DEF accountTables
  <2>3. CASE servants' # servants
    <3>1. PICK s \in Servants, row \in ServantRow : Reposted(r, s, row)
      BY <1>0, <2>3, UpdatedServant
    <3> QED
      BY <2>1, <3>1, ServantStep DEF Reposted
  <2> QED
    BY <2>2, <2>3
<1>1. ASSUME CommitProfile(r) PROVE AccountsKept
  <2>1. UNCHANGED <<users, tokens, resets, teams, coordinators, enforced>>
    BY <1>1 DEF CommitProfile
  <2> QED
    BY <1>1, <2>1, ProfiledServant, ServantStep
<1>2. ASSUME CommitTraining(r) PROVE AccountsKept
  <2>1. UNCHANGED <<users, tokens, resets, teams, coordinators, enforced>>
    BY <1>2 DEF CommitTraining
  <2>2. CASE servants' = servants
    BY <2>1, <2>2, AccountsSame DEF accountTables
  <2>3. CASE servants' # servants
    BY <1>2, <2>1, <2>3, TrainedServant, ServantStep
  <2> QED
    BY <2>2, <2>3
<1>3. ASSUME CommitMember(r) PROVE AccountsKept
  <2>1. UNCHANGED <<users, tokens, resets, teams, coordinators, enforced>>
    BY <1>3 DEF CommitMember
  <2> QED
    BY <1>3, <2>1, MovedServant, ServantStep
<1>4. ASSUME CommitLeader(r) PROVE AccountsKept
  <2>1. PICK t, u : t = req[r].team /\ u = req[r].user
    OBVIOUS
  <2>2. t \in Teams /\ u \in Users
    BY <1>4, <2>1 DEF CommitLeader, TypesInv, Carries, ServantCarries
  <2>3. teams' = [teams EXCEPT ![t].leader = u]
        /\ UNCHANGED <<users, tokens, resets, servants, coordinators, enforced>>
    BY <1>4, <2>1 DEF CommitLeader
  <2> QED
    BY <2>2, <2>3, CommitLeaderTypes
<1> QED
  BY <1>0, <1>1, <1>2, <1>3, <1>4, CommitCreateUserTypes, CommitLinkTypes, CommitRoleTypes,
     RotateTypes, OpenSessionTypes, CommitPasswordTypes, CommitStatusTypes, CommitRemoveTypes,
     CommitApprovalTypes, RepairLinkTypes, RepairProvisionTypes DEF AccountStep

LEMMA AccountStepProceeds ==
  ASSUME TypesInv, SessionsInv, NEW r \in Requests, AccountStep(r)
  PROVE  Proceeds(r)
<1>1. ASSUME RepairLink(r) PROVE Proceeds(r)
  <2>1. PICK link \in req[r].links : RepairNext(r, req[r].links \ {link}, req[r].without)
    BY <1>1 DEF RepairLink
  <2> QED
    BY <1>1, <2>1, AccountStepKept, RepairProceeds DEF RepairLink
<1>2. ASSUME RepairProvision(r) PROVE Proceeds(r)
  <2>1. PICK s \in req[r].without : RepairNext(r, req[r].links, req[r].without \ {s})
    BY <1>2 DEF RepairProvision
  <2> QED
    BY <1>2, <2>1, AccountStepKept, RepairProceeds DEF RepairProvision
<1>3. CASE Finish(r)
  BY <1>3, FinishProceeds
<1>4. CASE ~ Finish(r)
  <2>1. Rotate(r) \/ RepairLink(r) \/ RepairProvision(r)
    BY ZenonT(30), <1>4 DEF AccountStep, CommitCreateUser, CommitLink, CommitRole, OpenSession, CommitPassword,
       CommitStatus, CommitRemove, CommitApproval, CommitServant, CommitProfile, CommitTraining,
       CommitMember, CommitLeader
  <2> QED
    BY <1>1, <1>2, <2>1, RotateProceeds
<1> QED
  BY <1>3, <1>4

LEMMA AccountAtOnceKept ==
  ASSUME TypesInv, AccountAtOnce
  PROVE  AccountsKept
<1>1. ASSUME NEW t \in Teams, NEW status \in Statuses, SetTeamStatus(t, status)
      PROVE  AccountsKept
  BY <1>1, SetTeamStatusTypes DEF SetTeamStatus
<1>2. ASSUME NEW t \in Teams, ClearLeader(t) PROVE AccountsKept
  BY <1>2, CommitLeaderTypes DEF ClearLeader
<1> QED
  BY <1>1, <1>2, UpdateScopeTypes, LogoutTypes, ForgotPasswordTypes, AdminResetPasswordTypes,
     CreateWithUserTypes, ReplaceMembersTypes, AppointTypes DEF AccountAtOnce

LEMMA AccountAtOnceMoves ==
  ASSUME TypesInv, AccountAtOnce
  PROVE  Moved(0) /\ 0 \notin Requests /\ HandlersTypeOK' /\ failures' = failures /\ req' = req
<1>1. \E things : CallAtOnce(things)
  BY DEF AccountAtOnce, UpdateScope, Logout, ForgotPassword, AdminResetPassword, CreateWithUser,
         ReplaceMembers, Appoint, SetTeamStatus, ClearLeader
<1> QED
  BY <1>1, AtOnceMoves DEF TypesInv

-----------------------------------------------------------------------------
(* Care for servants.                                                      *)

CareKept == CareTyped' /\ CareGrows

LEMMA CareGoes ==
  ASSUME NEW r \in Requests, Moved(r), HandlersTypeOK', failures' = failures,
         req'[r].stage \in CareStages, CareCarries(r)', KnowsCare(r)'
  PROVE  Proceeds(r)
<1>1. Carries(r)'
  BY CarriesByStage DEF AccountStages, ServantStages, CareStages, EntryStages
<1>2. Knows(r)'
  BY KnowsByStage DEF CareStages, EntryStages
<1> QED
  BY <1>1, <1>2 DEF Proceeds

LEMMA CareSame ==
  ASSUME TypesInv, UNCHANGED careVars
  PROVE  CareKept
<1>1. UNCHANGED <<alerts, visits, beside, covered>>
  BY DEF careVars, careTables, careHistory
<1> QED
  BY <1>1 DEF CareKept, TypesInv, CareTyped, CareTypeOK, CareGrows, Raised, Opened

LEMMA VisitTyped ==
  ASSUME CareTyped, NEW v \in Visits, Opened(v)
  PROVE  /\ visits[v] \in VisitRow /\ visits[v].servant \in Servants
         /\ visits[v].status \in CaseStatuses /\ visits[v].due \in Nat
  BY DEF CareTyped, CareTypeOK, Opened, VisitRow

LEMMA AlertTyped ==
  ASSUME CareTyped, NEW a \in Alerts, Raised(a)
  PROVE  /\ alerts[a] \in AlertRow /\ alerts[a].servant \in Servants
         /\ alerts[a].key \in Keys /\ alerts[a].status \in {"OPEN", "RESOLVED"}
  BY DEF CareTyped, CareTypeOK, Raised, AlertRow

\* A row of a case that is there is written again.
LEMMA VisitWritten ==
  ASSUME CareTyped, NEW v \in Visits, Opened(v), NEW row \in VisitRow,
         row.servant = visits[v].servant, visits' = [visits EXCEPT ![v] = row],
         alerts' = alerts, beside' \subseteq Servants, covered' \subseteq {a \in Alerts : Raised(a)}
  PROVE  CareKept /\ Opened(v)' /\ visits'[v] = row /\ \A w \in Visits \ {v} : visits'[w] = visits[w]
<1>1. /\ visits' \in [Visits -> {NoVisit} \cup VisitRow]
      /\ visits'[v] = row /\ \A w \in Visits \ {v} : visits'[w] = visits[w]
  BY DEF CareTyped, CareTypeOK
<1>2. Opened(v)'
  BY <1>1, CareAssumption DEF Opened
<1>3. CareTyped'
  BY <1>1 DEF CareTyped, CareTypeOK, Raised
<1>4. CareGrows
  BY <1>1, <1>2 DEF CareGrows, Opened
<1> QED
  BY <1>1, <1>2, <1>3, <1>4 DEF CareKept

\* A new row takes the first free id.
LEMMA FirstVisit ==
  ASSUME FreeVisits # {}
  PROVE  First(FreeVisits) \in Visits /\ ~ Opened(First(FreeVisits))
<1>1. FreeVisits \subseteq Nat
  BY CareAssumption DEF FreeVisits
<1>2. PICK v \in FreeVisits : \A w \in FreeVisits : v <= w
  BY <1>1, LeastNatural
<1> QED
  BY <1>2 DEF First, FreeVisits

LEMMA FirstAlert ==
  ASSUME FreeAlerts # {}
  PROVE  First(FreeAlerts) \in Alerts /\ ~ Raised(First(FreeAlerts))
<1>1. FreeAlerts \subseteq Nat
  BY CareAssumption DEF FreeAlerts
<1>2. PICK v \in FreeAlerts : \A w \in FreeAlerts : v <= w
  BY <1>1, LeastNatural
<1> QED
  BY <1>2 DEF First, FreeAlerts

LEMMA OpenedVisit ==
  ASSUME CareTyped, FreeVisits # {}, NEW s \in Servants, OpenVisit(s),
         alerts' = alerts, beside' \subseteq Servants, covered' = covered
  PROVE  CareKept /\ \E v \in Visits : /\ ~ Opened(v) /\ visits'[v].servant = s
                                       /\ \A w \in Visits \ {v} : visits'[w] = visits[w]
<1>1. PICK v : v = First(FreeVisits)
  OBVIOUS
<1>2. v \in Visits /\ ~ Opened(v)
  BY <1>1, FirstVisit
<1>3. PICK row : row = [servant |-> s, status |-> "ABERTA", due |-> 0]
  OBVIOUS
<1>4. row \in VisitRow /\ row.servant = s
  BY <1>3 DEF VisitRow, CaseStatuses, OpenStatuses
<1>5. visits' = [visits EXCEPT ![v] = row]
  BY <1>1, <1>3 DEF OpenVisit
<1>6. /\ visits' \in [Visits -> {NoVisit} \cup VisitRow]
      /\ visits'[v] = row /\ \A w \in Visits \ {v} : visits'[w] = visits[w]
  BY <1>2, <1>4, <1>5 DEF CareTyped, CareTypeOK
<1>7. CareTyped'
  BY <1>6 DEF CareTyped, CareTypeOK, Raised
<1>8. CareGrows
  BY <1>2, <1>6 DEF CareGrows, Opened
<1> QED
  BY <1>2, <1>4, <1>6, <1>7, <1>8 DEF CareKept

\* Rows of alerts that are there change in nothing but their status.
LEMMA AlertsWritten ==
  ASSUME CareTyped, alerts' \in [Alerts -> {NoAlert} \cup AlertRow],
         \A a \in Alerts : Raised(a) => Raised(a)',
         visits' = visits, beside' = beside, covered' = covered
  PROVE  CareKept
  BY DEF CareKept, CareTyped, CareTypeOK, CareGrows, Opened

-----------------------------------------------------------------------------
(* Calls on care.                                                          *)

LEMMA SignalTyped ==
  ASSUME NEW key \in Keys, NEW s \in Servants, NEW todo \in SUBSET Servants
  PROVE  /\ Signal(key, s, todo) \in
               [kind : {"signal"}, stage : {"raising"},
                touches : {{<<k, p>>} : k \in Keys, p \in Servants},
                key : Keys, servant : Servants, todo : SUBSET Servants]
         /\ Signal(key, s, todo).stage = "raising" /\ Signal(key, s, todo).kind = "signal"
         /\ Signal(key, s, todo).touches = {<<key, s>>}
         /\ Signal(key, s, todo).key = key /\ Signal(key, s, todo).servant = s
         /\ Signal(key, s, todo).todo = todo
  BY DEF Signal

LEMMA RaisingProceeds ==
  ASSUME NEW r \in Requests, NEW key \in Keys, NEW s \in Servants, NEW todo \in SUBSET Servants,
         OpenDuplicates(key, s) = {}, UNCHANGED careVars,
         Moved(r), HandlersTypeOK', failures' = failures, req'[r] = Signal(key, s, todo)
  PROVE  Proceeds(r)
<1>1. PICK q : q = Signal(key, s, todo)
  OBVIOUS
<1>2. /\ q \in [kind : {"signal"}, stage : {"raising"},
                touches : {{<<k, p>>} : k \in Keys, p \in Servants},
                key : Keys, servant : Servants, todo : SUBSET Servants]
      /\ q.stage = "raising" /\ q.touches = {<<key, s>>} /\ q.key = key /\ q.servant = s
  BY <1>1, SignalTyped
<1>3. q \in [kind : {"signal"}, stage : {"raising", "seekingCase"},
             touches : {{<<k, p>>} : k \in Keys, p \in Servants},
             key : Keys, servant : Servants, todo : SUBSET Servants]
  BY <1>2
<1>4. req'[r] = q
  BY <1>1
<1>5. CareCarries(r)'
  BY <1>2, <1>3, <1>4 DEF CareCarries
<1>6. (OpenDuplicates(key, s) = {})'
  BY DEF OpenDuplicates, OpenAlerts, Raised, careVars, careTables
<1>7. KnowsCare(r)'
  BY <1>2, <1>4, <1>6 DEF KnowsCare
<1> QED
  BY <1>2, <1>4, <1>5, <1>7, CareGoes DEF CareStages

LEMMA CareCallProceeds ==
  ASSUME TypesInv, NEW r \in Requests, CareCall(r)
  PROVE  Proceeds(r) /\ req[r] = Idle /\ UNCHANGED careVars
<1>0. UNCHANGED careVars
  BY DEF CareCall, CallSignal, CallSurvey, CallOpenFromAlert, CallUpdateCase, CallAddFollowUp
<1>1. UNCHANGED <<alerts, visits>>
  BY <1>0 DEF careVars, careTables
<1>2. CareTyped
  BY DEF TypesInv
<1>3. ASSUME NEW key \in Keys, NEW s \in Servants, CallSignal(r, key, s)
      PROVE  Proceeds(r) /\ req[r] = Idle
  <2>1. PICK q : q = Signal(key, s, {})
    OBVIOUS
  <2>2. Call(r, q) /\ q.kind # "none" /\ OpenDuplicates(key, s) = {}
    BY <1>3, <2>1, SignalTyped DEF CallSignal
  <2>3. Moved(r) /\ req'[r] = q /\ HandlersTypeOK' /\ failures' = failures /\ req[r] = Idle
    BY <2>2, CallMoves DEF TypesInv
  <2> QED
    BY <1>0, <2>1, <2>2, <2>3, RaisingProceeds
<1>4. ASSUME CallSurvey(r)
      PROVE  Proceeds(r) /\ req[r] = Idle
  <2>1. PICK q : q = [kind |-> "survey", stage |-> "surveying", touches |-> {},
                      todo |-> {s \in Servants : Present(s)}]
    OBVIOUS
  <2>2. Call(r, q)
    BY <1>4, <2>1 DEF CallSurvey
  <2>3. Moved(r) /\ req'[r] = q /\ HandlersTypeOK' /\ failures' = failures /\ req[r] = Idle
    BY <2>1, <2>2, CallMoves DEF TypesInv
  <2>4. q.stage = "surveying" /\ q.todo \in SUBSET Servants
    BY <2>1
  <2>5. CareCarries(r)' /\ KnowsCare(r)'
    BY <2>3, <2>4 DEF CareCarries, KnowsCare
  <2> QED
    BY <2>3, <2>4, <2>5, CareGoes DEF CareStages
<1>5. ASSUME NEW a \in Alerts, CallOpenFromAlert(r, a)
      PROVE  Proceeds(r) /\ req[r] = Idle
  <2>1. PICK s : s = alerts[a].servant
    OBVIOUS
  <2>2. s \in Servants /\ OpenCases(s) = {}
    BY <1>2, <1>5, <2>1, AlertTyped DEF CallOpenFromAlert
  <2>3. PICK q : q = [kind |-> "openCase", stage |-> "openingCase",
                      touches |-> {Case(s)}, servant |-> s]
    OBVIOUS
  <2>4. Call(r, q)
    BY <1>5, <2>1, <2>3 DEF CallOpenFromAlert
  <2>5. Moved(r) /\ req'[r] = q /\ HandlersTypeOK' /\ failures' = failures /\ req[r] = Idle
    BY <2>3, <2>4, CallMoves DEF TypesInv
  <2>6. CareCarries(r)'
    BY <2>2, <2>3, <2>5 DEF CareCarries
  <2>7. (OpenCases(s) = {})'
    BY <1>1, <2>2 DEF OpenCases, Opened
  <2>8. KnowsCare(r)'
    BY <2>3, <2>5, <2>7 DEF KnowsCare
  <2> QED
    BY <2>3, <2>5, <2>6, <2>8, CareGoes DEF CareStages
<1>6. ASSUME NEW v \in Visits, NEW status \in CaseStatuses, CallUpdateCase(r, v, status)
      PROVE  Proceeds(r) /\ req[r] = Idle
  <2>1. PICK s, resolving :
           /\ s = visits[v].servant
           /\ resolving = (status = "RESOLVIDA" /\ visits[v].status # "RESOLVIDA")
    OBVIOUS
  <2>2. s \in Servants /\ resolving \in BOOLEAN /\ Opened(v)
    BY <1>2, <1>6, <2>1, VisitTyped DEF CallUpdateCase
  <2>3. PICK q : q = [kind |-> "case", stage |-> "writingCase", touches |-> {Case(s)},
                      visit |-> v, status |-> status, resolving |-> resolving]
    OBVIOUS
  <2>4. Call(r, q)
    BY <1>6, <2>1, <2>3 DEF CallUpdateCase
  <2>5. Moved(r) /\ req'[r] = q /\ HandlersTypeOK' /\ failures' = failures /\ req[r] = Idle
    BY <2>3, <2>4, CallMoves DEF TypesInv
  <2>6. /\ q \in [kind : {"case"}, stage : {"writingCase", "clearing"},
                  touches : {{Case(p)} : p \in Servants},
                  visit : Visits, status : CaseStatuses, resolving : BOOLEAN]
        /\ q.stage = "writingCase" /\ q.visit = v /\ q.touches = {Case(s)} /\ q.status = status
        /\ q.resolving <=> status = "RESOLVIDA" /\ visits[v].status # "RESOLVIDA"
    BY <2>1, <2>2, <2>3
  <2>7. CareCarries(r)'
    BY <1>1, <2>1, <2>2, <2>5, <2>6 DEF CareCarries, Opened
  <2>8. KnowsCare(r)'
    BY <1>1, <2>5, <2>6 DEF KnowsCare
  <2> QED
    BY <2>5, <2>6, <2>7, <2>8, CareGoes DEF CareStages
<1>7. ASSUME NEW v \in Visits, CallAddFollowUp(r, v)
      PROVE  Proceeds(r) /\ req[r] = Idle
  <2>1. PICK s, status :
           /\ s = visits[v].servant
           /\ status = (IF visits[v].status = "RESOLVIDA" THEN "EM_ANDAMENTO" ELSE visits[v].status)
    OBVIOUS
  <2>2. s \in Servants /\ status \in CaseStatuses /\ Opened(v)
    BY <1>2, <1>7, <2>1, VisitTyped DEF CallAddFollowUp, CaseStatuses, OpenStatuses
  <2>3. PICK q : q = [kind |-> "followUp", stage |-> "adding", touches |-> {Case(s)},
                      visit |-> v, status |-> status]
    OBVIOUS
  <2>4. Call(r, q)
    BY <1>7, <2>1, <2>3 DEF CallAddFollowUp
  <2>5. Moved(r) /\ req'[r] = q /\ HandlersTypeOK' /\ failures' = failures /\ req[r] = Idle
    BY <2>3, <2>4, CallMoves DEF TypesInv
  <2>6. /\ q \in [kind : {"followUp"}, stage : {"adding", "settling"},
                  touches : {{Case(p)} : p \in Servants}, visit : Visits, status : CaseStatuses]
        /\ q.stage = "adding" /\ q.visit = v /\ q.touches = {Case(s)}
    BY <2>2, <2>3
  <2>7. CareCarries(r)'
    BY <1>1, <2>1, <2>2, <2>5, <2>6 DEF CareCarries, Opened
  <2>8. KnowsCare(r)'
    BY <2>5, <2>6 DEF KnowsCare
  <2> QED
    BY <2>5, <2>6, <2>7, <2>8, CareGoes DEF CareStages
<1> QED
  BY <1>0, <1>3, <1>4, <1>5, <1>6, <1>7 DEF CareCall

-----------------------------------------------------------------------------
(* The steps of requests on care.                                          *)

LEMMA SurveyingProceeds ==
  ASSUME TypesInv, NEW r \in Requests, NEW todo \in SUBSET Servants, Surveying(r, todo)
  PROVE  Proceeds(r) /\ req'[r].stage \in {"idle", "surveying"}
<1>1. CASE todo = {}
  BY <1>1, FinishProceeds, IdleFacts DEF Surveying
<1>2. CASE todo # {}
  <2>1. PICK q : q = [kind |-> "survey", stage |-> "surveying", touches |-> {}, todo |-> todo]
    OBVIOUS
  <2>2. Step(r, q)
    BY <1>2, <2>1 DEF Surveying
  <2>3. Moved(r) /\ req'[r] = q /\ HandlersTypeOK' /\ failures' = failures
    BY <2>1, <2>2, StepMoves DEF TypesInv
  <2>4. CareCarries(r)' /\ KnowsCare(r)'
    BY <2>1, <2>3 DEF CareCarries, KnowsCare
  <2> QED
    BY <2>1, <2>3, <2>4, CareGoes DEF CareStages
<1> QED
  BY <1>1, <1>2

LEMMA SurveyNextProceeds ==
  ASSUME TypesInv, NEW r \in Requests, SurveyNext(r)
  PROVE  Proceeds(r) /\ CareKept
<1>0. UNCHANGED careVars /\ req[r].todo \in SUBSET Servants
  <2>1. CareCarries(r) /\ req[r].stage = "surveying" /\ UNCHANGED careVars
    BY DEF SurveyNext, TypesInv, Carries
  <2> QED
    BY <2>1 DEF CareCarries
<1>1. PICK todo : todo = req[r].todo
  OBVIOUS
<1>2. PICK s \in todo :
          \/ Surveying(r, todo \ {s})
          \/ \E key \in Recurring :
                OpenDuplicates(key, s) = {} /\ Step(r, Signal(key, s, todo \ {s}))
  BY <1>1 DEF SurveyNext
<1>3. s \in Servants /\ todo \ {s} \in SUBSET Servants
  BY <1>0, <1>1
<1>4. ASSUME NEW key \in Recurring, OpenDuplicates(key, s) = {},
             Step(r, Signal(key, s, todo \ {s}))
      PROVE  Proceeds(r)
  <2>1. key \in Keys
    BY CareAssumption
  <2>2. PICK q : q = Signal(key, s, todo \ {s})
    OBVIOUS
  <2>3. q.kind # "none"
    BY <1>3, <2>1, <2>2, SignalTyped
  <2>4. Moved(r) /\ req'[r] = q /\ HandlersTypeOK' /\ failures' = failures
    BY <1>4, <2>2, <2>3, StepMoves DEF TypesInv
  <2> QED
    BY <1>0, <1>3, <1>4, <2>1, <2>2, <2>4, RaisingProceeds
<1> QED
  BY <1>0, <1>2, <1>3, <1>4, SurveyingProceeds, CareSame

LEMMA RaiseProceeds ==
  ASSUME TypesInv, NEW r \in Requests, Raise(r)
  PROVE  Proceeds(r) /\ CareKept
         /\ \E a \in Alerts :
               /\ ~ Raised(a) /\ alerts'[a].servant = req[r].servant
               /\ alerts'[a].key = req[r].key
               /\ \A b \in Alerts \ {a} : alerts'[b] = alerts[b]
<1>1. PICK q, key, s, todo : q = req[r] /\ key = q.key /\ s = q.servant /\ todo = q.todo
  OBVIOUS
<1>2. /\ q \in [kind : {"signal"}, stage : {"raising", "seekingCase"},
                touches : {{<<k, p>>} : k \in Keys, p \in Servants},
                key : Keys, servant : Servants, todo : SUBSET Servants]
      /\ <<key, s>> \in q.touches /\ q.stage = "raising"
  BY <1>1 DEF Raise, TypesInv, Carries, CareCarries
<1>3. key \in Keys /\ s \in Servants /\ todo \in SUBSET Servants
  BY <1>1, <1>2
<1>4. PICK a : a = First(FreeAlerts)
  OBVIOUS
<1>5. a \in Alerts /\ ~ Raised(a)
  BY <1>4, FirstAlert DEF Raise
<1>6. PICK row : row = [servant |-> s, key |-> key, status |-> "OPEN"]
  OBVIOUS
<1>7. row \in AlertRow /\ row.servant = s /\ row.key = key
  BY <1>3, <1>6 DEF AlertRow
<1>8. /\ alerts' = [alerts EXCEPT ![a] = row]
      /\ visits' = visits /\ beside' = beside /\ covered' = covered
  BY <1>1, <1>4, <1>6 DEF Raise, careHistory
<1>9. CareTyped
  BY DEF TypesInv
<1>10. /\ alerts' \in [Alerts -> {NoAlert} \cup AlertRow]
       /\ alerts'[a] = row /\ \A b \in Alerts \ {a} : alerts'[b] = alerts[b]
  BY <1>5, <1>7, <1>8, <1>9 DEF CareTyped, CareTypeOK
<1>11. \A b \in Alerts : Raised(b) => Raised(b)'
  BY <1>5, <1>10 DEF Raised
<1>12. CareKept
  BY <1>8, <1>9, <1>10, <1>11, AlertsWritten
<1>13. Proceeds(r)
  <2>1. CASE key \in Following
    <3>1. PICK next : next = [q EXCEPT !.stage = "seekingCase"]
      OBVIOUS
    <3>2. /\ next \in [kind : {"signal"}, stage : {"raising", "seekingCase"},
                touches : {{<<k, p>>} : k \in Keys, p \in Servants},
                key : Keys, servant : Servants, todo : SUBSET Servants]
          /\ next.kind # "none" /\ next.stage = "seekingCase"
          /\ next.touches = q.touches /\ next.key = key /\ next.servant = s
      BY <1>1, <1>2, <3>1
    <3>3. Step(r, next)
      BY <1>1, <2>1, <3>1 DEF Raise
    <3>4. Moved(r) /\ req'[r] = next /\ HandlersTypeOK' /\ failures' = failures
      BY <3>2, <3>3, StepMoves DEF TypesInv
    <3>5. CareCarries(r)' /\ KnowsCare(r)'
      <4> HIDE <3>1
      <4> QED
        BY <1>2, <3>2, <3>4 DEF CareCarries, KnowsCare
    <3> QED
      BY <3>2, <3>4, <3>5, CareGoes DEF CareStages
  <2>2. CASE key \notin Following
    <3>1. Surveying(r, todo)
      BY <1>1, <2>2 DEF Raise
    <3> QED
      BY <1>3, <3>1, SurveyingProceeds
  <2> QED
    BY <2>1, <2>2
<1> QED
  BY <1>1, <1>5, <1>7, <1>10, <1>12, <1>13

LEMMA LastOpenCase ==
  ASSUME CareTyped, NEW s, OpenCases(s) # {}, NEW v,
         v = CHOOSE x \in OpenCases(s) : \A w \in OpenCases(s) : w <= x
  PROVE  v \in OpenCases(s)
<1> DEFINE N == Cardinality(Visits)
           Rest == {n \in Nat : \E x \in OpenCases(s) : n = N - x}
<1>1. N \in Nat
  BY CareAssumption, FS_CardinalityType
<1>2. OpenCases(s) \subseteq 1..N
  BY CareAssumption DEF OpenCases
<1>3. Rest # {}
  <2>1. PICK x \in OpenCases(s) : x \in 1..N
    BY <1>2
  <2>2. N - x \in Nat
    BY <1>1, <2>1
  <2> QED
    BY <2>1, <2>2
<1>4. PICK n \in Rest : \A m \in Rest : n <= m
  BY <1>3, LeastNatural
<1>5. PICK x \in OpenCases(s) : n = N - x
  BY <1>4
<1>6. ASSUME NEW w \in OpenCases(s) PROVE w <= x
  <2>1. w \in 1..N /\ x \in 1..N
    BY <1>2
  <2>2. N - w \in Nat
    BY <1>1, <2>1
  <2>3. N - w \in Rest
    BY <2>2
  <2>4. N - x <= N - w
    BY <1>4, <1>5, <2>3
  <2> QED
    BY <1>1, <2>1, <2>4
<1>7. \E y \in OpenCases(s) : \A w \in OpenCases(s) : w <= y
  BY <1>6
<1> QED
  BY <1>7

LEMMA SeekCaseProceeds ==
  ASSUME TypesInv, NEW r \in Requests, SeekCase(r)
  PROVE  Proceeds(r) /\ CareKept
<1>1. PICK q, s, todo : q = req[r] /\ s = q.servant /\ todo = q.todo
  OBVIOUS
<1>2. todo \in SUBSET Servants /\ UNCHANGED careVars /\ CareTyped
  <2>1. CareCarries(r) /\ req[r].stage = "seekingCase" /\ CareTyped /\ UNCHANGED careVars
    BY DEF SeekCase, TypesInv, Carries
  <2> QED
    BY <1>1, <2>1 DEF CareCarries
<1>3. CASE OpenCases(s) = {}
  <2>1. Surveying(r, todo)
    BY <1>1, <1>3 DEF SeekCase
  <2> QED
    BY <1>2, <2>1, SurveyingProceeds, CareSame
<1>4. CASE OpenCases(s) # {}
  <2>1. PICK v : v = CHOOSE x \in OpenCases(s) : \A w \in OpenCases(s) : w <= x
    OBVIOUS
  <2>2. v \in OpenCases(s)
    BY <1>2, <1>4, <2>1, LastOpenCase
  <2>3. v \in Visits /\ Opened(v)
    BY <2>2 DEF OpenCases
  <2>4. PICK next : next = [kind |-> "signal", stage |-> "following", touches |-> {},
                            visit |-> v, todo |-> todo]
    OBVIOUS
  <2>5. Step(r, next)
    BY <1>1, <1>4, <2>1, <2>4 DEF SeekCase
  <2>6. Moved(r) /\ req'[r] = next /\ HandlersTypeOK' /\ failures' = failures
    BY <2>4, <2>5, StepMoves DEF TypesInv
  <2>7. visits' = visits
    BY <1>2 DEF careVars, careTables
  <2>8. CareCarries(r)' /\ KnowsCare(r)'
    BY <1>2, <2>3, <2>4, <2>6, <2>7 DEF CareCarries, KnowsCare, Opened
  <2> QED
    BY <1>2, <2>4, <2>6, <2>8, CareGoes, CareSame DEF CareStages
<1> QED
  BY <1>3, <1>4

\* One more follow-up of a case.
LEMMA DueWritten ==
  ASSUME CareTyped, NEW v \in Visits, Opened(v), NEW due \in Nat,
         visits' = [visits EXCEPT ![v].due = due],
         UNCHANGED <<alerts, beside, covered>>
  PROVE  /\ CareKept
         /\ visits'[v].servant = visits[v].servant /\ visits'[v].status = visits[v].status
         /\ \A w \in Visits \ {v} : visits'[w] = visits[w]
<1>1. PICK p, row : p = visits[v] /\ row = [p EXCEPT !.due = due]
  OBVIOUS
<1>2. p \in VisitRow
  BY <1>1, VisitTyped
<1>3. row \in VisitRow /\ row.servant = p.servant /\ row.status = p.status
  BY <1>1, <1>2 DEF VisitRow
<1>4. visits' = [visits EXCEPT ![v] = row]
  BY <1>1
<1>5. beside' \subseteq Servants /\ covered' \subseteq {a \in Alerts : Raised(a)}
  BY DEF CareTyped, CareTypeOK
<1>6. CareKept /\ visits'[v] = row /\ \A w \in Visits \ {v} : visits'[w] = visits[w]
  BY <1>1, <1>3, <1>4, <1>5, VisitWritten
<1> QED
  BY <1>1, <1>3, <1>6

LEMMA FollowProceeds ==
  ASSUME TypesInv, NEW r \in Requests, Follow(r)
  PROVE  /\ Proceeds(r) /\ CareKept /\ alerts' = alerts /\ beside' = beside /\ covered' = covered
         /\ \A v \in Visits : Opened(v) => visits'[v].status = visits[v].status
         /\ \A v \in Visits : Opened(v)' => Opened(v)
<1>1. PICK v, todo : v = req[r].visit /\ todo = req[r].todo
  OBVIOUS
<1>2. v \in Visits /\ Opened(v) /\ todo \in SUBSET Servants /\ CareTyped
  <2>1. CareCarries(r) /\ req[r].stage = "following" /\ CareTyped
    BY DEF Follow, TypesInv, Carries
  <2> QED
    BY <1>1, <2>1 DEF CareCarries
<1>3. PICK due : due = visits[v].due + 1
  OBVIOUS
<1>4. due \in Nat
  BY <1>2, <1>3, VisitTyped
<1>5. /\ visits' = [visits EXCEPT ![v].due = due]
      /\ UNCHANGED <<alerts, beside, covered>> /\ Surveying(r, todo)
  BY <1>1, <1>3 DEF Follow, careHistory
<1>6. /\ CareKept /\ visits'[v].status = visits[v].status
      /\ \A w \in Visits \ {v} : visits'[w] = visits[w]
  BY <1>2, <1>4, <1>5, DueWritten
<1> QED
  BY <1>2, <1>5, <1>6, SurveyingProceeds DEF Opened

LEMMA AddFollowUpProceeds ==
  ASSUME TypesInv, NEW r \in Requests, AddFollowUp(r)
  PROVE  /\ Proceeds(r) /\ CareKept /\ alerts' = alerts /\ beside' = beside /\ covered' = covered
         /\ \A v \in Visits : Opened(v) => visits'[v].status = visits[v].status
         /\ \A v \in Visits : Opened(v)' => Opened(v)
<1>1. PICK q, v : q = req[r] /\ v = q.visit
  OBVIOUS
<1>2. /\ q \in [kind : {"followUp"}, stage : {"adding", "settling"},
                touches : {{Case(p)} : p \in Servants}, visit : Visits, status : CaseStatuses]
      /\ Case(visits[v].servant) \in q.touches /\ Opened(v) /\ v \in Visits /\ CareTyped
  <2>1. CareCarries(r) /\ req[r].stage = "adding" /\ CareTyped
    BY DEF AddFollowUp, TypesInv, Carries
  <2> QED
    BY <1>1, <2>1 DEF CareCarries
<1>3. PICK due : due = visits[v].due + 1
  OBVIOUS
<1>4. due \in Nat
  BY <1>2, <1>3, VisitTyped
<1>5. PICK next : next = [q EXCEPT !.stage = "settling"]
  OBVIOUS
<1>6. /\ next \in [kind : {"followUp"}, stage : {"adding", "settling"},
                   touches : {{Case(p)} : p \in Servants}, visit : Visits, status : CaseStatuses]
      /\ next.kind # "none" /\ next.stage = "settling"
      /\ next.visit = v /\ next.touches = q.touches
  BY <1>1, <1>2, <1>5
<1>7. /\ visits' = [visits EXCEPT ![v].due = due]
      /\ UNCHANGED <<alerts, beside, covered>> /\ Step(r, next)
  BY <1>1, <1>3, <1>5 DEF AddFollowUp, careHistory
<1>8. /\ CareKept /\ visits'[v].status = visits[v].status
      /\ visits'[v].servant = visits[v].servant
      /\ \A w \in Visits \ {v} : visits'[w] = visits[w]
  BY <1>2, <1>4, <1>7, DueWritten
<1>9. Opened(v)'
  BY <1>2, <1>8 DEF CareKept, CareGrows
<1>10. Moved(r) /\ req'[r] = next /\ HandlersTypeOK' /\ failures' = failures
  BY <1>6, <1>7, StepMoves DEF TypesInv
<1>11. CareCarries(r)' /\ KnowsCare(r)'
  <2> HIDE <1>5
  <2> QED
    BY <1>2, <1>6, <1>8, <1>9, <1>10 DEF CareCarries, KnowsCare, Opened
<1>12. Proceeds(r)
  BY <1>6, <1>10, <1>11, CareGoes DEF CareStages
<1> QED
  BY <1>2, <1>7, <1>8, <1>12 DEF Opened

\* The status of a case is written.
Rewritten(v, status) ==
    /\ visits'[v].servant = visits[v].servant /\ visits'[v].status = status
    /\ \A w \in Visits \ {v} : visits'[w] = visits[w]
    /\ beside \subseteq beside'
    /\ visits[v].status = "RESOLVIDA" /\ status # "RESOLVIDA" => visits[v].servant \in beside'

LEMMA RewriteKept ==
  ASSUME TypesInv, NEW v \in Visits, Opened(v), NEW status \in CaseStatuses, Rewrite(v, status),
         alerts' = alerts, covered' \subseteq {a \in Alerts : Raised(a)}
  PROVE  CareKept /\ Rewritten(v, status)
<1>1. PICK p, row : p = visits[v] /\ row = [p EXCEPT !.status = status]
  OBVIOUS
<1>2. p \in VisitRow /\ p.servant \in Servants
  BY <1>1, VisitTyped DEF TypesInv
<1>3. row \in VisitRow /\ row.servant = p.servant /\ row.status = status
  BY <1>1, <1>2 DEF VisitRow
<1>4. visits' = [visits EXCEPT ![v] = row]
  BY <1>1 DEF Rewrite
<1>5. /\ beside \subseteq beside' /\ beside' \subseteq Servants
      /\ visits[v].status = "RESOLVIDA" /\ status # "RESOLVIDA" => visits[v].servant \in beside'
  BY <1>1, <1>2 DEF Rewrite, TypesInv, CareTyped, CareTypeOK
<1>6. CareKept /\ visits'[v] = row /\ \A w \in Visits \ {v} : visits'[w] = visits[w]
  BY <1>1, <1>3, <1>4, <1>5, VisitWritten DEF TypesInv
<1> QED
  BY <1>1, <1>3, <1>5, <1>6 DEF Rewritten

LEMMA CommitOpenProceeds ==
  ASSUME TypesInv, NEW r \in Requests, CommitOpenFromAlert(r)
  PROVE  Proceeds(r) /\ CareKept /\ alerts' = alerts /\ beside' = beside /\ covered' = covered
         /\ \E v \in Visits : /\ ~ Opened(v) /\ visits'[v].servant = req[r].servant
                              /\ \A w \in Visits \ {v} : visits'[w] = visits[w]
<1>1. PICK s : s = req[r].servant
  OBVIOUS
<1>2. s \in Servants /\ CareTyped
  <2>1. CareCarries(r) /\ req[r].stage = "openingCase" /\ CareTyped
    BY DEF CommitOpenFromAlert, TypesInv, Carries
  <2> QED
    BY <1>1, <2>1 DEF CareCarries
<1>3. /\ FreeVisits # {} /\ OpenVisit(s) /\ Finish(r)
      /\ alerts' = alerts /\ beside' = beside /\ covered' = covered
  BY <1>1 DEF CommitOpenFromAlert, careHistory
<1>4. beside' \subseteq Servants
  BY <1>2, <1>3 DEF CareTyped, CareTypeOK
<1> QED
  BY <1>1, <1>2, <1>3, <1>4, OpenedVisit, FinishProceeds

LEMMA CommitCaseProceeds ==
  ASSUME TypesInv, NEW r \in Requests, CommitCase(r)
  PROVE  /\ Proceeds(r) /\ CareKept /\ alerts' = alerts
         /\ req[r].visit \in Visits /\ Opened(req[r].visit)
         /\ Rewritten(req[r].visit, req[r].status)
         /\ req[r].resolving => req'[r].stage = "clearing" /\ req'[r].visit = req[r].visit
<1>1. PICK q, v, status : q = req[r] /\ v = q.visit /\ status = q.status
  OBVIOUS
<1>2. /\ q \in [kind : {"case"}, stage : {"writingCase", "clearing"},
                touches : {{Case(p)} : p \in Servants},
                visit : Visits, status : CaseStatuses, resolving : BOOLEAN]
      /\ Case(visits[v].servant) \in q.touches /\ Opened(v) /\ v \in Visits
      /\ status \in CaseStatuses /\ CareTyped
  <2>1. CareCarries(r) /\ req[r].stage = "writingCase" /\ CareTyped
    BY DEF CommitCase, TypesInv, Carries
  <2> QED
    BY <1>1, <2>1 DEF CareCarries
<1>3. covered' \subseteq {a \in Alerts : Raised(a)} /\ alerts' = alerts
  BY <1>2 DEF CommitCase, OpenAlerts, CareTyped, CareTypeOK
<1>4. Rewrite(v, status)
  BY <1>1 DEF CommitCase
<1>5. CareKept /\ Rewritten(v, status)
  BY <1>2, <1>3, <1>4, RewriteKept
<1>6. CASE q.resolving
  <2>1. PICK next : next = [q EXCEPT !.stage = "clearing"]
    OBVIOUS
  <2>2. /\ next \in [kind : {"case"}, stage : {"writingCase", "clearing"},
                     touches : {{Case(p)} : p \in Servants},
                     visit : Visits, status : CaseStatuses, resolving : BOOLEAN]
        /\ next.kind # "none" /\ next.stage = "clearing"
        /\ next.visit = v /\ next.touches = q.touches
    BY <1>1, <1>2, <2>1
  <2>3. Step(r, next)
    BY <1>1, <1>6, <2>1 DEF CommitCase
  <2>4. Moved(r) /\ req'[r] = next /\ HandlersTypeOK' /\ failures' = failures
    BY <2>2, <2>3, StepMoves DEF TypesInv
  <2>5. Opened(v)' /\ visits'[v].servant = visits[v].servant
    BY <1>2, <1>5 DEF CareKept, CareGrows
  <2>6. CareCarries(r)' /\ KnowsCare(r)'
    <3> HIDE <2>1
    <3> QED
      BY <1>2, <2>2, <2>4, <2>5 DEF CareCarries, KnowsCare, Opened
  <2>7. Proceeds(r)
    BY <2>2, <2>4, <2>6, CareGoes DEF CareStages
  <2> QED
    BY <1>1, <1>2, <1>3, <1>5, <2>2, <2>4, <2>7
<1>7. CASE ~ q.resolving
  <2>1. Finish(r)
    BY <1>1, <1>7 DEF CommitCase
  <2> QED
    BY <1>1, <1>2, <1>3, <1>5, <1>7, <2>1, FinishProceeds
<1> QED
  BY <1>6, <1>7

LEMMA SettleCaseProceeds ==
  ASSUME TypesInv, NEW r \in Requests, SettleCase(r)
  PROVE  /\ Proceeds(r) /\ CareKept /\ alerts' = alerts /\ covered' = covered
         /\ req[r].visit \in Visits /\ Opened(req[r].visit)
         /\ Rewritten(req[r].visit, req[r].status)
<1>1. PICK q, v, status : q = req[r] /\ v = q.visit /\ status = q.status
  OBVIOUS
<1>2. Opened(v) /\ v \in Visits /\ status \in CaseStatuses /\ CareTyped
  <2>1. CareCarries(r) /\ req[r].stage = "settling" /\ CareTyped
    BY DEF SettleCase, TypesInv, Carries
  <2>2. q \in [kind : {"followUp"}, stage : {"adding", "settling"},
               touches : {{Case(s)} : s \in Servants}, visit : Visits, status : CaseStatuses]
        /\ Opened(q.visit)
    BY <1>1, <2>1 DEF CareCarries
  <2> QED
    BY <1>1, <2>1, <2>2
<1>3. /\ Rewrite(v, status) /\ Finish(r) /\ alerts' = alerts /\ covered' = covered
      /\ covered' \subseteq {a \in Alerts : Raised(a)}
  BY <1>1, <1>2 DEF SettleCase, CareTyped, CareTypeOK
<1> QED
  BY <1>1, <1>2, <1>3, RewriteKept, FinishProceeds

\* Alerts that were open are resolved, and nothing else.
Resolved(ids) ==
    /\ \A a \in Alerts : Raised(a) =>
          /\ alerts'[a].servant = alerts[a].servant /\ alerts'[a].key = alerts[a].key
          /\ alerts'[a].status = IF a \in ids THEN "RESOLVED" ELSE alerts[a].status
    /\ \A a \in Alerts : Raised(a)' => Raised(a)
    /\ visits' = visits /\ beside' = beside /\ covered' = covered

LEMMA ResolvedKept ==
  ASSUME TypesInv, NEW ids, \A a \in ids : Raised(a),
         alerts' = [a \in Alerts |-> IF a \in ids THEN [alerts[a] EXCEPT !.status = "RESOLVED"]
                                     ELSE alerts[a]],
         visits' = visits, beside' = beside, covered' = covered
  PROVE  CareKept /\ Resolved(ids)
<1>1. CareTyped
  BY DEF TypesInv
<1>2. ASSUME NEW a \in Alerts, Raised(a)
      PROVE  /\ alerts'[a] \in AlertRow
             /\ alerts'[a].servant = alerts[a].servant /\ alerts'[a].key = alerts[a].key
             /\ alerts'[a].status = IF a \in ids THEN "RESOLVED" ELSE alerts[a].status
  BY <1>1, <1>2, AlertTyped DEF AlertRow
<1>3. ASSUME NEW a \in Alerts, ~ Raised(a)
      PROVE  alerts'[a] = NoAlert
  BY <1>3 DEF Raised
<1>4. /\ alerts' \in [Alerts -> {NoAlert} \cup AlertRow]
      /\ \A a \in Alerts : Raised(a) => Raised(a)'
  BY <1>2, <1>3, CareAssumption DEF Raised
<1>5. CareKept
  BY <1>1, <1>4, AlertsWritten
<1> QED
  BY <1>2, <1>3, <1>5 DEF Resolved, Raised

LEMMA ClearAlertsProceeds ==
  ASSUME TypesInv, NEW r \in Requests, ClearAlerts(r)
  PROVE  Proceeds(r) /\ CareKept /\ Resolved(OpenAlerts(visits[req[r].visit].servant))
<1>1. PICK ids : ids = OpenAlerts(visits[req[r].visit].servant)
  OBVIOUS
<1>2. \A a \in ids : Raised(a)
  BY <1>1 DEF OpenAlerts
<1>3. /\ alerts' = [a \in Alerts |-> IF a \in ids THEN [alerts[a] EXCEPT !.status = "RESOLVED"]
                                     ELSE alerts[a]]
      /\ visits' = visits /\ beside' = beside /\ covered' = covered /\ Finish(r)
  BY <1>1 DEF ClearAlerts, careHistory
<1> QED
  BY <1>1, <1>2, <1>3, ResolvedKept, FinishProceeds

LEMMA ResolveAlertKept ==
  ASSUME TypesInv, NEW a \in Alerts, ResolveAlert(a)
  PROVE  CareKept /\ Resolved({a})
<1>1. CareTyped
  BY DEF TypesInv
<1>2. /\ alerts' = [alerts EXCEPT ![a].status = "RESOLVED"] /\ Raised(a)
      /\ visits' = visits /\ beside' = beside /\ covered' = covered
  BY DEF ResolveAlert, careHistory
<1>3. alerts' = [b \in Alerts |-> IF b \in {a} THEN [alerts[b] EXCEPT !.status = "RESOLVED"]
                                  ELSE alerts[b]]
  BY <1>1, <1>2 DEF CareTyped, CareTypeOK
<1> QED
  BY <1>2, <1>3, ResolvedKept

LEMMA OpenCaseKept ==
  ASSUME TypesInv, NEW s \in Servants, OpenCase(s)
  PROVE  /\ CareKept /\ alerts' = alerts /\ beside' = beside \cup {s} /\ covered' = covered
         /\ \E v \in Visits : /\ ~ Opened(v) /\ visits'[v].servant = s
                              /\ \A w \in Visits \ {v} : visits'[w] = visits[w]
<1>1. /\ FreeVisits # {} /\ OpenVisit(s) /\ beside' = beside \cup {s}
      /\ alerts' = alerts /\ covered' = covered /\ beside' \subseteq Servants
  BY DEF OpenCase, TypesInv, CareTyped, CareTypeOK
<1> QED
  BY <1>1, OpenedVisit DEF TypesInv

LEMMA CompleteFollowUpKept ==
  ASSUME TypesInv, NEW v \in Visits, CompleteFollowUp(v)
  PROVE  /\ CareKept /\ alerts' = alerts /\ beside' = beside /\ covered' = covered
         /\ \A w \in Visits : Opened(w) => visits'[w].status = visits[w].status
         /\ \A w \in Visits : Opened(w)' => Opened(w)
<1>1. PICK due : due = visits[v].due - 1
  OBVIOUS
<1>2. Opened(v) /\ CareTyped /\ due \in Nat
  <2>1. Opened(v) /\ CareTyped /\ visits[v].due > 0
    BY DEF CompleteFollowUp, TypesInv
  <2>2. visits[v].due \in Nat
    BY <2>1, VisitTyped
  <2> QED
    BY <1>1, <2>1, <2>2
<1>3. visits' = [visits EXCEPT ![v].due = due] /\ UNCHANGED <<alerts, beside, covered>>
  BY <1>1 DEF CompleteFollowUp, careHistory
<1> QED
  BY <1>2, <1>3, DueWritten DEF Opened

LEMMA CareStepProceeds ==
  ASSUME TypesInv, NEW r \in Requests, CareStep(r)
  PROVE  Proceeds(r) /\ CareKept
BY SurveyNextProceeds, RaiseProceeds, SeekCaseProceeds, FollowProceeds, CommitOpenProceeds,
   CommitCaseProceeds, ClearAlertsProceeds, AddFollowUpProceeds, SettleCaseProceeds DEF CareStep

LEMMA CareAtOnceKept ==
  ASSUME TypesInv, CareAtOnce
  PROVE  /\ CareKept
         /\ Moved(0) /\ 0 \notin Requests /\ HandlersTypeOK' /\ failures' = failures /\ req' = req
<1>1. CareKept
  BY ResolveAlertKept, OpenCaseKept, CompleteFollowUpKept DEF CareAtOnce
<1>2. \E things : CallAtOnce(things)
  BY DEF CareAtOnce, ResolveAlert, OpenCase, CompleteFollowUp
<1> QED
  BY <1>1, <1>2, AtOnceMoves DEF TypesInv

-----------------------------------------------------------------------------
(* Talents.                                                                *)

FitnessKept == FitnessTyped' /\ FitnessGrows

LEMMA TalentTyped ==
  ASSUME FitnessTyped, NEW k \in Talents, Known(k)
  PROVE  /\ talents[k] \in TalentRow /\ talents[k].servant \in Servants
         /\ talents[k].stage \in Stages /\ talents[k].review \in Reviews
         /\ Present(talents[k].servant)
  BY DEF FitnessTyped, FitnessTypeOK, Known, TalentRow

LEMMA FitnessSame ==
  ASSUME TypesInv, AccountsKept, UNCHANGED fitnessVars
  PROVE  FitnessKept
<1>1. talents' = talents /\ latest' = latest /\ unavailable' = unavailable /\ FitnessTyped
  BY DEF fitnessVars, TypesInv
<1>2. FitnessTypeOK' /\ FitnessGrows
  BY <1>1 DEF FitnessTyped, FitnessTypeOK, TalentsOf, Known, FitnessGrows
<1>3. ASSUME NEW k \in Talents, Known(k)' PROVE Present(talents[k].servant)'
  <2>1. PICK s : s = talents[k].servant
    OBVIOUS
  <2>2. s \in Servants /\ Present(s)
    BY <1>1, <1>3, <2>1, TalentTyped DEF Known
  <2> QED
    BY <1>1, <2>1, <2>2 DEF AccountsKept, AccountsGrow, Present
<1> QED
  BY <1>2, <1>3 DEF FitnessKept, FitnessTyped

LEMMA TalentWritten ==
  ASSUME TypesInv, NEW k \in Talents, NEW row \in TalentRow, Present(row.servant),
         Known(k) => row.servant = talents[k].servant, WriteTalent(k, row),
         servants' = servants, unavailable' = unavailable
  PROVE  /\ FitnessKept /\ talents'[k] = row /\ \A l \in Talents \ {k} : talents'[l] = talents[l]
<1>1. FitnessTyped /\ row.servant \in Servants
  BY DEF TypesInv, TalentRow
<1>2. /\ talents' \in [Talents -> {NoTalent} \cup TalentRow]
      /\ talents'[k] = row /\ \A l \in Talents \ {k} : talents'[l] = talents[l]
  BY <1>1 DEF WriteTalent, FitnessTyped, FitnessTypeOK
<1>3. Known(k)' /\ \A l \in Talents \ {k} : Known(l)' <=> Known(l)
  BY <1>2, FitnessAssumption DEF Known
<1>4. PICK p : p = row.servant
  OBVIOUS
<1>5. /\ latest' \in [Servants -> Talents \cup {NoTalent}]
      /\ latest'[p] = k /\ \A s \in Servants \ {p} : latest'[s] = latest[s]
  BY <1>1, <1>4 DEF WriteTalent, FitnessTyped, FitnessTypeOK
<1>6. ASSUME NEW s \in Servants PROVE latest'[s] \in TalentsOf(s)' \cup {NoTalent}
  <2>1. CASE s = p
    BY <1>2, <1>3, <1>4, <1>5, <2>1 DEF TalentsOf
  <2>2. CASE s # p
    <3>1. latest'[s] = latest[s] /\ latest[s] \in TalentsOf(s) \cup {NoTalent}
      BY <1>1, <1>5, <2>2 DEF FitnessTyped, FitnessTypeOK
    <3>2. k \notin TalentsOf(s)
      BY <1>4, <2>2 DEF TalentsOf
    <3> QED
      BY <1>2, <1>3, <3>1, <3>2 DEF TalentsOf
  <2> QED
    BY <2>1, <2>2
<1>7. FitnessTypeOK'
  BY <1>1, <1>2, <1>5, <1>6 DEF FitnessTyped, FitnessTypeOK
<1>8. ASSUME NEW l \in Talents, Known(l)' PROVE Present(talents[l].servant)'
  <2>1. CASE l = k
    BY <1>2, <2>1 DEF Present
  <2>2. CASE l # k
    <3>1. Known(l) /\ talents'[l] = talents[l]
      BY <1>2, <1>3, <1>8, <2>2
    <3>2. Present(talents[l].servant)
      BY <1>1, <3>1, TalentTyped
    <3> QED
      BY <3>1, <3>2 DEF Present
  <2> QED
    BY <2>1, <2>2
<1> QED
  BY <1>2, <1>3, <1>7, <1>8 DEF FitnessKept, FitnessTyped, FitnessGrows

LEMMA FirstTalent ==
  ASSUME FreeTalents # {}
  PROVE  First(FreeTalents) \in Talents /\ ~ Known(First(FreeTalents))
<1>1. FreeTalents \subseteq Nat
  BY FitnessAssumption DEF FreeTalents
<1>2. PICK v \in FreeTalents : \A w \in FreeTalents : v <= w
  BY <1>1, LeastNatural
<1> QED
  BY <1>2 DEF First, FreeTalents

\* What is written of a talent that is known, and of a new one.
TalentMoved(k) ==
    /\ Known(k) => talents'[k].servant = talents[k].servant
    /\ \A l \in Talents \ {k} : talents'[l] = talents[l]

LEMMA CreateTalentKept ==
  ASSUME TypesInv, NEW s \in Servants, NEW stage \in Stages, CreateTalent(s, stage)
  PROVE  FitnessKept /\ \A l \in Talents : Known(l) => talents'[l] = talents[l]
<1>1. PICK k : k = First(FreeTalents)
  OBVIOUS
<1>2. k \in Talents /\ ~ Known(k)
  BY <1>1, FirstTalent DEF CreateTalent
<1>3. PICK row : row = [servant |-> s, stage |-> stage, review |-> "NOT_REQUIRED"]
  OBVIOUS
<1>4. row \in TalentRow /\ row.servant = s
  BY <1>3 DEF TalentRow, Reviews
<1>5. WriteTalent(k, row) /\ Present(s) /\ servants' = servants /\ unavailable' = unavailable
  BY <1>1, <1>3 DEF CreateTalent, accountVars, accountTables
<1>6. FitnessKept /\ \A l \in Talents \ {k} : talents'[l] = talents[l]
  BY <1>2, <1>4, <1>5, TalentWritten
<1> QED
  BY <1>2, <1>6

LEMMA StagedTalent ==
  ASSUME TypesInv, NEW k \in Talents, Known(k), NEW stage \in Stages, NEW review \in Reviews, NEW row,
         row = [talents[k] EXCEPT !.stage = stage, !.review = review], WriteTalent(k, row),
         servants' = servants, unavailable' = unavailable
  PROVE  FitnessKept /\ TalentMoved(k) /\ talents'[k].review = review
<1>1. PICK p : p = talents[k]
  OBVIOUS
<1>2. p \in TalentRow /\ Present(p.servant)
  BY <1>1, TalentTyped DEF TypesInv
<1>3. row \in TalentRow /\ row.servant = p.servant /\ row.review = review
  BY <1>1, <1>2 DEF TalentRow
<1>4. /\ FitnessKept /\ talents'[k] = row /\ \A l \in Talents \ {k} : talents'[l] = talents[l]
  BY ZenonT(30), <1>1, <1>2, <1>3, TalentWritten
<1> QED
  BY <1>1, <1>3, <1>4 DEF TalentMoved

LEMMA MoveStageKept ==
  ASSUME TypesInv, NEW k \in Talents, MoveStage(k, "EM_AVALIACAO")
  PROVE  FitnessKept /\ TalentMoved(k) /\ talents'[k].review = "NOT_REQUIRED"
<1>1. PICK row : row = [talents[k] EXCEPT !.stage = "EM_AVALIACAO", !.review = "NOT_REQUIRED"]
  OBVIOUS
<1>2. WriteTalent(k, row) /\ Known(k) /\ servants' = servants /\ unavailable' = unavailable
  BY <1>1 DEF MoveStage, AtStage, accountVars, accountTables
<1> QED
  BY ZenonT(30), <1>1, <1>2, StagedTalent DEF Stages, Reviews

LEMMA RejectTalentKept ==
  ASSUME TypesInv, NEW k \in Talents, RejectTalent(k)
  PROVE  FitnessKept /\ TalentMoved(k) /\ talents'[k].review = "PENDING_ADMIN_REVIEW"
<1>1. PICK row : row = [talents[k] EXCEPT !.stage = "REPROVADO", !.review = "PENDING_ADMIN_REVIEW"]
  OBVIOUS
<1>2. WriteTalent(k, row) /\ Known(k) /\ servants' = servants /\ unavailable' = unavailable
  BY <1>1 DEF RejectTalent, accountVars, accountTables
<1> QED
  BY ZenonT(30), <1>1, <1>2, StagedTalent DEF Stages, Reviews

LEMMA PutAvailabilityKept ==
  ASSUME TypesInv, NEW s \in Servants, PutAvailability(s)
  PROVE  FitnessKept /\ talents' = talents
<1>1. /\ talents' = talents /\ latest' = latest /\ servants' = servants
      /\ unavailable' \subseteq Servants /\ FitnessTyped
  BY DEF PutAvailability, accountVars, accountTables, TypesInv, FitnessTyped, FitnessTypeOK
<1> QED
  BY <1>1 DEF FitnessKept, FitnessTyped, FitnessTypeOK, FitnessGrows, TalentsOf, Known, Present

LEMMA CallApproveProceeds ==
  ASSUME TypesInv, NEW r \in Requests, NEW k \in Talents, CallApproveTalent(r, k)
  PROVE  /\ Proceeds(r) /\ FitnessKept /\ TalentMoved(k) /\ talents'[k].review = "NOT_REQUIRED"
         /\ req[r] = Idle /\ Rejection(k) \in req'[r].touches
<1>1. PICK row : row = [talents[k] EXCEPT !.stage = "APROVADO", !.review = "NOT_REQUIRED"]
  OBVIOUS
<1>2. WriteTalent(k, row) /\ Known(k) /\ servants' = servants /\ unavailable' = unavailable
  BY <1>1 DEF CallApproveTalent, AtStage, accountVars, accountTables
<1>3. FitnessKept /\ TalentMoved(k) /\ talents'[k].review = "NOT_REQUIRED"
  BY ZenonT(30), <1>1, <1>2, StagedTalent DEF Stages, Reviews
<1>4. PICK s : s = talents[k].servant
  OBVIOUS
<1>5. s \in Servants /\ Present(s)
  BY <1>2, <1>4, TalentTyped DEF TypesInv
<1>6. PICK q : q = [kind |-> "talent", stage |-> "activating", touches |-> {s, Rejection(k)},
                    servant |-> s]
  OBVIOUS
<1>7. Call(r, q)
  BY <1>4, <1>6 DEF CallApproveTalent
<1>8. ASSUME Moved(r), req'[r] = q PROVE ServantCarries(r)'
  BY <1>2, <1>5, <1>6, <1>8 DEF ServantCarries, Present
<1>9. Enters(r, "activating") /\ req'[r] = q
  BY <1>6, <1>7, <1>8, ServantEnters DEF ServantStages
<1> QED
  BY <1>3, <1>6, <1>9, EntersProceeds DEF Enters

LEMMA CallReviewProceeds ==
  ASSUME TypesInv, NEW r \in Requests, NEW k \in Talents, NEW reversed \in BOOLEAN,
         CallReviewRejection(r, k, reversed)
  PROVE  Proceeds(r) /\ req[r] = Idle
<1>1. PICK q : q = [kind |-> "review", stage |-> "reviewing", touches |-> {Rejection(k)},
                    talent |-> k, reversed |-> reversed]
  OBVIOUS
<1>2. /\ Call(r, q) /\ Known(k) /\ talents' = talents
      /\ talents[k].review = "PENDING_ADMIN_REVIEW"
  BY <1>1 DEF CallReviewRejection, fitnessVars
<1>3. ASSUME Moved(r), req'[r] = q PROVE ServantCarries(r)'
  BY <1>1, <1>2, <1>3 DEF ServantCarries, Known
<1>4. ASSUME Moved(r), req'[r] = q PROVE KnowsDecision(r)'
  BY <1>1, <1>2, <1>4 DEF KnowsDecision
<1>5. Enters(r, "reviewing")
  BY <1>1, <1>2, <1>3, <1>4, ServantEnters DEF ServantStages
<1> QED
  BY <1>5, EntersProceeds DEF Enters

LEMMA CommitReviewProceeds ==
  ASSUME TypesInv, NEW r \in Requests, CommitReview(r)
  PROVE  /\ Proceeds(r) /\ FitnessKept /\ req[r].talent \in Talents
         /\ Rejection(req[r].talent) \in req[r].touches
         /\ TalentMoved(req[r].talent)
         /\ talents'[req[r].talent].review \in {"ADMIN_REVERSED_REJECTION", "ADMIN_CONFIRMED_REJECTION"}
<1>1. PICK k : k = req[r].talent
  OBVIOUS
<1>2. k \in Talents /\ Known(k) /\ Rejection(k) \in req[r].touches /\ req[r].reversed \in BOOLEAN
  <2>1. ServantCarries(r) /\ req[r].stage = "reviewing"
    BY DEF CommitReview, TypesInv, Carries
  <2> QED
    BY <1>1, <2>1 DEF ServantCarries
<1>3. PICK stage \in Stages, review \in {"ADMIN_REVERSED_REJECTION", "ADMIN_CONFIRMED_REJECTION"} :
         WriteTalent(k, [talents[k] EXCEPT !.stage = stage, !.review = review])
  <2>1. CASE req[r].reversed
    BY <1>1, <2>1 DEF CommitReview, Stages
  <2>2. CASE ~ req[r].reversed
    BY <1>1, <2>2 DEF CommitReview, Stages
  <2> QED
    BY ZenonT(30), <2>1, <2>2
<1>4. Finish(r) /\ servants' = servants /\ unavailable' = unavailable
  BY DEF CommitReview, accountVars, accountTables
<1>5. FitnessKept /\ TalentMoved(k) /\ talents'[k].review = review
  BY ZenonT(30), <1>2, <1>3, <1>4, StagedTalent DEF Reviews
<1> QED
  BY <1>1, <1>2, <1>3, <1>4, <1>5, FinishProceeds

LEMMA FitnessCallProceeds ==
  ASSUME TypesInv, NEW r \in Requests, FitnessCall(r)
  PROVE  Proceeds(r) /\ AccountsKept /\ FitnessKept /\ req[r] = Idle
<1>1. UNCHANGED accountTables
  BY DEF FitnessCall, CallApproveTalent, CallReviewRejection, accountVars
<1>2. AccountsKept
  BY <1>1, AccountsSame
<1>3. ASSUME NEW k \in Talents, NEW reversed \in BOOLEAN, CallReviewRejection(r, k, reversed)
      PROVE  FitnessKept
  BY <1>2, <1>3, FitnessSame DEF CallReviewRejection
<1> QED
  BY <1>2, <1>3, CallApproveProceeds, CallReviewProceeds DEF FitnessCall

LEMMA FitnessStepProceeds ==
  ASSUME TypesInv, NEW r \in Requests, FitnessStep(r)
  PROVE  Proceeds(r) /\ AccountsKept /\ FitnessKept
<1>1. CASE CommitActive(r)
  <2>1. /\ UNCHANGED <<users, tokens, resets, teams, coordinators, enforced>>
        /\ UNCHANGED fitnessVars /\ Finish(r)
    BY <1>1 DEF CommitActive
  <2>2. AccountsKept
    BY <1>1, <2>1, ActiveServant, ServantStep
  <2> QED
    BY <2>1, <2>2, FitnessSame, FinishProceeds
<1>2. CASE CommitReview(r)
  <2>1. UNCHANGED accountTables
    BY <1>2 DEF CommitReview, accountVars
  <2> QED
    BY <1>2, <2>1, AccountsSame, CommitReviewProceeds
<1> QED
  BY <1>1, <1>2 DEF FitnessStep

LEMMA FitnessAtOnceKept ==
  ASSUME TypesInv, FitnessAtOnce
  PROVE  /\ AccountsKept /\ FitnessKept
         /\ Moved(0) /\ 0 \notin Requests /\ HandlersTypeOK' /\ failures' = failures /\ req' = req
<1>1. UNCHANGED accountTables
  BY DEF FitnessAtOnce, CreateTalent, MoveStage, RejectTalent, PutAvailability, accountVars
<1>2. \E things : CallAtOnce(things)
  BY DEF FitnessAtOnce, CreateTalent, MoveStage, RejectTalent, PutAvailability
<1>3. FitnessKept
  BY CreateTalentKept, MoveStageKept, RejectTalentKept, PutAvailabilityKept DEF FitnessAtOnce
<1> QED
  BY <1>1, <1>2, <1>3, AccountsSame, AtOnceMoves DEF TypesInv

-----------------------------------------------------------------------------
(* The timeline.                                                           *)

TimelineKept == TimelineTyped' /\ TimelineGrows

LEMMA EntryTyped ==
  ASSUME TimelineTyped, NEW e \in Entries, Written(e)
  PROVE  /\ entries[e] \in EntryRow /\ entries[e].key \in News
         /\ entries[e].at \in 0..LastHour /\ entries[e].at \in Nat /\ entries[e].at <= hour
         /\ entries[e].count \in Nat \ {0}
  BY DEF TimelineTyped, TimelineTypeOK, Written, EntryRow

LEMMA TimelineSame ==
  ASSUME TypesInv, UNCHANGED timelineVars
  PROVE  TimelineKept
<1>1. entries' = entries /\ hour' = hour /\ told' = told /\ TimelineTyped
  BY DEF timelineVars, TypesInv
<1> QED
  BY <1>1, TimelineAssumption
     DEF TimelineKept, TimelineTyped, TimelineTypeOK, TimelineGrows, Written

LEMMA LatestEntry ==
  ASSUME TimelineTyped, NEW n, EntriesOf(n) # {}
  PROVE  /\ Latest(n) \in EntriesOf(n)
         /\ \A f \in EntriesOf(n) : entries[f].at <= entries[Latest(n)].at
<1> DEFINE Rest == {k \in Nat : \E e \in EntriesOf(n) : k = LastHour - entries[e].at}
<1>1. \A e \in EntriesOf(n) : entries[e].at \in 0..LastHour
  BY EntryTyped DEF EntriesOf
<1>2. Rest # {}
  <2>1. PICK e \in EntriesOf(n) : entries[e].at \in 0..LastHour
    BY <1>1
  <2>2. LastHour - entries[e].at \in Nat
    BY <2>1, TimelineAssumption
  <2> QED
    BY <2>1, <2>2
<1>3. PICK k \in Rest : \A l \in Rest : k <= l
  BY <1>2, LeastNatural
<1>4. PICK e \in EntriesOf(n) : k = LastHour - entries[e].at
  BY <1>3
<1>5. ASSUME NEW f \in EntriesOf(n) PROVE entries[f].at <= entries[e].at
  <2>1. entries[f].at \in 0..LastHour /\ entries[e].at \in 0..LastHour
    BY <1>1
  <2>2. LastHour - entries[f].at \in Nat
    BY <2>1, TimelineAssumption
  <2>3. LastHour - entries[f].at \in Rest
    BY <2>2
  <2>4. LastHour - entries[e].at <= LastHour - entries[f].at
    BY <1>3, <1>4, <2>3
  <2> QED
    BY <2>1, <2>4, TimelineAssumption
<1>6. \E x \in EntriesOf(n) : \A f \in EntriesOf(n) : entries[f].at <= entries[x].at
  BY <1>5
<1> QED
  BY <1>6 DEF Latest

LEMMA EntryGoes ==
  ASSUME NEW r \in Requests, Moved(r), HandlersTypeOK', failures' = failures,
         req'[r].stage \in EntryStages, TimelineCarries(r)', KnowsEntries(r)'
  PROVE  Proceeds(r)
<1>1. Carries(r)'
  BY CarriesByStage DEF AccountStages, ServantStages, CareStages, EntryStages
<1>2. Knows(r)'
  BY KnowsByStage DEF EntryStages
<1> QED
  BY <1>1, <1>2 DEF Proceeds

\* The time passes, and a publication that is no repetition is under way, or one
\* that is skipped was taken in.
LEMMA PublishKept ==
  ASSUME TypesInv, NEW r \in Requests, NEW n \in News, NEW at \in 0..LastHour,
         CallPublish(r, n, at)
  PROVE  TimelineKept /\ entries' = entries
<1>1. /\ TimelineTyped /\ hour <= at /\ hour' = at /\ entries' = entries
      /\ told' = told \/ told' = [told EXCEPT ![n] = @ + 1]
  BY DEF TypesInv, CallPublish
<1>2. told' \in [News -> Nat]
  <2>1. PICK k : k = told[n] + 1
    OBVIOUS
  <2>2. k \in Nat /\ told \in [News -> Nat]
    BY <1>1, <2>1 DEF TimelineTyped, TimelineTypeOK
  <2>3. told' = told \/ told' = [told EXCEPT ![n] = k]
    BY <1>1, <2>1
  <2> QED
    BY <2>2, <2>3
<1>3. hour \in 0..LastHour
  BY <1>1 DEF TimelineTyped, TimelineTypeOK
<1>4. TimelineTypeOK'
  BY <1>1, <1>2 DEF TimelineTyped, TimelineTypeOK
<1>5. ASSUME NEW e \in Entries, Written(e)' PROVE entries'[e].at <= hour'
  <2>1. entries[e].at \in Nat /\ entries[e].at <= hour /\ entries'[e] = entries[e]
    BY <1>1, <1>5, EntryTyped DEF Written
  <2> QED
    BY <1>1, <1>3, <2>1, TimelineAssumption
<1>6. TimelineGrows
  BY <1>1, <1>3, TimelineAssumption DEF TimelineGrows, Written
<1> QED
  BY <1>1, <1>4, <1>5, <1>6 DEF TimelineKept, TimelineTyped

Publishing(r, n, at) ==
    /\ Call(r, [kind |-> "publish", stage |-> "writingEntry", touches |-> {n},
                key |-> n, at |-> at])
    /\ ~ Skips(n) /\ ~ Adds(n, at)

Adding(r, n, at) ==
    /\ Call(r, [kind |-> "publish", stage |-> "addingToEntry", touches |-> {n},
                key |-> n, at |-> at, entry |-> Latest(n), count |-> entries[Latest(n)].count + 1])
    /\ Adds(n, at)

LEMMA PublishingProceeds ==
  ASSUME TypesInv, NEW r \in Requests, NEW n \in News, NEW at \in 0..LastHour,
         CallPublish(r, n, at), Publishing(r, n, at)
  PROVE  Proceeds(r) /\ req[r] = Idle
<1>1. PICK q : q = [kind |-> "publish", stage |-> "writingEntry", touches |-> {n},
                    key |-> n, at |-> at]
  OBVIOUS
<1>2. Call(r, q) /\ ~ Skips(n) /\ ~ Adds(n, at) /\ hour <= at /\ hour' = at /\ entries' = entries
  BY <1>1 DEF Publishing, CallPublish
<1>3. Moved(r) /\ req'[r] = q /\ HandlersTypeOK' /\ failures' = failures /\ req[r] = Idle
  BY <1>1, <1>2, CallMoves DEF TypesInv
<1>4. TimelineCarries(r)'
  BY <1>1, <1>2, <1>3, TimelineAssumption DEF TimelineCarries
<1>5. (~ Skips(n) /\ ~ Adds(n, at))'
  BY <1>2 DEF Skips, Adds, Repeats, Recent, Latest, EntriesOf, Written
<1>6. ASSUME NEW e \in EntriesOf(n)' PROVE entries'[e].at <= at
  <2>1. e \in Entries /\ Written(e) /\ entries'[e] = entries[e]
    BY <1>2, <1>6 DEF EntriesOf, Written
  <2>2. entries[e].at \in Nat /\ entries[e].at <= hour /\ hour \in Nat
    BY <2>1, EntryTyped, TimelineAssumption DEF TypesInv, TimelineTyped, TimelineTypeOK
  <2> QED
    BY <1>2, <2>1, <2>2, TimelineAssumption
<1>7. KnowsEntries(r)'
  BY <1>1, <1>3, <1>5, <1>6 DEF KnowsEntries
<1> QED
  BY <1>1, <1>3, <1>4, <1>7, EntryGoes DEF EntryStages

LEMMA AddingProceeds ==
  ASSUME TypesInv, NEW r \in Requests, NEW n \in News, NEW at \in 0..LastHour,
         CallPublish(r, n, at), Adding(r, n, at)
  PROVE  Proceeds(r) /\ req[r] = Idle
<1>1. PICK e, count : e = Latest(n) /\ count = entries[e].count + 1
  OBVIOUS
<1>2. PICK q : q = [kind |-> "publish", stage |-> "addingToEntry", touches |-> {n},
                    key |-> n, at |-> at, entry |-> e, count |-> count]
  OBVIOUS
<1>3. Call(r, q) /\ Adds(n, at) /\ hour <= at /\ hour' = at /\ entries' = entries /\ TimelineTyped
  BY <1>1, <1>2 DEF Adding, CallPublish, TypesInv
<1>4. Moved(r) /\ req'[r] = q /\ HandlersTypeOK' /\ failures' = failures /\ req[r] = Idle
  BY <1>2, <1>3, CallMoves DEF TypesInv
<1>5. /\ e \in EntriesOf(n) /\ \A f \in EntriesOf(n) : entries[f].at <= entries[e].at
      /\ n[1] \in Deduped \cap Aggregatable
  BY <1>1, <1>3, LatestEntry DEF Adds, Repeats
<1>6. /\ entries[e].at \in Nat /\ entries[e].at <= hour /\ hour \in Nat
      /\ count \in Nat \ {0}
  BY <1>1, <1>3, <1>5, EntryTyped, TimelineAssumption DEF EntriesOf, TimelineTyped, TimelineTypeOK
<1>7. entries[e].at <= at
  BY <1>3, <1>6, TimelineAssumption
<1>8. EntriesOf(n)' = EntriesOf(n)
  BY <1>3 DEF EntriesOf, Written
<1>9. TimelineCarries(r)'
  BY <1>2, <1>3, <1>4, <1>5, <1>6, <1>8, TimelineAssumption DEF TimelineCarries
<1>10. KnowsEntries(r)'
  BY <1>1, <1>2, <1>3, <1>4, <1>5, <1>7, <1>8 DEF KnowsEntries
<1> QED
  BY <1>2, <1>4, <1>9, <1>10, EntryGoes DEF EntryStages

LEMMA PublishCases ==
  ASSUME TypesInv, NEW r \in Requests, NEW n \in News, NEW at \in 0..LastHour,
         CallPublish(r, n, at)
  PROVE  \/ Publishing(r, n, at) /\ told' = told
         \/ Adding(r, n, at) /\ told' = told
         \/ Skips(n) /\ CallAtOnce({n}) /\ told' = [told EXCEPT ![n] = @ + 1]
  BY DEF CallPublish, Publishing, Adding

LEMMA TimelineCallMoves ==
  ASSUME TypesInv, NEW r \in Requests, TimelineCall(r)
  PROVE  /\ TimelineKept
         /\ \/ Proceeds(r) /\ req[r] = Idle
            \/ Moved(0) /\ 0 \notin Requests /\ HandlersTypeOK' /\ failures' = failures /\ req' = req
<1>1. PICK n \in News, at \in 0..LastHour : CallPublish(r, n, at)
  BY DEF TimelineCall
<1> QED
  BY <1>1, PublishKept, PublishCases, PublishingProceeds, AddingProceeds, AtOnceMoves DEF TypesInv

-----------------------------------------------------------------------------
(* Entries are written.                                                    *)

\* The effect of writing one row, where key is told of once more.
EntryRowWritten(e, n, row) ==
    /\ e \in Entries /\ n \in News /\ row \in EntryRow /\ row.key = n
    /\ entries'[e] = row /\ \A f \in Entries \ {e} : entries'[f] = entries[f]
    /\ told' = [told EXCEPT ![n] = @ + 1]
    /\ Written(e)' /\ \A f \in Entries \ {e} : Written(f)' <=> Written(f)

LEMMA EntryWritten ==
  ASSUME TypesInv, NEW e \in Entries, NEW n \in News, NEW row \in EntryRow, row.key = n,
         Written(e) => entries[e].key = n, row.at <= hour,
         entries' = [entries EXCEPT ![e] = row], told' = [told EXCEPT ![n] = @ + 1],
         hour' = hour
  PROVE  TimelineKept /\ EntryRowWritten(e, n, row)
<1>1. TimelineTyped
  BY DEF TypesInv
<1>2. /\ entries' \in [Entries -> {NoEntry} \cup EntryRow]
      /\ entries'[e] = row /\ \A f \in Entries \ {e} : entries'[f] = entries[f]
  BY <1>1 DEF TimelineTyped, TimelineTypeOK
<1>3. Written(e)' /\ \A f \in Entries \ {e} : Written(f)' <=> Written(f)
  BY <1>2, TimelineAssumption DEF Written
<1>4. told' \in [News -> Nat]
  <2>1. PICK k : k = told[n] + 1
    OBVIOUS
  <2>2. k \in Nat /\ told \in [News -> Nat]
    BY <1>1, <2>1 DEF TimelineTyped, TimelineTypeOK
  <2> QED
    BY <2>1, <2>2
<1>5. hour \in 0..LastHour /\ hour \in Nat
  BY <1>1, TimelineAssumption DEF TimelineTyped, TimelineTypeOK
<1>6. TimelineTyped'
  BY <1>1, <1>2, <1>3, <1>4, <1>5 DEF TimelineTyped, TimelineTypeOK
<1>7. TimelineGrows
  BY <1>2, <1>3, <1>5 DEF TimelineGrows
<1> QED
  BY <1>2, <1>3, <1>6, <1>7 DEF TimelineKept, EntryRowWritten

LEMMA FreeEntry ==
  ASSUME NEW e, e = CHOOSE i \in Entries : ~ Written(i) /\ \A j \in Entries : j < i => Written(j),
         \E i \in Entries : ~ Written(i)
  PROVE  e \in Entries /\ ~ Written(e)
<1>1. PICK i \in {j \in Entries : ~ Written(j)} : \A k \in {j \in Entries : ~ Written(j)} : i <= k
  BY LeastNatural, TimelineAssumption
<1>2. \A j \in Entries : j < i => Written(j)
  <2> SUFFICES ASSUME NEW j \in Entries, j < i, ~ Written(j) PROVE FALSE
    OBVIOUS
  <2>1. i <= j /\ i \in Nat /\ j \in Nat
    BY <1>1, TimelineAssumption
  <2> QED
    BY <2>1
<1>3. \E j \in Entries : ~ Written(j) /\ \A k \in Entries : k < j => Written(k)
  BY <1>1, <1>2
<1> QED
  BY <1>3

LEMMA WriteEntryProceeds ==
  ASSUME TypesInv, NEW r \in Requests, WriteEntry(r)
  PROVE  /\ Proceeds(r) /\ TimelineKept /\ req[r].key \in req[r].touches
         /\ \E e \in Entries, row \in EntryRow :
               /\ ~ Written(e) /\ row.at = req[r].at /\ row.count = 1
               /\ EntryRowWritten(e, req[r].key, row)
<1>1. PICK n, at : n = req[r].key /\ at = req[r].at
  OBVIOUS
<1>2. n \in News /\ n \in req[r].touches /\ at \in 0..hour
  <2>1. TimelineCarries(r) /\ req[r].stage = "writingEntry"
    BY DEF WriteEntry, TypesInv, Carries
  <2> QED
    BY <1>1, <2>1 DEF TimelineCarries
<1>3. PICK e : e = CHOOSE i \in Entries : ~ Written(i) /\ \A j \in Entries : j < i => Written(j)
  OBVIOUS
<1>4. e \in Entries /\ ~ Written(e)
  BY <1>3, FreeEntry DEF WriteEntry
<1>5. hour \in 0..LastHour
  BY DEF TypesInv, TimelineTyped, TimelineTypeOK
<1>6. PICK row : row = [key |-> n, at |-> at, count |-> 1]
  OBVIOUS
<1>7. row \in EntryRow /\ row.key = n /\ row.at = at /\ row.count = 1 /\ row.at <= hour
  BY <1>2, <1>5, <1>6, TimelineAssumption DEF EntryRow
<1>8. /\ entries' = [entries EXCEPT ![e] = row] /\ told' = [told EXCEPT ![n] = @ + 1]
      /\ hour' = hour /\ Finish(r)
  BY <1>1, <1>3, <1>6 DEF WriteEntry
<1>9. TimelineKept /\ EntryRowWritten(e, n, row)
  BY <1>2, <1>4, <1>7, <1>8, EntryWritten
<1> QED
  BY <1>1, <1>2, <1>4, <1>7, <1>8, <1>9, FinishProceeds

LEMMA AddToEntryProceeds ==
  ASSUME TypesInv, NEW r \in Requests, AddToEntry(r)
  PROVE  /\ Proceeds(r) /\ TimelineKept /\ req[r].key \in req[r].touches
         /\ req[r].entry \in EntriesOf(req[r].key)
         /\ \E row \in EntryRow :
               /\ row.at = req[r].at /\ row.count = req[r].count
               /\ EntryRowWritten(req[r].entry, req[r].key, row)
<1>1. PICK n, at, e, count : n = req[r].key /\ at = req[r].at /\ e = req[r].entry /\ count = req[r].count
  OBVIOUS
<1>2. /\ n \in News /\ n \in req[r].touches /\ at \in 0..hour /\ e \in EntriesOf(n)
      /\ count \in Nat \ {0}
  <2>1. TimelineCarries(r) /\ req[r].stage = "addingToEntry"
    BY DEF AddToEntry, TypesInv, Carries
  <2> QED
    BY <1>1, <2>1 DEF TimelineCarries
<1>3. hour \in 0..LastHour /\ TimelineTyped
  BY DEF TypesInv, TimelineTyped, TimelineTypeOK
<1>4. PICK p, row : p = entries[e] /\ row = [p EXCEPT !.at = at, !.count = count]
  OBVIOUS
<1>5. e \in Entries /\ Written(e) /\ p \in EntryRow /\ p.key = n
  BY <1>2, <1>3, <1>4, EntryTyped DEF EntriesOf
<1>6. at \in 0..LastHour /\ at <= hour
  BY <1>2, <1>3, TimelineAssumption
<1>7. row \in EntryRow /\ row.key = n /\ row.at = at /\ row.count = count /\ row.at <= hour
  BY <1>2, <1>4, <1>5, <1>6 DEF EntryRow
<1>8. entries[e].key = n
  BY <1>4, <1>5
<1>9. /\ entries' = [entries EXCEPT ![e].at = at, ![e].count = count]
      /\ told' = [told EXCEPT ![n] = @ + 1] /\ hour' = hour /\ Finish(r)
  BY <1>1 DEF AddToEntry
<1>10. entries \in [Entries -> {NoEntry} \cup EntryRow]
  BY <1>3 DEF TimelineTyped, TimelineTypeOK
<1>11. entries' = [entries EXCEPT ![e] = row]
  BY <1>4, <1>5, <1>9, <1>10
<1>12. TimelineKept /\ EntryRowWritten(e, n, row)
  BY <1>2, <1>5, <1>7, <1>9, <1>11, <1>8, EntryWritten
<1> QED
  BY <1>1, <1>2, <1>7, <1>9, <1>12, FinishProceeds

-----------------------------------------------------------------------------
(* Every step keeps what there is, and its request what it needs.          *)

Advances(r) ==
    /\ Moved(r) /\ HandlersTypeOK'
    /\ r \in Requests => Carries(r)' /\ Knows(r)'
    /\ failures' = failures \/ failures' # 0
    /\ AccountsKept /\ CareKept /\ FitnessKept /\ TimelineKept

LEMMA ProceedsAdvances ==
  ASSUME NEW r \in Requests, Proceeds(r), AccountsKept, CareKept, FitnessKept, TimelineKept
  PROVE  Advances(r)
  BY DEF Proceeds, Advances

LEMMA AtOnceAdvances ==
  ASSUME Moved(0), 0 \notin Requests, HandlersTypeOK', failures' = failures,
         AccountsKept, CareKept, FitnessKept, TimelineKept
  PROVE  Advances(0)
  BY DEF Advances

LEMMA AccountCallAdvances ==
  ASSUME TypesInv, LinksInv, SessionsInv, NEW r \in Requests, AccountCall(r), AccountsMove
  PROVE  Advances(r) /\ req[r] = Idle
<1>1. UNCHANGED accountVars /\ Proceeds(r) /\ req[r] = Idle
  BY AccountCallEnters, EntersProceeds DEF Enters
<1>2. AccountsKept
  BY <1>1, AccountsSame DEF accountVars
<1> QED
  BY <1>1, <1>2, CareSame, FitnessSame, TimelineSame, ProceedsAdvances DEF AccountsMove

LEMMA AccountStepAdvances ==
  ASSUME TypesInv, SessionsInv, NEW r \in Requests, AccountStep(r), AccountsMove
  PROVE  Advances(r)
  BY AccountStepKept, AccountStepProceeds, CareSame, FitnessSame, TimelineSame, ProceedsAdvances
     DEF AccountsMove

LEMMA AccountAtOnceAdvances ==
  ASSUME TypesInv, AccountAtOnce, AccountsMove
  PROVE  Advances(0)
  BY AccountAtOnceKept, AccountAtOnceMoves, CareSame, FitnessSame, TimelineSame, AtOnceAdvances
     DEF AccountsMove

LEMMA MigrationAdvances ==
  ASSUME TypesInv, ApplyMigration, AccountsMove
  PROVE  Advances(0)
<1>1. UNCHANGED handlers
  BY DEF ApplyMigration
<1>2. Moved(0) /\ 0 \notin Requests /\ HandlersTypeOK' /\ failures' = failures
  BY <1>1, NothingMoves DEF TypesInv
<1> QED
  BY <1>2, ApplyMigrationTypes, CareSame, FitnessSame, TimelineSame, AtOnceAdvances
     DEF AccountsMove

LEMMA AccountTablesSame ==
  ASSUME TypesInv, UNCHANGED accountVars
  PROVE  AccountsKept
  BY AccountsSame DEF accountVars

LEMMA CareCallAdvances ==
  ASSUME TypesInv, NEW r \in Requests, CareCall(r), CareMoves
  PROVE  Advances(r) /\ req[r] = Idle
  BY CareCallProceeds, CareSame, AccountTablesSame, FitnessSame, TimelineSame, ProceedsAdvances
     DEF CareMoves

LEMMA CareStepAdvances ==
  ASSUME TypesInv, NEW r \in Requests, CareStep(r), CareMoves
  PROVE  Advances(r)
  BY CareStepProceeds, AccountTablesSame, FitnessSame, TimelineSame, ProceedsAdvances
     DEF CareMoves

LEMMA CareAtOnceAdvances ==
  ASSUME TypesInv, CareAtOnce, CareMoves
  PROVE  Advances(0)
  BY CareAtOnceKept, AccountTablesSame, FitnessSame, TimelineSame, AtOnceAdvances
     DEF CareMoves

LEMMA FitnessCallAdvances ==
  ASSUME TypesInv, NEW r \in Requests, FitnessCall(r), FitnessMoves
  PROVE  Advances(r) /\ req[r] = Idle
  BY FitnessCallProceeds, CareSame, TimelineSame, ProceedsAdvances DEF FitnessMoves

LEMMA FitnessStepAdvances ==
  ASSUME TypesInv, NEW r \in Requests, FitnessStep(r), FitnessMoves
  PROVE  Advances(r)
  BY FitnessStepProceeds, CareSame, TimelineSame, ProceedsAdvances DEF FitnessMoves

LEMMA FitnessAtOnceAdvances ==
  ASSUME TypesInv, FitnessAtOnce, FitnessMoves
  PROVE  Advances(0)
  BY FitnessAtOnceKept, CareSame, TimelineSame, AtOnceAdvances DEF FitnessMoves

LEMMA TimelineCallAdvances ==
  ASSUME TypesInv, NEW r \in Requests, TimelineCall(r), TimelineMoves
  PROVE  \/ Advances(r) /\ req[r] = Idle
         \/ Advances(0) /\ req' = req
  BY TimelineCallMoves, AccountTablesSame, CareSame, FitnessSame, ProceedsAdvances, AtOnceAdvances
     DEF TimelineMoves

LEMMA TimelineStepAdvances ==
  ASSUME TypesInv, NEW r \in Requests, TimelineStep(r), TimelineMoves
  PROVE  Advances(r)
  BY WriteEntryProceeds, AddToEntryProceeds, AccountTablesSame, CareSame, FitnessSame,
     ProceedsAdvances DEF TimelineMoves, TimelineStep

LEMMA BreakAdvances ==
  ASSUME TypesInv, NEW r \in Requests, Break(r, HalfDone),
         UNCHANGED <<accountVars, careVars, fitnessVars, timelineVars>>
  PROVE  Advances(r) /\ failures' # 0
<1>1. Moved(r) /\ req'[r] = Idle /\ HandlersTypeOK' /\ failures' # 0
  BY BreakMoves DEF TypesInv
<1> QED
  BY <1>1, IdleCarries, AccountTablesSame, CareSame, FitnessSame, TimelineSame DEF Advances

LEMMA StutterAdvances ==
  ASSUME TypesInv, UNCHANGED vars
  PROVE  Advances(0) /\ 0 \notin Requests
<1>1. UNCHANGED handlers /\ UNCHANGED <<accountVars, careVars, fitnessVars, timelineVars>>
  BY DEF vars
<1>2. Moved(0) /\ 0 \notin Requests /\ HandlersTypeOK' /\ failures' = failures
  BY <1>1, NothingMoves DEF TypesInv
<1> QED
  BY <1>1, <1>2, AtOnceAdvances, AccountTablesSame, CareSame, FitnessSame, TimelineSame

\* What the requests carry holds though one of them goes on.
LEMMA TypesStep ==
  ASSUME TypesInv, NEW r \in Requests \cup {0}, Advances(r)
  PROVE  TypesInv'
<1>1. ReqFn' /\ RacesKnown' /\ HandlersTypeOK'
  BY DEF Advances, Moved
<1>2. /\ AccountsTyped' /\ AccountsLinked' /\ TokensLinked'
      /\ CareTyped' /\ FitnessTyped' /\ TimelineTyped'
  BY DEF Advances, AccountsKept, CareKept, FitnessKept, TimelineKept
<1>3. ASSUME NEW q \in Requests PROVE Carries(q)'
  <2>1. CASE q = r
    BY <2>1 DEF Advances
  <2>2. CASE q # r
    <3>1. req'[q] = req[q]
      BY <2>2 DEF Advances, Moved
    <3>2. AccountsGrow /\ CareGrows /\ FitnessGrows /\ TimelineGrows
      BY DEF Advances, AccountsKept, CareKept, FitnessKept, TimelineKept
    <3> QED
      BY <3>1, <3>2, CarriesKept DEF TypesInv
  <2> QED
    BY <2>1, <2>2
<1> QED
  BY <1>1, <1>2, <1>3 DEF TypesInv

\* TypeOK, from what the invariant says of the rows.
LEMMA TypesShown ==
  ASSUME TypesInv
  PROVE  TypeOK
<1>1. HandlersTypeOK /\ CareTypeOK /\ FitnessTypeOK /\ TimelineTypeOK
  BY DEF TypesInv, CareTyped, FitnessTyped, TimelineTyped
<1>2. AccountsTyped /\ AccountsLinked
  BY DEF TypesInv
<1>3. coordinators \in [Ministries -> {u \in Users : Exists(u)} \cup {Nobody}]
  BY <1>2 DEF AccountsTyped
<1>4. ASSUME NEW s \in Servants PROVE Cardinality(AccountsOf(s)) <= 1
  <2>1. s # Nobody
    BY AccountsAssumption
  <2>2. \A u, v \in AccountsOf(s) : u = v
    BY <1>2, <2>1 DEF AccountsLinked, AccountsOf
  <2> QED
    BY <2>2, AtMostOne
<1>5. AccountsTypeOK
  BY <1>2, <1>3, <1>4 DEF AccountsTyped, AccountsLinked, AccountsTypeOK
<1> QED
  BY <1>1, <1>5 DEF TypeOK

-----------------------------------------------------------------------------
(* The first state.                                                        *)

FirstStatuses == {"ACTIVE", "INACTIVE"}

LEMMA AccountTyped ==
  ASSUME NEW role \in Roles, NEW s \in Servants \cup {Nobody}, NEW status \in Statuses,
         NEW grant \in [scope : Scopes, ministries : SUBSET Ministries, teams : SUBSET Teams]
  PROVE  /\ Account(role, s, status, grant) \in UserRow
         /\ Account(role, s, status, grant).role = role
         /\ Account(role, s, status, grant).servant = s
         /\ Account(role, s, status, grant).password = 0
         /\ Account(role, s, status, grant).period = 0
  BY DEF Account, UserRow

LEMMA InitUsers ==
  ASSUME NEW others \in BOOLEAN, NEW stray \in BOOLEAN, NEW status \in FirstStatuses,
         AccountsInit(others, stray, status)
  PROVE  /\ users \in [Users -> {NoUser} \cup UserRow]
         /\ users[FirstServo].role = "SERVO" /\ users[FirstServo].servant = FirstServant
         /\ Exists(FirstServo) /\ Exists(FirstLeader)
         /\ \A u \in Users : Exists(u) => users[u].password = 0 /\ users[u].period = 0
         /\ \A u \in Users \ {FirstServo} : Exists(u) => users[u].servant = Nobody
         /\ ~ stray => \A u \in Users : ~ Orphan(u)
<1>1. PICK m : m = MinistryOf[FirstTeam]
  OBVIOUS
<1>2. m \in Ministries
  BY <1>1, AccountsAssumption
<1>3. PICK self, lead, servo, leader, orphan :
         /\ self = Unbound("SELF")
         /\ lead = [scope |-> "MINISTRY", ministries |-> {m}, teams |-> {}]
         /\ servo = Account("SERVO", FirstServant, "ACTIVE", self)
         /\ leader = Account("COORDENADOR", Nobody, "ACTIVE", lead)
         /\ orphan = Account("SERVO", Nobody, "ACTIVE", self)
  OBVIOUS
<1>4. /\ self \in [scope : Scopes, ministries : SUBSET Ministries, teams : SUBSET Teams]
      /\ lead \in [scope : Scopes, ministries : SUBSET Ministries, teams : SUBSET Teams]
  BY <1>2, <1>3 DEF Unbound, Scopes
<1>5. /\ servo \in UserRow /\ servo.role = "SERVO" /\ servo.servant = FirstServant
      /\ servo.password = 0 /\ servo.period = 0
      /\ leader \in UserRow /\ leader.role = "COORDENADOR" /\ leader.servant = Nobody
      /\ leader.password = 0 /\ leader.period = 0
      /\ orphan \in UserRow /\ orphan.servant = Nobody
      /\ orphan.password = 0 /\ orphan.period = 0
  BY <1>3, <1>4, AccountTyped, AccountsAssumption DEF Roles, Statuses
<1>6. users = [u \in Users |-> IF u = FirstServo THEN servo
                               ELSE IF u = FirstLeader THEN leader
                               ELSE IF stray THEN orphan ELSE NoUser]
  BY <1>1, <1>3 DEF AccountsInit
<1> HIDE <1>3
<1>7. users \in [Users -> {NoUser} \cup UserRow]
  BY <1>5, <1>6
<1>8. /\ FirstServo \in Users /\ FirstLeader \in Users /\ FirstServo # FirstLeader
      /\ NoUser \notin UserRow /\ FirstServant # Nobody
  BY AccountsAssumption
<1> QED
  BY <1>5, <1>6, <1>7, <1>8 DEF Exists, Orphan

LEMMA InitServants ==
  ASSUME NEW others \in BOOLEAN, NEW stray \in BOOLEAN, NEW status \in FirstStatuses,
         AccountsInit(others, stray, status)
  PROVE  /\ servants \in [Servants -> {NoServant} \cup ServantRow] /\ Present(FirstServant)
         /\ \A s \in Servants : Present(s) =>
               /\ servants[s].main \in Serving(s)
               /\ servants[s].team \in Teams => MinistryOf[servants[s].team] = servants[s].main
<1>1. PICK m : m = MinistryOf[FirstTeam]
  OBVIOUS
<1>2. m \in Ministries
  BY <1>1, AccountsAssumption
<1>3. PICK done, pending, standing :
         /\ done = [n \in Ministries |-> IF n = m THEN "COMPLETED" ELSE "PENDING"]
         /\ pending = Untrained({m})
         /\ standing = (IF stray THEN "RECRUTAMENTO" ELSE "INATIVO")
  OBVIOUS
<1>4. /\ done \in UNION {[ms -> Trainings] : ms \in SUBSET Ministries} /\ m \in DOMAIN done
      /\ pending \in UNION {[ms -> Trainings] : ms \in SUBSET Ministries} /\ m \in DOMAIN pending
      /\ standing \in ServantStatuses
  <2>1. done \in [Ministries -> Trainings] /\ DOMAIN done = Ministries
    BY <1>3 DEF Trainings
  <2>2. pending \in [{m} -> Trainings] /\ DOMAIN pending = {m}
    BY <1>3 DEF Trainings, Untrained
  <2>3. Ministries \in SUBSET Ministries /\ {m} \in SUBSET Ministries
    BY <1>2
  <2>4. standing \in ServantStatuses
    BY <1>3 DEF ServantStatuses
  <2> HIDE <1>3
  <2> QED
    BY <1>2, <2>1, <2>2, <2>3, <2>4
<1>5. PICK first, other :
         /\ first = Servant(m, done, FirstTeam, "ATIVO")
         /\ other = Servant(m, pending, NoTeam, standing)
  OBVIOUS
<1>6. /\ first \in ServantRow /\ first.main = m /\ first.training = done /\ first.team = FirstTeam
      /\ other \in ServantRow /\ other.main = m /\ other.training = pending /\ other.team = NoTeam
  <2> HIDE <1>3
  <2> QED
    BY <1>2, <1>4, <1>5, AccountsAssumption DEF Servant, ServantRow, Trainings, ServantStatuses
<1>7. servants = [s \in Servants |-> IF s = FirstServant THEN first
                                     ELSE IF others THEN other ELSE NoServant]
  BY <1>1, <1>3, <1>5 DEF AccountsInit
<1> HIDE <1>3, <1>5
<1>8. servants \in [Servants -> {NoServant} \cup ServantRow]
  BY <1>6, <1>7
<1>9. FirstServant \in Servants /\ NoServant \notin ServantRow /\ NoTeam \notin Teams
  BY AccountsAssumption
<1> QED
  BY <1>1, <1>4, <1>6, <1>7, <1>8, <1>9 DEF Present, Serving

LEMMA InitAccounts ==
  ASSUME NEW others \in BOOLEAN, NEW stray \in BOOLEAN, NEW status \in FirstStatuses,
         AccountsInit(others, stray, status)
  PROVE  /\ AccountsTyped /\ AccountsLinked /\ TokensLinked
         /\ \A t \in Tokens : Live(t) => /\ t = 1 /\ tokens[t].user = FirstServo
                                         /\ tokens[t].password = 0 /\ tokens[t].period = 0
         /\ \A t \in Teams : teams[t].leader \in Users => t = FirstTeam
<1>0. AccountsAssumption
  BY AccountsAssumption
<1>1. PICK row : row = [user |-> FirstServo, password |-> 0, period |-> 0, live |-> TRUE, session |-> 1]
  OBVIOUS
<1>2. tokens = [t \in Tokens |-> IF t # 1 THEN NoToken ELSE row]
  BY <1>1 DEF AccountsInit
<1>3. /\ 1 \in Tokens => row \in TokenRow
      /\ row.user = FirstServo /\ row.password = 0 /\ row.period = 0 /\ row.session = 1
  BY <1>0, <1>1 DEF TokenRow, AccountsAssumption
<1>4. tokens \in [Tokens -> {NoToken} \cup TokenRow]
  BY <1>2, <1>3
<1>5. Exists(FirstServo)
  BY InitUsers
<1>6. TokensLinked
  <2> SUFFICES ASSUME NEW t \in Tokens, tokens[t] # NoToken
               PROVE  /\ Exists(tokens[t].user) /\ tokens[tokens[t].session] # NoToken
                      /\ tokens[tokens[t].session].user = tokens[t].user
    BY DEF TokensLinked
  <2>1. t = 1 /\ tokens[t] = row
    BY <1>2
  <2> QED
    BY <1>3, <1>5, <2>1
<1>7. \A t \in Tokens : Live(t) => /\ t = 1 /\ tokens[t].user = FirstServo
                                   /\ tokens[t].password = 0 /\ tokens[t].period = 0
  BY <1>2, <1>3 DEF Live
<1>8. teams \in [Teams -> TeamRow] /\ \A t \in Teams : teams[t].leader \in Users => t = FirstTeam
  <2>1. teams = [t \in Teams |-> IF t = FirstTeam THEN [status |-> status, leader |-> FirstLeader]
                                 ELSE [status |-> "ACTIVE", leader |-> Nobody]]
    BY DEF AccountsInit
  <2>2. /\ Nobody \notin Users /\ FirstLeader \in Users
        /\ [status |-> status, leader |-> FirstLeader] \in TeamRow
        /\ [status |-> "ACTIVE", leader |-> Nobody] \in TeamRow
    BY <1>0 DEF TeamRow, Statuses, FirstStatuses, AccountsAssumption
  <2> QED
    BY <2>1, <2>2
<1>9. coordinators \in [Ministries -> Users \cup {Nobody}] /\ enforced \in BOOLEAN
      /\ (\A m \in Ministries : coordinators[m] \in Users => Exists(coordinators[m]))
  BY <1>0 DEF AccountsInit, AccountsAssumption
<1>10. AccountsTyped
  BY <1>4, <1>8, <1>9, InitUsers, InitServants DEF AccountsTyped
<1>11. AccountsLinked
  <2>1. /\ Exists(FirstServo) /\ users[FirstServo].servant = FirstServant
        /\ \A u \in Users \ {FirstServo} : Exists(u) => users[u].servant = Nobody
    BY InitUsers
  <2>2. resets = {FirstServo} /\ FirstServo \in Users /\ FirstServant \in Servants
    BY <1>0 DEF AccountsInit, AccountsAssumption
  <2>3. Present(FirstServant)
    BY InitServants
  <2> QED
    BY <2>1, <2>2, <2>3 DEF AccountsLinked
<1> QED
  BY <1>6, <1>7, <1>8, <1>10, <1>11

LEMMA InitCare ==
  ASSUME NEW alert \in BOOLEAN, NEW case \in CaseStatuses \cup {"none"}, CareInit(alert, case)
  PROVE  /\ CareTyped /\ covered = {}
         /\ \A a \in Alerts : Raised(a) => a = First(Alerts)
         /\ \A v \in Visits : Opened(v) => v = First(Visits)
<1>1. PICK key : key = CHOOSE k \in Recurring : TRUE
  OBVIOUS
<1>2. key \in Keys /\ FirstServant \in Servants
  BY <1>1, CareAssumption, AccountsAssumption
<1>3. PICK row, visit : /\ row = [servant |-> FirstServant, key |-> key, status |-> "OPEN"]
                        /\ visit = [servant |-> FirstServant, status |-> case, due |-> 0]
  OBVIOUS
<1>4. row \in AlertRow /\ (case # "none" => visit \in VisitRow)
  BY <1>2, <1>3 DEF AlertRow, VisitRow
<1>5. /\ alerts = [a \in Alerts |-> IF alert /\ a = First(Alerts) THEN row ELSE NoAlert]
      /\ visits = [v \in Visits |-> IF case # "none" /\ v = First(Visits) THEN visit ELSE NoVisit]
      /\ beside = {} /\ covered = {}
  BY <1>1, <1>3 DEF CareInit
<1> HIDE <1>3
<1>6. CareTypeOK
  BY <1>4, <1>5 DEF CareTypeOK
<1> QED
  BY <1>5, <1>6 DEF CareTyped, Raised, Opened

LEMMA InitFitness ==
  ASSUME NEW rejected \in BOOLEAN, FitnessInit(rejected), Present(FirstServant)
  PROVE  FitnessTyped
<1>1. PICK first : first = First(Talents)
  OBVIOUS
<1>2. first \in Talents
  <2>1. PICK k \in Talents : \A l \in Talents : k <= l
    BY LeastNatural, FitnessAssumption
  <2> QED
    BY <1>1, <2>1 DEF First
<1>3. PICK row : row = [servant |-> FirstServant, stage |-> "REPROVADO",
                        review |-> "PENDING_ADMIN_REVIEW"]
  OBVIOUS
<1>4. row \in TalentRow /\ row.servant = FirstServant
  BY <1>3, AccountsAssumption DEF TalentRow, Stages, Reviews
<1>5. /\ talents = [k \in Talents |-> IF rejected /\ k = first THEN row ELSE NoTalent]
      /\ latest = [s \in Servants |-> IF rejected /\ s = FirstServant THEN first ELSE NoTalent]
      /\ unavailable = {}
  BY <1>1, <1>3 DEF FitnessInit
<1> HIDE <1>3
<1>6. NoTalent \notin TalentRow
  BY FitnessAssumption
<1>7. /\ talents \in [Talents -> {NoTalent} \cup TalentRow]
      /\ latest \in [Servants -> Talents \cup {NoTalent}]
  BY <1>2, <1>4, <1>5
<1>8. \A s \in Servants : latest[s] \in TalentsOf(s) \cup {NoTalent}
  BY <1>2, <1>4, <1>5, <1>6 DEF TalentsOf, Known
<1>9. \A k \in Talents : Known(k) => Present(talents[k].servant)
  BY <1>4, <1>5 DEF Known
<1> QED
  BY <1>5, <1>7, <1>8, <1>9 DEF FitnessTyped, FitnessTypeOK

\* The entry that may be there is the only one of its key, and was told of.
LEMMA InitTimeline ==
  ASSUME NEW keys \in {{}} \cup {{n} : n \in News}, TimelineInit(keys)
  PROVE  /\ TimelineTyped
         /\ \A n \in News : n \notin keys => EntriesOf(n) = {} /\ told[n] = 0
         /\ \A n \in keys : \E e \in Entries :
               EntriesOf(n) = {e} /\ told[n] = 1 /\ entries[e].count = 1
<1>1. PICK key : key = CHOOSE k \in keys : TRUE
  OBVIOUS
<1>2. keys # {} => key \in News /\ keys = {key}
  BY <1>1
<1>3. PICK row : row = [key |-> key, at |-> 0, count |-> 1]
  OBVIOUS
<1>4. 0 \in 0..LastHour /\ 1 \in Nat \ {0} /\ 0 <= 0
  BY TimelineAssumption
<1>5. (keys # {} => row \in EntryRow) /\ row.key = key /\ row.at = 0 /\ row.count = 1
  BY <1>2, <1>3, <1>4 DEF EntryRow
<1>6. /\ entries = [e \in Entries |-> IF keys # {} /\ \A f \in Entries : e <= f
                                      THEN row ELSE NoEntry]
      /\ hour = 0 /\ told = [k \in News |-> IF k \in keys THEN 1 ELSE 0]
  BY <1>1, <1>3 DEF TimelineInit
<1> HIDE <1>1, <1>3
<1>7. told \in [News -> Nat] /\ hour \in 0..LastHour
  BY <1>4, <1>6
<1>8. entries \in [Entries -> {NoEntry} \cup EntryRow]
  BY <1>5, <1>6
<1>9. \A e \in Entries : Written(e) => /\ keys # {} /\ entries[e] = row
                                       /\ \A f \in Entries : e <= f
  BY <1>6 DEF Written
<1>10. TimelineTyped
  BY <1>4, <1>5, <1>6, <1>7, <1>8, <1>9 DEF TimelineTyped, TimelineTypeOK
<1>11. ASSUME NEW n \in News, n \notin keys PROVE EntriesOf(n) = {} /\ told[n] = 0
  BY <1>2, <1>5, <1>6, <1>9, <1>11 DEF EntriesOf
<1>12. ASSUME NEW n \in keys
       PROVE  \E e \in Entries : EntriesOf(n) = {e} /\ told[n] = 1 /\ entries[e].count = 1
  <2>1. PICK e \in Entries : \A f \in Entries : e <= f
    BY LeastNatural, TimelineAssumption
  <2>2. keys # {} /\ n = key /\ n \in News /\ row # NoEntry
    BY <1>2, <1>5, TimelineAssumption
  <2>3. entries[e] = row /\ Written(e)
    BY <1>6, <2>1, <2>2 DEF Written
  <2>4. ASSUME NEW f \in EntriesOf(n) PROVE f = e
    <3>1. f \in Entries /\ f <= e
      BY <1>9, <2>1, <2>4 DEF EntriesOf
    <3>2. e <= f /\ e \in Nat /\ f \in Nat
      BY <2>1, <3>1, TimelineAssumption
    <3> QED
      BY <3>1, <3>2
  <2>5. e \in EntriesOf(n)
    BY <1>5, <2>2, <2>3 DEF EntriesOf
  <2> QED
    BY <1>5, <1>6, <2>2, <2>3, <2>4, <2>5
<1> QED
  BY <1>10, <1>11, <1>12

LEMMA InitHandlers ==
  ASSUME HandlersInit
  PROVE  /\ ReqFn /\ RacesKnown /\ HandlersTypeOK /\ raced = {}
         /\ \A r \in Requests : req[r] = Idle
<1>1. req = [r \in Requests |-> Idle] /\ calls = 0 /\ failures = 0 /\ raced = {}
  BY DEF HandlersInit
<1>2. \A r \in Requests : req[r] = Idle
  BY <1>1
<1>3. calls \in 0..MaxCalls /\ failures \in 0..MaxFailures
  BY <1>1, HandlersAssumption
<1> QED
  BY <1>1, <1>2, <1>3, IdleFacts DEF ReqFn, RacesKnown, HandlersTypeOK

LEMMA IdleNeedsNothing ==
  ASSUME NEW r \in Requests, req[r] = Idle
  PROVE  Carries(r) /\ Knows(r)
<1>1. req[r].stage = "idle"
  BY IdleFacts
<1>2. Carries(r)
  BY <1>1 DEF Carries, AccountCarries, ServantCarries, CareCarries, TimelineCarries
<1>3. KnowsLink(r) /\ KnowsSession(r) /\ KnowsTeam(r) /\ KnowsTraining(r)
  BY <1>1 DEF KnowsLink, KnowsSession, KnowsTeam, KnowsTraining
<1>4. KnowsDecision(r) /\ KnowsCare(r) /\ KnowsEntries(r)
  BY <1>1 DEF KnowsDecision, KnowsCare, KnowsEntries
<1> QED
  BY <1>2, <1>3, <1>4 DEF Knows

LEMMA InitTypes ==
  ASSUME Init
  PROVE  TypesInv
<1>1. PICK others \in BOOLEAN, stray \in BOOLEAN, status \in FirstStatuses,
           alert \in BOOLEAN, case \in CaseStatuses \cup {"none"},
           keys \in {{}} \cup {{n} : n \in News}, rejected \in BOOLEAN :
         /\ AccountsInit(others, stray, status) /\ CareInit(alert, case)
         /\ FitnessInit(rejected) /\ TimelineInit(keys)
  BY DEF Init, FirstStatuses
<1>2. AccountsTyped /\ AccountsLinked /\ TokensLinked /\ Present(FirstServant)
  BY <1>1, InitAccounts, InitServants
<1>3. CareTyped /\ FitnessTyped /\ TimelineTyped
  BY <1>1, <1>2, InitCare, InitFitness, InitTimeline
<1>4. ReqFn /\ RacesKnown /\ HandlersTypeOK /\ \A r \in Requests : Carries(r)
  BY InitHandlers, IdleNeedsNothing DEF Init
<1> QED
  BY <1>2, <1>3, <1>4 DEF TypesInv

-----------------------------------------------------------------------------
(* What a step may do to the accounts for what is known of them to hold.   *)

\* Whoever else decides about x at the moment has raced.
Touched(r, x) == \A q \in Requests \ {r} : x \in req[q].touches => x \in raced'

LEMMA OwnTouched ==
  ASSUME TypesInv, NEW r \in Requests, Moved(r), NEW x,
         x \in req[r].touches \/ x \in req'[r].touches
  PROVE  Touched(r, x)
  BY OwnClaims DEF TypesInv, Claims, Touched

LEMMA AtOnceTouched ==
  ASSUME TypesInv, NEW things, CallAtOnce(things), NEW x \in things
  PROVE  Touched(0, x)
  BY AtOnceMoves DEF TypesInv, Claims, Touched

LinksMove(r) ==
    /\ unguarded \subseteq unguarded'
    /\ \A u \in Users : Exists(u) =>
          \/ Touched(r, u)
          \/ /\ users'[u].role = users[u].role
             /\ users[u].servant # Nobody => users'[u].servant # Nobody
    /\ \A u \in Users : Orphan(u)' => ~ enforced' /\ u \in raced' \cup unguarded'

\* The hash and the time of being active.
SameHash(u, row) == row.password = users[u].password /\ row.period = users[u].period

SessionsMove(r) ==
    /\ \A u \in Users : Exists(u) =>
          \/ Touched(r, u)
          \/ SameHash(u, users'[u]) /\ users'[u].status = users[u].status
    /\ \A t \in Tokens : Live(t)' =>
          \/ Live(t) /\ tokens'[t] = tokens[t]
          \/ Touched(r, tokens'[t].user)
    /\ SessionsEnd'

LEMMA LinksStep ==
  ASSUME TypesInv, LinksInv, NEW r \in Requests \cup {0}, Advances(r), LinksMove(r)
  PROVE  LinksInv'
<1>1. ASSUME NEW q \in Requests PROVE KnowsLink(q)'
  <2>1. CASE q = r
    BY <2>1 DEF Advances, Knows
  <2>2. CASE q # r
    <3>1. PICK l : l = req[q] /\ l = req'[q]
      BY <2>2 DEF Advances, Moved
    <3>2. raced \subseteq raced' /\ unguarded \subseteq unguarded'
      BY DEF Advances, Moved, LinksMove
    <3>3. l.stage \in {"linking", "settingRole", "removing"} =>
             l.user \in Users /\ l.user \in l.touches /\ Exists(l.user)
      <4>1. AccountCarries(q)
        BY DEF TypesInv, Carries
      <4> QED
        BY <3>1, <4>1 DEF AccountCarries
    <3>4. ASSUME l.stage \in {"linking", "settingRole", "removing"}
          PROVE  \/ l.user \in raced'
                 \/ /\ users'[l.user].role = users[l.user].role
                    /\ users[l.user].servant # Nobody => users'[l.user].servant # Nobody
      BY <2>2, <3>1, <3>3, <3>4 DEF LinksMove, Touched
    <3>5. KnowsLink(q)
      BY DEF LinksInv
    <3>6. /\ l.stage = "linking" /\ l.servant = Nobody =>
                users[l.user].role # "SERVO" \/ l.user \in raced
          /\ l.stage = "settingRole" /\ l.role = "SERVO" =>
                users[l.user].servant # Nobody \/ l.user \in raced
          /\ l.stage = "removing" /\ users[l.user].role = "SERVO" =>
                l.user \in raced \cup unguarded
      BY <3>1, <3>5 DEF KnowsLink
    <3>7. /\ l.stage = "linking" /\ l.servant = Nobody =>
                users'[l.user].role # "SERVO" \/ l.user \in raced'
          /\ l.stage = "settingRole" /\ l.role = "SERVO" =>
                users'[l.user].servant # Nobody \/ l.user \in raced'
          /\ l.stage = "removing" /\ users'[l.user].role = "SERVO" =>
                l.user \in raced' \cup unguarded'
      BY <3>2, <3>4, <3>6
    <3> QED
      BY <3>1, <3>7 DEF KnowsLink
  <2> QED
    BY <2>1, <2>2
<1> QED
  BY <1>1 DEF LinksInv, LinksMove

LEMMA SessionsStep ==
  ASSUME TypesInv, SessionsInv, NEW r \in Requests \cup {0}, Advances(r), SessionsMove(r)
  PROVE  SessionsInv'
<1>1. ASSUME NEW q \in Requests PROVE KnowsSession(q)'
  <2>1. CASE q = r
    BY <2>1 DEF Advances, Knows
  <2>2. CASE q # r
    <3>1. PICK l : l = req[q] /\ l = req'[q]
      BY <2>2 DEF Advances, Moved
    <3>2. raced \subseteq raced' /\ TokensLinked' /\ AccountsTyped'
      BY DEF Advances, Moved, AccountsKept
    <3>3. KnowsSession(q)
      BY DEF SessionsInv
    <3>4. ASSUME l.stage \in {"rotating", "opening"}, l.token.user \notin raced'
          PROVE  /\ l.token.password = users'[l.token.user].password
                 /\ l.token.period = users'[l.token.user].period
                 /\ \A v \in Tokens :
                       Live(v)' /\ tokens'[v].session = l.token.session =>
                          l.stage = "rotating" /\ v = l.old
      <4>0. AccountCarries(q)
        BY DEF TypesInv, Carries
      <4>1. /\ l.token.user \in Users /\ Exists(l.token.user) /\ l.token.user \in l.touches
            /\ l.token.session \in Tokens =>
                  tokens'[l.token.session].user = l.token.user
        <5>1. /\ l.stage = "rotating" => l.token \in TokenRow
              /\ l.stage = "opening" => l.token.user \in Users
          BY <3>1, <4>0 DEF AccountCarries
        <5>2. l.token.user \in Users
          BY <3>4, <5>1 DEF TokenRow
        <5>3. /\ Exists(l.token.user) /\ l.token.user \in l.touches
              /\ l.token.session \in Tokens =>
                    tokens[l.token.session] # NoToken
                    /\ tokens[l.token.session].user = l.token.user
          BY <3>1, <3>4, <4>0 DEF AccountCarries
        <5>4. AccountsGrow
          BY DEF Advances, AccountsKept
        <5> QED
          BY <5>2, <5>3, <5>4 DEF AccountsGrow
      <4>2. ~ Touched(r, l.token.user)
        BY <2>2, <3>1, <3>4, <4>1 DEF Touched
      <4>3. /\ users'[l.token.user].password = users[l.token.user].password
            /\ users'[l.token.user].period = users[l.token.user].period
        BY <4>1, <4>2 DEF SessionsMove, SameHash
      <4>4. /\ l.token.password = users[l.token.user].password
            /\ l.token.period = users[l.token.user].period
            /\ \A v \in Tokens :
                  Live(v) /\ tokens[v].session = l.token.session => l.stage = "rotating" /\ v = l.old
        BY <3>1, <3>2, <3>3, <3>4 DEF KnowsSession
      <4>5. ASSUME NEW v \in Tokens, Live(v)', tokens'[v].session = l.token.session
            PROVE  l.stage = "rotating" /\ v = l.old
        <5>1. tokens'[v] # NoToken /\ tokens'[v].session \in Tokens
          BY <3>2, <4>5 DEF Live, AccountsTyped, TokenRow
        <5>2. tokens'[v].user = l.token.user
          BY <3>2, <4>1, <4>5, <5>1 DEF TokensLinked
        <5>3. Live(v) /\ tokens'[v] = tokens[v]
          BY <4>2, <4>5, <5>2 DEF SessionsMove
        <5> QED
          BY <4>4, <4>5, <5>3
      <4> QED
        BY <4>3, <4>4, <4>5
    <3>5. ASSUME l.stage = "settingStatus", l.user \notin raced'
          PROVE  l.ends <=> l.status = "INACTIVE" /\ users'[l.user].status # "INACTIVE"
      <4>1. l.user \in Users /\ Exists(l.user) /\ l.user \in l.touches
        BY ZenonT(60), <3>1, <3>5 DEF TypesInv, Carries, AccountCarries
      <4>2. users'[l.user].status = users[l.user].status
        BY <2>2, <3>1, <3>5, <4>1 DEF SessionsMove, Touched
      <4>3. l.ends <=> l.status = "INACTIVE" /\ users[l.user].status # "INACTIVE"
        BY <3>1, <3>2, <3>3, <3>5 DEF KnowsSession
      <4> QED
        BY <4>2, <4>3
    <3> QED
      BY <3>1, <3>4, <3>5 DEF KnowsSession
  <2> QED
    BY <2>1, <2>2
<1> QED
  BY <1>1 DEF SessionsInv, SessionsMove

\* Tables that stay are no harm.
LEMMA LinksSame ==
  ASSUME LinksInv, NEW r, raced \subseteq raced', unguarded \subseteq unguarded',
         users' = users, enforced' = enforced
  PROVE  LinksMove(r)
  BY DEF LinksInv, LinksMove, Exists, Orphan

\* No session begins; those that end are not looked at again.
LEMMA SessionsWritten ==
  ASSUME TypesInv, SessionsInv, NEW r, raced \subseteq raced',
         \A u \in Users : Exists(u) =>
            \/ Touched(r, u)
            \/ SameHash(u, users'[u]) /\ users'[u].status = users[u].status,
         \A t \in Tokens : Live(t)' => Live(t) /\ tokens'[t] = tokens[t],
         \A u \in Users : Exists(u) =>
            \/ u \in raced' \/ SameHash(u, users'[u])
            \/ \A t \in Tokens : Live(t)' => tokens'[t].user # u
  PROVE  SessionsMove(r)
<1>1. SessionsEnd'
  <2> SUFFICES ASSUME NEW t \in Tokens, NEW v \in Tokens, Live(t)', tokens'[t].user \notin raced'
               PROVE  /\ tokens'[t].password = users'[tokens'[t].user].password
                      /\ tokens'[t].period = users'[tokens'[t].user].period
                      /\ Live(v)' /\ v # t => tokens'[v].session # tokens'[t].session
    BY DEF SessionsEnd
  <2>1. PICK token : token = tokens[t] /\ token = tokens'[t]
    OBVIOUS
  <2>2. Live(t) /\ token.user \in Users /\ Exists(token.user)
    BY <2>1 DEF TypesInv, AccountsTyped, TokensLinked, TokenRow, Live
  <2>3. SameHash(token.user, users'[token.user])
    BY <2>1, <2>2
  <2>4. /\ token.password = users[token.user].password /\ token.period = users[token.user].period
        /\ Live(v) /\ v # t => tokens[v].session # token.session
    BY <2>1, <2>2 DEF SessionsInv, SessionsEnd
  <2>5. Live(v)' => Live(v) /\ tokens'[v] = tokens[v]
    OBVIOUS
  <2> QED
    BY <2>1, <2>3, <2>4, <2>5 DEF SameHash
<1> QED
  BY <1>1 DEF SessionsMove

LEMMA SessionsSame ==
  ASSUME TypesInv, SessionsInv, NEW r, raced \subseteq raced', users' = users, tokens' = tokens
  PROVE  SessionsMove(r)
<1>1. \A u \in Users : SameHash(u, users'[u]) /\ users'[u].status = users[u].status
  BY DEF SameHash
<1>2. \A t \in Tokens : Live(t)' => Live(t) /\ tokens'[t] = tokens[t]
  BY DEF Live
<1> QED
  BY <1>1, <1>2, SessionsWritten

LEMMA RevokedTokens ==
  ASSUME TypesInv, NEW ids \in SUBSET Tokens, tokens' = Revoked(ids),
         \A t \in ids : tokens[t] # NoToken
  PROVE  \A t \in Tokens : Live(t)' => Live(t) /\ t \notin ids /\ tokens'[t] = tokens[t]
<1> SUFFICES ASSUME NEW t \in Tokens, Live(t)'
             PROVE  Live(t) /\ t \notin ids /\ tokens'[t] = tokens[t]
  OBVIOUS
<1>1. t \in ids => tokens[t] \in TokenRow
  BY DEF TypesInv, AccountsTyped
<1>2. t \notin ids
  BY <1>1 DEF Live, Revoked, TokenRow
<1> QED
  BY <1>2 DEF Live, Revoked

SameSignIn(u, row) ==
    /\ row.role = users[u].role /\ (users[u].servant # Nobody => row.servant # Nobody)
    /\ SameHash(u, row) /\ row.status = users[u].status

\* A row of an account is written, by one who touched it or leaves the rest alone.
LEMMA UserMoves ==
  ASSUME TypesInv, LinksInv, SessionsInv, NEW r, raced \subseteq raced',
         NEW u \in Users, NEW row \in UserRow,
         users' = [users EXCEPT ![u] = row] \/ users' = users,
         unguarded' = unguarded, enforced' = enforced,
         Exists(u) => Touched(r, u) \/ SameSignIn(u, row),
         row.role = "SERVO" /\ row.servant = Nobody => ~ enforced /\ u \in raced' \cup unguarded,
         \/ tokens' = tokens /\ (Exists(u) => u \in raced' \/ SameHash(u, row))
         \/ tokens' = Revoked(TokensOf(u))
  PROVE  LinksMove(r) /\ SessionsMove(r)
<1>1. \A v \in Users : users'[v] = users[v] \/ (v = u /\ users'[v] = row)
  BY DEF TypesInv, AccountsTyped
<1>2. LinksMove(r)
  <2>1. \A v \in Users : Exists(v) =>
          \/ Touched(r, v)
          \/ /\ users'[v].role = users[v].role
             /\ users[v].servant # Nobody => users'[v].servant # Nobody
    BY <1>1 DEF SameSignIn
  <2>2. \A v \in Users : Orphan(v)' => ~ enforced' /\ v \in raced' \cup unguarded'
    <3> SUFFICES ASSUME NEW v \in Users, Orphan(v)'
                 PROVE  ~ enforced /\ v \in raced' \cup unguarded
      OBVIOUS
    <3>1. CASE users'[v] = users[v]
      BY <3>1 DEF LinksInv, Orphan, Exists
    <3>2. CASE v = u /\ users'[v] = row
      BY <3>2 DEF Orphan
    <3> QED
      BY <1>1, <3>1, <3>2
  <2> QED
    BY <2>1, <2>2 DEF LinksMove
<1>3. \A v \in Users : Exists(v) =>
         \/ Touched(r, v)
         \/ SameHash(v, users'[v]) /\ users'[v].status = users[v].status
  BY <1>1 DEF SameSignIn, SameHash
<1>4. CASE tokens' = tokens /\ (Exists(u) => u \in raced' \/ SameHash(u, row))
  <2>1. \A t \in Tokens : Live(t)' => Live(t) /\ tokens'[t] = tokens[t]
    BY <1>4 DEF Live
  <2>2. \A v \in Users : Exists(v) => v \in raced' \/ SameHash(v, users'[v])
    BY <1>1, <1>4 DEF SameHash
  <2> QED
    BY <1>2, <1>3, <2>1, <2>2, SessionsWritten
<1>5. CASE tokens' = Revoked(TokensOf(u))
  <2>1. \A t \in Tokens : Live(t)' => Live(t) /\ t \notin TokensOf(u) /\ tokens'[t] = tokens[t]
    BY <1>5, RevokedTokens, TokensOfTyped
  <2>2. \A t \in Tokens : Live(t)' => tokens'[t].user # u
    BY <2>1 DEF TokensOf, Live
  <2>3. \A v \in Users : v # u => SameHash(v, users'[v])
    BY <1>1 DEF SameHash
  <2> QED
    BY <1>2, <1>3, <2>1, <2>2, <2>3, SessionsWritten
<1> QED
  BY <1>4, <1>5

-----------------------------------------------------------------------------
(* Every way to write an account keeps links and sessions.                 *)

LEMMA CommitCreateUserMoves ==
  ASSUME TypesInv, LinksInv, SessionsInv, NEW r \in Requests, Moved(r), NEW status \in Statuses,
         CommitCreateUser(r, status)
  PROVE  LinksMove(r) /\ SessionsMove(r)
<1>1. PICK account : account = req[r].account
  OBVIOUS
<1>2. account \in UserRow /\ (account.role = "SERVO" => account.servant # Nobody)
  BY <1>1 DEF CommitCreateUser, TypesInv, Carries, AccountCarries
<1>3. PICK row : row = [account EXCEPT !.status = status]
  OBVIOUS
<1>4. row \in UserRow /\ row.servant = account.servant /\ row.role = account.role
  BY <1>2, <1>3 DEF UserRow
<1>5. UNCHANGED <<tokens, unguarded, enforced>> /\ raced \subseteq raced'
  BY DEF CommitCreateUser, Moved
<1>6. CASE users' = users
  BY <1>5, <1>6, LinksSame, SessionsSame
<1>7. CASE users' # users
  <2>1. Unused # {} /\ AddUser(row)
    BY <1>1, <1>3, <1>7 DEF CommitCreateUser
  <2>2. PICK u \in Users : ~ Exists(u) /\ users' = [users EXCEPT ![u] = row]
    BY <2>1, AddedUser
  <2> QED
    BY <1>2, <1>4, <1>5, <2>2, UserMoves
<1> QED
  BY <1>6, <1>7

LEMMA CommitLinkMoves ==
  ASSUME TypesInv, LinksInv, SessionsInv, NEW r \in Requests, Moved(r), CommitLink(r)
  PROVE  LinksMove(r) /\ SessionsMove(r)
<1>1. PICK u, s : u = req[r].user /\ s = req[r].servant
  OBVIOUS
<1>2. u \in Users /\ Exists(u) /\ u \in req[r].touches
  BY <1>1 DEF CommitLink, TypesInv, Carries, AccountCarries
<1>3. UNCHANGED <<tokens, unguarded, enforced>> /\ raced \subseteq raced'
  BY DEF CommitLink, Moved
<1>4. CASE users' = users
  BY <1>3, <1>4, LinksSame, SessionsSame
<1>5. CASE users' # users
  <2>1. PICK row : row = [users[u] EXCEPT !.servant = s]
    OBVIOUS
  <2>2. s \in Servants \cup {Nobody}
    BY <1>1 DEF CommitLink, TypesInv, Carries, AccountCarries
  <2>3. /\ row \in UserRow /\ row.servant = s /\ row.role = users[u].role
        /\ SameHash(u, row)
    BY <1>2, <2>1, <2>2, UserTyped DEF UserRow, TypesInv, SameHash
  <2>4. users' = [users EXCEPT ![u] = row] /\ Checked(users[u].role, s)
    BY <1>1, <1>5, <2>1 DEF CommitLink
  <2>5. KnowsLink(r) /\ req[r].stage = "linking"
    BY DEF LinksInv, CommitLink
  <2>6. s = Nobody => users[u].role # "SERVO" \/ u \in raced
    BY <1>1, <2>5 DEF KnowsLink
  <2>7. row.role = "SERVO" /\ row.servant = Nobody => ~ enforced /\ u \in raced' \cup unguarded
    BY <1>3, <2>3, <2>4, <2>6 DEF Checked
  <2> QED
    BY <1>2, <1>3, <2>3, <2>4, <2>7, UserMoves, OwnTouched
<1> QED
  BY <1>4, <1>5

LEMMA CommitRoleMoves ==
  ASSUME TypesInv, LinksInv, SessionsInv, NEW r \in Requests, Moved(r), CommitRole(r)
  PROVE  LinksMove(r) /\ SessionsMove(r)
<1>1. PICK u, role : u = req[r].user /\ role = req[r].role
  OBVIOUS
<1>2. u \in Users /\ Exists(u) /\ u \in req[r].touches /\ role \in Roles
  BY <1>1 DEF CommitRole, TypesInv, Carries, AccountCarries
<1>3. UNCHANGED <<tokens, unguarded, enforced>> /\ raced \subseteq raced'
  BY DEF CommitRole, Moved
<1>4. CASE users' = users
  BY <1>3, <1>4, LinksSame, SessionsSame
<1>5. CASE users' # users
  <2>1. PICK row : row = [users[u] EXCEPT !.role = role,
                                          !.grant.scope = IF role = "SERVO" THEN "SELF" ELSE @]
    OBVIOUS
  <2>3. /\ row \in UserRow /\ row.servant = users[u].servant /\ row.role = role
        /\ SameHash(u, row)
    BY ZenonT(60), <1>2, <2>1, UserTyped DEF UserRow, TypesInv, SameHash, Scopes
  <2>4. users' = [users EXCEPT ![u] = row] /\ Checked(role, users[u].servant)
    BY <1>1, <1>5, <2>1 DEF CommitRole
  <2>5. KnowsLink(r) /\ req[r].stage = "settingRole"
    BY DEF LinksInv, CommitRole
  <2>6. role = "SERVO" => users[u].servant # Nobody \/ u \in raced
    BY <1>1, <2>5 DEF KnowsLink
  <2>7. row.role = "SERVO" /\ row.servant = Nobody => ~ enforced /\ u \in raced' \cup unguarded
    BY <1>3, <2>3, <2>4, <2>6 DEF Checked
  <2> QED
    BY <1>2, <1>3, <2>3, <2>4, <2>7, UserMoves, OwnTouched
<1> QED
  BY <1>4, <1>5

\* An account keeps its role and its servant.
LEMMA SameLinkMoves ==
  ASSUME TypesInv, LinksInv, SessionsInv, NEW r, raced \subseteq raced',
         NEW u \in Users, Exists(u), NEW row \in UserRow,
         users' = [users EXCEPT ![u] = row] \/ users' = users,
         unguarded' = unguarded, enforced' = enforced,
         row.role = users[u].role, row.servant = users[u].servant,
         Touched(r, u) \/ SameSignIn(u, row),
         \/ tokens' = tokens /\ (u \in raced' \/ SameHash(u, row))
         \/ tokens' = Revoked(TokensOf(u))
  PROVE  LinksMove(r) /\ SessionsMove(r)
<1>1. row.role = "SERVO" /\ row.servant = Nobody => Orphan(u)
  BY DEF Orphan
<1>2. row.role = "SERVO" /\ row.servant = Nobody => ~ enforced /\ u \in raced' \cup unguarded
  BY <1>1 DEF LinksInv
<1> QED
  BY <1>2, UserMoves

LEMMA UpdateScopeMoves ==
  ASSUME TypesInv, LinksInv, SessionsInv, NEW u \in Users, NEW grant \in Given, Moved(0),
         UpdateScope(u, grant)
  PROVE  LinksMove(0) /\ SessionsMove(0)
<1>1. PICK bound : bound = Bound(grant)
  OBVIOUS
<1>2. bound \in [scope : Scopes, ministries : SUBSET Ministries, teams : SUBSET Teams]
  BY <1>1, BoundTyped
<1>3. PICK row : row = [users[u] EXCEPT !.grant = bound]
  OBVIOUS
<1>4. Exists(u) /\ UNCHANGED <<tokens, unguarded, enforced>> /\ raced \subseteq raced'
  BY DEF UpdateScope, Moved
<1>5. /\ row \in UserRow /\ row.role = users[u].role /\ row.servant = users[u].servant
      /\ row.status = users[u].status /\ SameHash(u, row)
  BY <1>2, <1>3, <1>4, UserTyped DEF UserRow, TypesInv, SameHash
<1>6. users' = [users EXCEPT ![u] = row]
  BY <1>1, <1>3 DEF UpdateScope
<1>7. SameSignIn(u, row)
  BY <1>5 DEF SameSignIn
<1> QED
  BY <1>4, <1>5, <1>6, <1>7, SameLinkMoves

LEMMA NewPasswordMoves ==
  ASSUME TypesInv, LinksInv, SessionsInv, NEW r, raced \subseteq raced', NEW u \in Users,
         Exists(u), NewPassword(u), unguarded' = unguarded, enforced' = enforced, Touched(r, u)
  PROVE  LinksMove(r) /\ SessionsMove(r)
<1>1. PICK row : row = [users[u] EXCEPT !.password = @ + 1]
  OBVIOUS
<1>2. row \in UserRow /\ row.servant = users[u].servant /\ row.role = users[u].role
  BY <1>1, UserTyped DEF UserRow, TypesInv
<1>3. users' = [users EXCEPT ![u] = row] /\ tokens' = Revoked(TokensOf(u))
  BY <1>1 DEF NewPassword
<1> QED
  BY <1>2, <1>3, SameLinkMoves

LEMMA CommitPasswordMoves ==
  ASSUME TypesInv, LinksInv, SessionsInv, NEW r \in Requests, Moved(r), CommitPassword(r)
  PROVE  LinksMove(r) /\ SessionsMove(r)
<1>1. PICK u : u = req[r].user
  OBVIOUS
<1>2. u \in Users /\ Exists(u) /\ u \in req[r].touches
  BY <1>1 DEF CommitPassword, TypesInv, Carries, AccountCarries
<1>3. NewPassword(u) /\ UNCHANGED <<unguarded, enforced>> /\ raced \subseteq raced'
  BY <1>1 DEF CommitPassword, Moved
<1> QED
  BY <1>2, <1>3, NewPasswordMoves, OwnTouched

LEMMA AdminResetPasswordMoves ==
  ASSUME TypesInv, LinksInv, SessionsInv, NEW u \in Users, Moved(0), AdminResetPassword(u)
  PROVE  LinksMove(0) /\ SessionsMove(0)
<1>1. /\ Exists(u) /\ NewPassword(u) /\ UNCHANGED <<unguarded, enforced>>
      /\ raced \subseteq raced' /\ CallAtOnce({u})
  BY DEF AdminResetPassword, Moved
<1>2. Touched(0, u)
  BY <1>1, AtOnceTouched
<1> QED
  BY <1>1, <1>2, NewPasswordMoves

LEMMA CommitStatusMoves ==
  ASSUME TypesInv, LinksInv, SessionsInv, NEW r \in Requests, Moved(r), CommitStatus(r)
  PROVE  LinksMove(r) /\ SessionsMove(r)
<1>1. PICK u, status : u = req[r].user /\ status = req[r].status
  OBVIOUS
<1>2. u \in Users /\ Exists(u) /\ status \in Statuses /\ u \in req[r].touches
  BY <1>1 DEF CommitStatus, TypesInv, Carries, AccountCarries
<1>3. /\ users' = [users EXCEPT ![u] = Standing(u, status)]
      /\ IF req[r].ends THEN tokens' = Revoked(TokensOf(u)) ELSE tokens' = tokens
      /\ UNCHANGED <<unguarded, enforced>> /\ raced \subseteq raced'
  BY <1>1 DEF CommitStatus, Moved
<1>4. PICK row : row = Standing(u, status)
  OBVIOUS
<1>5. /\ row \in UserRow /\ row.servant = users[u].servant /\ row.role = users[u].role
      /\ row.password = users[u].password
      /\ ~ (users[u].status = "ACTIVE" /\ status = "INACTIVE") => row.period = users[u].period
  BY <1>2, <1>4, StandingRow
<1>6. KnowsSession(r) /\ req[r].stage = "settingStatus"
  BY DEF SessionsInv, CommitStatus
<1>7. u \notin raced => (req[r].ends <=> status = "INACTIVE" /\ users[u].status # "INACTIVE")
  BY <1>1, <1>6 DEF KnowsSession
<1>8. ~ req[r].ends => u \in raced' \/ SameHash(u, row)
  BY <1>3, <1>5, <1>7 DEF SameHash
<1>9. Touched(r, u)
  BY <1>2, OwnTouched
<1>10. \/ tokens' = tokens /\ (u \in raced' \/ SameHash(u, row))
       \/ tokens' = Revoked(TokensOf(u))
  BY <1>3, <1>8
<1>11. users' = [users EXCEPT ![u] = row]
  BY <1>3, <1>4
<1> QED
  BY <1>2, <1>3, <1>5, <1>9, <1>10, <1>11, SameLinkMoves

LEMMA CommitRemoveMoves ==
  ASSUME TypesInv, LinksInv, SessionsInv, NEW r \in Requests, Moved(r), CommitRemove(r)
  PROVE  LinksMove(r) /\ SessionsMove(r)
<1>1. PICK u : u = req[r].user
  OBVIOUS
<1>2. u \in Users /\ Exists(u) /\ u \in req[r].touches
  BY <1>1 DEF CommitRemove, TypesInv, Carries, AccountCarries
<1>3. UNCHANGED <<unguarded, enforced>> /\ raced \subseteq raced'
  BY DEF CommitRemove, Moved
<1>4. CASE UNCHANGED <<users, tokens>>
  BY <1>3, <1>4, LinksSame, SessionsSame
<1>5. CASE ~ UNCHANGED <<users, tokens>>
  <2>1. PICK row : row = [Standing(u, "INACTIVE") EXCEPT !.servant = Nobody, !.gone = TRUE]
    OBVIOUS
  <2>2. /\ users' = [users EXCEPT ![u] = row] /\ tokens' = Revoked(TokensOf(u))
        /\ Checked(users[u].role, Nobody)
    BY <1>1, <1>5, <2>1 DEF CommitRemove
  <2>3. row \in UserRow /\ row.role = users[u].role
    BY ZenonT(60), <1>2, <2>1, StandingRow DEF UserRow, Statuses
  <2>4. KnowsLink(r) /\ req[r].stage = "removing"
    BY DEF LinksInv, CommitRemove
  <2>5. users[u].role = "SERVO" => u \in raced \cup unguarded
    BY <1>1, <2>4 DEF KnowsLink
  <2>6. row.role = "SERVO" /\ row.servant = Nobody => ~ enforced /\ u \in raced' \cup unguarded
    BY <1>3, <2>2, <2>3, <2>5 DEF Checked
  <2> QED
    BY <1>2, <1>3, <2>2, <2>3, <2>6, UserMoves, OwnTouched
<1> QED
  BY <1>4, <1>5

LEMMA CommitApprovalMoves ==
  ASSUME TypesInv, LinksInv, SessionsInv, NEW r \in Requests, Moved(r), CommitApproval(r)
  PROVE  LinksMove(r) /\ SessionsMove(r)
<1>1. PICK u, status : u = req[r].user /\ status = req[r].status
  OBVIOUS
<1>2. /\ u # Nobody => u \in Users /\ Exists(u) /\ u \in req[r].touches
      /\ status \in Statuses
  BY <1>1 DEF CommitApproval, TypesInv, Carries, AccountCarries
<1>3. UNCHANGED <<tokens, unguarded, enforced>> /\ raced \subseteq raced'
  BY DEF CommitApproval, Moved
<1>6. CASE u = Nobody
  <2>1. users' = users
    BY <1>1, <1>6 DEF CommitApproval
  <2> QED
    BY <1>3, <2>1, LinksSame, SessionsSame
<1>7. CASE u # Nobody
  <2>1. PICK row : row = [users[u] EXCEPT !.status = status]
    OBVIOUS
  <2>2. /\ row \in UserRow /\ row.servant = users[u].servant /\ row.role = users[u].role
        /\ SameHash(u, row)
    BY <1>2, <1>7, <2>1, UserTyped DEF UserRow, TypesInv, SameHash
  <2>3. users' = [users EXCEPT ![u] = row]
    BY <1>1, <1>7, <2>1 DEF CommitApproval
  <2> QED
    BY <1>2, <1>3, <1>7, <2>2, <2>3, SameLinkMoves, OwnTouched
<1> QED
  BY <1>6, <1>7

LEMMA CreateWithUserMoves ==
  ASSUME TypesInv, LinksInv, SessionsInv, Moved(0), NEW s \in Servants, NEW main, NEW ms,
         NEW t, NEW standing, NEW status \in Statuses,
         CreateWithUser(s, main, ms, t, standing, status)
  PROVE  LinksMove(0) /\ SessionsMove(0)
<1>1. PICK row : row = Account("SERVO", s, status, Unbound("SELF"))
  OBVIOUS
<1>2. row \in UserRow /\ row.servant = s /\ s # Nobody
  BY <1>1, NewServo, AccountsAssumption
<1>3. /\ Unused # {} /\ AddUser(row) /\ UNCHANGED <<tokens, unguarded, enforced>>
      /\ raced \subseteq raced'
  BY <1>1 DEF CreateWithUser, Moved
<1>4. PICK u \in Users : ~ Exists(u) /\ users' = [users EXCEPT ![u] = row]
  BY <1>3, AddedUser
<1> QED
  BY <1>2, <1>3, <1>4, UserMoves

LEMMA RepairLinkMoves ==
  ASSUME TypesInv, LinksInv, SessionsInv, NEW r \in Requests, Moved(r), RepairLink(r)
  PROVE  LinksMove(r) /\ SessionsMove(r)
<1>1. PICK link \in req[r].links :
         users' = IF /\ users[link[1]].role = "SERVO"
                     /\ users[link[1]].servant \in {Nobody, link[2]}
                     /\ ~ Clash(link[1], link[2])
                  THEN [users EXCEPT ![link[1]].servant = link[2], ![link[1]].grant.scope = "SELF"]
                  ELSE users
  BY DEF RepairLink
<1>2. PICK u, s : u = link[1] /\ s = link[2]
  OBVIOUS
<1>3. u \in Users /\ s \in Servants /\ Exists(u)
  BY ZenonT(60), <1>1, <1>2 DEF RepairLink, TypesInv, Carries, AccountCarries
<1>4. UNCHANGED <<tokens, unguarded, enforced>> /\ raced \subseteq raced'
  BY DEF RepairLink, Moved
<1>5. CASE users' = users
  BY <1>4, <1>5, LinksSame, SessionsSame
<1>6. CASE users' # users
  <2>1. PICK row : row = [users[u] EXCEPT !.servant = s, !.grant.scope = "SELF"]
    OBVIOUS
  <2>2. /\ row \in UserRow /\ row.servant = s /\ row.role = users[u].role
        /\ row.status = users[u].status /\ SameHash(u, row)
    BY ZenonT(60), <1>3, <2>1, UserTyped DEF UserRow, TypesInv, Scopes, SameHash
  <2>3. users' = [users EXCEPT ![u] = row]
    BY <1>1, <1>2, <1>6, <2>1
  <2>4. s # Nobody
    BY <1>3, AccountsAssumption
  <2>5. SameSignIn(u, row)
    BY <2>2, <2>4 DEF SameSignIn
  <2> QED
    BY <1>3, <1>4, <2>2, <2>3, <2>4, <2>5, UserMoves
<1> QED
  BY <1>5, <1>6

LEMMA RepairProvisionMoves ==
  ASSUME TypesInv, LinksInv, SessionsInv, NEW r \in Requests, Moved(r), RepairProvision(r)
  PROVE  LinksMove(r) /\ SessionsMove(r)
<1>1. PICK s \in req[r].without :
         IF AccountsOf(s) = {} /\ Unused # {}
         THEN AddUser(Account("SERVO", s, "INACTIVE", Unbound("SELF"))) ELSE UNCHANGED users
  BY DEF RepairProvision
<1>3. s \in Servants /\ s # Nobody
  BY ZenonT(60), <1>1, AccountsAssumption DEF RepairProvision, TypesInv, Carries, AccountCarries
<1>4. UNCHANGED <<tokens, unguarded, enforced>> /\ raced \subseteq raced'
  BY DEF RepairProvision, Moved
<1>5. CASE users' = users
  BY <1>4, <1>5, LinksSame, SessionsSame
<1>6. CASE users' # users
  <2>1. PICK row : row = Account("SERVO", s, "INACTIVE", Unbound("SELF"))
    OBVIOUS
  <2>2. row \in UserRow /\ row.servant = s
    BY <1>3, <2>1, NewServo DEF Statuses
  <2>3. Unused # {} /\ AddUser(row)
    BY <1>1, <1>6, <2>1
  <2>4. PICK u \in Users : ~ Exists(u) /\ users' = [users EXCEPT ![u] = row]
    BY <2>3, AddedUser
  <2> QED
    BY <1>3, <1>4, <2>2, <2>4, UserMoves
<1> QED
  BY <1>5, <1>6

-----------------------------------------------------------------------------
(* Tokens that are opened and revoked.                                     *)

LEMMA TokensRevokedMoves ==
  ASSUME TypesInv, SessionsInv, NEW r, raced \subseteq raced', NEW t \in Tokens,
         tokens[t] # NoToken, tokens' = Revoked({t}), users' = users
  PROVE  SessionsMove(r)
<1>1. \A v \in Tokens : Live(v)' => Live(v) /\ tokens'[v] = tokens[v]
  BY RevokedTokens
<1>2. \A u \in Users : SameHash(u, users'[u]) /\ users'[u].status = users[u].status
  BY DEF SameHash
<1> QED
  BY <1>1, <1>2, SessionsWritten

LEMMA RotateMoves ==
  ASSUME TypesInv, LinksInv, SessionsInv, NEW r \in Requests, Moved(r), Rotate(r)
  PROVE  LinksMove(r) /\ SessionsMove(r)
<1>1. PICK old : old = req[r].old
  OBVIOUS
<1>2. old \in Tokens /\ tokens[old] # NoToken
  BY <1>1 DEF Rotate, TypesInv, Carries, AccountCarries
<1>3. UNCHANGED <<users, unguarded, enforced>> /\ tokens' = Revoked({old}) /\ raced \subseteq raced'
  BY <1>1 DEF Rotate, Moved
<1> QED
  BY <1>2, <1>3, LinksSame, TokensRevokedMoves

LEMMA LogoutMoves ==
  ASSUME TypesInv, LinksInv, SessionsInv, Moved(0), NEW t \in Tokens, Logout(t)
  PROVE  LinksMove(0) /\ SessionsMove(0)
<1>1. /\ tokens[t] # NoToken /\ UNCHANGED <<users, unguarded, enforced>> /\ tokens' = Revoked({t})
      /\ raced \subseteq raced'
  BY DEF Logout, Live, Moved
<1> QED
  BY <1>1, LinksSame, TokensRevokedMoves

LEMMA OpenSessionMoves ==
  ASSUME TypesInv, LinksInv, SessionsInv, NEW r \in Requests, Moved(r), OpenSession(r)
  PROVE  LinksMove(r) /\ SessionsMove(r)
<1>1. UNCHANGED <<users, unguarded, enforced>> /\ raced \subseteq raced'
  BY DEF OpenSession, Moved
<1>2. PICK n \in Tokens, row \in TokenRow :
         /\ tokens[n] = NoToken
         /\ tokens' = [tokens EXCEPT ![n] = row]
         /\ row.user = req[r].token.user
         /\ row.password = req[r].token.password /\ row.period = req[r].token.period
         /\ \/ row.session = n
            \/ row.session = req[r].token.session
  BY OpenedToken
<1>3. /\ tokens'[n] = row /\ \A t \in Tokens \ {n} : tokens'[t] = tokens[t]
      /\ AccountsTyped /\ TokensLinked
  BY <1>2 DEF TypesInv, AccountsTyped
<1>4. row.user \in req[r].touches
  BY <1>2 DEF OpenSession, TypesInv, Carries, AccountCarries
<1>5. Touched(r, row.user)
  BY <1>4, OwnTouched
<1>6. AccountsTyped' /\ TokensLinked'
  BY OpenSessionTypes DEF AccountsKept
<1>7. ASSUME row.user \notin raced'
      PROVE  /\ row.password = users'[row.user].password
             /\ row.period = users'[row.user].period
             /\ \A v \in Tokens \ {n} : Live(v) => tokens[v].session # row.session
  <2>1. KnowsSession(r) /\ req[r].stage = "opening" /\ req[r].token.user \notin raced
    BY <1>1, <1>2, <1>7 DEF SessionsInv, OpenSession
  <2>2. /\ req[r].token.password = users[req[r].token.user].password
        /\ req[r].token.period = users[req[r].token.user].period
        /\ \A v \in Tokens : Live(v) => tokens[v].session # req[r].token.session
    BY <2>1 DEF KnowsSession
  <2>3. \A v \in Tokens : Live(v) => tokens[v].session # n
    BY <1>2, <1>3 DEF TokensLinked, Live
  <2> QED
    BY <1>1, <1>2, <2>2, <2>3
<1>8. SessionsEnd'
  <2> SUFFICES ASSUME NEW t \in Tokens, NEW v \in Tokens, Live(t)', tokens'[t].user \notin raced'
               PROVE  /\ tokens'[t].password = users'[tokens'[t].user].password
                      /\ tokens'[t].period = users'[tokens'[t].user].period
                      /\ Live(v)' /\ v # t => tokens'[v].session # tokens'[t].session
    BY DEF SessionsEnd
  <2>1. CASE t = n
    BY <1>3, <1>7, <2>1 DEF Live
  <2>2. CASE t # n
    <3>1. Live(t) /\ tokens'[t] = tokens[t]
      BY <1>3, <2>2 DEF Live
    <3>2. /\ tokens[t].password = users[tokens[t].user].password
          /\ tokens[t].period = users[tokens[t].user].period
          /\ Live(v) /\ v # t => tokens[v].session # tokens[t].session
      BY <1>1, <3>1 DEF SessionsInv, SessionsEnd
    <3>3. CASE v # n
      BY <1>1, <1>3, <3>1, <3>2, <3>3 DEF Live
    <3>4. CASE v = n
      <4>1. ASSUME row.session = tokens'[t].session PROVE FALSE
        <5>1. row.user = tokens'[t].user
          BY <1>2, <1>3, <1>6, <3>1, <4>1, AccountsAssumption DEF TokensLinked, Live
        <5> QED
          BY <1>7, <2>2, <3>1, <4>1, <5>1
      <4> QED
        BY <1>1, <1>3, <3>1, <3>2, <3>4, <4>1
    <3> QED
      BY <3>3, <3>4
  <2> QED
    BY <2>1, <2>2
<1>9. \A u \in Users : SameHash(u, users'[u]) /\ users'[u].status = users[u].status
  BY <1>1 DEF SameHash
<1>10. \A t \in Tokens : Live(t)' => (Live(t) /\ tokens'[t] = tokens[t]) \/ Touched(r, tokens'[t].user)
  BY <1>3, <1>5 DEF Live
<1> QED
  BY <1>1, <1>8, <1>9, <1>10, LinksSame DEF SessionsMove

LEMMA ApplyMigrationMoves ==
  ASSUME TypesInv, LinksInv, SessionsInv, Moved(0), ApplyMigration
  PROVE  LinksMove(0) /\ SessionsMove(0)
<1>1. /\ UNCHANGED <<users, tokens, unguarded>> /\ \A u \in Users : ~ Orphan(u)
      /\ raced \subseteq raced'
  BY DEF ApplyMigration, Moved
<1>2. \A u \in Users : users'[u] = users[u] /\ ~ Orphan(u)'
  BY <1>1 DEF Orphan, Exists
<1> QED
  BY <1>1, <1>2, SessionsSame DEF LinksMove

-----------------------------------------------------------------------------
(* What the requests of the accounts do to links and sessions.             *)

LEMMA SignInSame ==
  ASSUME TypesInv, LinksInv, SessionsInv, NEW r, Moved(r), unguarded \subseteq unguarded',
         UNCHANGED <<users, tokens, enforced>>
  PROVE  LinksMove(r) /\ SessionsMove(r)
  BY LinksSame, SessionsSame DEF Moved

LEMMA AccountStepSignIn ==
  ASSUME TypesInv, LinksInv, SessionsInv, NEW r \in Requests, Moved(r), AccountStep(r)
  PROVE  LinksMove(r) /\ SessionsMove(r)
<1>1. CASE \E status \in Statuses : CommitCreateUser(r, status)
  BY <1>1, CommitCreateUserMoves
<1>2. CASE CommitLink(r) \/ CommitRole(r) \/ Rotate(r) \/ OpenSession(r)
  BY <1>2, CommitLinkMoves, CommitRoleMoves, RotateMoves, OpenSessionMoves
<1>3. CASE CommitPassword(r) \/ CommitStatus(r) \/ CommitRemove(r) \/ CommitApproval(r)
  BY <1>3, CommitPasswordMoves, CommitStatusMoves, CommitRemoveMoves, CommitApprovalMoves
<1>4. CASE CommitServant(r) \/ CommitProfile(r) \/ CommitTraining(r) \/ CommitMember(r)
            \/ CommitLeader(r)
  <2>1. UNCHANGED <<users, tokens, enforced, unguarded>>
    BY ZenonT(30), <1>4 DEF CommitServant, CommitProfile, CommitTraining, CommitMember, CommitLeader
  <2> QED
    BY <2>1, SignInSame
<1>5. CASE RepairLink(r) \/ RepairProvision(r)
  BY <1>5, RepairLinkMoves, RepairProvisionMoves
<1> QED
  BY <1>1, <1>2, <1>3, <1>4, <1>5 DEF AccountStep

LEMMA AccountAtOnceSignIn ==
  ASSUME TypesInv, LinksInv, SessionsInv, Moved(0), AccountAtOnce
  PROVE  LinksMove(0) /\ SessionsMove(0)
<1>1. CASE \E u \in Users, grant \in Given : UpdateScope(u, grant)
  BY <1>1, UpdateScopeMoves
<1>2. CASE \E t \in Tokens : Logout(t)
  BY <1>2, LogoutMoves
<1>3. CASE \E u \in Users : AdminResetPassword(u)
  BY <1>3, AdminResetPasswordMoves
<1>4. CASE \E s \in Servants, ms \in SUBSET Ministries, t \in Teams \cup {NoTeam} :
             \E main \in ms, standing \in {"RECRUTAMENTO", "ATIVO"}, status \in Statuses :
                CreateWithUser(s, main, ms, t, standing, status)
  BY <1>4, CreateWithUserMoves
<1>5. CASE \/ \E u \in Users : ForgotPassword(u)
           \/ \E m \in Ministries, members \in SUBSET Servants : ReplaceMembers(m, members)
           \/ \E m \in Ministries, u \in Users : Appoint(m, u)
           \/ \E t \in Teams, status \in Statuses : SetTeamStatus(t, status)
           \/ \E t \in Teams : ClearLeader(t)
  <2>1. UNCHANGED <<users, tokens, enforced>> /\ unguarded \subseteq unguarded'
    BY <1>5 DEF ForgotPassword, ReplaceMembers, Appoint, SetTeamStatus, ClearLeader
  <2> QED
    BY <2>1, SignInSame
<1> QED
  BY <1>1, <1>2, <1>3, <1>4, <1>5 DEF AccountAtOnce

-----------------------------------------------------------------------------
(* What a step may do to servants, teams and talents.                      *)

\* An active team that u leads.
LeadsNow(t, u) == teams[t].status = "ACTIVE" /\ teams[t].leader = u

TeamsMove(r) ==
    /\ unguarded \subseteq unguarded'
    /\ \A s \in Servants : Present(s) =>
          Touched(r, s) \/ \A m \in Ministries : Open(s, m) => Open(s, m)'
    /\ \A s \in Servants :
          Present(s)' /\ s \notin raced' /\ servants'[s].team \in Teams =>
             Open(s, MinistryOf[servants[s].team])'
    /\ \A u \in Users :
          u \in unguarded' \/ Touched(r, u) \/ \A t \in Teams : LeadsNow(t, u)' => LeadsNow(t, u)
    /\ \A t, v \in Teams :
          teams'[t].status = "ACTIVE" /\ teams'[v].status = "ACTIVE"
             /\ teams'[t].leader = teams'[v].leader
             /\ teams'[t].leader \in Users \ (raced' \cup unguarded') => t = v

\* The body of TrainingStands.
TrainedStays ==
    \A s \in Servants, m \in Ministries :
       Trained(s, m) => \/ Trained(s, m)'
                        \/ m \notin Serving(s)'
                        \/ s \in raced' \/ m \in unguarded'

TrainingMove(r) ==
    /\ unguarded \subseteq unguarded'
    /\ \A s \in Servants : Present(s)' => servants'[s].main \in Serving(s)' \cup unguarded'
    /\ \A s \in Servants : Present(s) =>
          Touched(r, s) \/ \A m \in Ministries : Trained(s, m)' => Trained(s, m)
    /\ TrainedStays

\* Who says that the servant is active again, or has raced.
Recalled(s) ==
    \/ s \in raced
    \/ \E r \in Requests :
          /\ req[r].stage \in {"activating", "updatingProfile"}
          /\ req[r].servant = s /\ (req[r].kind = "profile" => ~ req[r].promotes)

StatusMove(r) ==
    /\ \A s \in Servants : Present(s) =>
          Touched(r, s) \/ servants'[s].status = servants[s].status
    /\ \A s \in Servants :
          Present(s) /\ servants[s].status = "INATIVO" /\ servants'[s].status = "ATIVO" =>
             Recalled(s)

ReviewMove(r) ==
    /\ \A k \in Talents : Known(k) =>
          Touched(r, Rejection(k)) \/ talents'[k].review = talents[k].review
    /\ \A k \in Talents : Known(k) /\ talents[k].review = "NOT_REQUIRED" =>
          \/ talents'[k].review \in {"NOT_REQUIRED", "PENDING_ADMIN_REVIEW"}
          \/ Rejection(k) \in raced

LEMMA TeamsStep ==
  ASSUME TypesInv, TeamsInv, NEW r \in Requests \cup {0}, Advances(r), TeamsMove(r)
  PROVE  TeamsInv'
<1>1. ASSUME NEW q \in Requests PROVE KnowsTeam(q)'
  <2>1. CASE q = r
    BY <2>1 DEF Advances, Knows
  <2>2. CASE q # r
    <3>1. PICK l : l = req[q] /\ l = req'[q]
      BY <2>2 DEF Advances, Moved
    <3>2. raced \subseteq raced' /\ unguarded \subseteq unguarded'
      BY DEF Advances, Moved, TeamsMove
    <3>3. KnowsTeam(q) /\ ServantCarries(q)
      BY DEF TeamsInv, TypesInv, Carries
    <3>4. ASSUME l.stage = "joining", l.servant \notin raced', l.team \in Teams
          PROVE  Open(l.servant, MinistryOf[l.team])'
      <4>1. l.servant \in Servants /\ l.servant \in l.touches /\ Present(l.servant)
        BY <3>1, <3>3, <3>4 DEF ServantCarries
      <4>2. ~ Touched(r, l.servant)
        BY <2>2, <3>1, <3>4, <4>1 DEF Touched
      <4>3. Open(l.servant, MinistryOf[l.team])
        BY <3>1, <3>2, <3>3, <3>4 DEF KnowsTeam
      <4>4. MinistryOf[l.team] \in Ministries
        BY <3>4, AccountsAssumption
      <4>5. PICK s, m : s = l.servant /\ m = MinistryOf[l.team]
        OBVIOUS
      <4>6. Open(s, m)'
        BY <4>1, <4>2, <4>3, <4>4, <4>5 DEF TeamsMove
      <4> QED
        BY <4>5, <4>6
    <3>5. ASSUME l.stage = "leading", l.user \notin raced' \cup unguarded'
          PROVE  ~ LeadsElsewhere(l.user, l.team)'
      <4>1. l.user \in Users /\ l.user \in l.touches
        BY <3>1, <3>3, <3>5 DEF ServantCarries
      <4>2. ~ Touched(r, l.user)
        BY <2>2, <3>1, <3>5, <4>1 DEF Touched
      <4>3. ~ LeadsElsewhere(l.user, l.team)
        BY <3>1, <3>2, <3>3, <3>5 DEF KnowsTeam
      <4>4. \A t \in Teams : LeadsNow(t, l.user)' => LeadsNow(t, l.user)
        BY <3>5, <4>1, <4>2 DEF TeamsMove
      <4> QED
        BY <4>3, <4>4 DEF LeadsElsewhere, LeadsNow
    <3> QED
      BY <3>1, <3>4, <3>5 DEF KnowsTeam
  <2> QED
    BY <2>1, <2>2
<1> QED
  BY <1>1 DEF TeamsInv, TeamsMove

LEMMA TrainingStep ==
  ASSUME TypesInv, TrainingInv, NEW r \in Requests \cup {0}, Advances(r), TrainingMove(r)
  PROVE  TrainingInv'
<1>1. ASSUME NEW q \in Requests PROVE KnowsTraining(q)'
  <2>1. CASE q = r
    BY <2>1 DEF Advances, Knows
  <2>2. CASE q # r
    <3>1. PICK l : l = req[q] /\ l = req'[q]
      BY <2>2 DEF Advances, Moved
    <3>2. raced \subseteq raced' /\ unguarded \subseteq unguarded'
      BY DEF Advances, Moved, TrainingMove
    <3>3. KnowsTraining(q) /\ ServantCarries(q)
      BY DEF TrainingInv, TypesInv, Carries
    <3>4. ASSUME l.stage = "updatingServant", l.servant \notin raced'
          PROVE  \A m \in DOMAIN l.found :
                    Trained(l.servant, m)' => l.found[m] = "COMPLETED" \/ m \in unguarded'
      <4>1. l.servant \in Servants /\ l.servant \in l.touches /\ Present(l.servant)
            /\ DOMAIN l.found \subseteq Ministries
        BY <3>1, <3>3, <3>4 DEF ServantCarries
      <4>2. ~ Touched(r, l.servant)
        BY <2>2, <3>1, <3>4, <4>1 DEF Touched
      <4>3. \A m \in DOMAIN l.found :
               Trained(l.servant, m) => l.found[m] = "COMPLETED" \/ m \in unguarded
        <5>1. req[q].stage = "updatingServant" /\ req[q].servant \notin raced
          BY <3>1, <3>2, <3>4
        <5>2. \A m \in DOMAIN req[q].found :
                 Trained(req[q].servant, m) => req[q].found[m] = "COMPLETED" \/ m \in unguarded
          BY <3>3, <5>1 DEF KnowsTraining
        <5> QED
          BY <3>1, <5>2 DEF Trained, Serving, Present
      <4>4. PICK s : s = l.servant
        OBVIOUS
      <4>5. \A m \in Ministries : Trained(s, m)' => Trained(s, m)
        BY <4>1, <4>2, <4>4 DEF TrainingMove
      <4> QED
        BY <3>2, <4>1, <4>3, <4>4, <4>5
    <3> QED
      BY <3>1, <3>4 DEF KnowsTraining
  <2> QED
    BY <2>1, <2>2
<1> QED
  BY <1>1 DEF TrainingInv, TrainingMove

LEMMA DecisionsStep ==
  ASSUME TypesInv, DecisionsInv, NEW r \in Requests \cup {0}, Advances(r), StatusMove(r),
         ReviewMove(r)
  PROVE  DecisionsInv'
<1>1. ASSUME NEW q \in Requests PROVE KnowsDecision(q)'
  <2>1. CASE q = r
    BY <2>1 DEF Advances, Knows
  <2>2. CASE q # r
    <3>1. PICK l : l = req[q] /\ l = req'[q]
      BY <2>2 DEF Advances, Moved
    <3>2. raced \subseteq raced'
      BY DEF Advances, Moved
    <3>3. KnowsDecision(q) /\ ServantCarries(q)
      BY DEF DecisionsInv, TypesInv, Carries
    <3>4. ASSUME l.stage \in {"updatingProfile", "training"}, l.promotes, l.servant \notin raced'
          PROVE  servants'[l.servant].status # "INATIVO"
      <4>1. l.servant \in Servants /\ l.servant \in l.touches /\ Present(l.servant)
        BY <3>1, <3>3, <3>4 DEF ServantCarries
      <4>0. ~ Touched(r, l.servant)
        BY <2>2, <3>1, <3>4, <4>1 DEF Touched
      <4>2. servants'[l.servant].status = servants[l.servant].status
        BY <4>0, <4>1 DEF StatusMove
      <4>3. servants[l.servant].status # "INATIVO"
        BY <3>1, <3>2, <3>3, <3>4 DEF KnowsDecision
      <4> QED
        BY <4>2, <4>3
    <3>5. ASSUME l.stage = "reviewing", Rejection(l.talent) \notin raced'
          PROVE  talents'[l.talent].review = "PENDING_ADMIN_REVIEW"
      <4>1. l.talent \in Talents /\ Known(l.talent) /\ Rejection(l.talent) \in l.touches
        BY <3>1, <3>3, <3>5 DEF ServantCarries
      <4>0. ~ Touched(r, Rejection(l.talent))
        BY <2>2, <3>1, <3>5, <4>1 DEF Touched
      <4>2. talents'[l.talent].review = talents[l.talent].review
        BY <4>0, <4>1 DEF ReviewMove
      <4>3. talents[l.talent].review = "PENDING_ADMIN_REVIEW"
        BY <3>1, <3>2, <3>3, <3>5 DEF KnowsDecision
      <4> QED
        BY <4>2, <4>3
    <3> QED
      BY <3>1, <3>4, <3>5 DEF KnowsDecision
  <2> QED
    BY <2>1, <2>2
<1> QED
  BY <1>1 DEF DecisionsInv

-----------------------------------------------------------------------------
(* Tables that stay are no harm.                                           *)

ServantsInv == TypesInv /\ TeamsInv /\ TrainingInv /\ DecisionsInv
ServantsMove(r) == TeamsMove(r) /\ TrainingMove(r) /\ StatusMove(r)

LEMMA ServantsSame ==
  ASSUME ServantsInv, NEW r, raced \subseteq raced', UNCHANGED <<servants, unguarded>>
  PROVE  /\ TrainingMove(r) /\ StatusMove(r)
         /\ \A s \in Servants : Present(s)' /\ s \notin raced' /\ servants'[s].team \in Teams =>
               Open(s, MinistryOf[servants[s].team])'
         /\ \A s \in Servants, m \in Ministries : Open(s, m) => Open(s, m)'
<1>1. \A s \in Servants : (Present(s)' <=> Present(s)) /\ Serving(s)' = Serving(s)
  BY DEF Present, Serving
<1>2. \A s \in Servants, m \in Ministries : Trained(s, m)' <=> Trained(s, m)
  BY DEF Trained, Serving, Present
<1>3. TrainedStays
  BY <1>2 DEF TrainedStays
<1>4. TrainingMove(r)
  BY <1>1, <1>2, <1>3 DEF TrainingMove, ServantsInv, TrainingInv
<1>5. StatusMove(r)
  BY DEF StatusMove
<1>6. \A s \in Servants : Present(s)' /\ s \notin raced' /\ servants'[s].team \in Teams =>
         Open(s, MinistryOf[servants[s].team])'
  BY <1>1 DEF ServantsInv, TeamsInv, Open, Serving
<1>7. \A s \in Servants, m \in Ministries : Open(s, m) => Open(s, m)'
  BY DEF Open, Serving
<1> QED
  BY <1>4, <1>5, <1>6, <1>7

LEMMA PostsSame ==
  ASSUME ServantsInv, NEW r, raced \subseteq raced', UNCHANGED <<servants, teams, unguarded>>
  PROVE  ServantsMove(r)
<1>1. \A t \in Teams, u \in Users : LeadsNow(t, u)' => LeadsNow(t, u)
  BY DEF LeadsNow
<1>2. \A t, v \in Teams :
         teams'[t].status = "ACTIVE" /\ teams'[v].status = "ACTIVE"
            /\ teams'[t].leader = teams'[v].leader
            /\ teams'[t].leader \in Users \ (raced' \cup unguarded') => t = v
  BY DEF ServantsInv, TeamsInv
<1> QED
  BY <1>1, <1>2, ServantsSame DEF TeamsMove, ServantsMove

LEMMA ReviewsSame ==
  ASSUME NEW r, talents' = talents
  PROVE  ReviewMove(r)
  BY DEF ReviewMove

-----------------------------------------------------------------------------
(* Every way to write a servant.                                           *)

\* Who leads what, where the teams stay.
LEMMA LeadersSame ==
  ASSUME TeamsInv, raced \subseteq raced', UNCHANGED <<teams, unguarded>>
  PROVE  /\ \A t \in Teams, u \in Users : LeadsNow(t, u)' => LeadsNow(t, u)
         /\ \A t, v \in Teams :
               teams'[t].status = "ACTIVE" /\ teams'[v].status = "ACTIVE"
                  /\ teams'[t].leader = teams'[v].leader
                  /\ teams'[t].leader \in Users \ (raced' \cup unguarded') => t = v
  BY DEF LeadsNow, TeamsInv

\* The row fits together, and so does what it says with what was said.
FitRow(s, row) ==
    /\ row.main \in DOMAIN row.training \cup unguarded
    /\ s \notin raced' /\ row.team \in Teams =>
          MinistryOf[row.team] \in unguarded \cup DOMAIN row.training \cup {row.main}
    /\ \A m \in Ministries : Trained(s, m) /\ m \in DOMAIN row.training =>
          row.training[m] = "COMPLETED" \/ s \in raced' \/ m \in unguarded
    /\ Present(s) /\ servants[s].status = "INATIVO" /\ row.status = "ATIVO" => Recalled(s)

LEMMA ServantMoves ==
  ASSUME ServantsInv, NEW r, raced \subseteq raced', NEW s \in Servants, NEW row \in ServantRow,
         servants' = [servants EXCEPT ![s] = row], UNCHANGED <<teams, unguarded>>,
         Present(s) => Touched(r, s), FitRow(s, row)
  PROVE  ServantsMove(r)
<1>1. /\ servants'[s] = row /\ Serving(s)' = DOMAIN row.training
      /\ \A p \in Servants \ {s} : servants'[p] = servants[p]
  BY DEF ServantsInv, TypesInv, AccountsTyped, Serving
<1>2. \A p \in Servants \ {s} : /\ Present(p)' <=> Present(p)
                                /\ Serving(p)' = Serving(p)
  BY <1>1 DEF Present, Serving
<1>3. \A p \in Servants, m \in Ministries :
         Present(p) => Touched(r, p) \/ (Open(p, m) => Open(p, m)')
  BY <1>1, <1>2 DEF Open
<1>4. ASSUME NEW p \in Servants, Present(p)', p \notin raced', servants'[p].team \in Teams
      PROVE  Open(p, MinistryOf[servants[p].team])'
  <2>1. CASE p = s
    BY <1>1, <1>4, <2>1 DEF Open, FitRow
  <2>2. CASE p # s
    BY <1>1, <1>2, <1>4, <2>2 DEF Open, ServantsInv, TeamsInv
  <2> QED
    BY <2>1, <2>2
<1>5. TeamsMove(r)
  BY <1>3, <1>4, LeadersSame DEF TeamsMove, ServantsInv
<1>6. \A p \in Servants : Present(p)' => servants'[p].main \in Serving(p)' \cup unguarded'
  <2> SUFFICES ASSUME NEW p \in Servants, Present(p)'
               PROVE  servants'[p].main \in Serving(p)' \cup unguarded'
    OBVIOUS
  <2>1. CASE p = s
    BY <1>1, <2>1 DEF FitRow
  <2>2. CASE p # s
    BY <1>1, <1>2, <2>2 DEF ServantsInv, TrainingInv
  <2> QED
    BY <2>1, <2>2
<1>7. \A p \in Servants \ {s}, m \in Ministries : Trained(p, m)' <=> Trained(p, m)
  BY <1>1, <1>2 DEF Trained
<1>8. Present(s)'
  BY <1>1, AccountsAssumption DEF Present
<1>9. TrainedStays
  <2> SUFFICES ASSUME NEW p \in Servants, NEW m \in Ministries, Trained(p, m)
               PROVE  \/ Trained(p, m)' \/ m \notin Serving(p)'
                      \/ p \in raced' \/ m \in unguarded'
    BY DEF TrainedStays
  <2>1. CASE p = s
    BY <1>1, <1>8, <2>1 DEF FitRow, Trained
  <2>2. CASE p # s
    BY <1>7, <2>2
  <2> QED
    BY <2>1, <2>2
<1>10. TrainingMove(r)
  BY <1>6, <1>7, <1>9 DEF TrainingMove
<1>11. StatusMove(r)
  BY <1>1 DEF StatusMove, FitRow
<1> QED
  BY <1>5, <1>10, <1>11 DEF ServantsMove

\* What holds of the row that is there.
LEMMA StandingFit ==
  ASSUME ServantsInv, NEW s \in Servants, Present(s), raced \subseteq raced'
  PROVE  /\ servants[s].main \in Serving(s) \cup unguarded
         /\ s \notin raced' /\ servants[s].team \in Teams =>
               MinistryOf[servants[s].team] \in unguarded \cup Serving(s) \cup {servants[s].main}
  BY DEF ServantsInv, TeamsInv, TrainingInv, Open

LEMMA CommitApprovalPosts ==
  ASSUME ServantsInv, NEW r \in Requests, Moved(r), CommitApproval(r)
  PROVE  ServantsMove(r)
<1>1. PICK s \in Servants, row \in ServantRow :
         /\ s = req[r].servant /\ Present(s) /\ servants' = [servants EXCEPT ![s] = row]
         /\ SamePost(row, s) /\ SameStatus(row, s) /\ row.team = servants[s].team
  BY ApprovedServant DEF ServantsInv
<1>2. UNCHANGED <<teams, unguarded>> /\ raced \subseteq raced'
  BY DEF CommitApproval, Moved
<1>3. s \in req[r].touches
  BY <1>1 DEF CommitApproval, ServantsInv, TypesInv, Carries, AccountCarries
<1>4. FitRow(s, row)
  BY <1>1, <1>2, StandingFit DEF FitRow, SamePost, SameStatus, Trained, Serving
<1> QED
  BY <1>1, <1>2, <1>3, <1>4, ServantMoves, OwnTouched DEF ServantsInv

LEMMA CommitServantPosts ==
  ASSUME ServantsInv, NEW r \in Requests, Moved(r), CommitServant(r)
  PROVE  ServantsMove(r)
<1>1. UNCHANGED <<teams, unguarded>> /\ raced \subseteq raced' /\ TypesInv
  BY DEF CommitServant, Moved, ServantsInv
<1>2. CASE servants' = servants
  BY <1>1, <1>2, PostsSame
<1>3. CASE servants' # servants
  <2>1. PICK s \in Servants, row \in ServantRow : Reposted(r, s, row)
    BY <1>1, <1>3, UpdatedServant
  <2>2. /\ s = req[r].servant /\ Present(s) /\ servants' = [servants EXCEPT ![s] = row]
        /\ SameStatus(row, s) /\ row.main = req[r].main /\ row.team = req[r].team
        /\ DOMAIN row.training = req[r].ministries
        /\ \A m \in req[r].ministries \cap Serving(s) :
              \/ m \in DOMAIN req[r].found /\ row.training[m] = req[r].found[m]
              \/ m \notin DOMAIN req[r].found /\ row.training[m] = servants[s].training[m]
    BY <2>1 DEF Reposted
  <2>3. /\ s \in req[r].touches /\ req[r].main \in req[r].ministries
        /\ TeamFits(req[r].team, req[r].ministries)
    BY <1>1, <2>2 DEF CommitServant, TypesInv, Carries, ServantCarries
  <2>4. KnowsTraining(r) /\ req[r].stage = "updatingServant"
    BY DEF CommitServant, ServantsInv, TrainingInv
  <2>5. s \notin raced =>
           \A m \in DOMAIN req[r].found :
              Trained(s, m) => req[r].found[m] = "COMPLETED" \/ m \in unguarded
    BY <2>2, <2>4 DEF KnowsTraining
  <2>6. ASSUME NEW m \in Ministries, Trained(s, m), m \in DOMAIN row.training
        PROVE  row.training[m] = "COMPLETED" \/ s \in raced' \/ m \in unguarded
    <3>1. m \in req[r].ministries \cap Serving(s) /\ servants[s].training[m] = "COMPLETED"
      BY <2>2, <2>6 DEF Trained
    <3> QED
      BY <1>1, <2>2, <2>5, <2>6, <3>1
  <2>7. row.team \in Teams => MinistryOf[row.team] \in DOMAIN row.training
    BY <2>2, <2>3, AccountsAssumption DEF TeamFits
  <2>8. FitRow(s, row)
    BY <2>2, <2>3, <2>6, <2>7 DEF FitRow, SameStatus
  <2> QED
    BY <1>1, <2>2, <2>3, <2>8, ServantMoves, OwnTouched
<1> QED
  BY <1>2, <1>3

LEMMA CommitProfilePosts ==
  ASSUME ServantsInv, NEW r \in Requests, Moved(r), CommitProfile(r)
  PROVE  ServantsMove(r)
<1>1. PICK s \in Servants, row \in ServantRow :
         /\ s = req[r].servant /\ Present(s) /\ servants' = [servants EXCEPT ![s] = row]
         /\ SamePost(row, s) /\ row.team = servants[s].team
         /\ row.status \in {servants[s].status, req[r].status}
  BY ProfiledServant DEF ServantsInv
<1>2. UNCHANGED <<teams, unguarded>> /\ raced \subseteq raced' /\ req[r].stage = "updatingProfile"
  BY DEF CommitProfile, Moved
<1>3. s \in req[r].touches
  BY <1>1, <1>2 DEF ServantsInv, TypesInv, Carries, ServantCarries
<1>4. servants[s].status = "INATIVO" => s \in raced \/ ~ req[r].promotes
  <2>1. KnowsDecision(r)
    BY DEF ServantsInv, DecisionsInv
  <2> QED
    BY <1>1, <1>2, <2>1 DEF KnowsDecision
<1>5. servants[s].status = "INATIVO" => Recalled(s)
  BY <1>1, <1>2, <1>4 DEF Recalled
<1>6. FitRow(s, row)
  BY <1>1, <1>2, <1>5, StandingFit DEF FitRow, SamePost, Trained, Serving
<1> QED
  BY <1>1, <1>2, <1>3, <1>6, ServantMoves, OwnTouched DEF ServantsInv

LEMMA CommitTrainingPosts ==
  ASSUME ServantsInv, NEW r \in Requests, Moved(r), CommitTraining(r)
  PROVE  ServantsMove(r)
<1>1. /\ UNCHANGED <<teams, unguarded>> /\ raced \subseteq raced' /\ TypesInv
      /\ req[r].stage = "training"
  BY DEF CommitTraining, Moved, ServantsInv
<1>2. CASE servants' = servants
  BY <1>1, <1>2, PostsSame
<1>3. CASE servants' # servants
  <2>1. PICK s \in Servants, row \in ServantRow :
            /\ s = req[r].servant /\ Present(s) /\ servants' = [servants EXCEPT ![s] = row]
            /\ row.main = servants[s].main /\ row.team = servants[s].team
            /\ DOMAIN row.training = Serving(s)
            /\ \A m \in Serving(s) :
                  row.training[m] \in {servants[s].training[m], "COMPLETED"}
            /\ row.status = IF req[r].promotes THEN "ATIVO" ELSE servants[s].status
    BY <1>1, <1>3, TrainedServant
  <2>2. s \in req[r].touches
    BY <1>1, <2>1 DEF TypesInv, Carries, ServantCarries
  <2>3. req[r].promotes => s \in raced \/ servants[s].status # "INATIVO"
    <3>1. KnowsDecision(r)
      BY DEF ServantsInv, DecisionsInv
    <3> QED
      BY <1>1, <2>1, <3>1 DEF KnowsDecision
  <2>4. servants[s].status = "INATIVO" /\ row.status = "ATIVO" => Recalled(s)
    BY <2>1, <2>3 DEF Recalled
  <2>5. FitRow(s, row)
    BY <1>1, <2>1, <2>4, StandingFit DEF FitRow, Trained
  <2> QED
    BY <1>1, <2>1, <2>2, <2>5, ServantMoves, OwnTouched
<1> QED
  BY <1>2, <1>3

LEMMA CommitMemberPosts ==
  ASSUME ServantsInv, NEW r \in Requests, Moved(r), CommitMember(r)
  PROVE  ServantsMove(r)
<1>1. PICK s \in Servants, row \in ServantRow :
         /\ s = req[r].servant /\ Present(s) /\ servants' = [servants EXCEPT ![s] = row]
         /\ SamePost(row, s) /\ SameStatus(row, s) /\ row.team = req[r].team
  BY MovedServant DEF ServantsInv
<1>2. UNCHANGED <<teams, unguarded>> /\ raced \subseteq raced' /\ req[r].stage = "joining"
  BY DEF CommitMember, Moved
<1>3. s \in req[r].touches
  BY <1>1, <1>2 DEF ServantsInv, TypesInv, Carries, ServantCarries
<1>4. s \notin raced /\ row.team \in Teams => Open(s, MinistryOf[row.team])
  <2>1. KnowsTeam(r)
    BY DEF ServantsInv, TeamsInv
  <2>2. s \notin raced /\ row.team \in Teams => Open(req[r].servant, MinistryOf[req[r].team])
    BY <1>1, <1>2, <2>1 DEF KnowsTeam
  <2> QED
    BY <1>1, <2>2
<1>5. FitRow(s, row)
  BY <1>1, <1>2, <1>4, StandingFit DEF FitRow, SamePost, SameStatus, Trained, Serving, Open
<1> QED
  BY <1>1, <1>2, <1>3, <1>5, ServantMoves, OwnTouched DEF ServantsInv

LEMMA CommitActivePosts ==
  ASSUME ServantsInv, NEW r \in Requests, Moved(r), CommitActive(r)
  PROVE  ServantsMove(r)
<1>1. PICK s \in Servants, row \in ServantRow :
         /\ s = req[r].servant /\ Present(s) /\ servants' = [servants EXCEPT ![s] = row]
         /\ SamePost(row, s) /\ row.status = "ATIVO" /\ row.team = servants[s].team
  BY ActiveServant DEF ServantsInv
<1>2. UNCHANGED <<teams, unguarded>> /\ raced \subseteq raced' /\ req[r].stage = "activating"
  BY DEF CommitActive, Moved
<1>3. s \in req[r].touches /\ req[r].kind = "talent"
  BY <1>1, <1>2 DEF ServantsInv, TypesInv, Carries, ServantCarries
<1>4. Recalled(s)
  BY <1>1, <1>2, <1>3 DEF Recalled
<1>5. FitRow(s, row)
  BY <1>1, <1>2, <1>4, StandingFit DEF FitRow, SamePost, Trained, Serving
<1> QED
  BY <1>1, <1>2, <1>3, <1>5, ServantMoves, OwnTouched DEF ServantsInv

LEMMA CreateWithUserPosts ==
  ASSUME ServantsInv, Moved(0), NEW s \in Servants, NEW ms \in SUBSET Ministries, NEW main \in ms,
         NEW t \in Teams \cup {NoTeam}, NEW standing \in {"RECRUTAMENTO", "ATIVO"},
         NEW status \in Statuses, CreateWithUser(s, main, ms, t, standing, status)
  PROVE  ServantsMove(0)
<1>1. PICK row \in ServantRow :
         /\ row = Servant(main, Untrained(ms), t, standing)
         /\ row.main = main /\ row.training = Untrained(ms) /\ row.team = t
  BY NewServantTyped DEF ServantStatuses
<1>2. /\ ~ Present(s) /\ servants' = [servants EXCEPT ![s] = row] /\ TeamFits(t, ms)
      /\ UNCHANGED <<teams, unguarded>> /\ raced \subseteq raced'
  BY <1>1 DEF CreateWithUser, Moved
<1>3. FitRow(s, row)
  BY <1>1, <1>2, AccountsAssumption DEF FitRow, Untrained, TeamFits, Trained
<1> QED
  BY <1>2, <1>3, ServantMoves

-----------------------------------------------------------------------------
(* Members of a ministry, leaders and teams.                               *)

LEMMA ReplaceMembersPosts ==
  ASSUME ServantsInv, Moved(0), NEW m \in Ministries, NEW members \in SUBSET Servants,
         ReplaceMembers(m, members)
  PROVE  ServantsMove(0)
<1>1. /\ teams' = teams /\ unguarded' = unguarded \cup {m} /\ raced \subseteq raced'
      /\ TypesInv /\ TeamsInv
  BY DEF ReplaceMembers, Moved, ServantsInv
<1>2. \A s \in Servants : Present(s)' => Present(s)
  BY DEF ReplaceMembers, Present
<1>3. \A s \in Servants : Present(s) =>
         /\ servants'[s].main = servants[s].main /\ servants'[s].team = servants[s].team
         /\ servants'[s].status = servants[s].status
         /\ Serving(s)' \ {m} = Serving(s) \ {m}
         /\ \A n \in Serving(s) \ {m} : servants'[s].training[n] = servants[s].training[n]
  BY <1>1, ReplacedMember DEF Serving
<1>4. \A s \in Servants : Present(s) /\ m \in Serving(s)' => servants'[s].training[m] = "PENDING"
  <2> SUFFICES ASSUME NEW s \in Servants, Present(s), m \in Serving(s)'
               PROVE  servants'[s].training[m] = "PENDING"
    OBVIOUS
  <2>1. PICK row, ms, f :
           /\ row = servants[s] /\ row \in ServantRow
           /\ ms = (Serving(s) \ {m}) \cup (IF s \in members THEN {m} ELSE {})
           /\ f = [n \in ms |-> IF n = m THEN "PENDING" ELSE row.training[n]]
    BY <1>1 DEF TypesInv, AccountsTyped, Present
  <2>2. servants'[s] = [row EXCEPT !.training = f]
    BY <2>1 DEF ReplaceMembers
  <2>3. servants'[s].training = f
    BY <2>1, <2>2 DEF ServantRow
  <2> QED
    BY <2>1, <2>3 DEF Serving
<1>5. \A s \in Servants, n \in Ministries : Present(s) /\ Open(s, n) => Open(s, n)'
  <2> SUFFICES ASSUME NEW s \in Servants, NEW n \in Ministries, Present(s), Open(s, n)
               PROVE  Open(s, n)'
    OBVIOUS
  <2> QED
    BY <1>1, <1>3 DEF Open
<1>6. \A s \in Servants :
         Present(s)' /\ s \notin raced' /\ servants'[s].team \in Teams =>
            Open(s, MinistryOf[servants[s].team])'
  <2> SUFFICES ASSUME NEW s \in Servants, Present(s)', s \notin raced', servants'[s].team \in Teams
               PROVE  Open(s, MinistryOf[servants[s].team])'
    OBVIOUS
  <2>1. PICK n : n = MinistryOf[servants[s].team] /\ n = MinistryOf[servants'[s].team]
    BY <1>2, <1>3
  <2>2. n \in Ministries /\ Open(s, n)
    BY <1>1, <1>2, <1>3, <2>1, AccountsAssumption DEF TeamsInv
  <2>3. Open(s, n)'
    BY <1>2, <1>5, <2>2
  <2> QED
    BY <2>1, <2>3 DEF Open
<1>7. TeamsMove(0)
  <2>1. \A t \in Teams, u \in Users : LeadsNow(t, u)' => LeadsNow(t, u)
    BY <1>1 DEF LeadsNow
  <2>2. \A t, v \in Teams :
           teams'[t].status = "ACTIVE" /\ teams'[v].status = "ACTIVE"
              /\ teams'[t].leader = teams'[v].leader
              /\ teams'[t].leader \in Users \ (raced' \cup unguarded') => t = v
    BY <1>1 DEF TeamsInv
  <2> QED
    BY <1>1, <1>5, <1>6, <2>1, <2>2 DEF TeamsMove
<1>8. \A s \in Servants : Present(s)' => servants'[s].main \in Serving(s)' \cup unguarded'
  BY <1>1, <1>2, <1>3 DEF ServantsInv, TrainingInv
<1>9. \A s \in Servants, n \in Ministries : Present(s) => (Trained(s, n)' => Trained(s, n))
  <2> SUFFICES ASSUME NEW s \in Servants, NEW n \in Ministries, Present(s), Trained(s, n)'
               PROVE  Trained(s, n)
    OBVIOUS
  <2>1. n \in Serving(s)' /\ servants'[s].training[n] = "COMPLETED"
    BY DEF Trained
  <2>2. n # m
    BY <1>4, <2>1
  <2> QED
    BY <1>3, <2>1, <2>2 DEF Trained
<1>10. TrainedStays
  <2> SUFFICES ASSUME NEW s \in Servants, NEW n \in Ministries, Trained(s, n), n # m
               PROVE  Trained(s, n)'
    BY <1>1 DEF TrainedStays
  <2>1. Present(s) /\ n \in Serving(s) /\ servants[s].training[n] = "COMPLETED"
    BY DEF Trained
  <2>2. Present(s)'
    <3>1. AccountsGrow
      BY <1>1, ReplaceMembersTypes DEF AccountsKept
    <3> QED
      BY <2>1, <3>1 DEF AccountsGrow
  <2> QED
    BY <1>3, <2>1, <2>2 DEF Trained
<1>11. TrainingMove(0)
  BY <1>1, <1>8, <1>9, <1>10 DEF TrainingMove
<1>12. StatusMove(0)
  BY <1>3 DEF StatusMove
<1> QED
  BY <1>7, <1>11, <1>12 DEF ServantsMove

\* Another leader, another status, or none of them: what is written of a team.
LEMMA TeamMoves ==
  ASSUME ServantsInv, NEW r, raced \subseteq raced', servants' = servants,
         unguarded \subseteq unguarded', NEW t \in Teams,
         \A v \in Teams \ {t} : teams'[v] = teams[v],
         \A u \in Users : u \in unguarded' \/ Touched(r, u) \/ (LeadsNow(t, u)' => LeadsNow(t, u)),
         \A u \in Users \ (raced' \cup unguarded'), v \in Teams \ {t} :
            LeadsNow(t, u)' => ~ LeadsNow(v, u)
  PROVE  TeamsMove(r)
<1>1. \A s \in Servants, m \in Ministries : Open(s, m) => Open(s, m)'
  BY DEF Open, Serving
<1>2. \A s \in Servants : Present(s)' /\ s \notin raced' /\ servants'[s].team \in Teams =>
         Open(s, MinistryOf[servants[s].team])'
  BY DEF ServantsInv, TeamsInv, Open, Serving, Present
<1>3. \A v \in Teams \ {t}, u \in Users : LeadsNow(v, u)' => LeadsNow(v, u)
  BY DEF LeadsNow
<1>4. \A v \in Teams, w \in Teams, u \in Users \ (raced' \cup unguarded') :
         LeadsNow(v, u)' /\ LeadsNow(w, u)' => v = w
  <2> SUFFICES ASSUME NEW v \in Teams, NEW w \in Teams, NEW u \in Users \ (raced' \cup unguarded'),
                      LeadsNow(v, u)', LeadsNow(w, u)', v # w
               PROVE  FALSE
    OBVIOUS
  <2>1. CASE v = t
    BY <1>3, <2>1
  <2>2. CASE w = t
    BY <1>3, <2>2
  <2>3. CASE v # t /\ w # t
    BY <1>3, <2>3 DEF LeadsNow, ServantsInv, TeamsInv
  <2> QED
    BY <2>1, <2>2, <2>3
<1>5. \A v, w \in Teams :
         teams'[v].status = "ACTIVE" /\ teams'[w].status = "ACTIVE"
            /\ teams'[v].leader = teams'[w].leader
            /\ teams'[v].leader \in Users \ (raced' \cup unguarded') => v = w
  BY <1>4 DEF LeadsNow
<1> QED
  BY <1>1, <1>2, <1>3, <1>5 DEF TeamsMove

LEMMA CommitLeaderPosts ==
  ASSUME ServantsInv, NEW r \in Requests, Moved(r), CommitLeader(r)
  PROVE  ServantsMove(r)
<1>1. PICK t, u : t = req[r].team /\ u = req[r].user
  OBVIOUS
<1>2. u \in Users /\ u \in req[r].touches /\ t \in Teams
  BY <1>1 DEF CommitLeader, ServantsInv, TypesInv, Carries, ServantCarries
<1>3. /\ teams' = [teams EXCEPT ![t].leader = u] /\ UNCHANGED <<servants, unguarded>>
      /\ raced \subseteq raced' /\ req[r].stage = "leading" /\ TypesInv
  BY <1>1 DEF CommitLeader, Moved, ServantsInv
<1>4. /\ teams'[t].leader = u /\ teams'[t].status = teams[t].status
      /\ \A v \in Teams \ {t} : teams'[v] = teams[v]
  BY <1>2, <1>3 DEF TypesInv, AccountsTyped, TeamRow
<1>5. Touched(r, u)
  BY <1>2, <1>3, OwnTouched
<1>6. u \notin raced \cup unguarded => ~ LeadsElsewhere(u, t)
  <2>1. KnowsTeam(r)
    BY DEF ServantsInv, TeamsInv
  <2>2. u \notin raced \cup unguarded => ~ LeadsElsewhere(req[r].user, req[r].team)
    BY <1>1, <1>3, <2>1 DEF KnowsTeam
  <2> QED
    BY <1>1, <2>2
<1>7. \A w \in Users \ (raced' \cup unguarded'), v \in Teams \ {t} :
         LeadsNow(t, w)' => ~ LeadsNow(v, w)
  BY <1>3, <1>4, <1>6 DEF LeadsNow, LeadsElsewhere
<1>8. \A w \in Users : Touched(r, w) \/ (LeadsNow(t, w)' => LeadsNow(t, w))
  BY <1>4, <1>5 DEF LeadsNow
<1>9. TeamsMove(r)
  BY <1>2, <1>3, <1>4, <1>7, <1>8, TeamMoves
<1> QED
  BY <1>3, <1>9, ServantsSame DEF ServantsMove

LEMMA ClearLeaderPosts ==
  ASSUME ServantsInv, Moved(0), NEW t \in Teams, ClearLeader(t)
  PROVE  ServantsMove(0)
<1>1. /\ teams' = [teams EXCEPT ![t].leader = Nobody] /\ UNCHANGED <<servants, unguarded>>
      /\ raced \subseteq raced' /\ TypesInv
  BY DEF ClearLeader, Moved, ServantsInv
<1>2. teams'[t].leader = Nobody /\ \A v \in Teams \ {t} : teams'[v] = teams[v]
  BY <1>1 DEF TypesInv, AccountsTyped, TeamRow
<1>3. \A u \in Users : ~ LeadsNow(t, u)'
  BY <1>2, AccountsAssumption DEF LeadsNow
<1>4. TeamsMove(0)
  BY <1>1, <1>2, <1>3, TeamMoves
<1> QED
  BY <1>1, <1>4, ServantsSame DEF ServantsMove

LEMMA SetTeamStatusPosts ==
  ASSUME ServantsInv, Moved(0), NEW t \in Teams, NEW status \in Statuses, SetTeamStatus(t, status)
  PROVE  ServantsMove(0)
<1>1. /\ teams' = [teams EXCEPT ![t].status = status] /\ servants' = servants
      /\ unguarded \subseteq unguarded' /\ (status = "ACTIVE" => teams[t].leader \in unguarded')
      /\ raced \subseteq raced' /\ TypesInv
  BY DEF SetTeamStatus, Moved, ServantsInv
<1>2. /\ teams'[t].leader = teams[t].leader /\ teams'[t].status = status
      /\ \A v \in Teams \ {t} : teams'[v] = teams[v]
  BY <1>1 DEF TypesInv, AccountsTyped, TeamRow
<1>3. \A u \in Users : u \in unguarded' \/ ~ LeadsNow(t, u)'
  BY <1>1, <1>2 DEF LeadsNow
<1>4. TeamsMove(0)
  BY <1>1, <1>2, <1>3, TeamMoves
<1>5. /\ \A s \in Servants : Present(s)' => servants'[s].main \in Serving(s)' \cup unguarded'
      /\ \A s \in Servants, m \in Ministries : Trained(s, m)' <=> Trained(s, m)
  BY <1>1 DEF ServantsInv, TrainingInv, Present, Serving, Trained
<1>6. TrainingMove(0)
  BY <1>1, <1>5 DEF TrainingMove, TrainedStays
<1>7. StatusMove(0)
  BY <1>1 DEF StatusMove
<1> QED
  BY <1>4, <1>6, <1>7 DEF ServantsMove

-----------------------------------------------------------------------------
(* What the requests of the accounts do to servants and teams.             *)

LEMMA AccountStepPosts ==
  ASSUME ServantsInv, NEW r \in Requests, Moved(r), AccountStep(r)
  PROVE  ServantsMove(r)
<1>1. CASE CommitApproval(r) \/ CommitServant(r) \/ CommitProfile(r) \/ CommitTraining(r)
  BY <1>1, CommitApprovalPosts, CommitServantPosts, CommitProfilePosts, CommitTrainingPosts
<1>2. CASE CommitMember(r) \/ CommitLeader(r)
  BY <1>2, CommitMemberPosts, CommitLeaderPosts
<1>3. CASE \/ \E status \in Statuses : CommitCreateUser(r, status)
           \/ CommitLink(r) \/ CommitRole(r) \/ Rotate(r) \/ OpenSession(r)
           \/ CommitPassword(r) \/ CommitStatus(r) \/ CommitRemove(r)
           \/ RepairLink(r) \/ RepairProvision(r)
  <2>1. UNCHANGED <<servants, teams, unguarded>> /\ raced \subseteq raced'
    BY ZenonT(30), <1>3 DEF CommitCreateUser, CommitLink, CommitRole, Rotate, OpenSession, CommitPassword,
                CommitStatus, CommitRemove, RepairLink, RepairProvision, Moved
  <2> QED
    BY <2>1, PostsSame
<1> QED
  BY <1>1, <1>2, <1>3 DEF AccountStep

LEMMA AccountAtOncePosts ==
  ASSUME ServantsInv, Moved(0), AccountAtOnce
  PROVE  ServantsMove(0)
<1>1. CASE \E s \in Servants, ms \in SUBSET Ministries, t \in Teams \cup {NoTeam} :
             \E main \in ms, standing \in {"RECRUTAMENTO", "ATIVO"}, status \in Statuses :
                CreateWithUser(s, main, ms, t, standing, status)
  BY <1>1, CreateWithUserPosts
<1>2. CASE \E m \in Ministries, members \in SUBSET Servants : ReplaceMembers(m, members)
  BY <1>2, ReplaceMembersPosts
<1>3. CASE \/ \E t \in Teams, status \in Statuses : SetTeamStatus(t, status)
           \/ \E t \in Teams : ClearLeader(t)
  BY <1>3, SetTeamStatusPosts, ClearLeaderPosts
<1>4. CASE \/ \E u \in Users, grant \in Given : UpdateScope(u, grant)
           \/ \E t \in Tokens : Logout(t)
           \/ \E u \in Users : ForgotPassword(u) \/ AdminResetPassword(u)
           \/ \E m \in Ministries, u \in Users : Appoint(m, u)
  <2>1. UNCHANGED <<servants, teams, unguarded>> /\ raced \subseteq raced'
    BY <1>4 DEF UpdateScope, Logout, ForgotPassword, AdminResetPassword, Appoint, Moved
  <2> QED
    BY <2>1, PostsSame
<1> QED
  BY <1>1, <1>2, <1>3, <1>4 DEF AccountAtOnce

-----------------------------------------------------------------------------
(* Talents that are moved on and reviewed.                                 *)

LEMMA TalentReviews ==
  ASSUME NEW r, NEW k \in Talents, TalentMoved(k), Touched(r, Rejection(k)),
         talents[k].review = "NOT_REQUIRED" =>
            \/ talents'[k].review \in {"NOT_REQUIRED", "PENDING_ADMIN_REVIEW"}
            \/ Rejection(k) \in raced
  PROVE  ReviewMove(r)
  BY DEF TalentMoved, ReviewMove

LEMMA FitnessCallReviews ==
  ASSUME ServantsInv, NEW r \in Requests, Moved(r), FitnessCall(r)
  PROVE  ReviewMove(r)
<1>0. TypesInv
  BY DEF ServantsInv
<1>1. CASE \E k \in Talents : CallApproveTalent(r, k)
  BY <1>0, <1>1, CallApproveProceeds, TalentReviews, OwnTouched
<1>2. CASE \E k \in Talents, reversed \in BOOLEAN : CallReviewRejection(r, k, reversed)
  BY <1>2, ReviewsSame DEF CallReviewRejection, fitnessVars
<1> QED
  BY <1>1, <1>2 DEF FitnessCall

LEMMA FitnessStepReviews ==
  ASSUME ServantsInv, NEW r \in Requests, Moved(r), FitnessStep(r)
  PROVE  ReviewMove(r)
<1>0. TypesInv
  BY DEF ServantsInv
<1>1. CASE CommitActive(r)
  BY <1>1, ReviewsSame DEF CommitActive, fitnessVars
<1>2. CASE CommitReview(r)
  <2>1. PICK k : k = req[r].talent
    OBVIOUS
  <2>2. k \in Talents /\ Rejection(k) \in req[r].touches /\ TalentMoved(k)
    BY <1>0, <1>2, <2>1, CommitReviewProceeds
  <2>3. talents[k].review = "NOT_REQUIRED" => Rejection(k) \in raced
    <3>1. KnowsDecision(r) /\ req[r].stage = "reviewing"
      BY <1>2 DEF ServantsInv, DecisionsInv, CommitReview
    <3> QED
      BY <2>1, <3>1 DEF KnowsDecision
  <2> QED
    BY <1>0, <2>2, <2>3, TalentReviews, OwnTouched
<1> QED
  BY <1>1, <1>2 DEF FitnessStep

LEMMA FitnessAtOnceReviews ==
  ASSUME ServantsInv, Moved(0), FitnessAtOnce
  PROVE  ReviewMove(0)
<1>0. TypesInv
  BY DEF ServantsInv
<1>1. CASE \E s \in Servants, stage \in Stages : CreateTalent(s, stage)
  BY <1>0, <1>1, CreateTalentKept DEF ReviewMove
<1>2. ASSUME NEW k \in Talents, MoveStage(k, "EM_AVALIACAO") \/ RejectTalent(k)
      PROVE  ReviewMove(0)
  <2>1. CallAtOnce({Rejection(k)})
    BY <1>2 DEF MoveStage, RejectTalent
  <2>2. Touched(0, Rejection(k))
    BY <1>0, <2>1, AtOnceTouched
  <2> QED
    BY <1>0, <1>2, <2>2, MoveStageKept, RejectTalentKept, TalentReviews
<1>3. CASE \E s \in Servants : PutAvailability(s)
  BY <1>0, <1>3, PutAvailabilityKept, ReviewsSame
<1> QED
  BY <1>1, <1>2, <1>3 DEF FitnessAtOnce

-----------------------------------------------------------------------------
(* What a step may do to alerts and cases.                                 *)

AlertsMove(r) ==
    /\ \A s \in Servants, key \in Keys :
          Touched(r, <<key, s>>) \/ OpenDuplicates(key, s)' \subseteq OpenDuplicates(key, s)
    /\ \A s \in Servants, key \in Keys : <<key, s>> \notin raced' =>
          \A a, b \in OpenDuplicates(key, s)' : a = b

CasesMove(r) ==
    /\ beside \subseteq beside'
    /\ \A s \in Servants : Touched(r, Case(s)) \/ OpenCases(s)' \subseteq OpenCases(s)
    /\ \A v \in Visits : Opened(v) =>
          Touched(r, Case(visits[v].servant)) \/ visits'[v].status = visits[v].status
    /\ \A s \in Servants : Case(s) \notin raced' /\ s \notin beside' =>
          \A v, w \in OpenCases(s)' : v = w

\* What was to be resolved is, or will be.
CoverMove == failures' = 0 => \A a \in covered' : Settled(a)'

CareMove(r) == AlertsMove(r) /\ CasesMove(r) /\ CoverMove

LEMMA CareInvStep ==
  ASSUME TypesInv, CareInv, NEW r \in Requests \cup {0}, Advances(r), CareMove(r)
  PROVE  CareInv'
<1>1. ASSUME NEW q \in Requests PROVE KnowsCare(q)'
  <2>1. CASE q = r
    BY <2>1 DEF Advances, Knows
  <2>2. CASE q # r
    <3>1. PICK l : l = req[q] /\ l = req'[q]
      BY <2>2 DEF Advances, Moved
    <3>2. raced \subseteq raced' /\ beside \subseteq beside' /\ CareGrows
      BY DEF Advances, Moved, CareMove, CasesMove, CareKept
    <3>3. KnowsCare(q) /\ CareCarries(q) /\ CareTyped
      BY DEF CareInv, TypesInv, Carries
    <3>4. ASSUME l.stage = "raising", <<l.key, l.servant>> \notin raced'
          PROVE  OpenDuplicates(l.key, l.servant)' = {}
      <4>1. PICK key, s : key = l.key /\ s = l.servant
        OBVIOUS
      <4>2. key \in Keys /\ s \in Servants /\ <<key, s>> \in l.touches
        BY <3>1, <3>3, <3>4, <4>1 DEF CareCarries
      <4>3. ~ Touched(r, <<key, s>>)
        BY <2>2, <3>1, <3>4, <4>1, <4>2 DEF Touched
      <4>4. OpenDuplicates(key, s) = {}
        BY <3>1, <3>2, <3>3, <3>4, <4>1 DEF KnowsCare
      <4>5. OpenDuplicates(key, s)' = {}
        BY <4>2, <4>3, <4>4 DEF CareMove, AlertsMove
      <4> QED
        BY <4>1, <4>5
    <3>5. ASSUME l.stage = "openingCase", Case(l.servant) \notin raced', l.servant \notin beside'
          PROVE  OpenCases(l.servant)' = {}
      <4>1. PICK s : s = l.servant
        OBVIOUS
      <4>2. s \in Servants /\ Case(s) \in l.touches
        BY <3>1, <3>3, <3>5, <4>1 DEF CareCarries
      <4>3. ~ Touched(r, Case(s))
        BY <2>2, <3>1, <3>5, <4>1, <4>2 DEF Touched
      <4>4. OpenCases(s) = {}
        BY <3>1, <3>2, <3>3, <3>5, <4>1 DEF KnowsCare
      <4>5. OpenCases(s)' = {}
        BY <4>2, <4>3, <4>4 DEF CareMove, CasesMove
      <4> QED
        BY <4>1, <4>5
    <3>6. ASSUME l.stage = "writingCase", Case(visits'[l.visit].servant) \notin raced'
          PROVE  l.resolving <=> l.status = "RESOLVIDA" /\ visits'[l.visit].status # "RESOLVIDA"
      <4>1. PICK v, s : v = l.visit /\ s = visits[l.visit].servant
        OBVIOUS
      <4>2. v \in Visits /\ Opened(v) /\ Case(s) \in l.touches
        BY <3>1, <3>3, <3>6, <4>1 DEF CareCarries
      <4>3. visits'[v].servant = s
        BY <3>2, <4>1, <4>2 DEF CareGrows
      <4>4. ~ Touched(r, Case(s)) /\ Case(s) \notin raced
        BY <2>2, <3>1, <3>2, <3>6, <4>1, <4>2, <4>3 DEF Touched
      <4>5. visits'[v].status = visits[v].status
        BY <4>1, <4>2, <4>4 DEF CareMove, CasesMove
      <4>6. l.resolving <=> l.status = "RESOLVIDA" /\ visits[v].status # "RESOLVIDA"
        BY <3>1, <3>3, <3>6, <4>1, <4>4 DEF KnowsCare
      <4> QED
        BY <4>1, <4>5, <4>6
    <3> QED
      BY <3>1, <3>4, <3>5, <3>6 DEF KnowsCare
  <2> QED
    BY <2>1, <2>2
<1> QED
  BY <1>1 DEF CareInv, CareMove, AlertsMove, CasesMove, CoverMove

-----------------------------------------------------------------------------
(* Alerts that are raised, and resolved.                                   *)

LEMMA AlertsClose ==
  ASSUME CareInv, NEW r, raced \subseteq raced',
         \A a \in Alerts : Raised(a)' /\ alerts'[a].status = "OPEN" =>
            /\ Raised(a) /\ alerts[a].status = "OPEN"
            /\ alerts'[a].servant = alerts[a].servant /\ alerts'[a].key = alerts[a].key
  PROVE  AlertsMove(r)
<1>1. \A s, key : OpenDuplicates(key, s)' \subseteq OpenDuplicates(key, s)
  BY DEF OpenDuplicates, OpenAlerts
<1> QED
  BY <1>1 DEF AlertsMove, CareInv

LEMMA AlertsSame ==
  ASSUME CareInv, NEW r, raced \subseteq raced', alerts' = alerts
  PROVE  AlertsMove(r)
  BY AlertsClose DEF Raised

LEMMA ResolvedAlerts ==
  ASSUME CareInv, NEW r, raced \subseteq raced', NEW ids, Resolved(ids)
  PROVE  AlertsMove(r)
<1>1. ASSUME NEW a \in Alerts, Raised(a)', alerts'[a].status = "OPEN"
      PROVE  /\ Raised(a) /\ alerts[a].status = "OPEN"
             /\ alerts'[a].servant = alerts[a].servant /\ alerts'[a].key = alerts[a].key
  BY <1>1 DEF Resolved
<1> QED
  BY <1>1, AlertsClose

LEMMA RaiseAlerts ==
  ASSUME TypesInv, CareInv, NEW r \in Requests, Moved(r), Raise(r)
  PROVE  AlertsMove(r)
<1>1. PICK s, key : s = req[r].servant /\ key = req[r].key
  OBVIOUS
<1>2. CareCarries(r) /\ req[r].stage = "raising" /\ KnowsCare(r) /\ raced \subseteq raced'
  BY DEF Raise, TypesInv, Carries, CareInv, Moved
<1>3. s \in Servants /\ key \in Keys /\ <<key, s>> \in req[r].touches
  BY <1>1, <1>2 DEF CareCarries
<1>4. <<key, s>> \notin raced => OpenDuplicates(key, s) = {}
  BY <1>1, <1>2 DEF KnowsCare
<1>5. PICK a \in Alerts :
         /\ ~ Raised(a) /\ alerts'[a].servant = s /\ alerts'[a].key = key
         /\ \A b \in Alerts \ {a} : alerts'[b] = alerts[b]
  BY <1>1, RaiseProceeds
<1>6. \A p, k : ~ (p = s /\ k = key) => OpenDuplicates(k, p)' \subseteq OpenDuplicates(k, p)
  BY <1>5 DEF OpenDuplicates, OpenAlerts, Raised
<1>7. OpenDuplicates(key, s)' \subseteq OpenDuplicates(key, s) \cup {a}
  BY <1>5 DEF OpenDuplicates, OpenAlerts, Raised
<1>8. \A p \in Servants, k \in Keys :
         Touched(r, <<k, p>>) \/ OpenDuplicates(k, p)' \subseteq OpenDuplicates(k, p)
  <2>1. Touched(r, <<key, s>>)
    BY <1>3, OwnTouched
  <2> QED
    BY <1>6, <2>1
<1>9. ASSUME NEW p \in Servants, NEW k \in Keys, <<k, p>> \notin raced'
      PROVE  \A b, c \in OpenDuplicates(k, p)' : b = c
  <2>1. CASE p = s /\ k = key
    BY <1>2, <1>4, <1>7, <1>9, <2>1
  <2>2. CASE ~ (p = s /\ k = key)
    BY <1>2, <1>6, <1>9, <2>2 DEF CareInv
  <2> QED
    BY <2>1, <2>2
<1> QED
  BY <1>8, <1>9 DEF AlertsMove

-----------------------------------------------------------------------------
(* Cases that are opened, written and closed.                              *)

\* Visits keep whose they are and what is their status.
LEMMA CasesSame ==
  ASSUME CareInv, NEW r, raced \subseteq raced', beside \subseteq beside',
         \A v \in Visits : Opened(v)' => Opened(v),
         \A v \in Visits : Opened(v) =>
            visits'[v].servant = visits[v].servant /\ visits'[v].status = visits[v].status
  PROVE  CasesMove(r)
<1>1. \A s : OpenCases(s)' \subseteq OpenCases(s)
  BY DEF OpenCases
<1> QED
  BY <1>1 DEF CasesMove, CareInv

\* A case is opened, for one who has none, or beside those he has.
LEMMA OpenedCases ==
  ASSUME CareInv, NEW r, raced \subseteq raced', beside \subseteq beside', NEW s \in Servants,
         Touched(r, Case(s)), NEW v \in Visits, ~ Opened(v), visits'[v].servant = s,
         \A w \in Visits \ {v} : visits'[w] = visits[w],
         Case(s) \in raced' \/ s \in beside' \/ OpenCases(s) = {}
  PROVE  CasesMove(r)
<1>1. \A p : p # s => OpenCases(p)' \subseteq OpenCases(p)
  BY DEF OpenCases, Opened
<1>2. OpenCases(s)' \subseteq OpenCases(s) \cup {v}
  BY DEF OpenCases, Opened
<1>3. \A w \in Visits : Opened(w) => visits'[w].status = visits[w].status
  OBVIOUS
<1>4. ASSUME NEW p \in Servants, Case(p) \notin raced', p \notin beside'
      PROVE  \A w, x \in OpenCases(p)' : w = x
  <2>1. CASE p = s
    BY <1>2, <1>4, <2>1
  <2>2. CASE p # s
    BY <1>1, <1>4, <2>2 DEF CareInv
  <2> QED
    BY <2>1, <2>2
<1> QED
  BY <1>1, <1>3, <1>4 DEF CasesMove

LEMMA RewrittenCases ==
  ASSUME TypesInv, CareInv, NEW r, raced \subseteq raced', NEW v \in Visits, Opened(v), NEW status,
         Rewritten(v, status), Touched(r, Case(visits[v].servant))
  PROVE  CasesMove(r)
<1>1. PICK s : s = visits[v].servant
  OBVIOUS
<1>2. /\ visits'[v].servant = s /\ visits'[v].status = status
      /\ \A w \in Visits \ {v} : visits'[w] = visits[w]
      /\ beside \subseteq beside'
      /\ visits[v].status = "RESOLVIDA" /\ status # "RESOLVIDA" => s \in beside'
  BY <1>1 DEF Rewritten
<1>3. \A p : p # s => OpenCases(p)' \subseteq OpenCases(p)
  BY <1>1, <1>2 DEF OpenCases, Opened
<1>4. s \notin beside' => OpenCases(s)' \subseteq OpenCases(s)
  <2> SUFFICES ASSUME s \notin beside', NEW w \in OpenCases(s)'
               PROVE  w \in OpenCases(s)
    OBVIOUS
  <2>1. w \in Visits /\ Opened(w)' /\ visits'[w].servant = s /\ visits'[w].status \in OpenStatuses
    BY DEF OpenCases
  <2>2. CASE w = v
    <3>0. visits[v].status \in CaseStatuses
      BY VisitTyped DEF TypesInv
    <3>1. visits[v].status \in OpenStatuses
      BY <1>2, <2>1, <2>2, <3>0 DEF OpenStatuses, CaseStatuses
    <3> QED
      BY <1>1, <2>2, <3>1 DEF OpenCases
  <2>3. CASE w # v
    BY <1>2, <2>1, <2>3 DEF OpenCases, Opened
  <2> QED
    BY <2>2, <2>3
<1>5. ASSUME NEW p \in Servants, Case(p) \notin raced', p \notin beside'
      PROVE  \A w, x \in OpenCases(p)' : w = x
  BY <1>2, <1>3, <1>4, <1>5 DEF CareInv
<1>6. \A w \in Visits : Opened(w) =>
         Touched(r, Case(visits[w].servant)) \/ visits'[w].status = visits[w].status
  BY <1>2
<1>7. \A p \in Servants : Touched(r, Case(p)) \/ OpenCases(p)' \subseteq OpenCases(p)
  BY <1>1, <1>3
<1> QED
  BY <1>2, <1>5, <1>6, <1>7 DEF CasesMove

-----------------------------------------------------------------------------
(* What was to be resolved when a case is closed.                          *)

\* An alert that is resolved stays so, and the request that is to resolve the
\* others goes on to, unless it is the one that moves.
LEMMA SettledKept ==
  ASSUME TypesInv, NEW r \in Requests \cup {0}, Advances(r), NEW a \in Alerts,
         Settled(a), alerts'[a].servant = alerts[a].servant,
         alerts[a].status = "RESOLVED" => alerts'[a].status = "RESOLVED",
         \/ alerts'[a].status = "RESOLVED"
         \/ r \in Requests =>
               ~ (req[r].stage = "clearing" /\ visits[req[r].visit].servant = alerts[a].servant)
  PROVE  Settled(a)'
<1>1. CASE Case(alerts[a].servant) \in raced \/ alerts[a].status = "RESOLVED"
  <2>1. raced \subseteq raced'
    BY DEF Advances, Moved
  <2> QED
    BY <1>1, <2>1 DEF Settled
<1>2. CASE alerts'[a].status = "RESOLVED"
  BY <1>2 DEF Settled
<1>3. CASE /\ ~ (Case(alerts[a].servant) \in raced \/ alerts[a].status = "RESOLVED")
           /\ alerts'[a].status # "RESOLVED"
  <2>1. PICK q \in Requests :
           req[q].stage = "clearing" /\ visits[req[q].visit].servant = alerts[a].servant
    BY <1>3 DEF Settled
  <2>2. q # r
    BY <1>3, <2>1
  <2>3. PICK l, v : l = req[q] /\ l = req'[q] /\ v = l.visit
    BY <2>2 DEF Advances, Moved
  <2>4. CareCarries(q)
    BY DEF TypesInv, Carries
  <2>5. v \in Visits /\ Opened(v)
    BY <2>1, <2>3, <2>4 DEF CareCarries
  <2>6. visits'[v].servant = visits[v].servant
    BY <2>5 DEF Advances, CareKept, CareGrows
  <2>7. req'[q].stage = "clearing" /\ visits'[req'[q].visit].servant = alerts'[a].servant
    BY <2>1, <2>3, <2>6
  <2> QED
    BY <2>7 DEF Settled
<1> QED
  BY <1>1, <1>2, <1>3

LEMMA CoverSame ==
  ASSUME TypesInv, CareInv, NEW r \in Requests \cup {0}, Advances(r), covered' \subseteq covered,
         \A a \in Alerts : Raised(a) =>
            /\ alerts'[a].servant = alerts[a].servant
            /\ alerts[a].status = "RESOLVED" => alerts'[a].status = "RESOLVED",
         r \in Requests => req[r].stage # "clearing"
  PROVE  CoverMove
<1> SUFFICES ASSUME failures' = 0, NEW a \in covered
             PROVE  Settled(a)'
  BY DEF CoverMove
<1>1. a \in Alerts /\ Raised(a)
  BY DEF TypesInv, CareTyped, CareTypeOK
<1>2. failures = 0
  BY DEF Advances
<1>3. Settled(a)
  BY <1>2 DEF CareInv
<1> QED
  BY <1>1, <1>3, SettledKept

LEMMA CareUnmoved ==
  ASSUME TypesInv, CareInv, NEW r \in Requests \cup {0}, Advances(r), UNCHANGED careVars,
         r \in Requests => req[r].stage # "clearing"
  PROVE  CareMove(r)
<1>1. /\ alerts' = alerts /\ visits' = visits /\ beside' = beside /\ covered' = covered
      /\ raced \subseteq raced'
  BY DEF careVars, careTables, careHistory, Advances, Moved
<1>2. AlertsMove(r)
  BY <1>1, AlertsSame
<1>3. CasesMove(r)
  BY <1>1, CasesSame DEF Opened
<1>4. CoverMove
  BY <1>1, CoverSame
<1> QED
  BY <1>2, <1>3, <1>4 DEF CareMove

\* A follow-up is due, or done.
LEMMA DueCares ==
  ASSUME TypesInv, CareInv, NEW r \in Requests \cup {0}, Advances(r),
         alerts' = alerts, beside' = beside, covered' = covered,
         \A v \in Visits : Opened(v) => visits'[v].status = visits[v].status,
         \A v \in Visits : Opened(v)' => Opened(v),
         r \in Requests => req[r].stage # "clearing"
  PROVE  CareMove(r)
<1>1. raced \subseteq raced' /\ CareGrows
  BY DEF Advances, Moved, CareKept
<1>2. AlertsMove(r)
  BY <1>1, AlertsSame
<1>3. CasesMove(r)
  BY <1>1, CasesSame DEF CareGrows
<1>4. CoverMove
  BY CoverSame
<1> QED
  BY <1>2, <1>3, <1>4 DEF CareMove

-----------------------------------------------------------------------------
(* What requests do to alerts and cases.                                   *)

LEMMA RaiseCares ==
  ASSUME TypesInv, CareInv, NEW r \in Requests, Advances(r), Raise(r)
  PROVE  CareMove(r)
<1>1. /\ visits' = visits /\ beside' = beside /\ covered' = covered
      /\ raced \subseteq raced' /\ req[r].stage = "raising" /\ Moved(r)
  BY DEF Raise, careHistory, Advances, Moved
<1>2. AlertsMove(r)
  BY <1>1, RaiseAlerts
<1>3. CasesMove(r)
  BY <1>1, CasesSame DEF Opened
<1>4. PICK a \in Alerts : ~ Raised(a) /\ \A b \in Alerts \ {a} : alerts'[b] = alerts[b]
  BY RaiseProceeds
<1>5. CoverMove
  BY <1>1, <1>4, CoverSame
<1> QED
  BY <1>2, <1>3, <1>5 DEF CareMove

LEMMA CommitOpenCares ==
  ASSUME TypesInv, CareInv, NEW r \in Requests, Advances(r), CommitOpenFromAlert(r)
  PROVE  CareMove(r)
<1>1. PICK s : s = req[r].servant
  OBVIOUS
<1>2. /\ alerts' = alerts /\ beside' = beside /\ covered' = covered
      /\ raced \subseteq raced' /\ req[r].stage = "openingCase" /\ Moved(r)
  BY DEF CommitOpenFromAlert, careHistory, Advances, Moved
<1>3. CareCarries(r) /\ KnowsCare(r)
  BY DEF TypesInv, Carries, CareInv
<1>4. s \in Servants /\ Case(s) \in req[r].touches
  BY <1>1, <1>2, <1>3 DEF CareCarries
<1>5. Touched(r, Case(s))
  BY <1>2, <1>4, OwnTouched
<1>6. Case(s) \in raced' \/ s \in beside' \/ OpenCases(s) = {}
  BY <1>1, <1>2, <1>3 DEF KnowsCare
<1>7. PICK v \in Visits : /\ ~ Opened(v) /\ visits'[v].servant = s
                          /\ \A w \in Visits \ {v} : visits'[w] = visits[w]
  BY <1>1, CommitOpenProceeds
<1>8. CasesMove(r)
  BY <1>2, <1>4, <1>5, <1>6, <1>7, OpenedCases
<1>9. AlertsMove(r) /\ CoverMove
  BY <1>2, AlertsSame, CoverSame
<1> QED
  BY <1>8, <1>9 DEF CareMove

LEMMA CommitCaseCares ==
  ASSUME TypesInv, CareInv, NEW r \in Requests, Advances(r), CommitCase(r)
  PROVE  CareMove(r)
<1>1. PICK v, status, s : v = req[r].visit /\ status = req[r].status /\ s = visits[v].servant
  OBVIOUS
<1>2. /\ alerts' = alerts /\ raced \subseteq raced' /\ req[r].stage = "writingCase" /\ Moved(r)
      /\ covered' = IF visits[v].status # "RESOLVIDA" /\ status = "RESOLVIDA"
                    THEN covered \cup OpenAlerts(s) ELSE covered
  BY <1>1 DEF CommitCase, Advances, Moved
<1>3. CareCarries(r) /\ KnowsCare(r)
  BY DEF TypesInv, Carries, CareInv
<1>4. Case(s) \in req[r].touches
  BY <1>1, <1>2, <1>3 DEF CareCarries
<1>5. Touched(r, Case(s))
  BY <1>2, <1>4, OwnTouched
<1>6. /\ v \in Visits /\ Opened(v) /\ Rewritten(v, status)
      /\ req[r].resolving => req'[r].stage = "clearing" /\ req'[r].visit = v
  BY <1>1, CommitCaseProceeds
<1>7. CasesMove(r)
  BY <1>1, <1>2, <1>5, <1>6, RewrittenCases
<1>8. AlertsMove(r)
  BY <1>2, AlertsSame
<1>9. ASSUME failures' = 0, NEW a \in covered' PROVE Settled(a)'
  <2>1. CASE a \in covered
    <3>1. failures = 0 /\ a \in Alerts
      BY <1>9, <2>1 DEF Advances, TypesInv, CareTyped, CareTypeOK
    <3>2. Settled(a)
      BY <2>1, <3>1 DEF CareInv
    <3> QED
      BY <1>2, <3>1, <3>2, SettledKept
  <2>2. CASE a \notin covered
    <3>1. /\ visits[v].status # "RESOLVIDA" /\ status = "RESOLVIDA"
          /\ a \in Alerts /\ alerts[a].servant = s
      BY <1>2, <1>9, <2>2 DEF OpenAlerts
    <3>2. CASE Case(s) \in raced
      BY <1>2, <3>1, <3>2 DEF Settled
    <3>3. CASE Case(s) \notin raced
      <4>1. req[r].resolving <=> status = "RESOLVIDA" /\ visits[v].status # "RESOLVIDA"
        BY <1>1, <1>2, <1>3, <3>3 DEF KnowsCare
      <4>2. req'[r].stage = "clearing" /\ req'[r].visit = v
        BY <1>6, <3>1, <4>1
      <4>3. visits'[v].servant = s
        BY <1>1, <1>6 DEF Rewritten
      <4> QED
        BY <1>2, <3>1, <4>2, <4>3 DEF Settled
    <3> QED
      BY <3>2, <3>3
  <2> QED
    BY <2>1, <2>2
<1> QED
  BY <1>7, <1>8, <1>9 DEF CareMove, CoverMove

LEMMA ClearAlertsCares ==
  ASSUME TypesInv, CareInv, NEW r \in Requests, Advances(r), ClearAlerts(r)
  PROVE  CareMove(r)
<1>1. PICK s, ids : s = visits[req[r].visit].servant /\ ids = OpenAlerts(s)
  OBVIOUS
<1>2. Resolved(ids) /\ raced \subseteq raced'
  BY <1>1, ClearAlertsProceeds DEF Advances, Moved
<1>3. AlertsMove(r)
  BY <1>2, ResolvedAlerts
<1>4. CasesMove(r)
  BY <1>2, CasesSame DEF Resolved, Opened
<1>5. ASSUME failures' = 0, NEW a \in covered' PROVE Settled(a)'
  <2>1. failures = 0 /\ a \in covered /\ a \in Alerts /\ Raised(a)
    BY <1>2, <1>5 DEF Resolved, Advances, TypesInv, CareTyped, CareTypeOK
  <2>2. Settled(a)
    BY <2>1 DEF CareInv
  <2>3. /\ alerts'[a].servant = alerts[a].servant
        /\ alerts'[a].status = IF a \in ids THEN "RESOLVED" ELSE alerts[a].status
    BY <1>2, <2>1 DEF Resolved
  <2>4. alerts[a].servant = s => alerts'[a].status = "RESOLVED"
    <3>1. alerts[a] \in AlertRow
      BY <2>1 DEF TypesInv, CareTyped, CareTypeOK, Raised
    <3> QED
      BY <1>1, <2>1, <2>3, <3>1 DEF OpenAlerts, AlertRow
  <2> QED
    BY <1>1, <2>1, <2>2, <2>3, <2>4, SettledKept
<1> QED
  BY <1>3, <1>4, <1>5 DEF CareMove, CoverMove

LEMMA SettleCaseCares ==
  ASSUME TypesInv, CareInv, NEW r \in Requests, Advances(r), SettleCase(r)
  PROVE  CareMove(r)
<1>1. PICK v, status, s : v = req[r].visit /\ status = req[r].status /\ s = visits[v].servant
  OBVIOUS
<1>2. raced \subseteq raced' /\ req[r].stage = "settling" /\ Moved(r) /\ CareCarries(r)
  BY DEF SettleCase, Advances, Moved, TypesInv, Carries
<1>3. Case(s) \in req[r].touches
  BY <1>1, <1>2 DEF CareCarries
<1>4. Touched(r, Case(s))
  BY <1>2, <1>3, OwnTouched
<1>5. /\ alerts' = alerts /\ covered' = covered /\ v \in Visits /\ Opened(v)
      /\ Rewritten(v, status)
  BY <1>1, SettleCaseProceeds
<1>6. CasesMove(r)
  BY <1>1, <1>2, <1>4, <1>5, RewrittenCases
<1>7. AlertsMove(r) /\ CoverMove
  BY <1>2, <1>5, AlertsSame, CoverSame
<1> QED
  BY <1>6, <1>7 DEF CareMove

LEMMA CareStepCares ==
  ASSUME TypesInv, CareInv, NEW r \in Requests, Advances(r), CareStep(r)
  PROVE  CareMove(r)
<1>1. CASE SurveyNext(r) \/ SeekCase(r)
  <2>1. UNCHANGED careVars /\ req[r].stage # "clearing"
    BY <1>1 DEF SurveyNext, SeekCase
  <2> QED
    BY <2>1, CareUnmoved
<1>2. CASE Follow(r) \/ AddFollowUp(r)
  <2>1. req[r].stage # "clearing"
    BY <1>2 DEF Follow, AddFollowUp
  <2> QED
    BY <1>2, <2>1, FollowProceeds, AddFollowUpProceeds, DueCares
<1>3. CASE Raise(r) \/ CommitOpenFromAlert(r) \/ CommitCase(r) \/ ClearAlerts(r) \/ SettleCase(r)
  BY <1>3, RaiseCares, CommitOpenCares, CommitCaseCares, ClearAlertsCares, SettleCaseCares
<1> QED
  BY <1>1, <1>2, <1>3 DEF CareStep

LEMMA CareAtOnceCares ==
  ASSUME TypesInv, CareInv, Advances(0), CareAtOnce, 0 \notin Requests
  PROVE  CareMove(0)
<1>0. raced \subseteq raced'
  BY DEF Advances, Moved
<1>1. ASSUME NEW a \in Alerts, ResolveAlert(a) PROVE CareMove(0)
  <2>1. Resolved({a})
    BY <1>1, ResolveAlertKept
  <2>2. AlertsMove(0)
    BY <1>0, <2>1, ResolvedAlerts
  <2>3. CasesMove(0)
    BY <1>0, <2>1, CasesSame DEF Resolved, Opened
  <2>4. CoverMove
    BY <2>1, CoverSame DEF Resolved
  <2> QED
    BY <2>2, <2>3, <2>4 DEF CareMove
<1>2. ASSUME NEW s \in Servants, OpenCase(s) PROVE CareMove(0)
  <2>1. alerts' = alerts /\ beside' = beside \cup {s} /\ covered' = covered
    BY <1>2, OpenCaseKept
  <2>2. PICK v \in Visits : /\ ~ Opened(v) /\ visits'[v].servant = s
                            /\ \A w \in Visits \ {v} : visits'[w] = visits[w]
    BY <1>2, OpenCaseKept
  <2>3. Touched(0, Case(s))
    BY <1>2, AtOnceTouched DEF OpenCase
  <2>4. CasesMove(0)
    BY <1>0, <2>1, <2>2, <2>3, OpenedCases
  <2>5. AlertsMove(0) /\ CoverMove
    BY <1>0, <2>1, AlertsSame, CoverSame
  <2> QED
    BY <2>4, <2>5 DEF CareMove
<1>3. ASSUME NEW v \in Visits, CompleteFollowUp(v) PROVE CareMove(0)
  BY <1>3, CompleteFollowUpKept, DueCares
<1> QED
  BY <1>1, <1>2, <1>3 DEF CareAtOnce

\* Who breaks off leaves alerts and cases alone, and what was to be resolved is not
\* looked at any more.
LEMMA BreakCares ==
  ASSUME CareInv, NEW r \in Requests, Advances(r), UNCHANGED careVars, failures' # 0
  PROVE  CareMove(r)
<1>1. /\ alerts' = alerts /\ visits' = visits /\ beside' = beside /\ raced \subseteq raced'
  BY DEF careVars, careTables, careHistory, Advances, Moved
<1> QED
  BY <1>1, AlertsSame, CasesSame DEF CareMove, CoverMove, Opened

-----------------------------------------------------------------------------
(* What a step may do to the timeline.                                     *)

\* TimelineTells, of one key.
Tells(n) ==
    IF n[1] \notin Deduped THEN Cardinality(EntriesOf(n)) = told[n]
    ELSE IF n[1] \notin Aggregatable
    THEN Cardinality(EntriesOf(n)) = (IF told[n] = 0 THEN 0 ELSE 1)
    ELSE /\ \A e, f \in EntriesOf(n) :
               e # f /\ entries[f].at <= entries[e].at => ~ Recent(f, entries[e].at)
         /\ Cardinality(Additions(n)) = told[n]

LEMMA TellsEach == TimelineTells <=> \A n \in News \ raced : Tells(n)
  BY DEF TimelineTells, Tells

EntriesStay(n) ==
    EntriesOf(n)' = EntriesOf(n) /\ \A e \in EntriesOf(n) : entries'[e] = entries[e]

TimelineMove(r) ==
    /\ \A n \in News : Touched(r, n) \/ EntriesStay(n)
    /\ TimelineTells'

\* The latest entry happened when it did.
LEMMA LatestStays ==
  ASSUME TimelineTyped, NEW n, EntriesStay(n), EntriesOf(n) # {}
  PROVE  /\ Latest(n) \in EntriesOf(n) /\ Latest(n)' \in EntriesOf(n)
         /\ entries'[Latest(n)'].at = entries[Latest(n)].at
<1>1. PICK e : e = Latest(n)
  OBVIOUS
<1>2. e \in EntriesOf(n) /\ \A f \in EntriesOf(n) : entries[f].at <= entries[e].at
  BY <1>1, LatestEntry
<1>3. \E x \in EntriesOf(n)' : \A f \in EntriesOf(n)' : entries'[f].at <= entries'[x].at
  BY <1>2 DEF EntriesStay
<1>4. /\ Latest(n)' \in EntriesOf(n)'
      /\ \A f \in EntriesOf(n)' : entries'[f].at <= entries'[Latest(n)'].at
  BY <1>3 DEF Latest
<1>5. PICK d : d = Latest(n)'
  OBVIOUS
<1>6. d \in EntriesOf(n) /\ entries'[d] = entries[d] /\ entries'[e] = entries[e]
  BY <1>2, <1>4, <1>5 DEF EntriesStay
<1>7. entries[e].at <= entries[d].at /\ entries[d].at <= entries[e].at
  BY <1>2, <1>4, <1>5, <1>6 DEF EntriesStay
<1>8. entries[d].at \in Nat /\ entries[e].at \in Nat
  BY <1>2, <1>6, EntryTyped DEF EntriesOf
<1>9. entries'[d].at = entries[e].at
  BY <1>6, <1>7, <1>8
<1> QED
  BY <1>1, <1>2, <1>5, <1>6, <1>9

LEMMA KnownStays ==
  ASSUME TimelineTyped, NEW n, NEW at, EntriesStay(n), ~ Skips(n), ~ Adds(n, at)
  PROVE  (~ Skips(n) /\ ~ Adds(n, at))'
<1>1. EntriesOf(n)' = EntriesOf(n)
  BY DEF EntriesStay
<1>2. ~ Skips(n)'
  BY <1>1 DEF Skips, Repeats
<1>3. CASE EntriesOf(n) = {}
  BY <1>1, <1>2, <1>3 DEF Adds, Repeats
<1>4. CASE EntriesOf(n) # {}
  <2>1. PICK t : t = entries[Latest(n)].at /\ t = entries'[Latest(n)'].at
    BY <1>4, LatestStays
  <2>2. ~ (Repeats(n) /\ n[1] \in Aggregatable /\ (at - t <= Window \/ at < t))
    BY <2>1 DEF Adds, Recent
  <2>3. ~ Adds(n, at)'
    BY <1>1, <2>1, <2>2 DEF Adds, Recent, Repeats
  <2> QED
    BY <1>2, <2>3
<1> QED
  BY <1>3, <1>4

LEMMA TimelineInvStep ==
  ASSUME TypesInv, TimelineInv, NEW r \in Requests \cup {0}, Advances(r), TimelineMove(r)
  PROVE  TimelineInv'
<1>1. ASSUME NEW q \in Requests PROVE KnowsEntries(q)'
  <2>1. CASE q = r
    BY <2>1 DEF Advances, Knows
  <2>2. CASE q # r
    <3>1. PICK l : l = req[q] /\ l = req'[q]
      BY <2>2 DEF Advances, Moved
    <3>2. raced \subseteq raced' /\ KnowsEntries(q) /\ TimelineCarries(q) /\ TimelineTyped
      BY DEF Advances, Moved, TimelineInv, TypesInv, Carries
    <3>3. PICK n : n = l.key
      OBVIOUS
    <3>4. ASSUME l.stage \in {"writingEntry", "addingToEntry"}, n \notin raced'
          PROVE  n \notin raced /\ EntriesStay(n) /\ n \in News
      <4>1. n \in News /\ n \in l.touches
        BY <3>1, <3>2, <3>3, <3>4 DEF TimelineCarries
      <4>2. ~ Touched(r, n)
        BY <2>2, <3>1, <3>4, <4>1 DEF Touched
      <4> QED
        BY <3>2, <3>4, <4>1, <4>2 DEF TimelineMove
    <3>5. ASSUME l.stage = "writingEntry", n \notin raced'
          PROVE  /\ ~ Skips(n)' /\ ~ Adds(n, l.at)'
                 /\ \A e \in EntriesOf(n)' : entries'[e].at <= l.at
      <4>1. n \notin raced /\ EntriesStay(n)
        BY <3>4, <3>5
      <4>2. PICK at : at = l.at
        OBVIOUS
      <4>3. ~ Skips(n) /\ ~ Adds(n, at) /\ \A e \in EntriesOf(n) : entries[e].at <= at
        BY <3>1, <3>2, <3>3, <3>5, <4>1, <4>2 DEF KnowsEntries
      <4>4. (~ Skips(n) /\ ~ Adds(n, at))'
        BY <3>2, <4>1, <4>3, KnownStays
      <4>5. \A e \in EntriesOf(n)' : entries'[e].at <= at
        BY <4>1, <4>3 DEF EntriesStay
      <4> QED
        BY <4>2, <4>4, <4>5
    <3>6. ASSUME l.stage = "addingToEntry", n \notin raced'
          PROVE  /\ n[1] \in Deduped \cap Aggregatable
                 /\ l.count = entries'[l.entry].count + 1
                 /\ entries'[l.entry].at <= l.at
                 /\ \A e \in EntriesOf(n)' : entries'[e].at <= entries'[l.entry].at
      <4>1. n \notin raced /\ EntriesStay(n)
        BY <3>4, <3>6
      <4>2. PICK d : d = l.entry
        OBVIOUS
      <4>3. d \in EntriesOf(n)
        BY <3>1, <3>2, <3>3, <3>6, <4>2 DEF TimelineCarries
      <4>4. /\ n[1] \in Deduped \cap Aggregatable /\ l.count = entries[d].count + 1
            /\ entries[d].at <= l.at /\ \A e \in EntriesOf(n) : entries[e].at <= entries[d].at
        BY <3>1, <3>2, <3>3, <3>6, <4>1, <4>2 DEF KnowsEntries
      <4>5. entries'[d] = entries[d] /\ EntriesOf(n)' = EntriesOf(n)
        BY <4>1, <4>3 DEF EntriesStay
      <4> QED
        BY <4>1, <4>2, <4>4, <4>5 DEF EntriesStay
    <3> QED
      BY <3>1, <3>3, <3>5, <3>6 DEF KnowsEntries
  <2> QED
    BY <2>1, <2>2
<1> QED
  BY <1>1 DEF TimelineInv, TimelineMove

-----------------------------------------------------------------------------
(* What is not published stays as it was told.                             *)

LEMMA TellsStays ==
  ASSUME NEW n \in News, EntriesStay(n), told'[n] = told[n], Tells(n)
  PROVE  Tells(n)'
<1>1. EntriesOf(n)' = EntriesOf(n) /\ \A e \in EntriesOf(n) : entries'[e] = entries[e]
  BY DEF EntriesStay
<1>2. Additions(n)' = Additions(n)
  BY <1>1 DEF Additions
<1>3. CASE n[1] \notin Deduped \cap Aggregatable
  BY <1>1, <1>3 DEF Tells
<1>4. CASE n[1] \in Deduped \cap Aggregatable
  <2>1. ASSUME NEW e \in EntriesOf(n)', NEW f \in EntriesOf(n)', e # f,
               entries'[f].at <= entries'[e].at
        PROVE  ~ (entries'[e].at - entries'[f].at <= Window \/ entries'[e].at < entries'[f].at)
    <3>1. e \in EntriesOf(n) /\ f \in EntriesOf(n) /\ entries'[e] = entries[e] /\ entries'[f] = entries[f]
      BY <1>1, <2>1
    <3>2. ~ Recent(f, entries[e].at)
      BY <1>4, <2>1, <3>1 DEF Tells
    <3> QED
      BY <3>1, <3>2 DEF Recent
  <2>2. Cardinality(Additions(n)') = told'[n]
    BY <1>2, <1>4 DEF Tells
  <2> QED
    BY <1>4, <2>1, <2>2 DEF Tells, Recent
<1> QED
  BY <1>3, <1>4

LEMMA TimelineStays ==
  ASSUME TimelineInv, NEW r, raced \subseteq raced', entries' = entries, told' = told
  PROVE  TimelineMove(r)
<1>1. \A n : EntriesStay(n)
  BY DEF EntriesStay, EntriesOf, Written
<1>2. \A n \in News \ raced' : Tells(n)'
  BY <1>1, TellsStays, TellsEach DEF TimelineInv
<1>3. TimelineTells'
  BY <1>2 DEF TimelineTells, Tells
<1> QED
  BY <1>1, <1>3 DEF TimelineMove

-----------------------------------------------------------------------------
(* Entries, and what their counts add up to, are finitely many.            *)

LEMMA EntriesFinite ==
  ASSUME NEW n
  PROVE  IsFiniteSet(EntriesOf(n))
  BY FS_Subset, TimelineAssumption DEF EntriesOf

LEMMA AdditionsFinite ==
  ASSUME TimelineTyped, NEW n
  PROVE  IsFiniteSet(Additions(n))
<1>1. PICK S, T : /\ S = EntriesOf(n)
                  /\ T = {{e} \X (1..entries[e].count) : e \in EntriesOf(n)}
  OBVIOUS
<1>2. PICK F : F = [e \in S |-> {e} \X (1..entries[e].count)]
  OBVIOUS
<1>3. F \in [S -> T] /\ \A t \in T : \E e \in S : F[e] = t
  BY <1>1, <1>2
<1>4. F \in Surjection(S, T)
  BY <1>3 DEF Surjection
<1>5. IsFiniteSet(T)
  BY <1>1, <1>4, EntriesFinite, FS_Surjection
<1>6. ASSUME NEW t \in T PROVE IsFiniteSet(t)
  <2>1. PICK e \in EntriesOf(n) : t = {e} \X (1..entries[e].count)
    BY <1>1
  <2>2. PICK k \in Int : k = entries[e].count
    BY <2>1, EntryTyped DEF EntriesOf
  <2>3. IsFiniteSet({e})
    BY FS_Singleton
  <2>4. IsFiniteSet(1..k)
    BY <2>2, FS_Interval
  <2> QED
    BY <2>1, <2>2, <2>3, <2>4, FS_Product
<1>7. IsFiniteSet(UNION T)
  BY <1>5, <1>6, FS_UNION
<1> QED
  BY <1>1, <1>7 DEF Additions

LEMMA OneMore ==
  ASSUME NEW S, IsFiniteSet(S), NEW x, x \notin S
  PROVE  Cardinality(S \cup {x}) = Cardinality(S) + 1 /\ Cardinality(S) \in Nat
  BY FS_AddElement, FS_CardinalityType

-----------------------------------------------------------------------------
(* Publications that are written, added and skipped.                       *)

\* Writing one row leaves the entries of other keys alone.
LEMMA OthersStay ==
  ASSUME NEW e, NEW n, NEW row, EntryRowWritten(e, n, row), Written(e) => entries[e].key = n,
         told \in [News -> Nat], NEW m \in News, m # n
  PROVE  EntriesStay(m) /\ told'[m] = told[m]
<1>1. /\ e \in Entries /\ entries'[e].key = n
      /\ \A f \in Entries \ {e} : entries'[f] = entries[f] /\ (Written(f)' <=> Written(f))
      /\ told' = [told EXCEPT ![n] = @ + 1]
  BY DEF EntryRowWritten
<1>2. EntriesOf(m)' = EntriesOf(m)
  BY <1>1 DEF EntriesOf
<1>3. \A f \in EntriesOf(m) : entries'[f] = entries[f]
  BY <1>1 DEF EntriesOf
<1> QED
  BY <1>1, <1>2, <1>3 DEF EntriesStay

LEMMA EntryMoves ==
  ASSUME TypesInv, TimelineInv, NEW r, raced \subseteq raced', NEW e, NEW n, NEW row,
         EntryRowWritten(e, n, row), Written(e) => entries[e].key = n,
         Touched(r, n), n \notin raced' => Tells(n)'
  PROVE  TimelineMove(r)
<1>1. told \in [News -> Nat]
  BY DEF TypesInv, TimelineTyped, TimelineTypeOK
<1>2. \A m \in News : m # n => EntriesStay(m) /\ told'[m] = told[m]
  BY <1>1, OthersStay
<1>3. \A m \in News \ raced' : Tells(m)'
  BY <1>2, TellsStays, TellsEach DEF TimelineInv
<1>4. TimelineTells'
  BY <1>3 DEF TimelineTells, Tells
<1> QED
  BY <1>2, <1>4 DEF TimelineMove

\* A publication that is no repetition, or comes after the window.
LEMMA NewTells ==
  ASSUME TypesInv, NEW n \in News, Tells(n), NEW e, NEW row, ~ Written(e),
         row.count = 1, row.at \in Nat, EntryRowWritten(e, n, row),
         ~ Skips(n), ~ Adds(n, row.at), \A f \in EntriesOf(n) : entries[f].at <= row.at
  PROVE  Tells(n)'
<1>1. /\ e \in Entries /\ entries'[e] = row /\ row.key = n
      /\ \A f \in Entries \ {e} : entries'[f] = entries[f] /\ (Written(f)' <=> Written(f))
      /\ Written(e)' /\ TimelineTyped
  BY DEF EntryRowWritten, TypesInv
<1>2. told'[n] = told[n] + 1 /\ told[n] \in Nat
  BY <1>1 DEF EntryRowWritten, TimelineTyped, TimelineTypeOK
<1>3. /\ EntriesOf(n)' = EntriesOf(n) \cup {e} /\ e \notin EntriesOf(n)
      /\ \A f \in EntriesOf(n) : entries'[f] = entries[f] /\ f # e
  BY <1>1 DEF EntriesOf
<1>4. /\ Cardinality(EntriesOf(n)') = Cardinality(EntriesOf(n)) + 1
      /\ Cardinality(EntriesOf(n)) \in Nat
  BY <1>3, EntriesFinite, OneMore
<1>5. CASE n[1] \notin Deduped
  <2>1. Cardinality(EntriesOf(n)) = told[n]
    BY <1>5 DEF Tells
  <2>2. Cardinality(EntriesOf(n)') = told'[n]
    BY <1>2, <1>4, <2>1
  <2> QED
    BY <1>5, <2>2 DEF Tells
<1>6. CASE n[1] \in Deduped /\ n[1] \notin Aggregatable
  <2>1. EntriesOf(n) = {}
    BY <1>6 DEF Skips, Repeats
  <2>2. Cardinality(EntriesOf(n)) = 0
    BY <2>1, FS_EmptySet
  <2>3. Cardinality(EntriesOf(n)) = (IF told[n] = 0 THEN 0 ELSE 1)
    BY <1>6 DEF Tells
  <2>4. Cardinality(EntriesOf(n)') = 1 /\ told'[n] # 0
    BY <1>2, <1>4, <2>2, <2>3
  <2> QED
    BY <1>6, <2>4 DEF Tells
<1>7. CASE n[1] \in Deduped \cap Aggregatable
  <2>1. ASSUME NEW f \in EntriesOf(n)
        PROVE  entries[f].at \in Nat /\ row.at - entries[f].at > Window
    <3>1. PICK l : l = Latest(n)
      OBVIOUS
    <3>2. l \in EntriesOf(n) /\ entries[f].at <= entries[l].at
      BY <1>1, <3>1, LatestEntry
    <3>3. ~ (row.at - entries[l].at <= Window) /\ ~ (row.at < entries[l].at)
      BY <1>7, <2>1, <3>1 DEF Adds, Repeats, Recent
    <3>4. entries[f].at \in Nat /\ entries[l].at \in Nat
      BY <1>1, <3>2, EntryTyped DEF EntriesOf
    <3> QED
      BY <3>2, <3>3, <3>4, TimelineAssumption
  <2>2. ASSUME NEW d \in EntriesOf(n)', NEW f \in EntriesOf(n)', d # f,
               entries'[f].at <= entries'[d].at
        PROVE  ~ (entries'[d].at - entries'[f].at <= Window \/ entries'[d].at < entries'[f].at)
    <3>1. CASE d = e
      <4>1. f \in EntriesOf(n) /\ entries'[f] = entries[f] /\ entries'[d].at = row.at
        BY <1>1, <1>3, <2>2, <3>1
      <4>2. entries[f].at \in Nat /\ row.at - entries[f].at > Window
        BY <2>1, <4>1
      <4> QED
        BY <2>2, <4>1, <4>2, TimelineAssumption
    <3>2. CASE f = e
      <4>1. d \in EntriesOf(n) /\ entries'[d] = entries[d] /\ entries'[f].at = row.at
        BY <1>1, <1>3, <2>2, <3>2
      <4>2. entries[d].at \in Nat /\ row.at - entries[d].at > Window
        BY <2>1, <4>1
      <4> QED
        BY <2>2, <4>1, <4>2, TimelineAssumption
    <3>3. CASE d # e /\ f # e
      <4>1. d \in EntriesOf(n) /\ f \in EntriesOf(n) /\ entries'[d] = entries[d] /\ entries'[f] = entries[f]
        BY <1>3, <2>2, <3>3
      <4>2. ~ Recent(f, entries[d].at)
        BY <1>7, <2>2, <4>1 DEF Tells
      <4> QED
        BY <4>1, <4>2 DEF Recent
    <3> QED
      BY <3>1, <3>2, <3>3
  <2>3. Additions(n)' = Additions(n) \cup {<<e, 1>>} /\ <<e, 1>> \notin Additions(n)
    <3>1. Additions(n)' = UNION {{d} \X (1..entries'[d].count) : d \in EntriesOf(n) \cup {e}}
      BY <1>3 DEF Additions
    <3>2. 1..entries'[e].count = {1}
      BY <1>1
    <3>3. {e} \X (1..entries'[e].count) = {<<e, 1>>}
      BY <3>2
    <3>4. \A d \in EntriesOf(n) : entries'[d] = entries[d]
      BY <1>3
    <3> QED
      BY <1>3, <3>1, <3>3, <3>4 DEF Additions
  <2>4. /\ Cardinality(Additions(n)') = Cardinality(Additions(n)) + 1
    BY <1>1, <2>3, AdditionsFinite, OneMore
  <2>5. Cardinality(Additions(n)') = told'[n]
    BY <1>2, <1>7, <2>4 DEF Tells
  <2> QED
    BY <1>7, <2>2, <2>5 DEF Tells, Recent
<1> QED
  BY <1>5, <1>6, <1>7

\* A repetition within the window.
LEMMA AddedTells ==
  ASSUME TypesInv, NEW n \in News, n[1] \in Deduped \cap Aggregatable, Tells(n),
         NEW e \in EntriesOf(n), NEW row, EntryRowWritten(e, n, row),
         row.count = entries[e].count + 1, row.at \in Nat, entries[e].at <= row.at,
         \A f \in EntriesOf(n) : entries[f].at <= entries[e].at
  PROVE  Tells(n)'
<1>1. /\ e \in Entries /\ entries'[e] = row /\ row.key = n
      /\ \A f \in Entries \ {e} : entries'[f] = entries[f] /\ (Written(f)' <=> Written(f))
      /\ Written(e)' /\ Written(e) /\ entries[e].key = n /\ TimelineTyped
  BY DEF EntryRowWritten, TypesInv, EntriesOf
<1>2. told'[n] = told[n] + 1 /\ told[n] \in Nat
  BY <1>1 DEF EntryRowWritten, TimelineTyped, TimelineTypeOK
<1>3. /\ EntriesOf(n)' = EntriesOf(n)
      /\ \A f \in EntriesOf(n) : f # e => entries'[f] = entries[f]
  BY <1>1 DEF EntriesOf
<1>4. entries[e].at \in Nat /\ entries[e].count \in Nat \ {0}
  BY <1>1, EntryTyped
<1>5. ASSUME NEW f \in EntriesOf(n), f # e
      PROVE  entries[f].at \in Nat /\ row.at - entries[f].at > Window
  <2>1. ~ (entries[e].at - entries[f].at <= Window)
    BY <1>5 DEF Tells, Recent
  <2>2. entries[f].at \in Nat
    BY <1>1, <1>5, EntryTyped DEF EntriesOf
  <2> QED
    BY <1>4, <2>1, <2>2, TimelineAssumption
<1>6. ASSUME NEW d \in EntriesOf(n)', NEW f \in EntriesOf(n)', d # f,
             entries'[f].at <= entries'[d].at
      PROVE  ~ (entries'[d].at - entries'[f].at <= Window \/ entries'[d].at < entries'[f].at)
  <2>1. d \in EntriesOf(n) /\ f \in EntriesOf(n)
    BY <1>3, <1>6
  <2>2. CASE d = e
    <3>1. entries'[f] = entries[f] /\ entries'[d].at = row.at
      BY <1>1, <1>3, <1>6, <2>1, <2>2
    <3>2. entries[f].at \in Nat /\ row.at - entries[f].at > Window
      BY <1>5, <1>6, <2>1, <2>2
    <3> QED
      BY <1>6, <3>1, <3>2, TimelineAssumption
  <2>3. CASE f = e
    <3>1. entries'[d] = entries[d] /\ entries'[f].at = row.at
      BY <1>1, <1>3, <1>6, <2>1, <2>3
    <3>2. entries[d].at \in Nat /\ row.at - entries[d].at > Window
      BY <1>5, <1>6, <2>1, <2>3
    <3> QED
      BY <1>6, <3>1, <3>2, TimelineAssumption
  <2>4. CASE d # e /\ f # e
    <3>1. entries'[d] = entries[d] /\ entries'[f] = entries[f]
      BY <1>3, <2>1, <2>4
    <3>2. ~ Recent(f, entries[d].at)
      BY <1>6, <2>1, <3>1 DEF Tells
    <3> QED
      BY <3>1, <3>2 DEF Recent
  <2> QED
    BY <2>2, <2>3, <2>4
<1>7. PICK k : k = entries[e].count /\ row.count = k + 1
  OBVIOUS
<1>8. Additions(n)' = Additions(n) \cup {<<e, k + 1>>} /\ <<e, k + 1>> \notin Additions(n)
  <2>1. 1..(k + 1) = 1..k \cup {k + 1} /\ k + 1 \notin 1..k
    BY <1>4, <1>7
  <2>2. {e} \X (1..entries'[e].count) = ({e} \X (1..entries[e].count)) \cup {<<e, k + 1>>}
    BY <1>1, <1>7, <2>1
  <2>3. Additions(n)' = UNION {{d} \X (1..entries'[d].count) : d \in EntriesOf(n)}
    BY <1>3 DEF Additions
  <2>4. <<e, k + 1>> \notin Additions(n)
    BY <1>7, <2>1 DEF Additions
  <2> QED
    BY <1>3, <2>2, <2>3, <2>4 DEF Additions
<1>9. Cardinality(Additions(n)') = Cardinality(Additions(n)) + 1
  BY <1>1, <1>8, AdditionsFinite, OneMore
<1>10. Cardinality(Additions(n)') = told'[n]
  BY <1>2, <1>9 DEF Tells
<1> QED
  BY <1>6, <1>10 DEF Tells, Recent

LEMMA SkippedTells ==
  ASSUME TypesInv, NEW n \in News, Tells(n), Skips(n), entries' = entries,
         told' = [told EXCEPT ![n] = @ + 1]
  PROVE  Tells(n)'
<1>1. EntriesOf(n)' = EntriesOf(n) /\ EntriesOf(n) # {} /\ n[1] \in Deduped \ Aggregatable
  BY DEF EntriesOf, Written, Skips, Repeats
<1>2. told'[n] = told[n] + 1 /\ told[n] \in Nat
  BY DEF TypesInv, TimelineTyped, TimelineTypeOK
<1>3. Cardinality(EntriesOf(n)) = (IF told[n] = 0 THEN 0 ELSE 1)
  BY <1>1 DEF Tells
<1>4. Cardinality(EntriesOf(n)) # 0
  BY <1>1, EntriesFinite, FS_EmptySet
<1>5. Cardinality(EntriesOf(n)') = 1 /\ told'[n] # 0
  BY <1>1, <1>2, <1>3, <1>4
<1> QED
  BY <1>1, <1>5 DEF Tells

LEMMA WriteEntryTells ==
  ASSUME TypesInv, TimelineInv, NEW r \in Requests, Moved(r), WriteEntry(r)
  PROVE  TimelineMove(r)
<1>1. PICK n, at : n = req[r].key /\ at = req[r].at
  OBVIOUS
<1>2. /\ req[r].stage = "writingEntry" /\ raced \subseteq raced'
      /\ KnowsEntries(r) /\ TimelineCarries(r) /\ hour \in Nat
  BY TimelineAssumption
     DEF WriteEntry, Moved, TimelineInv, TypesInv, Carries, TimelineTyped, TimelineTypeOK
<1>3. n \in News /\ n \in req[r].touches /\ at \in Nat
  BY <1>1, <1>2 DEF TimelineCarries
<1>4. PICK e, row : /\ ~ Written(e) /\ row.at = at /\ row.count = 1
                    /\ EntryRowWritten(e, n, row)
  BY <1>1, WriteEntryProceeds
<1>5. n \notin raced => /\ ~ Skips(n) /\ ~ Adds(n, at)
                        /\ \A f \in EntriesOf(n) : entries[f].at <= at
  BY <1>1, <1>2 DEF KnowsEntries
<1>6. n \notin raced' => Tells(n)'
  BY <1>2, <1>3, <1>4, <1>5, NewTells, TellsEach DEF TimelineInv
<1>7. Touched(r, n)
  BY <1>3, OwnTouched
<1> QED
  BY <1>2, <1>4, <1>6, <1>7, EntryMoves

LEMMA AddToEntryTells ==
  ASSUME TypesInv, TimelineInv, NEW r \in Requests, Moved(r), AddToEntry(r)
  PROVE  TimelineMove(r)
<1>1. PICK n, at, e, count : n = req[r].key /\ at = req[r].at /\ e = req[r].entry /\ count = req[r].count
  OBVIOUS
<1>2. /\ req[r].stage = "addingToEntry" /\ raced \subseteq raced'
      /\ KnowsEntries(r) /\ TimelineCarries(r) /\ hour \in Nat
  BY TimelineAssumption
     DEF AddToEntry, Moved, TimelineInv, TypesInv, Carries, TimelineTyped, TimelineTypeOK
<1>3. n \in News /\ n \in req[r].touches /\ at \in Nat /\ e \in EntriesOf(n)
  BY <1>1, <1>2 DEF TimelineCarries
<1>4. PICK row : row.at = at /\ row.count = count /\ EntryRowWritten(e, n, row)
  BY <1>1, AddToEntryProceeds
<1>5. n \notin raced => /\ n[1] \in Deduped \cap Aggregatable
                        /\ count = entries[e].count + 1 /\ entries[e].at <= at
                        /\ \A f \in EntriesOf(n) : entries[f].at <= entries[e].at
  BY <1>1, <1>2 DEF KnowsEntries
<1>6. n \notin raced' => Tells(n)'
  BY <1>2, <1>3, <1>4, <1>5, AddedTells, TellsEach DEF TimelineInv
<1>7. Touched(r, n) /\ entries[e].key = n
  BY <1>3, OwnTouched DEF EntriesOf
<1> QED
  BY <1>2, <1>4, <1>6, <1>7, EntryMoves

LEMMA TimelineStepTells ==
  ASSUME TypesInv, TimelineInv, NEW r \in Requests, Moved(r), TimelineStep(r)
  PROVE  TimelineMove(r)
  BY WriteEntryTells, AddToEntryTells DEF TimelineStep

LEMMA TimelineCallTells ==
  ASSUME TypesInv, TimelineInv, NEW r, raced \subseteq raced', NEW q, TimelineCall(q)
  PROVE  TimelineMove(r)
<1>1. PICK n \in News, at \in 0..LastHour : CallPublish(q, n, at)
  BY DEF TimelineCall
<1>2. entries' = entries
  BY <1>1 DEF CallPublish
<1>3. CASE told' = told
  BY <1>2, <1>3, TimelineStays
<1>4. CASE Skips(n) /\ told' = [told EXCEPT ![n] = @ + 1]
  <2>1. \A m \in News : EntriesStay(m)
    BY <1>2 DEF EntriesStay, EntriesOf, Written
  <2>2. \A m \in News : m # n => told'[m] = told[m]
    BY <1>4 DEF TypesInv, TimelineTyped, TimelineTypeOK
  <2>3. \A m \in News \ raced' : Tells(m)'
    BY <1>2, <1>4, <2>1, <2>2, SkippedTells, TellsStays, TellsEach DEF TimelineInv
  <2>4. TimelineTells'
    BY <2>3 DEF TimelineTells, Tells
  <2> QED
    BY <2>1, <2>4 DEF TimelineMove
<1> QED
  BY <1>1, <1>3, <1>4 DEF CallPublish

-----------------------------------------------------------------------------
(* The invariant holds at first.                                           *)

LEMMA InitTells ==
  ASSUME NEW keys \in {{}} \cup {{n} : n \in News}, TimelineInit(keys)
  PROVE  TimelineTells
<1>1. ASSUME NEW n \in News, n \notin keys PROVE Tells(n)
  <2>1. EntriesOf(n) = {} /\ told[n] = 0
    BY <1>1, InitTimeline
  <2>2. Additions(n) = {}
    BY <2>1 DEF Additions
  <2>3. Cardinality(EntriesOf(n)) = 0 /\ Cardinality(Additions(n)) = 0
    BY <2>1, <2>2, FS_EmptySet
  <2> QED
    BY <2>1, <2>3 DEF Tells
<1>2. ASSUME NEW n \in keys PROVE Tells(n)
  <2>1. PICK e \in Entries : EntriesOf(n) = {e} /\ told[n] = 1 /\ entries[e].count = 1
    BY <1>2, InitTimeline
  <2>2. 1..entries[e].count = {1}
    BY <2>1
  <2>3. Additions(n) = {<<e, 1>>}
    BY <2>1, <2>2 DEF Additions
  <2>4. Cardinality(EntriesOf(n)) = 1 /\ Cardinality(Additions(n)) = 1
    BY <2>1, <2>3, FS_Singleton
  <2> QED
    BY <2>1, <2>4 DEF Tells
<1> QED
  BY <1>1, <1>2, TellsEach

LEMMA InitInv ==
  ASSUME Init
  PROVE  PeopleInv
<1>1. PICK others \in BOOLEAN, stray \in BOOLEAN, status \in FirstStatuses,
           alert \in BOOLEAN, case \in CaseStatuses \cup {"none"},
           keys \in {{}} \cup {{n} : n \in News}, rejected \in BOOLEAN :
         /\ AccountsInit(others, stray, status) /\ CareInit(alert, case)
         /\ FitnessInit(rejected) /\ TimelineInit(keys)
  BY DEF Init, FirstStatuses
<1>2. \A r \in Requests : Knows(r)
  BY InitHandlers, IdleNeedsNothing DEF Init
<1>3. LinksInv
  <2>1. unguarded = {u \in Users : Orphan(u)} /\ enforced = ~ stray
    BY <1>1 DEF AccountsInit
  <2>2. ~ stray => \A u \in Users : ~ Orphan(u)
    BY <1>1, InitUsers
  <2> QED
    BY <1>2, <2>1, <2>2 DEF LinksInv, Knows
<1>4. SessionsInv
  <2>1. \A t \in Tokens : Live(t) => /\ t = 1 /\ tokens[t].user = FirstServo
                                     /\ tokens[t].password = 0 /\ tokens[t].period = 0
    BY <1>1, InitAccounts
  <2>2. users[FirstServo].password = 0 /\ users[FirstServo].period = 0
    BY <1>1, InitUsers, AccountsAssumption
  <2> QED
    BY <1>2, <2>1, <2>2 DEF SessionsInv, SessionsEnd, Knows
<1>5. TeamsInv /\ TrainingInv /\ DecisionsInv
  <2>1. \A s \in Servants : Present(s) =>
           /\ servants[s].main \in Serving(s)
           /\ servants[s].team \in Teams => MinistryOf[servants[s].team] = servants[s].main
    BY <1>1, InitServants
  <2>2. \A t \in Teams : teams[t].leader \in Users => t = FirstTeam
    BY <1>1, InitAccounts
  <2>3. TeamsInv
    BY <1>2, <2>1, <2>2 DEF TeamsInv, Open, Knows
  <2> QED
    BY <1>2, <2>1, <2>3 DEF TrainingInv, DecisionsInv, Knows
<1>6. CareInv
  <2>1. /\ covered = {} /\ \A a \in Alerts : Raised(a) => a = First(Alerts)
        /\ \A v \in Visits : Opened(v) => v = First(Visits)
    BY <1>1, InitCare
  <2> QED
    BY <1>2, <2>1 DEF CareInv, OpenDuplicates, OpenAlerts, OpenCases, Knows
<1>7. TimelineInv
  BY <1>1, <1>2, InitTells DEF TimelineInv, Knows
<1> QED
  BY <1>3, <1>4, <1>5, <1>6, <1>7, InitTypes DEF PeopleInv

-----------------------------------------------------------------------------
(* Every step keeps the invariant.                                         *)

PeopleMove(r) ==
    /\ Advances(r) /\ LinksMove(r) /\ SessionsMove(r) /\ ServantsMove(r) /\ ReviewMove(r)
    /\ CareMove(r) /\ TimelineMove(r)

LEMMA PeopleStep ==
  ASSUME PeopleInv, NEW r \in Requests \cup {0}, PeopleMove(r)
  PROVE  PeopleInv'
<1>1. TypesInv' /\ LinksInv' /\ SessionsInv'
  BY TypesStep, LinksStep, SessionsStep DEF PeopleInv, PeopleMove
<1>2. TeamsInv' /\ TrainingInv' /\ DecisionsInv'
  BY TeamsStep, TrainingStep, DecisionsStep DEF PeopleInv, PeopleMove, ServantsMove
<1>3. CareInv' /\ TimelineInv'
  BY CareInvStep, TimelineInvStep DEF PeopleInv, PeopleMove
<1> QED
  BY <1>1, <1>2, <1>3 DEF PeopleInv

\* The accounts, servants and teams are left alone.
LEMMA AccountsStand ==
  ASSUME PeopleInv, NEW r, Moved(r), UNCHANGED accountVars
  PROVE  LinksMove(r) /\ SessionsMove(r) /\ ServantsMove(r)
<1>1. /\ users' = users /\ tokens' = tokens /\ enforced' = enforced /\ unguarded' = unguarded
      /\ servants' = servants /\ teams' = teams /\ raced \subseteq raced'
      /\ TypesInv /\ LinksInv /\ SessionsInv
  BY DEF accountVars, accountTables, Moved, PeopleInv
<1>2. LinksMove(r) /\ SessionsMove(r)
  BY <1>1, SignInSame
<1>3. ServantsMove(r)
  BY <1>1, PostsSame DEF PeopleInv, ServantsInv
<1> QED
  BY <1>2, <1>3

LEMMA TimelineStands ==
  ASSUME PeopleInv, NEW r, Moved(r), UNCHANGED timelineVars
  PROVE  TimelineMove(r)
<1>1. entries' = entries /\ told' = told /\ raced \subseteq raced'
  BY DEF timelineVars, Moved
<1> QED
  BY <1>1, TimelineStays DEF PeopleInv

LEMMA ReviewsStand ==
  ASSUME NEW r, UNCHANGED fitnessVars
  PROVE  ReviewMove(r)
  BY ReviewsSame DEF fitnessVars

LEMMA CallMovesPeople ==
  ASSUME PeopleInv, NEW r \in Requests,
         \/ AccountCall(r) /\ AccountsMove
         \/ CareCall(r) /\ CareMoves
         \/ FitnessCall(r) /\ FitnessMoves
  PROVE  PeopleMove(r)
<1>0. /\ TypesInv /\ LinksInv /\ SessionsInv /\ CareInv /\ ServantsInv
  BY DEF PeopleInv, ServantsInv
<1>1. Advances(r) /\ req[r] = Idle
  BY <1>0, AccountCallAdvances, CareCallAdvances, FitnessCallAdvances
<1>2. Moved(r) /\ req[r].stage # "clearing"
  BY <1>1, IdleFacts DEF Advances
<1>3. UNCHANGED <<accountVars, careVars, timelineVars>>
  <2>1. CASE AccountCall(r) /\ AccountsMove
    BY <1>0, <2>1, AccountCallEnters DEF AccountsMove, Enters
  <2>2. CASE CareCall(r) /\ CareMoves
    BY <1>0, <2>2, CareCallProceeds DEF CareMoves
  <2>3. CASE FitnessCall(r) /\ FitnessMoves
    BY <2>3 DEF FitnessMoves, FitnessCall, CallApproveTalent, CallReviewRejection
  <2> QED
    BY <2>1, <2>2, <2>3
<1>4. ReviewMove(r)
  BY <1>0, <1>2, FitnessCallReviews, ReviewsStand DEF AccountsMove, CareMoves
<1>5. CareMove(r)
  BY <1>0, <1>1, <1>2, <1>3, CareUnmoved
<1> QED
  BY <1>1, <1>2, <1>3, <1>4, <1>5, AccountsStand, TimelineStands DEF PeopleMove

LEMMA PublishMovesPeople ==
  ASSUME PeopleInv, NEW r \in Requests, TimelineCall(r), TimelineMoves
  PROVE  PeopleMove(r) \/ PeopleMove(0)
<1>0. TypesInv /\ CareInv /\ TimelineInv /\ 0 \notin Requests
  BY HandlersAssumption DEF PeopleInv
<1>1. \/ Advances(r) /\ req[r] = Idle
      \/ Advances(0)
  BY <1>0, TimelineCallAdvances
<1>2. ASSUME NEW q \in Requests \cup {0}, Advances(q), q \in Requests => req[q] = Idle
      PROVE  PeopleMove(q)
  <2>1. Moved(q) /\ raced \subseteq raced' /\ (q \in Requests => req[q].stage # "clearing")
    BY <1>2, IdleFacts DEF Advances, Moved
  <2>2. UNCHANGED accountVars /\ UNCHANGED careVars /\ UNCHANGED fitnessVars
    BY DEF TimelineMoves
  <2>3. LinksMove(q) /\ SessionsMove(q) /\ ServantsMove(q) /\ ReviewMove(q)
    BY <2>1, <2>2, AccountsStand, ReviewsStand
  <2>4. CareMove(q)
    BY <1>0, <1>2, <2>1, <2>2, CareUnmoved
  <2>5. TimelineMove(q)
    BY <1>0, <2>1, TimelineCallTells
  <2> QED
    BY <1>2, <2>3, <2>4, <2>5 DEF PeopleMove
<1> QED
  BY <1>0, <1>1, <1>2

LEMMA AccountStepMovesPeople ==
  ASSUME PeopleInv, NEW r \in Requests, AccountStep(r), AccountsMove
  PROVE  PeopleMove(r)
<1>0. TypesInv /\ LinksInv /\ SessionsInv /\ CareInv /\ ServantsInv
  BY DEF PeopleInv, ServantsInv
<1>1. Advances(r) /\ Moved(r)
  BY <1>0, AccountStepAdvances DEF Advances
<1>2. LinksMove(r) /\ SessionsMove(r) /\ ServantsMove(r)
  BY <1>0, <1>1, AccountStepSignIn, AccountStepPosts
<1>3. ReviewMove(r) /\ TimelineMove(r)
  BY <1>1, ReviewsStand, TimelineStands DEF AccountsMove
<1>4. req[r].stage # "clearing"
  BY ZenonT(30) DEF AccountStep, CommitCreateUser, CommitLink, CommitRole, Rotate, OpenSession,
         CommitPassword, CommitStatus, CommitRemove, RepairLink, RepairProvision, CommitApproval,
         CommitServant, CommitProfile, CommitTraining, CommitMember, CommitLeader
<1>5. CareMove(r)
  BY <1>0, <1>1, <1>4, CareUnmoved DEF AccountsMove
<1> QED
  BY <1>1, <1>2, <1>3, <1>5 DEF PeopleMove

LEMMA CareStepMovesPeople ==
  ASSUME PeopleInv, NEW r \in Requests, CareStep(r), CareMoves
  PROVE  PeopleMove(r)
<1>0. TypesInv /\ CareInv
  BY DEF PeopleInv
<1>1. Advances(r) /\ Moved(r)
  BY <1>0, CareStepAdvances DEF Advances
<1>2. CareMove(r)
  BY <1>0, <1>1, CareStepCares
<1>3. UNCHANGED accountVars /\ UNCHANGED fitnessVars /\ UNCHANGED timelineVars
  BY DEF CareMoves
<1> QED
  BY <1>1, <1>2, <1>3, AccountsStand, ReviewsStand, TimelineStands DEF PeopleMove

LEMMA FitnessStepMovesPeople ==
  ASSUME PeopleInv, NEW r \in Requests, FitnessStep(r), FitnessMoves
  PROVE  PeopleMove(r)
<1>0. TypesInv /\ LinksInv /\ SessionsInv /\ CareInv /\ ServantsInv
  BY DEF PeopleInv, ServantsInv
<1>1. Advances(r) /\ Moved(r)
  BY <1>0, FitnessStepAdvances DEF Advances
<1>2. LinksMove(r) /\ SessionsMove(r) /\ ServantsMove(r)
  <2>1. CASE CommitActive(r)
    <3>1. UNCHANGED <<users, tokens, enforced>> /\ unguarded \subseteq unguarded'
      BY <2>1 DEF CommitActive
    <3> QED
      BY <1>0, <1>1, <2>1, <3>1, SignInSame, CommitActivePosts
  <2>2. CASE CommitReview(r)
    <3>1. UNCHANGED accountVars
      BY <2>2 DEF CommitReview
    <3> QED
      BY <1>1, <3>1, AccountsStand
  <2> QED
    BY <2>1, <2>2 DEF FitnessStep
<1>3. ReviewMove(r) /\ TimelineMove(r)
  BY <1>0, <1>1, FitnessStepReviews, TimelineStands DEF FitnessMoves
<1>4. req[r].stage # "clearing"
  BY DEF FitnessStep, CommitActive, CommitReview
<1>5. CareMove(r)
  BY <1>0, <1>1, <1>4, CareUnmoved DEF FitnessMoves
<1> QED
  BY <1>1, <1>2, <1>3, <1>5 DEF PeopleMove

LEMMA TimelineStepMovesPeople ==
  ASSUME PeopleInv, NEW r \in Requests, TimelineStep(r), TimelineMoves
  PROVE  PeopleMove(r)
<1>0. TypesInv /\ CareInv /\ TimelineInv
  BY DEF PeopleInv
<1>1. Advances(r) /\ Moved(r)
  BY <1>0, TimelineStepAdvances DEF Advances
<1>2. UNCHANGED accountVars /\ UNCHANGED careVars /\ UNCHANGED fitnessVars
  BY DEF TimelineMoves
<1>3. LinksMove(r) /\ SessionsMove(r) /\ ServantsMove(r) /\ ReviewMove(r)
  BY <1>1, <1>2, AccountsStand, ReviewsStand
<1>4. req[r].stage # "clearing"
  BY DEF TimelineStep, WriteEntry, AddToEntry
<1>5. CareMove(r) /\ TimelineMove(r)
  BY <1>0, <1>1, <1>2, <1>4, CareUnmoved, TimelineStepTells
<1> QED
  BY <1>1, <1>3, <1>5 DEF PeopleMove

LEMMA BreakMovesPeople ==
  ASSUME PeopleInv, NEW r \in Requests, Break(r, HalfDone),
         UNCHANGED <<accountVars, careVars, fitnessVars, timelineVars>>
  PROVE  PeopleMove(r)
<1>0. TypesInv /\ CareInv
  BY DEF PeopleInv
<1>1. Advances(r) /\ Moved(r) /\ failures' # 0
  BY <1>0, BreakAdvances DEF Advances
<1>2. /\ UNCHANGED accountVars /\ UNCHANGED careVars
      /\ UNCHANGED fitnessVars /\ UNCHANGED timelineVars
  OBVIOUS
<1>3. LinksMove(r) /\ SessionsMove(r) /\ ServantsMove(r) /\ ReviewMove(r) /\ TimelineMove(r)
  BY <1>1, <1>2, AccountsStand, ReviewsStand, TimelineStands
<1>4. CareMove(r)
  BY <1>0, <1>1, <1>2, BreakCares
<1> QED
  BY <1>1, <1>3, <1>4 DEF PeopleMove

LEMMA AccountAtOnceMovesPeople ==
  ASSUME PeopleInv, AccountAtOnce \/ ApplyMigration, AccountsMove
  PROVE  PeopleMove(0)
<1>0. /\ TypesInv /\ LinksInv /\ SessionsInv /\ CareInv /\ ServantsInv /\ 0 \notin Requests
      /\ UNCHANGED careVars /\ UNCHANGED fitnessVars /\ UNCHANGED timelineVars
  BY HandlersAssumption DEF PeopleInv, ServantsInv, AccountsMove
<1>1. Advances(0) /\ Moved(0)
  BY <1>0, AccountAtOnceAdvances, MigrationAdvances DEF Advances
<1>2. LinksMove(0) /\ SessionsMove(0) /\ ServantsMove(0)
  <2>1. CASE AccountAtOnce
    BY <1>0, <1>1, <2>1, AccountAtOnceSignIn, AccountAtOncePosts
  <2>2. CASE ApplyMigration
    <3>1. UNCHANGED <<servants, teams, unguarded>> /\ raced \subseteq raced'
      BY <1>1, <2>2 DEF ApplyMigration, Moved
    <3> QED
      BY <1>0, <1>1, <2>2, <3>1, ApplyMigrationMoves, PostsSame
  <2> QED
    BY <2>1, <2>2
<1>3. ReviewMove(0) /\ TimelineMove(0)
  BY <1>0, <1>1, ReviewsStand, TimelineStands
<1>4. CareMove(0)
  BY <1>0, <1>1, CareUnmoved
<1> QED
  BY <1>1, <1>2, <1>3, <1>4 DEF PeopleMove

LEMMA CareAtOnceMovesPeople ==
  ASSUME PeopleInv, CareAtOnce, CareMoves
  PROVE  PeopleMove(0)
<1>0. /\ TypesInv /\ CareInv /\ 0 \notin Requests
      /\ UNCHANGED accountVars /\ UNCHANGED fitnessVars /\ UNCHANGED timelineVars
  BY HandlersAssumption DEF PeopleInv, CareMoves
<1>1. Advances(0) /\ Moved(0)
  BY <1>0, CareAtOnceAdvances DEF Advances
<1>2. CareMove(0)
  BY <1>0, <1>1, CareAtOnceCares
<1> QED
  BY <1>0, <1>1, <1>2, AccountsStand, ReviewsStand, TimelineStands DEF PeopleMove

LEMMA FitnessAtOnceMovesPeople ==
  ASSUME PeopleInv, FitnessAtOnce, FitnessMoves
  PROVE  PeopleMove(0)
<1>0. /\ TypesInv /\ CareInv /\ ServantsInv /\ 0 \notin Requests
      /\ UNCHANGED careVars /\ UNCHANGED timelineVars
  BY HandlersAssumption DEF PeopleInv, ServantsInv, FitnessMoves
<1>1. Advances(0) /\ Moved(0)
  BY <1>0, FitnessAtOnceAdvances DEF Advances
<1>2. UNCHANGED accountVars
  BY DEF FitnessAtOnce, CreateTalent, MoveStage, RejectTalent, PutAvailability
<1>3. ReviewMove(0) /\ CareMove(0)
  BY <1>0, <1>1, FitnessAtOnceReviews, CareUnmoved
<1> QED
  BY <1>0, <1>1, <1>2, <1>3, AccountsStand, TimelineStands DEF PeopleMove

LEMMA StutterMovesPeople ==
  ASSUME PeopleInv, UNCHANGED vars
  PROVE  PeopleMove(0)
<1>0. /\ TypesInv /\ CareInv
      /\ UNCHANGED accountVars /\ UNCHANGED careVars
      /\ UNCHANGED fitnessVars /\ UNCHANGED timelineVars
  BY DEF PeopleInv, vars
<1>1. Advances(0) /\ Moved(0) /\ 0 \notin Requests
  BY <1>0, StutterAdvances DEF Advances
<1>2. CareMove(0)
  BY <1>0, <1>1, CareUnmoved
<1> QED
  BY <1>0, <1>1, <1>2, AccountsStand, ReviewsStand, TimelineStands DEF PeopleMove

LEMMA NextMovesPeople ==
  ASSUME PeopleInv, [Next]_vars
  PROVE  \E r \in Requests \cup {0} : PeopleMove(r)
<1>1. ASSUME NEW r \in Requests,
             \/ AccountCall(r) /\ AccountsMove
             \/ CareCall(r) /\ CareMoves
             \/ FitnessCall(r) /\ FitnessMoves
             \/ TimelineCall(r) /\ TimelineMoves
      PROVE  \E q \in Requests \cup {0} : PeopleMove(q)
  BY <1>1, CallMovesPeople, PublishMovesPeople
<1>2. ASSUME NEW r \in Requests,
             \/ AccountStep(r) /\ AccountsMove
             \/ CareStep(r) /\ CareMoves
             \/ FitnessStep(r) /\ FitnessMoves
             \/ TimelineStep(r) /\ TimelineMoves
             \/ Break(r, HalfDone) /\ UNCHANGED <<accountVars, careVars, fitnessVars, timelineVars>>
      PROVE  \E q \in Requests \cup {0} : PeopleMove(q)
  BY <1>2, AccountStepMovesPeople, CareStepMovesPeople, FitnessStepMovesPeople,
     TimelineStepMovesPeople, BreakMovesPeople
<1>3. CASE \/ (AccountAtOnce \/ ApplyMigration) /\ AccountsMove
           \/ CareAtOnce /\ CareMoves
           \/ FitnessAtOnce /\ FitnessMoves
  BY <1>3, AccountAtOnceMovesPeople, CareAtOnceMovesPeople, FitnessAtOnceMovesPeople
<1>4. CASE UNCHANGED vars
  BY <1>4, StutterMovesPeople
<1> QED
  BY <1>1, <1>2, <1>3, <1>4 DEF Next

-----------------------------------------------------------------------------
(* What the invariant says of a state, and what a step may not do.         *)

LEMMA AccountsShown ==
  ASSUME PeopleInv
  PROVE  AccountsHold
<1>1. ASSUME NEW u \in Users, Exists(u)
      PROVE  Orphan(u) => ~ enforced /\ u \in raced \cup unguarded
  BY DEF PeopleInv, LinksInv
<1>2. ASSUME NEW u \in Users, users[u].role = "SERVO", NEW v \in Users, SeesUser(u, v)
      PROVE  v = u
  <2>1. ScopeOf(u) = "SELF"
    BY <1>2 DEF ScopeOf
  <2> QED
    BY <1>2, <2>1 DEF SeesUser
<1> QED
  BY <1>1, <1>2 DEF AccountsHold

LEMMA SessionsShown ==
  ASSUME PeopleInv
  PROVE  SessionsEnd
  BY DEF PeopleInv, SessionsInv

\* Who sees the ministry of a servant's team, or his row in it, sees the servant.
LEMMA SeenInMinistry ==
  ASSUME NEW u \in Users, NEW s \in Servants, NEW m, Among(s, {m}),
         users[u].role = "ADMIN" \/ m \in RoleMinistries(u)
  PROVE  /\ RoleSeesServant(u, s)
         /\ m \in ScopeMinistries(u) => Among(s, ScopeMinistries(u))
<1>1. \A ms : m \in ms => Among(s, ms)
  BY DEF Among
<1>2. m \in RoleMinistries(u) => users[u].role = "COORDENADOR"
  BY DEF RoleMinistries
<1> QED
  BY <1>1, <1>2 DEF RoleSeesServant

LEMMA TeamsShown ==
  ASSUME PeopleInv
  PROVE  TeamsHold
<1>1. ASSUME NEW u \in Users, NEW s \in Servants, Present(s), NEW t \in Teams,
             s \notin raced, servants[s].team = t, SeesTeam(u, t)
      PROVE  MinistryOf[t] \in unguarded \/ SeesServant(u, s)
  <2>1. PICK m : m = MinistryOf[t]
    OBVIOUS
  <2>2. Open(s, m)
    BY <1>1, <2>1 DEF PeopleInv, TeamsInv
  <2>3. m \in unguarded \/ Among(s, {m})
    BY <2>2 DEF Open, Among
  <2>4. users[u].role = "ADMIN" \/ m \in RoleMinistries(u)
    BY <1>1, <2>1 DEF SeesTeam, RoleSeesMinistry
  <2>5. \/ ScopeOf(u) = "GLOBAL"
        \/ ScopeOf(u) = "MINISTRY" /\ m \in ScopeMinistries(u)
        \/ ScopeOf(u) = "EQUIPE" /\ t \in users[u].grant.teams
    BY <1>1, <2>1 DEF SeesTeam, ScopeSeesTeam
  <2>6. Among(s, {m}) => SeesServant(u, s)
    BY <1>1, <2>4, <2>5, SeenInMinistry DEF SeesServant, ScopeSeesServant
  <2> QED
    BY <2>1, <2>3, <2>6
<1>2. ASSUME NEW u \in Users, NEW s \in Servants, NEW m \in Serving(s), SeesRow(u, s, m)
      PROVE  SeesServant(u, s)
  <2>1. Among(s, {m})
    BY DEF Among
  <2>2. RoleSeesServant(u, s)
    <3>1. CASE users[u].role = "SERVO" /\ users[u].servant = s
      BY <3>1 DEF RoleSeesServant
    <3>2. CASE users[u].role = "ADMIN" \/ m \in RoleMinistries(u)
      BY <2>1, <3>2, SeenInMinistry
    <3> QED
      BY <1>2, <3>1, <3>2 DEF SeesRow, RoleSeesRow
  <2>3. ScopeSeesServant(u, s)
    <3>1. m \in ScopeMinistries(u) => Among(s, ScopeMinistries(u))
      BY DEF Among
    <3> QED
      BY <1>2, <3>1 DEF SeesRow, ScopeSeesRow, ScopeSeesServant
  <2> QED
    BY <2>2, <2>3 DEF SeesServant
<1>3. ASSUME NEW u \in Users \ (raced \cup unguarded)
      PROVE  Cardinality({t \in Teams : teams[t].status = "ACTIVE" /\ teams[t].leader = u}) <= 1
  <2>1. PICK S : S = {t \in Teams : teams[t].status = "ACTIVE" /\ teams[t].leader = u}
    OBVIOUS
  <2>2. \A t, v \in S : t = v
    BY <2>1, <1>3 DEF PeopleInv, TeamsInv
  <2> QED
    BY <2>1, <2>2, AtMostOne
<1> QED
  BY <1>1, <1>2, <1>3 DEF TeamsHold

LEMMA CareShown ==
  ASSUME PeopleInv
  PROVE  CareHolds
<1>1. ASSUME NEW s \in Servants, NEW key \in Keys, <<key, s>> \notin raced
      PROVE  Cardinality(OpenDuplicates(key, s)) <= 1
  BY <1>1, AtMostOne DEF PeopleInv, CareInv
<1>2. ASSUME NEW s \in Servants, Case(s) \notin raced, s \notin beside
      PROVE  Cardinality(OpenCases(s)) <= 1
  BY <1>2, AtMostOne DEF PeopleInv, CareInv
<1>3. ASSUME failures = 0, ~ InFlight("clearing"), NEW a \in covered
      PROVE  Case(alerts[a].servant) \in raced \/ alerts[a].status = "RESOLVED"
  BY <1>3 DEF PeopleInv, CareInv, Settled, InFlight
<1> QED
  BY <1>1, <1>2, <1>3 DEF CareHolds

LEMMA TimelineShown ==
  ASSUME PeopleInv
  PROVE  TimelineTells
  BY DEF PeopleInv, TimelineInv

LEMMA PathsShown ==
  ASSUME PeopleInv
  PROVE  PathsAgree
<1> SUFFICES ASSUME NEW s \in Servants, NEW m \in Ministries, Present(s)
             PROVE  /\ Draws(s, m) => RowAccepts(s, m)
                    /\ RowAccepts(s, m) =>
                          /\ Lists(s, m) /\ TaskAccepts(s, m)
                          /\ Fits(s) => SlotAccepts(s, m)
                          /\ Trained(s, m) \/ m \in unguarded
  BY DEF PathsAgree
<1>1. latest[s] \in TalentsOf(s) \cup {NoTalent}
  BY DEF PeopleInv, TypesInv, FitnessTyped, FitnessTypeOK
<1>2. servants[s].main \in Serving(s) \cup unguarded
  BY DEF PeopleInv, TrainingInv
<1>3. Draws(s, m) => RowAccepts(s, m)
  BY <1>1 DEF Draws, RowAccepts
<1>4. HasCompletedTraining(s, m) =>
         /\ TrainingRule(s, m)
         /\ Trained(s, m) \/ (m \notin Serving(s) /\ Main(s, m))
         /\ Trained(s, m) \/ m \in unguarded
  BY <1>2 DEF HasCompletedTraining, TrainingRule, Main
<1>5. RowAccepts(s, m) =>
         /\ Lists(s, m) /\ TaskAccepts(s, m)
         /\ Fits(s) => SlotAccepts(s, m)
         /\ Trained(s, m) \/ m \in unguarded
  BY <1>4 DEF RowAccepts, Lists, TaskAccepts, SlotAccepts, ActiveRule
<1> QED
  BY <1>3, <1>5

\* The body of DecisionsStand.
DecisionsStay ==
    /\ \A s \in Servants :
          Present(s) /\ servants[s].status = "INATIVO" /\ servants'[s].status = "ATIVO" =>
             \/ s \in raced
             \/ \E r \in Requests :
                   /\ req[r].stage \in {"activating", "updatingProfile"}
                   /\ req[r].servant = s /\ (req[r].kind = "profile" => ~ req[r].promotes)
    /\ \A k \in Talents :
          Known(k) /\ talents[k].review = "NOT_REQUIRED" =>
             \/ talents'[k].review \in {"NOT_REQUIRED", "PENDING_ADMIN_REVIEW"}
             \/ Rejection(k) \in raced

LEMMA DecisionsShown ==
  ASSUME NEW r, PeopleMove(r)
  PROVE  DecisionsStay
<1>1. StatusMove(r) /\ ReviewMove(r)
  BY DEF PeopleMove, ServantsMove
<1> QED
  BY <1>1 DEF StatusMove, ReviewMove, Recalled, DecisionsStay

-----------------------------------------------------------------------------
(* The theorems.                                                           *)

\* PeopleInv is invariant, whatever requests are in flight beside each other.
THEOREM PeopleInvariant == Spec => []PeopleInv
<1>1. Init => PeopleInv
  BY InitInv
<1>2. PeopleInv /\ [Next]_vars => PeopleInv'
  BY NextMovesPeople, PeopleStep
<1> QED
  BY <1>1, <1>2, PTL DEF Spec

\* Every request of the services for accounts, servants, teams, care, talents and
\* the timeline leaves the tables with their types and a servant with one account
\* at most, wherever it breaks off.
THEOREM PeopleTypes == Spec => []TypeOK
<1>1. PeopleInv => TypeOK
  BY TypesShown DEF PeopleInv
<1> QED
  BY <1>1, PeopleInvariant, PTL

\* No SERVO account loses its servant but by a race or an operation that does not
\* look, and none sees another account.
THEOREM PeopleAccounts == Spec => []AccountsHold
<1>1. PeopleInv => AccountsHold
  BY AccountsShown
<1> QED
  BY <1>1, PeopleInvariant, PTL

\* No token that works is older than the password or the period of activity of its
\* account, and no session has two, unless two requests about the account were in
\* flight together: alone a login, a rotation or a reset revokes all it should.
THEOREM PeopleSessions == Spec => []SessionsEnd
<1>1. PeopleInv => SessionsEnd
  BY SessionsShown
<1> QED
  BY <1>1, PeopleInvariant, PTL

\* Who sees a team or a row by the filters of access-scope sees the servants in it,
\* and updateLeader leaves nobody with two active teams.
THEOREM PeopleTeams == Spec => []TeamsHold
<1>1. PeopleInv => TeamsHold
  BY TeamsShown
<1> QED
  BY <1>1, PeopleInvariant, PTL

\* No duplicate alerts, nor cases, but by a race, and a case that is closed
\* resolves the alerts.
THEOREM PeopleCare == Spec => []CareHolds
<1>1. PeopleInv => CareHolds
  BY CareShown
<1> QED
  BY <1>1, PeopleInvariant, PTL

\* The entries of a key tell how often it was published, unless two publications
\* of it raced between look-up and write.
THEOREM PeopleTimeline == Spec => []TimelineTells
<1>1. PeopleInv => TimelineTells
  BY TimelineShown
<1> QED
  BY <1>1, PeopleInvariant, PTL

\* Whoever the generation draws may stand in a row, and whoever may stand in a row
\* is trained and accepted by lists, tasks and slots, with the stated exceptions.
THEOREM PeoplePaths == Spec => []PathsAgree
<1>1. PeopleInv => PathsAgree
  BY PathsShown
<1> QED
  BY <1>1, PeopleInvariant, PTL

\* No step takes back a training that is completed, but by a race.
THEOREM PeopleTraining == Spec => TrainingStands
<1>1. PeopleInv /\ [Next]_vars => TrainedStays
  BY NextMovesPeople DEF PeopleMove, ServantsMove, TrainingMove
<1> QED
  BY <1>1, PeopleInvariant, PTL DEF Spec, TrainingStands, TrainedStays

\* No step undoes a decision about a servant or a talent, but by a race.
THEOREM PeopleDecisions == Spec => DecisionsStand
<1>1. PeopleInv /\ [Next]_vars => DecisionsStay
  BY NextMovesPeople, DecisionsShown
<1> QED
  BY <1>1, PeopleInvariant, PTL DEF Spec, DecisionsStand, DecisionsStay
=============================================================================
