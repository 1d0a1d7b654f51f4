-------------------------------- MODULE Rota --------------------------------
(***************************************************************************)
(* The rota of one service as its Schedule rows show it (modules/          *)
(* schedules): rows made by hand, by the generation of a period and by     *)
(* slots, the versions that are drafted and published, and the board that  *)
(* every process keeps in a cache.                                         *)
(*                                                                         *)
(* Slots and what ties them to rows are the subject of ScheduleSlots; here *)
(* a slot is one more writer of rows, which invalidates the board as a     *)
(* swap does.                                                              *)
(***************************************************************************)
EXTENDS Handlers

CONSTANTS
    Ministries,     \* ministries with places in the service
    Servants,       \* candidates of every ministry: active, trained, free
    RowIds,         \* ids of Schedule rows, in the order they are made: bound on them
    Shown,          \* the ministry whose board is looked at
    MaxVersions,    \* bound on the versions of the service
    MaxLoad,        \* bound on the rows a servant has in the period
    Nobody, NoRow, GoneRow, NoBoard

ASSUME RotaAssumption ==
    /\ Shown \in Ministries
    /\ RowIds \subseteq Nat \ {0} /\ MaxVersions \in Nat /\ MaxLoad \in Nat \ {0}
    /\ Nobody \notin Servants

VARIABLES
    rows,           \* Schedule, unique per service, servant and ministry
    versions,       \* ScheduleVersion.status by versionNumber
    board,          \* the cached board: the servants it shows
    several,        \* history: servants a generation was allowed to give a
                    \* second ministry
    silent          \* history: has a row been written, since the board was read,
                    \* by someone who does not tell the cache?

rotaTables == <<rows, versions, board>>
rotaHistory == <<several, silent>>

-----------------------------------------------------------------------------
(* Rows.                                                                   *)

Row(m, s) == [ministry |-> m, servant |-> s]
Kept == {i \in RowIds : rows[i] \notin {NoRow, GoneRow}}
NextId == CHOOSE i \in RowIds : rows[i] = NoRow /\ \A j \in RowIds : j < i => rows[j] # NoRow
RowsOf(m) == {i \in Kept : rows[i].ministry = m}
OnRota(s) == \E i \in Kept : rows[i].servant = s
Showing == {rows[i].servant : i \in RowsOf(Shown)}

\* The unique key refuses the same servant, ministry and service in two rows.
Taken(m, s, i) == \E j \in Kept \ {i} : rows[j] = Row(m, s)

WriteRow(i, m, s) == rows' = [rows EXCEPT ![i] = Row(m, s)]
NewRow(m, s) == WriteRow(NextId, m, s)

\* Seeded fault: only the unique key is left to refuse a servant.
CallCreate_Unchecked(r, m, s) ==
    /\ Call(r, [kind |-> "create", stage |-> "creating", touches |-> {"rota"},
                ministry |-> m, servant |-> s])
    /\ UNCHANGED <<rotaTables, rotaHistory>>

\* create: the servant must have no row in the service.  The check is a query,
\* the row another.
CallCreate(r, m, s) ==
    /\ ~ OnRota(s)
    /\ Call(r, [kind |-> "create", stage |-> "creating", touches |-> {"rota"},
                ministry |-> m, servant |-> s])
    /\ UNCHANGED <<rotaTables, rotaHistory>>

CommitCreate(r) ==
    /\ req[r].stage = "creating"
    /\ IF Taken(req[r].ministry, req[r].servant, 0)
       THEN UNCHANGED <<rows, silent>>
       ELSE NewRow(req[r].ministry, req[r].servant) /\ silent' = TRUE
    /\ Finish(r)
    /\ UNCHANGED <<versions, board, several>>

-----------------------------------------------------------------------------
(* Generation of the rows of a period: one service of it.                  *)

\* generateMonth, generatePeriod, generateService ... all come to
\* generateBetween.  The lock it takes before a service is given back in the
\* next statement and orders nothing.
CallGenerate(r) ==
    /\ Call(r, [kind |-> "generate", stage |-> "readingRows", touches |-> {"rota"}])
    /\ UNCHANGED <<rotaTables, rotaHistory>>

\* The rows of the service are read once, for all its ministries.  The options of
\* the call matter from here on.
ReadRows(r, force, multi) ==
    /\ req[r].stage = "readingRows"
    /\ Step(r, [kind |-> "generate", stage |-> "choosing", touches |-> {"rota"},
                force |-> force, multi |-> multi,
                found |-> [i \in Kept |-> rows[i]], todo |-> Ministries,
                serving |-> {rows[i].servant : i \in Kept}])
    /\ UNCHANGED <<rotaTables, rotaHistory>>

\* The oldest row of the ministry as it was read; 0 if there was none.
Existing(r, m) ==
    LET own == {i \in DOMAIN req[r].found : req[r].found[i].ministry = m}
    IN  IF own = {} THEN 0 ELSE CHOOSE i \in own : \A j \in own : i <= j

Passed(r, m) == Existing(r, m) # 0 /\ ~ req[r].force

\* isCandidateAllowedInService, by the rows read before.
Candidates(r, m) ==
    IF req[r].multi THEN Servants
    ELSE {s \in Servants : \/ s \notin req[r].serving
                           \/ Existing(r, m) # 0 /\ req[r].found[Existing(r, m)].servant = s}

\* How many rows of the period each servant had when the generation began.  The
\* services are counted together, this one is only one of them: any number.
Loads == [Servants -> 0..MaxLoad]

\* What the load, the services in a row, the absences of sixty days and the main
\* ministry come to, by weights the call may set: any order of the candidates.
Scores == [Servants -> 0..1]

\* applyFairnessBands: those within one row of the least loaded, and of them the
\* ones below the cap of the ministry if there are any.
FairPool(allowed, load, cap) ==
    LET even == {s \in allowed : \A t \in allowed : load[s] <= load[t] + 1}
        under == {s \in even : load[s] < cap}
    IN  IF under = {} THEN even ELSE under

\* sortScoredCandidates: the score decides, then the load, and then what differs
\* in any way the rows can.
Best(pool, score, load) ==
    {s \in pool : \A t \in pool :
        score[s] > score[t] \/ (score[s] = score[t] /\ load[s] <= load[t])}

\* Who may come out first, with the fairness rules or without.  A cap is above one.
Winners(allowed) ==
    {s \in allowed : \E load \in Loads, score \in Scores, cap \in 2..MaxLoad + 1 :
        \/ s \in Best(allowed, score, load)
        \/ s \in Best(FairPool(allowed, load, cap), score, load)}

\* The same question once more, to the rows as they are now.
Conflict(r, m, s) ==
    ~ req[r].multi /\ \E i \in Kept \ {Existing(r, m)} : rows[i].servant = s

Skip(r, m) == Step(r, [req[r] EXCEPT !.todo = @ \ {m}])

Choose(r, m) ==
    /\ req[r].stage = "choosing" /\ m \in req[r].todo
    /\ \/ Passed(r, m)
       \/ Candidates(r, m) = {}
       \/ \E s \in Winners(Candidates(r, m)) : Conflict(r, m, s)
    /\ Skip(r, m)
    /\ UNCHANGED <<rotaTables, rotaHistory>>

Win(r, m, s) ==
    /\ req[r].stage = "choosing" /\ m \in req[r].todo
    /\ ~ Passed(r, m)
    /\ s \in Winners(Candidates(r, m)) /\ ~ Conflict(r, m, s)
    /\ Step(r, [kind |-> "generate", stage |-> "writing", touches |-> {"rota"},
                force |-> req[r].force, multi |-> req[r].multi, found |-> req[r].found,
                todo |-> req[r].todo, serving |-> req[r].serving,
                ministry |-> m, servant |-> s])
    /\ UNCHANGED <<rotaTables, rotaHistory>>

\* updateInMemoryMetrics: the winner serves, and whoever the row had before does
\* not, unless another row that was read has him.
ServingAfter(r, i, s) ==
    LET found == req[r].found
        left == {q \in Servants \ {s} : /\ i # 0 /\ found[i].servant = q
                                         /\ \A j \in DOMAIN found \ {i} : found[j].servant # q}
    IN  (req[r].serving \ left) \cup {s}

\* The row that was found gets the winner, or a row is made.  A row the unique
\* key refuses, or one that is gone, throws: the rest of the period is dropped
\* and what was written stays.
WriteWinner(r) ==
    /\ req[r].stage = "writing"
    /\ LET m == req[r].ministry
           s == req[r].servant
           i == Existing(r, m)
       IN  IF Taken(m, s, i) \/ (i # 0 /\ i \notin Kept)
           THEN Finish(r) /\ UNCHANGED <<rows, several, silent>>
           ELSE /\ IF i = 0 THEN NewRow(m, s) ELSE WriteRow(i, rows[i].ministry, s)
                /\ silent' = TRUE
                /\ several' = IF req[r].multi THEN several \cup {s} ELSE several
                /\ Step(r, [kind |-> "generate", stage |-> "choosing", touches |-> {"rota"},
                            force |-> req[r].force, multi |-> req[r].multi,
                            found |-> req[r].found, todo |-> req[r].todo \ {m},
                            serving |-> ServingAfter(r, i, s)])
    /\ UNCHANGED <<versions, board>>

EndGenerate(r) ==
    /\ req[r].stage = "choosing" /\ req[r].todo = {}
    /\ Finish(r)
    /\ UNCHANGED <<rotaTables, rotaHistory>>

-----------------------------------------------------------------------------
(* Swaps and slots, the writers of rows that invalidate the board.         *)

\* swap with one row: another servant takes it, who must have no other row of the
\* service.  Unlike a move (update) it asks nothing of the tasks of the one who
\* leaves.
CallSwap(r, i, s) ==
    /\ i \in Kept /\ rows[i].servant # s
    /\ \A j \in Kept \ {i} : rows[j].servant # s
    /\ Call(r, [kind |-> "swap", stage |-> "swapping", touches |-> {"rota", "board"},
                row |-> i, servant |-> s])
    /\ UNCHANGED <<rotaTables, rotaHistory>>

\* The row, then its history, the notification and the board.
CommitSwap(r) ==
    /\ req[r].stage = "swapping"
    /\ LET i == req[r].row
       IN  IF i \notin Kept \/ Taken(rows[i].ministry, req[r].servant, i)
           THEN Finish(r) /\ UNCHANGED rows
           ELSE /\ WriteRow(i, rows[i].ministry, req[r].servant)
                /\ Step(r, [kind |-> "swap", stage |-> "invalidating", touches |-> {"rota", "board"}])
    /\ UNCHANGED <<versions, board, rotaHistory>>

\* swap with two rows, which give each other their servants.
CallExchange(r, i, j) ==
    /\ {i, j} \subseteq Kept /\ i < j
    /\ ~ Taken(rows[i].ministry, rows[j].servant, i)
    /\ ~ Taken(rows[j].ministry, rows[i].servant, j)
    /\ Call(r, [kind |-> "swap", stage |-> "exchanging", touches |-> {"rota", "board"},
                servantOf |-> [k \in {i, j} |-> rows[IF k = i THEN j ELSE i].servant]])
    /\ UNCHANGED <<rotaTables, rotaHistory>>

\* Both rows in one transaction, by the servants that were read, one after the
\* other: the unique key is asked after each of the two updates.
CommitExchange(r) ==
    /\ req[r].stage = "exchanging"
    /\ LET servantOf == req[r].servantOf
           both == DOMAIN servantOf
           after(ids) == [i \in RowIds |-> IF i \in ids THEN Row(rows[i].ministry, servantOf[i])
                                                        ELSE rows[i]]
           clash(ids) == \E i \in ids : \E k \in Kept \ {i} : after(ids)[k] = after(ids)[i]
       IN  \E first \in both :
             IF ~ both \subseteq Kept \/ clash({first}) \/ clash(both)
             THEN Finish(r) /\ UNCHANGED rows
             ELSE /\ rows' = after(both)
                  /\ Step(r, [kind |-> "swap", stage |-> "invalidating",
                              touches |-> {"rota", "board"}])
    /\ UNCHANGED <<versions, board, rotaHistory>>

\* assignSlot and unassignSlot: a row is made or deleted with the slot, and
\* after that transaction, the timeline entry and the notification, the board
\* is dropped from the cache.
CallSlotWrite(r) ==
    /\ \/ \E s \in Servants : ~ OnRota(s) /\ NewRow(Shown, s)
       \/ \E i \in RowsOf(Shown) : rows' = [rows EXCEPT ![i] = GoneRow]
    /\ Call(r, [kind |-> "slot", stage |-> "invalidating", touches |-> {"rota", "board"}])
    /\ UNCHANGED <<versions, board, rotaHistory>>

\* Seeded fault: the key that is dropped is not the one that was set.
Invalidate_OtherKey(r) ==
    /\ req[r].stage = "invalidating"
    /\ Finish(r)
    /\ UNCHANGED <<rotaTables, rotaHistory>>

\* A board that is still being read is not in the cache yet: it goes there later.
Invalidate(r) ==
    /\ req[r].stage = "invalidating"
    /\ board' = NoBoard
    /\ Finish(r)
    /\ UNCHANGED <<rows, versions, rotaHistory>>

\* serviceBoard: what it reads is evaluated, query after query, and then stored
\* for 20 seconds.  A board in the cache is answered as it is.
CallBoard(r) ==
    /\ board = NoBoard
    /\ silent' = (silent /\ InFlight("filling"))
    /\ Call(r, [kind |-> "board", stage |-> "filling", touches |-> {"board"},
                shown |-> Showing])
    /\ UNCHANGED <<rotaTables, several>>

FillBoard(r) ==
    /\ req[r].stage = "filling"
    /\ board' = req[r].shown
    /\ Finish(r)
    /\ UNCHANGED <<rows, versions, rotaHistory>>

BoardExpires ==
    /\ board # NoBoard
    /\ board' = NoBoard
    /\ UNCHANGED <<rows, versions, req, calls, failures, raced, rotaHistory>>

-----------------------------------------------------------------------------
(* Versions.                                                               *)

VersionNumbers == 1..MaxVersions
Drafted == {v \in VersionNumbers : versions[v] # "none"}
Published == {v \in VersionNumbers : versions[v] = "PUBLISHED"}
Last == Cardinality(Drafted)

\* createDraftVersion: the last number is read, the next one taken, which its
\* unique key gives to one request only.
CallDraft(r) ==
    /\ Last + 1 \in VersionNumbers
    /\ Call(r, [kind |-> "draft", stage |-> "drafting", touches |-> {}, number |-> Last + 1])
    /\ UNCHANGED <<rotaTables, rotaHistory>>

CommitDraft(r) ==
    /\ req[r].stage = "drafting"
    /\ versions' = IF versions[req[r].number] = "none"
                   THEN [versions EXCEPT ![req[r].number] = "DRAFT"] ELSE versions
    /\ Finish(r)
    /\ UNCHANGED <<rows, board, rotaHistory>>

\* publishVersion: whatever the status of the version.  The transaction updates
\* the versions that were published when its first statement began, then its own.
CallPublish(r, v) ==
    /\ v \in Drafted
    /\ Call(r, [kind |-> "publish", stage |-> "publishing", touches |-> {"published"},
                number |-> v, archived |-> Published])
    /\ UNCHANGED <<rotaTables, rotaHistory>>

\* Seeded fault: a version that was published already is not archived.
CommitPublish_KeepsOld(r) ==
    /\ req[r].stage = "publishing"
    /\ versions' = [versions EXCEPT ![req[r].number] = "PUBLISHED"]
    /\ Finish(r)
    /\ UNCHANGED <<rows, board, rotaHistory>>

CommitPublish(r) ==
    /\ req[r].stage = "publishing"
    /\ versions' = [v \in VersionNumbers |->
                      IF v = req[r].number THEN "PUBLISHED"
                      ELSE IF v \in req[r].archived THEN "ARCHIVED" ELSE versions[v]]
    /\ Finish(r)
    /\ UNCHANGED <<rows, board, rotaHistory>>

-----------------------------------------------------------------------------
RotaTypeOK ==
    /\ rows \in [RowIds -> [ministry : Ministries, servant : Servants] \cup {NoRow, GoneRow}]
    /\ versions \in [VersionNumbers -> {"none", "DRAFT", "PUBLISHED", "ARCHIVED"}]
    /\ board \in (SUBSET Servants) \cup {NoBoard}
    /\ HandlersTypeOK
    /\ several \subseteq Servants
    /\ silent \in BOOLEAN

\* A service of which a row may be in the database already, and all versions but
\* one are drafted.
RotaInit ==
    /\ rows \in {[i \in RowIds |-> IF i = 1 /\ s # Nobody THEN Row(Shown, s) ELSE NoRow] :
                    s \in Servants \cup {Nobody}}
    /\ versions = [v \in VersionNumbers |-> IF v < MaxVersions THEN "DRAFT" ELSE "none"]
    /\ board = NoBoard
    /\ several = {} /\ silent = FALSE
    /\ HandlersInit

RotaCall(r) ==
    \/ \E m \in Ministries, s \in Servants : CallCreate(r, m, s)
    \/ CallGenerate(r)
    \/ \E i \in RowIds, s \in Servants : CallSwap(r, i, s)
    \/ \E i, j \in RowIds : CallExchange(r, i, j)
    \/ CallSlotWrite(r)
    \/ CallBoard(r)
    \/ CallDraft(r)
    \/ \E v \in VersionNumbers : CallPublish(r, v)

RotaStep(r) ==
    \/ CommitCreate(r)
    \/ \E force, multi \in BOOLEAN : ReadRows(r, force, multi)
    \/ \E m \in Ministries : Choose(r, m) \/ \E s \in Servants : Win(r, m, s)
    \/ WriteWinner(r)
    \/ EndGenerate(r)
    \/ CommitSwap(r)
    \/ CommitExchange(r)
    \/ Invalidate(r)
    \/ FillBoard(r)
    \/ CommitDraft(r)
    \/ CommitPublish(r)

-----------------------------------------------------------------------------
(* Properties                                                              *)

\* A service has one published version from the first publication on, however
\* often and in whatever order its versions are published; only two
\* publications in flight together leave two.
OnePublished ==
    "published" \notin raced => Cardinality(Published) <= 1

\* A servant is in one row of a service, whoever wrote the rows: by hand, by the
\* generation of a period, by a slot or by moving a row.  Each asks before it
\* writes and the unique key guards only rows of one ministry, so writers in
\* flight together, or a generation told to allow it, break this.
OneRowPerServant ==
    "rota" \notin raced =>
       \A i, j \in Kept :
          i # j /\ rows[i].servant = rows[j].servant => rows[i].servant \in several

\* A board in the cache is what the rows say once the writers of slots have told
\* the cache, unless a row was written by hand or by the generation, which tell
\* it nothing, or the board was read while a slot was being written: it may then
\* be stored after it was dropped, and is served until it expires.
BoardIsCurrent ==
    ~ silent /\ "board" \notin raced /\ failures = 0 =>
       board \in {NoBoard, Showing} \/ InFlight("invalidating")
=============================================================================
