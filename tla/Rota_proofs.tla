---------------------------- MODULE Rota_proofs ----------------------------
(***************************************************************************)
(* Lemmas about the requests in flight and the rota of a service: every    *)
(* action of Rota keeps the invariants of the rota.  MinistryTasks_proofs  *)
(* adds the actions on tasks, which share the requests and the rows, and   *)
(* draws the theorems.                                                     *)
(*                                                                         *)
(* The invariants say that nobody decides twice.  They hold because a      *)
(* request in flight knows something of the tables that stays true until   *)
(* it writes (Knows): whoever makes it false decides about the same thing, *)
(* and then the two are known to have raced (RacesKnown).                  *)
(***************************************************************************)
EXTENDS Rota, Handlers_proofs

-----------------------------------------------------------------------------
(* What a request of the rota carries at its stage, and what it knows.     *)

RowRecord == [ministry : Ministries, servant : Servants]
Founds == UNION {[D -> RowRecord] : D \in SUBSET RowIds}

Carries(q) ==
    /\ q.stage = "creating" =>
          q \in [kind : {"create"}, stage : {"creating"}, touches : {{"rota"}},
                 ministry : Ministries, servant : Servants]
    /\ q.stage = "readingRows" =>
          q \in [kind : {"generate"}, stage : {"readingRows"}, touches : {{"rota"}}]
    /\ q.stage = "choosing" =>
          q \in [kind : {"generate"}, stage : {"choosing"}, touches : {{"rota"}},
                 force : BOOLEAN, multi : BOOLEAN, found : Founds,
                 todo : SUBSET Ministries, serving : SUBSET Servants]
    /\ q.stage = "writing" =>
          q \in [kind : {"generate"}, stage : {"writing"}, touches : {{"rota"}},
                 force : BOOLEAN, multi : BOOLEAN, found : Founds,
                 todo : SUBSET Ministries, serving : SUBSET Servants,
                 ministry : Ministries, servant : Servants]
    /\ q.stage = "swapping" =>
          q \in [kind : {"swap"}, stage : {"swapping"}, touches : {{"rota", "board"}},
                 row : RowIds, servant : Servants]
    /\ q.stage = "exchanging" =>
          /\ q.kind = "swap" /\ q.touches = {"rota", "board"}
          /\ DOMAIN q.servantOf \subseteq RowIds
          /\ \A i \in DOMAIN q.servantOf : q.servantOf[i] \in Servants
    /\ q.stage = "invalidating" => q.kind \in {"swap", "slot"} /\ "board" \in q.touches
    /\ q.stage = "filling" =>
          q \in [kind : {"board"}, stage : {"filling"}, touches : {{"board"}},
                 shown : SUBSET Servants]
    /\ q.stage = "drafting" =>
          q \in [kind : {"draft"}, stage : {"drafting"}, touches : {{}},
                 number : VersionNumbers]
    /\ q.stage = "publishing" =>
          q \in [kind : {"publish"}, stage : {"publishing"}, touches : {{"published"}},
                 number : VersionNumbers, archived : SUBSET VersionNumbers]
    /\ q.stage = "movingRow" => "rota" \in q.touches

\* The one who writes next still has what he asked for.  (movingRow is the stage
\* of a move, which is an action of MinistryTasks.)
KnowsRows(r) ==
    "rota" \notin raced =>
       /\ req[r].stage = "creating" => ~ OnRota(req[r].servant)
       /\ req[r].stage = "writing" =>
             \/ req[r].multi
             \/ \A i \in Kept \ {Existing(r, req[r].ministry)} :
                   rows[i].servant # req[r].servant
       /\ req[r].stage = "swapping" =>
             \A i \in Kept \ {req[r].row} : rows[i].servant # req[r].servant
       /\ req[r].stage = "movingRow" =>
             \A i \in Kept \ {req[r].row} : rows[i].servant # req[r].servant
       /\ req[r].stage = "exchanging" =>
             \E i, j \in Kept :
                /\ i # j /\ DOMAIN req[r].servantOf = {i, j}
                /\ req[r].servantOf[i] = rows[j].servant
                /\ req[r].servantOf[j] = rows[i].servant

KnowsBoard(r) ==
    req[r].stage = "filling" /\ ~ silent /\ "board" \notin raced => req[r].shown = Showing

KnowsVersions(r) ==
    req[r].stage = "publishing" /\ "published" \notin raced => Published \subseteq req[r].archived

RotaRequestsOK ==
    \A r \in Requests : Carries(req[r]) /\ KnowsRows(r) /\ KnowsBoard(r) /\ KnowsVersions(r)

RotaInv ==
    /\ ReqFn /\ RacesKnown /\ RotaTypeOK
    /\ RotaRequestsOK
    /\ OnePublished /\ OneRowPerServant /\ BoardIsCurrent

\* The stages whose requests know something of the tables of the rota.
Knowing == {"creating", "writing", "swapping", "movingRow", "exchanging", "filling",
            "publishing"}

LEMMA IdleCarries == Carries(Idle)
  BY DEF Carries, Idle

\* What is asked of the state of the next step, by a request that knows nothing.
LEMMA KnowsNothing ==
  ASSUME NEW r \in Requests, req[r].stage \notin Knowing
  PROVE  KnowsRows(r) /\ KnowsBoard(r) /\ KnowsVersions(r)
  BY DEF KnowsRows, KnowsBoard, KnowsVersions, Knowing

LEMMA KeptRows ==
  ASSUME RotaTypeOK, NEW i \in Kept
  PROVE  i \in RowIds /\ rows[i] \in RowRecord
  BY DEF RotaTypeOK, Kept, RowRecord

\* A step that leaves the tables of the rota alone keeps its invariants; the
\* request that moved may know something new.
LEMMA TablesStay ==
  ASSUME RotaInv, NEW r \in Requests, Moved(r), HandlersTypeOK',
         UNCHANGED <<rotaTables, rotaHistory>>,
         failures' = failures \/ failures' # 0,
         req[r].stage = "invalidating" => failures' # 0,
         Carries(req'[r]), KnowsRows(r)', KnowsBoard(r)', KnowsVersions(r)'
  PROVE  RotaInv'
<1>1. /\ rows' = rows /\ versions' = versions /\ board' = board
      /\ several' = several /\ silent' = silent
  BY DEF rotaTables, rotaHistory
<1>2. RotaTypeOK'
  BY <1>1 DEF RotaInv, RotaTypeOK, VersionNumbers
<1>3. ASSUME NEW q \in Requests \ {r}
      PROVE  Carries(req'[q]) /\ KnowsRows(q)' /\ KnowsBoard(q)' /\ KnowsVersions(q)'
  <2>1. req'[q] = req[q] /\ raced \subseteq raced'
    BY DEF Moved
  <2>2. Carries(req[q]) /\ KnowsRows(q) /\ KnowsBoard(q) /\ KnowsVersions(q)
    BY DEF RotaInv, RotaRequestsOK
  <2>3. KnowsRows(q)'
    BY <1>1, <2>1, <2>2 DEF KnowsRows, OnRota, Kept, Existing
  <2>4. KnowsBoard(q)' /\ KnowsVersions(q)'
    BY <1>1, <2>1, <2>2
       DEF KnowsBoard, KnowsVersions, Showing, RowsOf, Kept, Published, VersionNumbers
  <2> QED
    BY <2>1, <2>2, <2>3, <2>4
<1>4. RotaRequestsOK'
  BY <1>3 DEF RotaRequestsOK
<1>5. OnePublished' /\ OneRowPerServant'
  BY <1>1 DEF RotaInv, OnePublished, OneRowPerServant, Published, VersionNumbers, Kept, Moved
<1>6. BoardIsCurrent'
  <2> SUFFICES ASSUME ~ silent, "board" \notin raced, failures = 0, failures' = 0
               PROVE  board' = NoBoard \/ board' = Showing' \/ InFlight("invalidating")'
    BY <1>1 DEF BoardIsCurrent, Moved
  <2>1. board \in {NoBoard, Showing} \/ InFlight("invalidating")
    BY DEF RotaInv, BoardIsCurrent
  <2>2. Showing' = Showing
    BY <1>1 DEF Showing, RowsOf, Kept
  <2>3. InFlight("invalidating") => InFlight("invalidating")'
    BY DEF InFlight, Moved
  <2> QED
    BY <1>1, <2>1, <2>2, <2>3
<1> QED
  BY <1>2, <1>4, <1>5, <1>6 DEF RotaInv, Moved

\* A step that writes rows: who else has decided about the rota has raced, and
\* the board is told, or silent says that it was not.
LEMMA RowsWritten ==
  ASSUME RotaInv, NEW r \in Requests, Moved(r), HandlersTypeOK', failures' = failures,
         "rota" \in req[r].touches \/ "rota" \in req'[r].touches,
         UNCHANGED <<versions, board>>,
         rows' \in [RowIds -> RowRecord \cup {NoRow, GoneRow}],
         several' \subseteq Servants,
         \/ silent' = TRUE
         \/ silent' = silent /\ req'[r].stage = "invalidating",
         Carries(req'[r]), req'[r].stage \notin Knowing,
         OneRowPerServant'
  PROVE  RotaInv'
<1>1. versions' = versions /\ board' = board
  OBVIOUS
<1>2. RotaTypeOK'
  BY <1>1 DEF RotaInv, RotaTypeOK, VersionNumbers, RowRecord
<1>3. ASSUME NEW q \in Requests \ {r}
      PROVE  Carries(req'[q]) /\ KnowsRows(q)' /\ KnowsBoard(q)' /\ KnowsVersions(q)'
  <2>1. req'[q] = req[q] /\ raced \subseteq raced'
    BY DEF Moved
  <2>2. Carries(req[q]) /\ KnowsVersions(q)
    BY DEF RotaInv, RotaRequestsOK
  <2>3. ASSUME req[q].stage \in {"creating", "writing", "swapping", "movingRow",
                                   "exchanging"}
        PROVE  "rota" \in raced'
    <3>1. "rota" \in req[q].touches
      BY <2>2, <2>3 DEF Carries
    <3>2. CASE "rota" \in req[r].touches
      BY <2>1, <3>1, <3>2 DEF RotaInv, RacesKnown
    <3>3. CASE "rota" \in req'[r].touches
      BY <2>1, <3>1, <3>3 DEF Moved, RacesKnown
    <3> QED
      BY <3>2, <3>3
  <2>4. KnowsRows(q)'
    BY <2>1, <2>3 DEF KnowsRows
  <2>5. KnowsBoard(q)'
    <3> SUFFICES ASSUME req[q].stage = "filling", silent' = silent,
                        req'[r].stage = "invalidating"
                 PROVE  "board" \in raced'
      BY <2>1 DEF KnowsBoard
    <3>1. "board" \in req'[q].touches /\ "board" \in req'[r].touches
      BY <2>1, <2>2 DEF Carries
    <3> QED
      BY <3>1 DEF Moved, RacesKnown
  <2>6. KnowsVersions(q)'
    BY <1>1, <2>1, <2>2 DEF KnowsVersions, Published, VersionNumbers
  <2> QED
    BY <2>1, <2>2, <2>4, <2>5, <2>6
<1>4. KnowsRows(r)' /\ KnowsBoard(r)' /\ KnowsVersions(r)'
  BY DEF KnowsRows, KnowsBoard, KnowsVersions, Knowing
<1>5. RotaRequestsOK'
  BY <1>3, <1>4 DEF RotaRequestsOK
<1>6. OnePublished'
  BY <1>1 DEF RotaInv, OnePublished, Published, VersionNumbers, Moved
<1>7. BoardIsCurrent'
  BY DEF BoardIsCurrent, InFlight
<1> QED
  BY <1>2, <1>5, <1>6, <1>7 DEF RotaInv, Moved

-----------------------------------------------------------------------------
(* Rows.                                                                   *)

\* A row that is given a servant of no other row breaks nothing.
LEMMA RowWritten ==
  ASSUME RotaTypeOK, NEW i \in RowIds, NEW m \in Ministries, NEW s \in Servants,
         rows' = [rows EXCEPT ![i] = Row(m, s)],
         raced \subseteq raced', several \subseteq several', OneRowPerServant,
         "rota" \notin raced' => s \in several' \/ \A j \in Kept \ {i} : rows[j].servant # s
  PROVE  rows' \in [RowIds -> RowRecord \cup {NoRow, GoneRow}] /\ OneRowPerServant'
<1>1. rows \in [RowIds -> RowRecord \cup {NoRow, GoneRow}]
  BY DEF RotaTypeOK, RowRecord
<1>2. Row(m, s) \in RowRecord /\ Row(m, s).servant = s
  BY DEF Row, RowRecord
<1>3. rows' \in [RowIds -> RowRecord \cup {NoRow, GoneRow}]
  BY <1>1, <1>2
<1>4. /\ \A j \in Kept' \ {i} : j \in Kept /\ rows'[j] = rows[j]
      /\ rows'[i].servant = s
  BY <1>1, <1>2 DEF Kept
<1>5. ASSUME "rota" \notin raced', NEW j \in Kept', NEW k \in Kept', j # k,
             rows'[j].servant = rows'[k].servant
      PROVE  rows'[j].servant \in several'
  <2>1. CASE j # i /\ k # i
    BY <1>4, <1>5, <2>1 DEF OneRowPerServant
  <2>2. CASE j = i \/ k = i
    BY <1>4, <1>5, <2>2
  <2> QED
    BY <2>1, <2>2
<1> QED
  BY <1>3, <1>5 DEF OneRowPerServant

\* The same of a new row; with no id left nothing is written.
LEMMA RowMade ==
  ASSUME RotaTypeOK, NEW m \in Ministries, NEW s \in Servants, NewRow(m, s),
         raced \subseteq raced', several \subseteq several', OneRowPerServant,
         "rota" \notin raced' => s \in several' \/ \A j \in Kept : rows[j].servant # s
  PROVE  rows' \in [RowIds -> RowRecord \cup {NoRow, GoneRow}] /\ OneRowPerServant'
<1> DEFINE i == NextId
<1>1. rows' = [rows EXCEPT ![i] = Row(m, s)]
  BY DEF NewRow, WriteRow
<1>2. rows \in [RowIds -> RowRecord \cup {NoRow, GoneRow}]
  BY DEF RotaTypeOK, RowRecord
<1> HIDE DEF i
<1>3. CASE i \in RowIds
  BY <1>1, <1>3, RowWritten
<1>4. CASE i \notin RowIds
  <2>1. rows' = rows
    BY <1>1, <1>2, <1>4
  <2> QED
    BY <1>2, <2>1 DEF OneRowPerServant, Kept
<1> QED
  BY <1>3, <1>4

LEMMA CallCreateOK ==
  ASSUME RotaInv, NEW r \in Requests, NEW m \in Ministries, NEW s \in Servants,
         CallCreate(r, m, s)
  PROVE  RotaInv'
<1> DEFINE locals == [kind |-> "create", stage |-> "creating", touches |-> {"rota"},
                      ministry |-> m, servant |-> s]
<1>1. /\ Call(r, locals) /\ ~ OnRota(s)
      /\ UNCHANGED <<rotaTables, rotaHistory>>
  BY DEF CallCreate
<1>2. /\ Moved(r) /\ req'[r] = locals /\ HandlersTypeOK' /\ failures' = failures
      /\ req[r] = Idle
  BY <1>1, CallMoves DEF RotaInv, RotaTypeOK
<1>3. Carries(req'[r])
  BY <1>2 DEF Carries
<1>4. KnowsRows(r)' /\ KnowsBoard(r)' /\ KnowsVersions(r)'
  BY <1>1, <1>2 DEF KnowsRows, KnowsBoard, KnowsVersions, OnRota, Kept, rotaTables
<1> QED
  BY <1>1, <1>2, <1>3, <1>4, TablesStay, IdleFacts

LEMMA CommitCreateOK ==
  ASSUME RotaInv, NEW r \in Requests, CommitCreate(r)
  PROVE  RotaInv'
<1> DEFINE m == req[r].ministry
           s == req[r].servant
<1>1. /\ Moved(r) /\ req'[r] = Idle /\ HandlersTypeOK' /\ failures' = failures
      /\ req[r].stage = "creating" /\ UNCHANGED <<versions, board, several>>
  BY FinishMoves DEF CommitCreate, RotaInv, RotaTypeOK
<1>2. m \in Ministries /\ s \in Servants /\ req[r].touches = {"rota"}
  BY <1>1 DEF RotaInv, RotaRequestsOK, Carries
<1>3. Carries(req'[r]) /\ req'[r].stage \notin Knowing
  BY <1>1, IdleCarries, IdleFacts DEF Knowing
<1>4. CASE UNCHANGED <<rows, silent>>
  BY <1>1, <1>3, <1>4, KnowsNothing, TablesStay, IdleFacts
     DEF rotaTables, rotaHistory, KnowsRows, KnowsBoard, KnowsVersions
<1>5. CASE NewRow(m, s) /\ silent' = TRUE
  <2>1. "rota" \notin raced' => \A j \in Kept : rows[j].servant # s
    BY <1>1 DEF RotaInv, RotaRequestsOK, KnowsRows, OnRota, Moved
  <2>2. rows' \in [RowIds -> RowRecord \cup {NoRow, GoneRow}] /\ OneRowPerServant'
    BY <1>1, <1>2, <1>5, <2>1, RowMade DEF RotaInv, Moved
  <2> QED
    BY <1>1, <1>2, <1>3, <1>5, <2>2, RowsWritten DEF RotaInv, RotaTypeOK
<1> QED
  BY <1>4, <1>5 DEF CommitCreate

-----------------------------------------------------------------------------
(* Generation.                                                             *)

\* A step that leaves the tables alone and whose request knows nothing after it.
LEMMA NothingLearnt ==
  ASSUME RotaInv, NEW r \in Requests, Moved(r), HandlersTypeOK',
         UNCHANGED <<rotaTables, rotaHistory>>,
         failures' = failures \/ failures' # 0,
         req[r].stage = "invalidating" => failures' # 0,
         Carries(req'[r]), req'[r].stage \notin Knowing
  PROVE  RotaInv'
<1>1. KnowsRows(r)' /\ KnowsBoard(r)' /\ KnowsVersions(r)'
  BY DEF KnowsRows, KnowsBoard, KnowsVersions, Knowing
<1> QED
  BY <1>1, TablesStay

LEMMA CallGenerateOK ==
  ASSUME RotaInv, NEW r \in Requests, CallGenerate(r)
  PROVE  RotaInv'
<1> DEFINE locals == [kind |-> "generate", stage |-> "readingRows", touches |-> {"rota"}]
<1>1. /\ Moved(r) /\ req'[r] = locals /\ HandlersTypeOK' /\ failures' = failures
      /\ req[r] = Idle /\ UNCHANGED <<rotaTables, rotaHistory>>
  BY CallMoves DEF CallGenerate, RotaInv, RotaTypeOK
<1>2. ASSUME NEW q, q = locals PROVE Carries(q) /\ q.stage \notin Knowing
  BY <1>2 DEF Carries, Knowing
<1>3. Carries(req'[r]) /\ req'[r].stage \notin Knowing
  BY <1>1, <1>2
<1> QED
  BY <1>1, <1>3, NothingLearnt, IdleFacts

LEMMA ReadRowsOK ==
  ASSUME RotaInv, NEW r \in Requests, NEW force \in BOOLEAN, NEW multi \in BOOLEAN,
         ReadRows(r, force, multi)
  PROVE  RotaInv'
<1> DEFINE found == [i \in Kept |-> rows[i]]
           serving == {rows[i].servant : i \in Kept}
           locals == [kind |-> "generate", stage |-> "choosing", touches |-> {"rota"},
                      force |-> force, multi |-> multi, found |-> found,
                      todo |-> Ministries, serving |-> serving]
<1>1. /\ Moved(r) /\ req'[r] = locals /\ HandlersTypeOK' /\ failures' = failures
      /\ req[r].stage = "readingRows" /\ UNCHANGED <<rotaTables, rotaHistory>>
  BY StepMoves DEF ReadRows, RotaInv, RotaTypeOK
<1>2. found \in Founds
  <2>1. \A i \in Kept : i \in RowIds /\ rows[i] \in RowRecord
    BY KeptRows DEF RotaInv
  <2>2. found \in [Kept -> RowRecord] /\ Kept \in SUBSET RowIds
    BY <2>1
  <2> QED
    BY <2>2 DEF Founds
<1>3. serving \subseteq Servants
  BY KeptRows DEF RotaInv, RowRecord
<1> HIDE DEF found, serving
<1>4. ASSUME NEW q, q = locals PROVE Carries(q) /\ q.stage \notin Knowing
  BY <1>2, <1>3, <1>4 DEF Carries, Knowing
<1>5. Carries(req'[r]) /\ req'[r].stage \notin Knowing
  BY <1>1, <1>4
<1> QED
  BY <1>1, <1>5, NothingLearnt

LEMMA ChooseOK ==
  ASSUME RotaInv, NEW r \in Requests, NEW m \in Ministries, Choose(r, m)
  PROVE  RotaInv'
<1> DEFINE locals == [req[r] EXCEPT !.todo = @ \ {m}]
<1>1. /\ Step(r, locals) /\ req[r].stage = "choosing"
      /\ UNCHANGED <<rotaTables, rotaHistory>>
  BY DEF Choose, Skip
<1>2. req[r] \in [kind : {"generate"}, stage : {"choosing"}, touches : {{"rota"}},
                  force : BOOLEAN, multi : BOOLEAN, found : Founds,
                  todo : SUBSET Ministries, serving : SUBSET Servants]
  BY <1>1 DEF RotaInv, RotaRequestsOK, Carries
<1>3. /\ locals \in [kind : {"generate"}, stage : {"choosing"}, touches : {{"rota"}},
                     force : BOOLEAN, multi : BOOLEAN, found : Founds,
                     todo : SUBSET Ministries, serving : SUBSET Servants]
  BY <1>2
<1> HIDE DEF locals
<1>4. Carries(locals) /\ locals.stage \notin Knowing /\ locals.kind # "none"
  BY <1>3 DEF Carries, Knowing
<1>5. Moved(r) /\ req'[r] = locals /\ HandlersTypeOK' /\ failures' = failures
  BY <1>1, <1>4, StepMoves DEF RotaInv, RotaTypeOK
<1> QED
  BY <1>1, <1>4, <1>5, NothingLearnt

\* The winner of a ministry is asked for once more, of the rows as they are.
LEMMA WinOK ==
  ASSUME RotaInv, NEW r \in Requests, NEW m \in Ministries, NEW s, Win(r, m, s)
  PROVE  RotaInv'
<1> DEFINE locals == [kind |-> "generate", stage |-> "writing", touches |-> {"rota"},
                      force |-> req[r].force, multi |-> req[r].multi,
                      found |-> req[r].found, todo |-> req[r].todo,
                      serving |-> req[r].serving, ministry |-> m, servant |-> s]
<1>1. /\ req[r].stage = "choosing" /\ s \in Candidates(r, m) /\ ~ Conflict(r, m, s)
      /\ Step(r, locals) /\ UNCHANGED <<rotaTables, rotaHistory>>
  BY DEF Win, Winners
<1>2. /\ Moved(r) /\ req'[r] = locals /\ HandlersTypeOK' /\ failures' = failures
  BY <1>1, StepMoves DEF RotaInv, RotaTypeOK
<1>3. req[r] \in [kind : {"generate"}, stage : {"choosing"}, touches : {{"rota"}},
                  force : BOOLEAN, multi : BOOLEAN, found : Founds,
                  todo : SUBSET Ministries, serving : SUBSET Servants]
  BY <1>1 DEF RotaInv, RotaRequestsOK, Carries
<1>4. s \in Servants
  BY <1>1 DEF Candidates
<1>5. Carries(req'[r])
  BY <1>2, <1>3, <1>4 DEF Carries
<1>6. Existing(r, m)' = Existing(r, m)
  BY <1>2 DEF Existing
<1>7. req'[r].stage = "writing" /\ req'[r].multi = req[r].multi
      /\ req'[r].ministry = m /\ req'[r].servant = s
  BY <1>2
<1>8. ~ req[r].multi => \A i \in Kept \ {Existing(r, m)} : rows[i].servant # s
  BY <1>1 DEF Conflict
<1>9. KnowsRows(r)' /\ KnowsBoard(r)' /\ KnowsVersions(r)'
  BY <1>1, <1>6, <1>7, <1>8 DEF KnowsRows, KnowsBoard, KnowsVersions, Kept, rotaTables
<1> QED
  BY <1>1, <1>2, <1>5, <1>9, TablesStay

LEMMA WriteWinnerOK ==
  ASSUME RotaInv, NEW r \in Requests, WriteWinner(r)
  PROVE  RotaInv'
<1> DEFINE m == req[r].ministry
           s == req[r].servant
           i == Existing(r, m)
           next == [kind |-> "generate", stage |-> "choosing", touches |-> {"rota"},
                    force |-> req[r].force, multi |-> req[r].multi,
                    found |-> req[r].found, todo |-> req[r].todo \ {m},
                    serving |-> ServingAfter(r, i, s)]
<1>1. req[r].stage = "writing" /\ UNCHANGED <<versions, board>>
  BY DEF WriteWinner
<1>2. req[r] \in [kind : {"generate"}, stage : {"writing"}, touches : {{"rota"}},
                  force : BOOLEAN, multi : BOOLEAN, found : Founds,
                  todo : SUBSET Ministries, serving : SUBSET Servants,
                  ministry : Ministries, servant : Servants]
  BY <1>1 DEF RotaInv, RotaRequestsOK, Carries
<1>3. CASE Finish(r) /\ UNCHANGED <<rows, several, silent>>
  <2>1. Moved(r) /\ req'[r] = Idle /\ HandlersTypeOK' /\ failures' = failures
    BY <1>3, FinishMoves DEF RotaInv, RotaTypeOK
  <2> QED
    BY <1>1, <1>3, <2>1, NothingLearnt, IdleCarries, IdleFacts
       DEF rotaTables, rotaHistory, Knowing
<1>4. CASE /\ i = 0 \/ i \in Kept
           /\ IF i = 0 THEN NewRow(m, s) ELSE WriteRow(i, rows[i].ministry, s)
           /\ silent' = TRUE
           /\ several' = IF req[r].multi THEN several \cup {s} ELSE several
           /\ Step(r, next)
  <2>1. Moved(r) /\ req'[r] = next /\ HandlersTypeOK' /\ failures' = failures
    BY <1>4, StepMoves DEF RotaInv, RotaTypeOK
  <2>2. ServingAfter(r, i, s) \subseteq Servants
    BY <1>2 DEF ServingAfter
  <2>3. Carries(req'[r]) /\ req'[r].stage \notin Knowing
    <3> HIDE DEF i
    <3> QED
      BY <1>2, <2>1, <2>2 DEF Carries, Knowing
  <2>4. several \subseteq several' /\ several' \subseteq Servants
    BY <1>2, <1>4 DEF RotaInv, RotaTypeOK
  <2>5. ASSUME "rota" \notin raced'
        PROVE  s \in several' \/ \A j \in Kept \ {i} : rows[j].servant # s
    <3>1. "rota" \notin raced
      BY <2>1, <2>5 DEF Moved
    <3> QED
      BY <1>1, <1>4, <3>1 DEF RotaInv, RotaRequestsOK, KnowsRows
  <2>6. rows' \in [RowIds -> RowRecord \cup {NoRow, GoneRow}] /\ OneRowPerServant'
    <3>1. CASE i = 0
      <4>1. \A j \in Kept : j # i
        BY <3>1, RotaAssumption DEF Kept
      <4> QED
        BY <1>2, <1>4, <2>1, <2>4, <2>5, <3>1, <4>1, RowMade DEF RotaInv, Moved
    <3>2. CASE i # 0
      <4>1. i \in RowIds /\ rows[i].ministry \in Ministries
        BY <1>4, <3>2, KeptRows DEF RotaInv, RowRecord
      <4> QED
        BY <1>2, <1>4, <2>1, <2>4, <2>5, <3>2, <4>1, RowWritten DEF RotaInv, Moved, WriteRow
    <3> QED
      BY <3>1, <3>2
  <2> QED
    BY <1>1, <1>2, <1>4, <2>1, <2>3, <2>4, <2>6, RowsWritten
<1> QED
  BY <1>3, <1>4 DEF WriteWinner

LEMMA EndGenerateOK ==
  ASSUME RotaInv, NEW r \in Requests, EndGenerate(r)
  PROVE  RotaInv'
<1>1. /\ Moved(r) /\ req'[r] = Idle /\ HandlersTypeOK' /\ failures' = failures
      /\ req[r].stage = "choosing" /\ UNCHANGED <<rotaTables, rotaHistory>>
  BY FinishMoves DEF EndGenerate, RotaInv, RotaTypeOK
<1> QED
  BY <1>1, NothingLearnt, IdleCarries, IdleFacts DEF Knowing

-----------------------------------------------------------------------------
(* Swaps and slots.                                                        *)

LEMMA CallSwapOK ==
  ASSUME RotaInv, NEW r \in Requests, NEW i \in RowIds, NEW s \in Servants, CallSwap(r, i, s)
  PROVE  RotaInv'
<1> DEFINE locals == [kind |-> "swap", stage |-> "swapping", touches |-> {"rota", "board"},
                      row |-> i, servant |-> s]
<1>1. /\ \A j \in Kept \ {i} : rows[j].servant # s
      /\ Call(r, locals) /\ UNCHANGED <<rotaTables, rotaHistory>>
  BY DEF CallSwap
<1>2. /\ Moved(r) /\ req'[r] = locals /\ HandlersTypeOK' /\ failures' = failures
      /\ req[r] = Idle
  BY <1>1, CallMoves DEF RotaInv, RotaTypeOK
<1>3. ASSUME NEW q, q = locals PROVE Carries(q)
  BY <1>3 DEF Carries
<1>4. Carries(req'[r])
  BY <1>2, <1>3
<1>5. KnowsRows(r)' /\ KnowsBoard(r)' /\ KnowsVersions(r)'
  BY <1>1, <1>2 DEF KnowsRows, KnowsBoard, KnowsVersions, Kept, rotaTables
<1> QED
  BY <1>1, <1>2, <1>4, <1>5, TablesStay, IdleFacts

\* What follows a write of rows that the board is told of.
LEMMA InvalidatingFacts ==
  ASSUME NEW kind \in {"swap", "slot"}, NEW q,
         q = [kind |-> kind, stage |-> "invalidating", touches |-> {"rota", "board"}]
  PROVE  /\ Carries(q) /\ q.stage \notin Knowing /\ q.stage = "invalidating"
         /\ q.kind = kind /\ "rota" \in q.touches
  BY DEF Carries, Knowing

LEMMA CommitSwapOK ==
  ASSUME RotaInv, NEW r \in Requests, CommitSwap(r)
  PROVE  RotaInv'
<1> DEFINE i == req[r].row
           s == req[r].servant
           next == [kind |-> "swap", stage |-> "invalidating", touches |-> {"rota", "board"}]
<1>1. req[r].stage = "swapping" /\ UNCHANGED <<versions, board, rotaHistory>>
  BY DEF CommitSwap
<1>2. req[r] \in [kind : {"swap"}, stage : {"swapping"}, touches : {{"rota", "board"}},
                  row : RowIds, servant : Servants]
  BY <1>1 DEF RotaInv, RotaRequestsOK, Carries
<1>3. CASE Finish(r) /\ UNCHANGED rows
  <2>1. Moved(r) /\ req'[r] = Idle /\ HandlersTypeOK' /\ failures' = failures
    BY <1>3, FinishMoves DEF RotaInv, RotaTypeOK
  <2> QED
    BY <1>1, <1>3, <2>1, NothingLearnt, IdleCarries, IdleFacts DEF rotaTables, Knowing
<1>4. CASE i \in Kept /\ WriteRow(i, rows[i].ministry, s) /\ Step(r, next)
  <2>1. Moved(r) /\ req'[r] = next /\ HandlersTypeOK' /\ failures' = failures
    BY <1>4, StepMoves DEF RotaInv, RotaTypeOK
  <2>2. i \in RowIds /\ rows[i].ministry \in Ministries /\ s \in Servants
    BY <1>2, <1>4, KeptRows DEF RotaInv, RowRecord
  <2>3. several' = several /\ silent' = silent
    BY <1>1 DEF rotaHistory
  <2>4. "rota" \notin raced' => \A j \in Kept \ {i} : rows[j].servant # s
    BY <1>1, <2>1 DEF RotaInv, RotaRequestsOK, KnowsRows, Moved
  <2>5. rows' \in [RowIds -> RowRecord \cup {NoRow, GoneRow}] /\ OneRowPerServant'
    BY <1>4, <2>1, <2>2, <2>3, <2>4, RowWritten DEF RotaInv, Moved, WriteRow
  <2>6. Carries(req'[r]) /\ req'[r].stage \notin Knowing /\ req'[r].stage = "invalidating"
        /\ "rota" \in req'[r].touches
    BY <2>1, InvalidatingFacts
  <2>7. several' \subseteq Servants
    BY <2>3 DEF RotaInv, RotaTypeOK
  <2> QED
    BY <1>1, <2>1, <2>3, <2>5, <2>6, <2>7, RowsWritten
<1> QED
  BY <1>3, <1>4 DEF CommitSwap

LEMMA CallExchangeOK ==
  ASSUME RotaInv, NEW r \in Requests, NEW i \in RowIds, NEW j \in RowIds, CallExchange(r, i, j)
  PROVE  RotaInv'
<1> DEFINE servantOf == [k \in {i, j} |-> rows[IF k = i THEN j ELSE i].servant]
           locals == [kind |-> "swap", stage |-> "exchanging", touches |-> {"rota", "board"},
                      servantOf |-> servantOf]
<1>1. /\ i \in Kept /\ j \in Kept /\ i < j
      /\ Call(r, locals) /\ UNCHANGED <<rotaTables, rotaHistory>>
  BY DEF CallExchange
<1>2. /\ Moved(r) /\ req'[r] = locals /\ HandlersTypeOK' /\ failures' = failures
      /\ req[r] = Idle
  BY <1>1, CallMoves DEF RotaInv, RotaTypeOK
<1>3. /\ DOMAIN servantOf = {i, j} /\ i # j
      /\ servantOf[i] = rows[j].servant /\ servantOf[j] = rows[i].servant
  BY <1>1, RotaAssumption
<1>4. rows[i].servant \in Servants /\ rows[j].servant \in Servants
  BY <1>1, KeptRows DEF RotaInv, RowRecord
<1> HIDE DEF servantOf
<1>5. ASSUME NEW q, q = locals
      PROVE  /\ Carries(q) /\ q.stage = "exchanging" /\ q.servantOf = servantOf
  BY <1>3, <1>4, <1>5 DEF Carries
<1>6. Carries(req'[r]) /\ req'[r].stage = "exchanging" /\ req'[r].servantOf = servantOf
  BY <1>2, <1>5
<1>7. KnowsRows(r)' /\ KnowsBoard(r)' /\ KnowsVersions(r)'
  BY <1>1, <1>3, <1>6 DEF KnowsRows, KnowsBoard, KnowsVersions, Kept, rotaTables
<1> QED
  BY <1>1, <1>2, <1>6, <1>7, TablesStay, IdleFacts

LEMMA CommitExchangeOK ==
  ASSUME RotaInv, NEW r \in Requests, CommitExchange(r)
  PROVE  RotaInv'
<1> DEFINE servantOf == req[r].servantOf
           both == DOMAIN servantOf
           next == [kind |-> "swap", stage |-> "invalidating", touches |-> {"rota", "board"}]
<1>1. req[r].stage = "exchanging" /\ UNCHANGED <<versions, board, rotaHistory>>
  BY DEF CommitExchange
<1>2. /\ req[r].touches = {"rota", "board"}
      /\ both \subseteq RowIds /\ \A i \in both : servantOf[i] \in Servants
  BY <1>1 DEF RotaInv, RotaRequestsOK, Carries
<1>3. CASE Finish(r) /\ UNCHANGED rows
  <2>1. Moved(r) /\ req'[r] = Idle /\ HandlersTypeOK' /\ failures' = failures
    BY <1>3, FinishMoves DEF RotaInv, RotaTypeOK
  <2> QED
    BY <1>1, <1>3, <2>1, NothingLearnt, IdleCarries, IdleFacts DEF rotaTables, Knowing
<1>4. CASE /\ both \subseteq Kept /\ Step(r, next)
           /\ rows' = [i \in RowIds |->
                        IF i \in both THEN Row(rows[i].ministry, servantOf[i]) ELSE rows[i]]
  <2>1. Moved(r) /\ req'[r] = next /\ HandlersTypeOK' /\ failures' = failures
    BY <1>4, StepMoves DEF RotaInv, RotaTypeOK
  <2>2. several' = several /\ silent' = silent
    BY <1>1 DEF rotaHistory
  <2>3. \A i \in both : Row(rows[i].ministry, servantOf[i]) \in RowRecord
                        /\ Row(rows[i].ministry, servantOf[i]).servant = servantOf[i]
    BY <1>2, <1>4, KeptRows DEF RotaInv, RowRecord, Row
  <2>4. rows' \in [RowIds -> RowRecord \cup {NoRow, GoneRow}]
    BY <1>4, <2>3 DEF RotaInv, RotaTypeOK, RowRecord
  <2>5. \A k \in Kept' : k \in Kept /\ k \in RowIds
                          /\ rows'[k].servant = IF k \in both THEN servantOf[k] ELSE rows[k].servant
    BY <1>4, <2>3 DEF Kept
  <2>6. ASSUME "rota" \notin raced', NEW k \in Kept', NEW l \in Kept', k # l,
               rows'[k].servant = rows'[l].servant
        PROVE  rows'[k].servant \in several'
    <3>1. "rota" \notin raced
      BY <2>1, <2>6 DEF Moved
    <3>2. PICK i \in Kept, j \in Kept :
             /\ i # j /\ both = {i, j}
             /\ servantOf[i] = rows[j].servant /\ servantOf[j] = rows[i].servant
      BY <1>1, <3>1 DEF RotaInv, RotaRequestsOK, KnowsRows
    <3>3. \A x, y \in Kept : x # y /\ rows[x].servant = rows[y].servant =>
             rows[x].servant \in several
      BY <3>1 DEF RotaInv, OneRowPerServant
    <3> DEFINE from(x) == IF x = i THEN j ELSE IF x = j THEN i ELSE x
    <3>4. \A x \in Kept' : from(x) \in Kept /\ rows'[x].servant = rows[from(x)].servant
      BY <2>5, <3>2
    <3>5. from(k) # from(l)
      BY <2>6, <3>2
    <3> QED
      BY <2>2, <2>6, <3>3, <3>4, <3>5
  <2>7. Carries(req'[r]) /\ req'[r].stage \notin Knowing /\ req'[r].stage = "invalidating"
        /\ "rota" \in req'[r].touches
    BY <2>1, InvalidatingFacts
  <2>8. several' \subseteq Servants
    BY <2>2 DEF RotaInv, RotaTypeOK
  <2>9. OneRowPerServant'
    BY <2>6 DEF OneRowPerServant
  <2> QED
    BY <1>1, <2>1, <2>2, <2>4, <2>7, <2>8, <2>9, RowsWritten
<1>5. \/ Finish(r) /\ UNCHANGED rows
      \/ /\ both \subseteq Kept /\ Step(r, next)
         /\ rows' = [i \in RowIds |->
                       IF i \in both THEN Row(rows[i].ministry, servantOf[i]) ELSE rows[i]]
  BY DEF CommitExchange
<1> QED
  BY <1>3, <1>4, <1>5

LEMMA CallSlotWriteOK ==
  ASSUME RotaInv, NEW r \in Requests, CallSlotWrite(r)
  PROVE  RotaInv'
<1> DEFINE locals == [kind |-> "slot", stage |-> "invalidating", touches |-> {"rota", "board"}]
<1>1. /\ Call(r, locals) /\ UNCHANGED <<versions, board, rotaHistory>>
  BY DEF CallSlotWrite
<1>2. /\ Moved(r) /\ req'[r] = locals /\ HandlersTypeOK' /\ failures' = failures
  BY <1>1, CallMoves DEF RotaInv, RotaTypeOK
<1>3. /\ Carries(req'[r]) /\ req'[r].stage \notin Knowing /\ req'[r].stage = "invalidating"
      /\ "rota" \in req'[r].touches
  BY <1>2, InvalidatingFacts
<1>4. several' = several /\ silent' = silent /\ several' \subseteq Servants
  BY <1>1 DEF rotaHistory, RotaInv, RotaTypeOK
<1>5. raced \subseteq raced'
  BY <1>2 DEF Moved
<1>6. rows' \in [RowIds -> RowRecord \cup {NoRow, GoneRow}] /\ OneRowPerServant'
  <2>1. ASSUME NEW s \in Servants, ~ OnRota(s), NewRow(Shown, s)
        PROVE  rows' \in [RowIds -> RowRecord \cup {NoRow, GoneRow}] /\ OneRowPerServant'
    BY <1>4, <1>5, <2>1, RowMade, RotaAssumption DEF RotaInv, OnRota
  <2>2. ASSUME NEW i \in RowsOf(Shown), rows' = [rows EXCEPT ![i] = GoneRow]
        PROVE  rows' \in [RowIds -> RowRecord \cup {NoRow, GoneRow}] /\ OneRowPerServant'
    <3>1. rows \in [RowIds -> RowRecord \cup {NoRow, GoneRow}]
      BY DEF RotaInv, RotaTypeOK, RowRecord
    <3>2. rows' \in [RowIds -> RowRecord \cup {NoRow, GoneRow}]
      BY <2>2, <3>1
    <3>3. \A j \in Kept' : j \in Kept /\ rows'[j] = rows[j]
      BY <2>2, <3>1 DEF Kept, RowsOf
    <3> QED
      BY <1>4, <1>5, <3>2, <3>3 DEF RotaInv, OneRowPerServant
  <2> QED
    BY <2>1, <2>2 DEF CallSlotWrite
<1> QED
  BY <1>1, <1>2, <1>3, <1>4, <1>6, RowsWritten

\* A step that leaves the rows alone.
LEMMA RowsStay ==
  ASSUME RotaInv, NEW r \in Requests, Moved(r), HandlersTypeOK', failures' = failures,
         UNCHANGED <<rows, several>>,
         versions' \in [VersionNumbers -> {"none", "DRAFT", "PUBLISHED", "ARCHIVED"}],
         board' \in (SUBSET Servants) \cup {NoBoard}, silent' \in BOOLEAN,
         Carries(req'[r]), KnowsRows(r)',
         \A q \in Requests : KnowsBoard(q)' /\ KnowsVersions(q)',
         OnePublished', BoardIsCurrent'
  PROVE  RotaInv'
<1>1. rows' = rows /\ several' = several
  OBVIOUS
<1>2. RotaTypeOK'
  BY <1>1 DEF RotaInv, RotaTypeOK, VersionNumbers
<1>3. ASSUME NEW q \in Requests \ {r}
      PROVE  Carries(req'[q]) /\ KnowsRows(q)'
  <2>1. req'[q] = req[q] /\ raced \subseteq raced'
    BY DEF Moved
  <2>2. Carries(req[q]) /\ KnowsRows(q)
    BY DEF RotaInv, RotaRequestsOK
  <2>3. KnowsRows(q)'
    BY <1>1, <2>1, <2>2 DEF KnowsRows, OnRota, Kept, Existing
  <2> QED
    BY <2>1, <2>2, <2>3
<1>4. RotaRequestsOK'
  BY <1>3 DEF RotaRequestsOK
<1>5. OneRowPerServant'
  BY <1>1 DEF RotaInv, OneRowPerServant, Kept, Moved
<1> QED
  BY <1>2, <1>4, <1>5 DEF RotaInv, Moved

\* What others know of the board and of the versions while these stay.
LEMMA BoardsKnown ==
  ASSUME RotaInv, NEW r \in Requests, NEW q \in Requests \ {r}, Moved(r),
         rows' = rows, silent' = silent
  PROVE  KnowsBoard(q)'
<1>1. req'[q] = req[q] /\ raced \subseteq raced' /\ KnowsBoard(q)
  BY DEF Moved, RotaInv, RotaRequestsOK
<1> QED
  BY <1>1 DEF KnowsBoard, Showing, RowsOf, Kept

LEMMA VersionsKnown ==
  ASSUME RotaInv, NEW r \in Requests, NEW q \in Requests \ {r}, Moved(r),
         Published' \subseteq Published
  PROVE  KnowsVersions(q)'
<1>1. req'[q] = req[q] /\ raced \subseteq raced' /\ KnowsVersions(q)
  BY DEF Moved, RotaInv, RotaRequestsOK
<1> QED
  BY <1>1 DEF KnowsVersions

LEMMA VersionsUnchanged ==
  ASSUME RotaInv, NEW r \in Requests, Moved(r), versions' = versions
  PROVE  /\ versions' \in [VersionNumbers -> {"none", "DRAFT", "PUBLISHED", "ARCHIVED"}]
         /\ Published' = Published /\ OnePublished'
<1>1. versions' \in [VersionNumbers -> {"none", "DRAFT", "PUBLISHED", "ARCHIVED"}]
  BY DEF RotaInv, RotaTypeOK
<1>2. Published' = Published
  BY DEF Published, VersionNumbers
<1> QED
  BY <1>1, <1>2 DEF RotaInv, OnePublished, Moved

-----------------------------------------------------------------------------
(* The board.                                                              *)

LEMMA InvalidateOK ==
  ASSUME RotaInv, NEW r \in Requests, Invalidate(r)
  PROVE  RotaInv'
<1>1. /\ Moved(r) /\ req'[r] = Idle /\ HandlersTypeOK' /\ failures' = failures
      /\ rows' = rows /\ versions' = versions /\ several' = several /\ silent' = silent
      /\ board' = NoBoard
  BY FinishMoves DEF Invalidate, RotaInv, RotaTypeOK, rotaHistory
<1>2. Carries(req'[r]) /\ KnowsRows(r)' /\ KnowsBoard(r)' /\ KnowsVersions(r)'
  BY <1>1, IdleCarries, IdleFacts DEF KnowsRows, KnowsBoard, KnowsVersions
<1>3. \A q \in Requests : KnowsBoard(q)' /\ KnowsVersions(q)'
  BY <1>1, <1>2, BoardsKnown, VersionsKnown, VersionsUnchanged
<1>4. BoardIsCurrent'
  BY <1>1 DEF BoardIsCurrent
<1>5. board' \in (SUBSET Servants) \cup {NoBoard} /\ silent' \in BOOLEAN
  BY <1>1 DEF RotaInv, RotaTypeOK
<1> QED
  BY <1>1, <1>2, <1>3, <1>4, <1>5, RowsStay, VersionsUnchanged

LEMMA CallBoardOK ==
  ASSUME RotaInv, NEW r \in Requests, CallBoard(r)
  PROVE  RotaInv'
<1> DEFINE locals == [kind |-> "board", stage |-> "filling", touches |-> {"board"},
                      shown |-> Showing]
<1>1. /\ board = NoBoard /\ silent' = (silent /\ InFlight("filling"))
      /\ Call(r, locals)
      /\ rows' = rows /\ versions' = versions /\ board' = board /\ several' = several
  BY DEF CallBoard, rotaTables
<1>2. /\ Moved(r) /\ req'[r] = locals /\ HandlersTypeOK' /\ failures' = failures
      /\ req[r] = Idle
  BY <1>1, CallMoves DEF RotaInv, RotaTypeOK
<1>3. Showing \subseteq Servants /\ Showing' = Showing
  <2>1. \A i \in RowsOf(Shown) : rows[i].servant \in Servants
    BY KeptRows DEF RowsOf, RotaInv, RowRecord
  <2> QED
    BY <1>1, <2>1 DEF Showing, RowsOf, Kept
<1>4. ASSUME NEW q, q = locals
      PROVE  Carries(q) /\ q.stage = "filling" /\ q.shown = Showing
  <2> HIDE DEF Showing
  <2> QED
    BY <1>3, <1>4 DEF Carries
<1>5. Carries(req'[r]) /\ req'[r].stage = "filling" /\ req'[r].shown = Showing
  BY <1>2, <1>4
<1>6. KnowsRows(r)' /\ KnowsBoard(r)' /\ KnowsVersions(r)'
  BY <1>3, <1>5 DEF KnowsRows, KnowsBoard, KnowsVersions
<1>7. ASSUME NEW q \in Requests \ {r} PROVE KnowsBoard(q)'
  <2>1. req'[q] = req[q] /\ raced \subseteq raced' /\ KnowsBoard(q)
    BY <1>2 DEF Moved, RotaInv, RotaRequestsOK
  <2> SUFFICES ASSUME req[q].stage = "filling", ~ silent', "board" \notin raced'
               PROVE  req[q].shown = Showing'
    BY <2>1 DEF KnowsBoard
  <2>2. ~ silent
    BY <1>1 DEF InFlight
  <2> QED
    BY <1>3, <2>1, <2>2 DEF KnowsBoard
<1>8. \A q \in Requests : KnowsBoard(q)' /\ KnowsVersions(q)'
  BY <1>1, <1>2, <1>6, <1>7, VersionsKnown, VersionsUnchanged
<1>9. BoardIsCurrent'
  BY <1>1 DEF BoardIsCurrent
<1>10. silent' \in BOOLEAN
  BY <1>1 DEF RotaInv, RotaTypeOK
<1> QED
  BY <1>1, <1>2, <1>5, <1>6, <1>8, <1>9, <1>10, RowsStay, VersionsUnchanged
     DEF RotaInv, RotaTypeOK

LEMMA FillBoardOK ==
  ASSUME RotaInv, NEW r \in Requests, FillBoard(r)
  PROVE  RotaInv'
<1>1. /\ Moved(r) /\ req'[r] = Idle /\ HandlersTypeOK' /\ failures' = failures
      /\ rows' = rows /\ versions' = versions /\ several' = several /\ silent' = silent
      /\ req[r].stage = "filling" /\ board' = req[r].shown
  BY FinishMoves DEF FillBoard, RotaInv, RotaTypeOK, rotaHistory
<1>2. Carries(req'[r]) /\ KnowsRows(r)' /\ KnowsBoard(r)' /\ KnowsVersions(r)'
  BY <1>1, IdleCarries, IdleFacts DEF KnowsRows, KnowsBoard, KnowsVersions
<1>3. \A q \in Requests : KnowsBoard(q)' /\ KnowsVersions(q)'
  BY <1>1, <1>2, BoardsKnown, VersionsKnown, VersionsUnchanged
<1>4. board' \subseteq Servants /\ KnowsBoard(r)
  BY <1>1 DEF RotaInv, RotaRequestsOK, Carries
<1>5. BoardIsCurrent'
  <2>1. Showing' = Showing
    BY <1>1 DEF Showing, RowsOf, Kept
  <2> QED
    BY <1>1, <1>4, <2>1 DEF BoardIsCurrent, KnowsBoard, Moved
<1> QED
  BY <1>1, <1>2, <1>3, <1>4, <1>5, RowsStay, VersionsUnchanged DEF RotaInv, RotaTypeOK

LEMMA BoardExpiresOK ==
  ASSUME RotaInv, BoardExpires
  PROVE  RotaInv'
<1>1. /\ rows' = rows /\ versions' = versions /\ req' = req /\ calls' = calls
      /\ failures' = failures /\ raced' = raced /\ several' = several /\ silent' = silent
      /\ board' = NoBoard
  BY DEF BoardExpires, rotaHistory
<1>2. RotaTypeOK'
  <2>1. HandlersTypeOK'
    <3>1. /\ \A q \in Requests : req[q].kind = "none" <=> req[q] = Idle
          /\ calls \in 0..MaxCalls /\ failures \in 0..MaxFailures
      BY DEF RotaInv, RotaTypeOK, HandlersTypeOK
    <3>2. \A q \in Requests : req'[q].kind = "none" <=> req'[q] = Idle
      BY <1>1, <3>1
    <3> QED
      BY <1>1, <3>1, <3>2 DEF HandlersTypeOK
  <2> QED
    BY <1>1, <2>1 DEF RotaInv, RotaTypeOK, VersionNumbers
<1>3. ReqFn' /\ RacesKnown'
  BY <1>1 DEF RotaInv, ReqFn, RacesKnown
<1>4. ASSUME NEW q \in Requests
      PROVE  Carries(req'[q]) /\ KnowsRows(q)' /\ KnowsBoard(q)' /\ KnowsVersions(q)'
  <2>1. Carries(req[q]) /\ KnowsRows(q) /\ KnowsBoard(q) /\ KnowsVersions(q)
    BY DEF RotaInv, RotaRequestsOK
  <2>2. KnowsRows(q)'
    BY <1>1, <2>1 DEF KnowsRows, OnRota, Kept, Existing
  <2>3. KnowsBoard(q)' /\ KnowsVersions(q)'
    BY <1>1, <2>1 DEF KnowsBoard, KnowsVersions, Showing, RowsOf, Kept, Published, VersionNumbers
  <2> QED
    BY <1>1, <2>1, <2>2, <2>3
<1>5. OnePublished' /\ OneRowPerServant' /\ BoardIsCurrent'
  BY <1>1 DEF RotaInv, OnePublished, Published, VersionNumbers, OneRowPerServant, Kept,
              BoardIsCurrent
<1> QED
  BY <1>2, <1>3, <1>4, <1>5 DEF RotaInv, RotaRequestsOK

\* A step of a request that has nothing to tell the board.
LEMMA BoardStays ==
  ASSUME RotaInv, NEW r \in Requests, Moved(r), failures' = failures,
         rows' = rows, board' = board, silent' = silent,
         req[r].stage # "invalidating"
  PROVE  BoardIsCurrent'
<1> SUFFICES ASSUME ~ silent, "board" \notin raced, failures = 0
             PROVE  board' = NoBoard \/ board' = Showing' \/ InFlight("invalidating")'
  BY DEF BoardIsCurrent, Moved
<1>1. board \in {NoBoard, Showing} \/ InFlight("invalidating")
  BY DEF RotaInv, BoardIsCurrent
<1>2. Showing' = Showing
  BY DEF Showing, RowsOf, Kept
<1>3. InFlight("invalidating") => InFlight("invalidating")'
  BY DEF InFlight, Moved
<1> QED
  BY <1>1, <1>2, <1>3

-----------------------------------------------------------------------------
(* Versions.                                                               *)

LEMMA CallDraftOK ==
  ASSUME RotaInv, NEW r \in Requests, CallDraft(r)
  PROVE  RotaInv'
<1> DEFINE locals == [kind |-> "draft", stage |-> "drafting", touches |-> {},
                      number |-> Last + 1]
<1>1. /\ Moved(r) /\ req'[r] = locals /\ HandlersTypeOK' /\ failures' = failures
      /\ req[r] = Idle /\ Last + 1 \in VersionNumbers
      /\ UNCHANGED <<rotaTables, rotaHistory>>
  BY CallMoves DEF CallDraft, RotaInv, RotaTypeOK
<1>2. ASSUME NEW q, q = locals PROVE Carries(q) /\ q.stage \notin Knowing
  <2> HIDE DEF Last
  <2> QED
    BY <1>1, <1>2 DEF Carries, Knowing
<1>3. Carries(req'[r]) /\ req'[r].stage \notin Knowing
  BY <1>1, <1>2
<1> QED
  BY <1>1, <1>3, NothingLearnt, IdleFacts

LEMMA CommitDraftOK ==
  ASSUME RotaInv, NEW r \in Requests, CommitDraft(r)
  PROVE  RotaInv'
<1> DEFINE n == req[r].number
<1>1. /\ Moved(r) /\ req'[r] = Idle /\ HandlersTypeOK' /\ failures' = failures
      /\ rows' = rows /\ board' = board /\ several' = several /\ silent' = silent
      /\ req[r].stage = "drafting"
      /\ versions' = IF versions[n] = "none" THEN [versions EXCEPT ![n] = "DRAFT"] ELSE versions
  BY FinishMoves DEF CommitDraft, RotaInv, RotaTypeOK, rotaHistory
<1>2. n \in VersionNumbers
  BY <1>1 DEF RotaInv, RotaRequestsOK, Carries
<1>3. /\ versions' \in [VersionNumbers -> {"none", "DRAFT", "PUBLISHED", "ARCHIVED"}]
      /\ Published' = Published
  BY <1>1, <1>2 DEF RotaInv, RotaTypeOK, Published
<1>4. Carries(req'[r]) /\ KnowsRows(r)' /\ KnowsBoard(r)' /\ KnowsVersions(r)'
  BY <1>1, IdleCarries, IdleFacts DEF KnowsRows, KnowsBoard, KnowsVersions
<1>5. \A q \in Requests : KnowsBoard(q)' /\ KnowsVersions(q)'
  BY <1>1, <1>3, <1>4, BoardsKnown, VersionsKnown
<1>6. OnePublished'
  BY <1>1, <1>3 DEF RotaInv, OnePublished, Moved
<1>7. BoardIsCurrent'
  BY <1>1, BoardStays
<1>8. board' \in (SUBSET Servants) \cup {NoBoard} /\ silent' \in BOOLEAN
  BY <1>1 DEF RotaInv, RotaTypeOK
<1> QED
  BY <1>1, <1>3, <1>4, <1>5, <1>6, <1>7, <1>8, RowsStay

LEMMA CallPublishOK ==
  ASSUME RotaInv, NEW r \in Requests, NEW v \in VersionNumbers, CallPublish(r, v)
  PROVE  RotaInv'
<1> DEFINE locals == [kind |-> "publish", stage |-> "publishing", touches |-> {"published"},
                      number |-> v, archived |-> Published]
<1>1. /\ Moved(r) /\ req'[r] = locals /\ HandlersTypeOK' /\ failures' = failures
      /\ req[r] = Idle /\ UNCHANGED <<rotaTables, rotaHistory>>
  BY CallMoves DEF CallPublish, RotaInv, RotaTypeOK
<1>2. Published \subseteq VersionNumbers /\ Published' = Published
  BY <1>1 DEF Published, rotaTables, VersionNumbers
<1>3. ASSUME NEW q, q = locals
      PROVE  Carries(q) /\ q.stage = "publishing" /\ q.archived = Published
  <2> HIDE DEF Published
  <2> QED
    BY <1>2, <1>3 DEF Carries
<1>4. Carries(req'[r]) /\ req'[r].stage = "publishing" /\ req'[r].archived = Published
  BY <1>1, <1>3
<1>5. KnowsRows(r)' /\ KnowsBoard(r)' /\ KnowsVersions(r)'
  BY <1>2, <1>4 DEF KnowsRows, KnowsBoard, KnowsVersions
<1> QED
  BY <1>1, <1>4, <1>5, TablesStay, IdleFacts

\* A publication archives what was published when it began, which is all there
\* is unless it has raced.
LEMMA CommitPublishOK ==
  ASSUME RotaInv, NEW r \in Requests, CommitPublish(r)
  PROVE  RotaInv'
<1> DEFINE n == req[r].number
           archived == req[r].archived
<1>1. /\ Moved(r) /\ req'[r] = Idle /\ HandlersTypeOK' /\ failures' = failures
      /\ rows' = rows /\ board' = board /\ several' = several /\ silent' = silent
      /\ req[r].stage = "publishing"
      /\ versions' = [v \in VersionNumbers |->
                        IF v = n THEN "PUBLISHED"
                        ELSE IF v \in archived THEN "ARCHIVED" ELSE versions[v]]
  BY FinishMoves DEF CommitPublish, RotaInv, RotaTypeOK, rotaHistory
<1>2. n \in VersionNumbers /\ req[r].touches = {"published"} /\ KnowsVersions(r)
  BY <1>1 DEF RotaInv, RotaRequestsOK, Carries
<1>3. versions' \in [VersionNumbers -> {"none", "DRAFT", "PUBLISHED", "ARCHIVED"}]
  BY <1>1 DEF RotaInv, RotaTypeOK
<1>4. ASSUME "published" \notin raced' PROVE Published' = {n}
  <2>1. Published \subseteq archived
    BY <1>1, <1>2, <1>4 DEF KnowsVersions, Moved
  <2> QED
    BY <1>1, <1>2, <2>1 DEF Published, VersionNumbers
<1>5. Carries(req'[r]) /\ KnowsRows(r)' /\ KnowsBoard(r)' /\ KnowsVersions(r)'
  BY <1>1, IdleCarries, IdleFacts DEF KnowsRows, KnowsBoard, KnowsVersions
<1>6. ASSUME NEW q \in Requests \ {r} PROVE KnowsVersions(q)'
  <2> SUFFICES ASSUME req[q].stage = "publishing" PROVE "published" \in raced'
    BY <1>1 DEF KnowsVersions, Moved
  <2>1. "published" \in req[q].touches
    BY DEF RotaInv, RotaRequestsOK, Carries
  <2> QED
    BY <1>1, <1>2, <2>1 DEF RotaInv, RacesKnown, Moved
<1>7. \A q \in Requests : KnowsBoard(q)' /\ KnowsVersions(q)'
  BY <1>1, <1>5, <1>6, BoardsKnown
<1>8. OnePublished'
  <2>1. Cardinality({n}) = 1
    BY FS_Singleton
  <2> QED
    BY <1>4, <2>1 DEF OnePublished
<1>9. BoardIsCurrent'
  BY <1>1, BoardStays
<1>10. board' \in (SUBSET Servants) \cup {NoBoard} /\ silent' \in BOOLEAN
  BY <1>1 DEF RotaInv, RotaTypeOK
<1> QED
  BY <1>1, <1>3, <1>5, <1>7, <1>8, <1>9, <1>10, RowsStay

-----------------------------------------------------------------------------
(* All actions of the rota.                                                *)

LEMMA RotaCallOK ==
  ASSUME RotaInv, NEW r \in Requests, RotaCall(r)
  PROVE  RotaInv'
  BY CallCreateOK, CallGenerateOK, CallSwapOK, CallExchangeOK, CallSlotWriteOK, CallBoardOK,
     CallDraftOK, CallPublishOK DEF RotaCall

LEMMA RotaStepOK ==
  ASSUME RotaInv, NEW r \in Requests, RotaStep(r)
  PROVE  RotaInv'
<1>1. ASSUME NEW m \in Ministries, NEW s \in Servants, Win(r, m, s) PROVE RotaInv'
  BY <1>1, WinOK
<1> QED
  BY <1>1, CommitCreateOK, ReadRowsOK, ChooseOK, WriteWinnerOK, EndGenerateOK, CommitSwapOK,
     CommitExchangeOK, InvalidateOK, FillBoardOK, CommitDraftOK, CommitPublishOK DEF RotaStep

LEMMA RotaInitOK == ASSUME RotaInit PROVE RotaInv
<1>1. /\ req = [r \in Requests |-> Idle] /\ calls = 0 /\ failures = 0 /\ raced = {}
      /\ board = NoBoard /\ several = {} /\ silent = FALSE
      /\ versions = [v \in VersionNumbers |-> IF v < MaxVersions THEN "DRAFT" ELSE "none"]
  BY DEF RotaInit, HandlersInit
<1>2. PICK s \in Servants \cup {Nobody} :
         rows = [i \in RowIds |-> IF i = 1 /\ s # Nobody THEN Row(Shown, s) ELSE NoRow]
  BY DEF RotaInit
<1>3. rows \in [RowIds -> RowRecord \cup {NoRow, GoneRow}]
  BY <1>2, RotaAssumption DEF Row, RowRecord
<1>4. HandlersTypeOK
  BY <1>1, IdleFacts, HandlersAssumption DEF HandlersTypeOK
<1>5. RotaTypeOK
  BY <1>1, <1>3, <1>4 DEF RotaTypeOK, RowRecord
<1>6. ReqFn /\ RacesKnown
  BY <1>1, IdleFacts DEF ReqFn, RacesKnown
<1>7. RotaRequestsOK
  BY <1>1, IdleCarries, IdleFacts DEF RotaRequestsOK, KnowsRows, KnowsBoard, KnowsVersions
<1>8. OnePublished
  <2>1. Published = {}
    BY <1>1 DEF Published
  <2> QED
    BY <2>1, FS_EmptySet DEF OnePublished
<1>9. OneRowPerServant
  BY <1>2 DEF OneRowPerServant, Kept
<1>10. BoardIsCurrent
  BY <1>1 DEF BoardIsCurrent
<1> QED
  BY <1>5, <1>6, <1>7, <1>8, <1>9, <1>10 DEF RotaInv

\* What the actions of the rota do to the requests, for the proofs about tasks.
RotaKinds == {"create", "generate", "swap", "slot", "board", "draft", "publish"}
RotaStages == {"creating", "readingRows", "choosing", "writing", "swapping", "exchanging",
               "invalidating", "filling", "drafting", "publishing"}
OfRota(q) == q = Idle \/ (q.kind \in RotaKinds /\ q.stage \in RotaStages)

LEMMA RotaCallMoves ==
  ASSUME RotaInv, NEW r \in Requests, RotaCall(r)
  PROVE  Moved(r) /\ failures' = failures /\ OfRota(req[r]) /\ OfRota(req'[r])
<1>1. ASSUME NEW locals, Call(r, locals), locals.kind \in RotaKinds, locals.stage \in RotaStages
      PROVE  Moved(r) /\ failures' = failures /\ OfRota(req[r]) /\ OfRota(req'[r])
  <2>1. locals.kind # "none"
    BY <1>1 DEF RotaKinds
  <2> QED
    BY <1>1, <2>1, CallMoves DEF RotaInv, RotaTypeOK, OfRota
<1>2. ASSUME NEW m \in Ministries, NEW s \in Servants, CallCreate(r, m, s)
      PROVE  Moved(r) /\ failures' = failures /\ OfRota(req[r]) /\ OfRota(req'[r])
  BY <1>1, <1>2 DEF CallCreate, RotaKinds, RotaStages
<1>3. CASE CallGenerate(r)
  BY <1>1, <1>3 DEF CallGenerate, RotaKinds, RotaStages
<1>4. ASSUME NEW i \in RowIds, NEW s \in Servants, CallSwap(r, i, s)
      PROVE  Moved(r) /\ failures' = failures /\ OfRota(req[r]) /\ OfRota(req'[r])
  BY <1>1, <1>4 DEF CallSwap, RotaKinds, RotaStages
<1>5. ASSUME NEW i \in RowIds, NEW j \in RowIds, CallExchange(r, i, j)
      PROVE  Moved(r) /\ failures' = failures /\ OfRota(req[r]) /\ OfRota(req'[r])
  <2> DEFINE locals == [kind |-> "swap", stage |-> "exchanging", touches |-> {"rota", "board"},
                        servantOf |-> [k \in {i, j} |-> rows[IF k = i THEN j ELSE i].servant]]
  <2>1. Call(r, locals)
    BY <1>5 DEF CallExchange
  <2>2. locals.kind \in RotaKinds /\ locals.stage \in RotaStages
    BY DEF RotaKinds, RotaStages
  <2> HIDE DEF locals
  <2> QED
    BY <1>1, <2>1, <2>2
<1>6. CASE CallSlotWrite(r)
  BY <1>1, <1>6 DEF CallSlotWrite, RotaKinds, RotaStages
<1>7. CASE CallBoard(r)
  BY <1>1, <1>7 DEF CallBoard, RotaKinds, RotaStages
<1>8. CASE CallDraft(r)
  BY <1>1, <1>8 DEF CallDraft, RotaKinds, RotaStages
<1>9. ASSUME NEW v \in VersionNumbers, CallPublish(r, v)
      PROVE  Moved(r) /\ failures' = failures /\ OfRota(req[r]) /\ OfRota(req'[r])
  BY <1>1, <1>9 DEF CallPublish, RotaKinds, RotaStages
<1> QED
  BY <1>2, <1>3, <1>4, <1>5, <1>6, <1>7, <1>8, <1>9 DEF RotaCall

LEMMA RotaStepMoves ==
  ASSUME RotaInv, NEW r \in Requests, RotaStep(r)
  PROVE  Moved(r) /\ failures' = failures /\ OfRota(req[r]) /\ OfRota(req'[r])
<1>1. req[r].stage \in RotaStages
  BY DEF RotaStages, RotaStep, CommitCreate, ReadRows, Choose, Win, WriteWinner, EndGenerate, CommitSwap,
         CommitExchange, Invalidate, FillBoard, CommitDraft, CommitPublish
<1>2. OfRota(req[r])
  <2>1. Carries(req[r])
    BY DEF RotaInv, RotaRequestsOK
  <2> QED
    BY <1>1, <2>1 DEF Carries, OfRota, RotaKinds, RotaStages
<1>3. ASSUME NEW locals, Step(r, locals), locals.kind \in RotaKinds, locals.stage \in RotaStages
      PROVE  Moved(r) /\ failures' = failures /\ OfRota(req'[r])
  <2>1. locals.kind # "none"
    BY <1>3 DEF RotaKinds
  <2> QED
    BY <1>3, <2>1, StepMoves DEF RotaInv, RotaTypeOK, OfRota
<1>4. ASSUME Finish(r) PROVE Moved(r) /\ failures' = failures /\ OfRota(req'[r])
  BY <1>4, FinishMoves DEF RotaInv, RotaTypeOK, OfRota
<1>5. ASSUME NEW force \in BOOLEAN, NEW multi \in BOOLEAN, ReadRows(r, force, multi)
      PROVE  Moved(r) /\ failures' = failures /\ OfRota(req'[r])
  <2> DEFINE locals == [kind |-> "generate", stage |-> "choosing", touches |-> {"rota"},
                        force |-> force, multi |-> multi, found |-> [i \in Kept |-> rows[i]],
                        todo |-> Ministries, serving |-> {rows[i].servant : i \in Kept}]
  <2>1. Step(r, locals)
    BY <1>5 DEF ReadRows
  <2>2. locals.kind \in RotaKinds /\ locals.stage \in RotaStages
    BY DEF RotaKinds, RotaStages
  <2> HIDE DEF locals
  <2> QED
    BY <1>3, <2>1, <2>2
<1>6. ASSUME NEW m \in Ministries, Choose(r, m)
      PROVE  Moved(r) /\ failures' = failures /\ OfRota(req'[r])
  <2> DEFINE locals == [req[r] EXCEPT !.todo = @ \ {m}]
  <2>1. Step(r, locals) /\ req[r].stage = "choosing"
    BY <1>6 DEF Choose, Skip
  <2>2. req[r] \in [kind : {"generate"}, stage : {"choosing"}, touches : {{"rota"}},
                    force : BOOLEAN, multi : BOOLEAN, found : Founds,
                    todo : SUBSET Ministries, serving : SUBSET Servants]
    BY <2>1 DEF RotaInv, RotaRequestsOK, Carries
  <2>3. locals.kind = "generate" /\ locals.stage = "choosing"
    BY <2>2
  <2> HIDE DEF locals
  <2> QED
    BY <1>3, <2>1, <2>3 DEF RotaKinds, RotaStages
<1>7. ASSUME NEW m \in Ministries, NEW s \in Servants, Win(r, m, s)
      PROVE  Moved(r) /\ failures' = failures /\ OfRota(req'[r])
  BY <1>3, <1>7 DEF Win, RotaKinds, RotaStages
<1>8. CASE WriteWinner(r)
  <2>1. ASSUME NEW todo, NEW serving,
               Step(r, [kind |-> "generate", stage |-> "choosing", touches |-> {"rota"},
                        force |-> req[r].force, multi |-> req[r].multi,
                        found |-> req[r].found, todo |-> todo, serving |-> serving])
        PROVE  Moved(r) /\ failures' = failures /\ OfRota(req'[r])
    BY <1>3, <2>1 DEF RotaKinds, RotaStages
  <2> QED
    BY <1>2, <1>4, <1>8, <2>1 DEF WriteWinner
<1>9. CASE EndGenerate(r)
  BY <1>2, <1>4, <1>9 DEF EndGenerate
<1>10. CASE CommitSwap(r)
  BY <1>2, <1>3, <1>4, <1>10 DEF CommitSwap, RotaKinds, RotaStages
<1>11. CASE CommitExchange(r)
  BY <1>2, <1>3, <1>4, <1>11 DEF CommitExchange, RotaKinds, RotaStages
<1>12. CASE CommitCreate(r) \/ Invalidate(r) \/ FillBoard(r) \/ CommitDraft(r) \/ CommitPublish(r)
  BY <1>2, <1>4, <1>12 DEF CommitCreate, Invalidate, FillBoard, CommitDraft, CommitPublish
<1> QED
  BY <1>2, <1>5, <1>6, <1>7, <1>8, <1>9, <1>10, <1>11, <1>12 DEF RotaStep

-----------------------------------------------------------------------------
(* The pool a winner is taken from.                                        *)

\* The candidate with the least load is in the pool, unless the cap leaves others
\* only: the fairness rules never leave an empty list, of which generateBetween
\* takes the first without asking.
THEOREM PoolIsNotEmpty ==
  ASSUME NEW allowed, allowed # {}, NEW load \in [allowed -> Nat], NEW cap
  PROVE  FairPool(allowed, load, cap) \subseteq allowed /\ FairPool(allowed, load, cap) # {}
<1> DEFINE numbers == {load[s] : s \in allowed}
           even == {s \in allowed : \A t \in allowed : load[s] <= load[t] + 1}
<1>1. PICK n \in numbers : \A k \in numbers : n <= k
  BY LeastNatural
<1>2. PICK s \in allowed : load[s] = n
  BY <1>1
<1>3. ASSUME NEW t \in allowed PROVE load[s] <= load[t] + 1
  <2>1. load[s] \in Nat /\ load[t] \in Nat /\ load[s] <= load[t]
    BY <1>1, <1>2
  <2> QED
    BY <2>1
<1>4. s \in even
  BY <1>3
<1> QED
  BY <1>4 DEF FairPool

\* Whoever of the pool gets a row, nobody comes to be more than two rows ahead of
\* anybody, if nobody was before: what keeping to the least loaded and the one
\* row above them is for, when a period is filled from the same candidates.
Level(allowed, load) == \A s, t \in allowed : load[s] <= load[t] + 2

THEOREM PoolKeepsLevel ==
  ASSUME NEW allowed, NEW load \in [allowed -> Nat], NEW cap,
         NEW s \in FairPool(allowed, load, cap), Level(allowed, load)
  PROVE  Level(allowed, [load EXCEPT ![s] = @ + 1])
<1>1. s \in allowed /\ \A t \in allowed : load[s] <= load[t] + 1
  BY DEF FairPool
<1> SUFFICES ASSUME NEW p \in allowed, NEW q \in allowed
             PROVE  [load EXCEPT ![s] = @ + 1][p] <= [load EXCEPT ![s] = @ + 1][q] + 2
  BY DEF Level
<1>2. /\ load[p] \in Nat /\ load[q] \in Nat /\ load[p] <= load[q] + 2
      /\ p = s => load[p] <= load[q] + 1
  BY <1>1 DEF Level
<1> QED
  BY <1>2

LEMMA BestIsThere ==
  ASSUME NEW pool, pool \subseteq Servants, pool # {}, NEW load \in Loads, NEW score \in Scores
  PROVE  Best(pool, score, load) # {}
<1> DEFINE high == {s \in pool : score[s] = 1}
<1>1. PICK top : /\ top \subseteq pool /\ top # {}
                 /\ \A s \in top, t \in pool : score[s] >= score[t]
                 /\ \A s \in top, t \in pool \ top : score[s] > score[t]
  <2>1. \A s \in pool : score[s] \in {0, 1}
    BY DEF Scores
  <2> DEFINE Top(top) == /\ top \subseteq pool /\ top # {}
                         /\ \A s \in top, t \in pool : score[s] >= score[t]
                         /\ \A s \in top, t \in pool \ top : score[s] > score[t]
  <2>2. CASE high = {}
    <3>1. Top(pool)
      BY <2>1, <2>2
    <3> QED
      BY <3>1
  <2>3. CASE high # {}
    <3>1. \A s \in high : score[s] = 1
      OBVIOUS
    <3>2. \A s \in pool \ high : score[s] = 0
      BY <2>1
    <3>3. Top(high)
      BY <2>1, <2>3, <3>1, <3>2
    <3> QED
      BY <3>3
  <2> QED
    BY <2>2, <2>3
<1> DEFINE numbers == {load[s] : s \in top}
<1>2. \A s \in pool : load[s] \in Nat /\ score[s] \in Nat
  BY RotaAssumption DEF Loads, Scores
<1>3. PICK n \in numbers : \A k \in numbers : n <= k
  BY <1>1, <1>2, LeastNatural
<1>4. PICK s \in top : load[s] = n
  BY <1>3
<1>5. ASSUME NEW t \in pool PROVE score[s] > score[t] \/ (score[s] = score[t] /\ load[s] <= load[t])
  <2>1. CASE t \in top
    BY <1>1, <1>2, <1>3, <1>4, <2>1
  <2> QED
    BY <1>1, <2>1
<1> QED
  BY <1>1, <1>5 DEF Best

\* Whatever the loads, the scores and the cap are, the generation has somebody to
\* give the row to when anybody is allowed, by the fairness rules or without them.
THEOREM SomebodyWins ==
  ASSUME NEW allowed, allowed \subseteq Servants, allowed # {},
         NEW load \in Loads, NEW score \in Scores, NEW cap \in 2..MaxLoad + 1
  PROVE  /\ Best(allowed, score, load) # {}
         /\ Best(FairPool(allowed, load, cap), score, load) # {}
         /\ Best(FairPool(allowed, load, cap), score, load) \subseteq Winners(allowed)
<1> DEFINE fewer == [s \in allowed |-> load[s]]
           pool == FairPool(allowed, load, cap)
<1>1. fewer \in [allowed -> Nat]
  BY RotaAssumption DEF Loads
<1>2. FairPool(allowed, fewer, cap) = pool
  <2>1. \A s \in allowed : fewer[s] = load[s]
    OBVIOUS
  <2> HIDE DEF fewer
  <2> DEFINE even(l) == {s \in allowed : \A t \in allowed : l[s] <= l[t] + 1}
             under(l) == {s \in even(l) : l[s] < cap}
  <2>2. even(fewer) = even(load)
    BY <2>1
  <2>3. under(fewer) = under(load)
    BY <2>1, <2>2
  <2> QED
    BY <2>2, <2>3 DEF FairPool
<1>3. pool \subseteq allowed /\ pool # {}
  BY <1>1, <1>2, PoolIsNotEmpty
<1> HIDE DEF fewer, pool
<1>4. Best(pool, score, load) # {} /\ Best(allowed, score, load) # {}
  BY <1>3, BestIsThere
<1>5. Best(pool, score, load) \subseteq Winners(allowed)
  BY <1>3 DEF Winners, Best, pool
<1> QED
  BY <1>4, <1>5 DEF pool
=============================================================================
