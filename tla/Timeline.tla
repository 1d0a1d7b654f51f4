------------------------------ MODULE Timeline ------------------------------
(***************************************************************************)
(* The timeline (modules/timeline): what other parts publish, straight or  *)
(* by way of the event bus, is written down, left out as a repetition, or  *)
(* added to the latest entry with its key.                                 *)
(*                                                                         *)
(* Publishing reads the latest entry of the key and writes afterwards, and *)
(* the key is not unique in the database.  Titles, texts and metadata are  *)
(* left out, but for the count of what was added.                          *)
(***************************************************************************)
EXTENDS Handlers

CONSTANTS
    News,           \* what is published: its type and what it is about, its dedupe key
    Entries,        \* ids, in the order they are made: bound on them
    Window, LastHour, \* how long entries are added to, and a bound on the time
    NoEntry

-----------------------------------------------------------------------------
(* TIMELINE_POLICY, for the types that are published.                      *)

Deduped ==
    {"SCHEDULE_DECLINED", "SCHEDULE_SUBSTITUTE_REQUESTED", "SCHEDULE_CLOSED",
     "SCHEDULE_AUTO_FILLED", "AUTOMATION_RULE_EXECUTED", "AUTOMATION_RULE_SKIPPED",
     "AUTOMATION_CREATED_ALERT"}
Aggregatable ==
    {"SCHEDULE_AUTO_FILLED", "AUTOMATION_RULE_EXECUTED", "AUTOMATION_RULE_SKIPPED",
     "AUTOMATION_CREATED_ALERT", "TASK_COMPLETED"}
Types == Deduped \cup Aggregatable \cup
    {"SCHEDULE_ASSIGNED", "SCHEDULE_CONFIRMED", "ATTENDANCE_RECORDED", "TRAINING_COMPLETED"}

\* What the subscriber hears on the bus.  No event has a subject, so those of one
\* type have one key.
HeardNews ==
    {<<type, "none">> : type \in {"SCHEDULE_ASSIGNED", "SCHEDULE_CONFIRMED", "SCHEDULE_DECLINED",
        "SCHEDULE_AUTO_FILLED", "ATTENDANCE_RECORDED", "TRAINING_COMPLETED", "TASK_COMPLETED"}}

EntryRow == [key : News, at : 0..LastHour, count : Nat \ {0}]

ASSUME TimelineAssumption ==
    /\ \A n \in News : n[1] \in Types /\ (n[2] = "none" => n \in HeardNews)
    /\ Entries \subseteq Nat /\ Entries # {} /\ IsFiniteSet(Entries) /\ NoEntry \notin EntryRow
    /\ Window \in Nat /\ LastHour \in Nat

VARIABLES
    entries,        \* TimelineEntry
    hour,           \* the time
    told            \* history: how often what was published was taken in, by key

timelineVars == <<entries, hour, told>>

-----------------------------------------------------------------------------
(* publish                                                                 *)

Written(e) == entries[e] # NoEntry
EntriesOf(key) == {e \in Entries : Written(e) /\ entries[e].key = key}

\* The entry of the key that happened last.
Latest(key) ==
    CHOOSE e \in EntriesOf(key) : \A f \in EntriesOf(key) : entries[f].at <= entries[e].at

\* Seeded fault: the policy is asked only whether the type is aggregated.
Repeats_Aggregated(news) == news[1] \in Aggregatable /\ EntriesOf(news) # {}

Repeats(news) == news[1] \in Deduped /\ EntriesOf(news) # {}

\* Entries are added to while the last addition is not long ago.
Recent(e, at) == at - entries[e].at <= Window \/ at < entries[e].at

\* A repetition that is not aggregated is skipped, however long ago the entry was
\* made.
Skips(news) == Repeats(news) /\ news[1] \notin Aggregatable
Adds(news, at) == Repeats(news) /\ news[1] \in Aggregatable /\ Recent(Latest(news), at)

\* resolveDedupe, up to what it writes.
CallPublish(r, news, at) ==
    /\ hour <= at
    /\ hour' = at
    /\ \/ /\ ~ Skips(news) /\ ~ Adds(news, at)
          /\ Call(r, [kind |-> "publish", stage |-> "writingEntry", touches |-> {news},
                      key |-> news, at |-> at])
          /\ UNCHANGED told
       \/ /\ Adds(news, at)
          /\ Call(r, [kind |-> "publish", stage |-> "addingToEntry", touches |-> {news},
                      key |-> news, at |-> at, entry |-> Latest(news),
                      count |-> entries[Latest(news)].count + 1])
          /\ UNCHANGED told
       \/ /\ Skips(news)
          /\ CallAtOnce({news})
          /\ told' = [told EXCEPT ![news] = @ + 1]
    /\ UNCHANGED entries

\* persistTimelineEntry.
WriteEntry(r) ==
    LET e == CHOOSE i \in Entries : ~ Written(i) /\ \A j \in Entries : j < i => Written(j)
    IN  /\ req[r].stage = "writingEntry"
        /\ \E i \in Entries : ~ Written(i)
        /\ entries' = [entries EXCEPT ![e] = [key |-> req[r].key, at |-> req[r].at, count |-> 1]]
        /\ told' = [told EXCEPT ![req[r].key] = @ + 1]
        /\ Finish(r)
        /\ UNCHANGED hour

\* The count is written as it was computed.
AddToEntry(r) ==
    /\ req[r].stage = "addingToEntry"
    /\ entries' = [entries EXCEPT ![req[r].entry].at = req[r].at, ![req[r].entry].count = req[r].count]
    /\ told' = [told EXCEPT ![req[r].key] = @ + 1]
    /\ Finish(r)
    /\ UNCHANGED hour
-----------------------------------------------------------------------------
TimelineTypeOK ==
    /\ entries \in [Entries -> {NoEntry} \cup EntryRow]
    /\ hour \in 0..LastHour
    /\ told \in [News -> Nat]

\* There may be an entry of one key already.
TimelineInit(keys) ==
    /\ entries = [e \in Entries |->
          IF keys # {} /\ \A f \in Entries : e <= f
          THEN [key |-> CHOOSE k \in keys : TRUE, at |-> 0, count |-> 1] ELSE NoEntry]
    /\ hour = 0
    /\ told = [k \in News |-> IF k \in keys THEN 1 ELSE 0]

TimelineCall(r) == \E n \in News, at \in 0..LastHour : CallPublish(r, n, at)
TimelineStep(r) == WriteEntry(r) \/ AddToEntry(r)

-----------------------------------------------------------------------------
(* Properties                                                              *)

\* What the counts of a key's entries add up to, one by one.
Additions(key) == UNION {{e} \X (1..entries[e].count) : e \in EntriesOf(key)}

\* Unless two publications of one key were under way together: what is not to be
\* repeated is written once; entries that are added to lie further apart than
\* the window and their counts are what was published; of the rest every
\* publication has an entry of its own.
TimelineTells ==
    \A news \in News \ raced :
       IF news[1] \notin Deduped THEN Cardinality(EntriesOf(news)) = told[news]
       ELSE IF news[1] \notin Aggregatable
       THEN Cardinality(EntriesOf(news)) = (IF told[news] = 0 THEN 0 ELSE 1)
       ELSE /\ \A e, f \in EntriesOf(news) :
                  e # f /\ entries[f].at <= entries[e].at => ~ Recent(f, entries[e].at)
            /\ Cardinality(Additions(news)) = told[news]
=============================================================================
