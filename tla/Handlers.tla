------------------------------ MODULE Handlers ------------------------------
(***************************************************************************)
(* The requests and jobs that work on the tables of one database at the    *)
(* same time: what the modules of the services have in common.             *)
(*                                                                         *)
(* A handler awaits its queries one by one and holds nothing in between,   *)
(* so every query, or transaction, is a step, and queries of other         *)
(* handlers come between two of them.  Reads that follow one another, with *)
(* a decision at the end, are told as one.  A request is a record of its   *)
(* local variables; its field touches names what it decides about, so that *)
(* requests in flight together that decide about the same thing are known  *)
(* to have raced.                                                          *)
(***************************************************************************)
EXTENDS Naturals, FiniteSets

CONSTANTS
    Requests,       \* requests and jobs in flight at the same time, numbered
    MaxCalls,       \* bound on the calls made in a behaviour
    MaxFailures     \* bound on the requests that break off

ASSUME HandlersAssumption ==
    Requests \subseteq Nat \ {0} /\ MaxCalls \in Nat /\ MaxFailures \in Nat

VARIABLES
    req,            \* the local variables of every request
    calls,          \* how many calls have been made
    failures,       \* how many requests have broken off
    raced           \* history: what requests in flight together decided about

handlers == <<req, calls, failures, raced>>

Idle == [kind |-> "none", stage |-> "idle", touches |-> {}]
Busy(r) == req[r].kind # "none"
InFlight(stage) == \E r \in Requests : req[r].stage = stage

\* What r decides about while others do.
Contested(r, things) ==
    things \cap UNION {req[q].touches : q \in Requests \ {r}}

Update(r, locals) ==
    /\ req' = [req EXCEPT ![r] = locals]
    /\ raced' = raced \cup Contested(r, locals.touches)

\* Which number a request has makes no difference: it takes the first free one.
Begin(r, locals) ==
    /\ ~ Busy(r) /\ \A q \in Requests : q < r => Busy(q)
    /\ Update(r, locals)

Call(r, locals) ==
    /\ calls < MaxCalls
    /\ calls' = calls + 1
    /\ Begin(r, locals)
    /\ UNCHANGED failures

\* A request whose only query that matters is the one that writes.
CallAtOnce(things) ==
    /\ calls < MaxCalls
    /\ calls' = calls + 1
    /\ raced' = raced \cup Contested(0, things)
    /\ UNCHANGED <<req, failures>>

Step(r, locals) == Update(r, locals) /\ UNCHANGED <<calls, failures>>
Finish(r) == Step(r, Idle)

\* The process dies, or a query throws, after the request has written: broken
\* off before that it leaves no trace.
Break(r, halfDone) ==
    /\ req[r].stage \in halfDone /\ failures < MaxFailures
    /\ failures' = failures + 1
    /\ req' = [req EXCEPT ![r] = Idle]
    /\ UNCHANGED <<calls, raced>>

HandlersTypeOK ==
    /\ \A r \in Requests : req[r].kind = "none" <=> req[r] = Idle
    /\ calls \in 0..MaxCalls /\ failures \in 0..MaxFailures

HandlersInit ==
    /\ req = [r \in Requests |-> Idle]
    /\ calls = 0 /\ failures = 0 /\ raced = {}
=============================================================================
