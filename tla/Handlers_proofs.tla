-------------------------- MODULE Handlers_proofs --------------------------
(***************************************************************************)
(* Lemmas about requests in flight, whatever they do: a step is made by    *)
(* one request and leaves the others as they are (Moved), and who decides  *)
(* about a thing that another request in flight decides about is known to  *)
(* have raced (RacesKnown).  The proofs of the rota, the tasks and of      *)
(* People rest on them.                                                    *)
(***************************************************************************)
EXTENDS Handlers, FiniteSetTheorems, WellFoundedInduction, TLAPS

-----------------------------------------------------------------------------
(* Requests in flight.                                                     *)

\* req is a function on Requests, whatever its values are.
ReqFn == req = [r \in Requests |-> req[r]]

\* Two requests that decide about the same thing are known to have raced.
RacesKnown ==
    \A q, r \in Requests : q # r => req[q].touches \cap req[r].touches \subseteq raced

\* A step of request r and of no other one.
Moved(r) ==
    /\ \A q \in Requests \ {r} : req'[q] = req[q]
    /\ raced \subseteq raced'
    /\ ReqFn' /\ RacesKnown'

LEMMA UpdateMoves ==
  ASSUME ReqFn, RacesKnown, NEW r \in Requests, NEW locals, Update(r, locals)
  PROVE  Moved(r) /\ req'[r] = locals
<1>1. /\ req' = [req EXCEPT ![r] = locals]
      /\ raced' = raced \cup Contested(r, locals.touches)
  BY DEF Update
<1>2. /\ req'[r] = locals
      /\ \A q \in Requests \ {r} : req'[q] = req[q]
      /\ ReqFn'
  BY <1>1 DEF ReqFn
<1>3. \A q \in Requests \ {r} : req[q].touches \cap locals.touches \subseteq raced'
  BY <1>1 DEF Contested
<1>4. ASSUME NEW q \in Requests, NEW p \in Requests, q # p
      PROVE  req'[q].touches \cap req'[p].touches \subseteq raced'
  <2>1. CASE q # r /\ p # r
    BY <1>1, <1>2, <1>4, <2>1 DEF RacesKnown
  <2>2. CASE q = r
    BY <1>2, <1>3, <1>4, <2>2
  <2>3. CASE p = r
    BY <1>2, <1>3, <1>4, <2>3
  <2> QED
    BY <2>1, <2>2, <2>3
<1> QED
  BY <1>1, <1>2, <1>4 DEF Moved, RacesKnown

LEMMA IdleFacts == Idle.kind = "none" /\ Idle.stage = "idle" /\ Idle.touches = {}
  BY DEF Idle

LEMMA CallMoves ==
  ASSUME ReqFn, RacesKnown, HandlersTypeOK, NEW r \in Requests,
         NEW locals, locals.kind # "none", Call(r, locals)
  PROVE  Moved(r) /\ req'[r] = locals /\ HandlersTypeOK' /\ failures' = failures
         /\ req[r] = Idle
<1>1. /\ Update(r, locals) /\ ~ Busy(r) /\ failures' = failures
      /\ calls < MaxCalls /\ calls' = calls + 1
  BY DEF Call, Begin
<1>2. Moved(r) /\ req'[r] = locals
  BY <1>1, UpdateMoves
<1>3. req[r] = Idle
  BY <1>1 DEF Busy, HandlersTypeOK
<1>4. \A q \in Requests : req'[q].kind = "none" <=> req'[q] = Idle
  BY <1>2, IdleFacts DEF Moved, HandlersTypeOK
<1>5. calls' \in 0..MaxCalls
  BY <1>1, HandlersAssumption DEF HandlersTypeOK
<1> QED
  BY <1>1, <1>2, <1>3, <1>4, <1>5 DEF HandlersTypeOK

LEMMA StepMoves ==
  ASSUME ReqFn, RacesKnown, HandlersTypeOK, NEW r \in Requests,
         NEW locals, locals.kind # "none" \/ locals = Idle, Step(r, locals)
  PROVE  Moved(r) /\ req'[r] = locals /\ HandlersTypeOK' /\ failures' = failures
<1>1. Update(r, locals) /\ failures' = failures /\ calls' = calls
  BY DEF Step
<1>2. Moved(r) /\ req'[r] = locals
  BY <1>1, UpdateMoves
<1>3. \A q \in Requests : req'[q].kind = "none" <=> req'[q] = Idle
  BY <1>2, IdleFacts DEF Moved, HandlersTypeOK
<1> QED
  BY <1>1, <1>2, <1>3 DEF HandlersTypeOK

LEMMA FinishMoves ==
  ASSUME ReqFn, RacesKnown, HandlersTypeOK, NEW r \in Requests, Finish(r)
  PROVE  Moved(r) /\ req'[r] = Idle /\ HandlersTypeOK' /\ failures' = failures
  BY StepMoves DEF Finish

LEMMA BreakMoves ==
  ASSUME ReqFn, RacesKnown, HandlersTypeOK, NEW r \in Requests, NEW halfDone,
         Break(r, halfDone)
  PROVE  Moved(r) /\ req'[r] = Idle /\ HandlersTypeOK' /\ failures' # 0
         /\ req[r].stage \in halfDone
<1>1. /\ req[r].stage \in halfDone /\ failures < MaxFailures /\ failures' = failures + 1
      /\ req' = [req EXCEPT ![r] = Idle] /\ calls' = calls /\ raced' = raced
  BY DEF Break
<1>2. /\ req'[r] = Idle
      /\ \A q \in Requests \ {r} : req'[q] = req[q]
      /\ ReqFn'
  BY <1>1 DEF ReqFn
<1>3. RacesKnown'
  BY <1>1, <1>2, IdleFacts DEF RacesKnown
<1>4. \A q \in Requests : req'[q].kind = "none" <=> req'[q] = Idle
  BY <1>2, IdleFacts DEF HandlersTypeOK
<1>5. failures' \in 0..MaxFailures /\ failures' # 0
  BY <1>1, HandlersAssumption DEF HandlersTypeOK
<1> QED
  BY <1>1, <1>2, <1>3, <1>4, <1>5 DEF Moved, HandlersTypeOK

-----------------------------------------------------------------------------
(* What is done at once is done by no request: it goes by the number 0.    *)

\* Who else has decided about the things has raced.
Claims(r, things) == \A q \in Requests \ {r} : req[q].touches \cap things \subseteq raced'

LEMMA AtOnceMoves ==
  ASSUME ReqFn, RacesKnown, HandlersTypeOK, NEW things, CallAtOnce(things)
  PROVE  /\ Moved(0) /\ 0 \notin Requests /\ Claims(0, things)
         /\ HandlersTypeOK' /\ failures' = failures /\ req' = req
<1>1. /\ calls < MaxCalls /\ calls' = calls + 1 /\ req' = req /\ failures' = failures
      /\ raced' = raced \cup Contested(0, things)
  BY DEF CallAtOnce
<1>2. 0 \notin Requests
  BY HandlersAssumption
<1>3. ReqFn' /\ RacesKnown'
  BY <1>1 DEF ReqFn, RacesKnown
<1>4. Moved(0)
  BY <1>1, <1>3 DEF Moved
<1>5. Claims(0, things)
  BY <1>1 DEF Claims, Contested
<1>6. HandlersTypeOK'
  BY <1>1, HandlersAssumption DEF HandlersTypeOK
<1> QED
  BY <1>1, <1>2, <1>4, <1>5, <1>6

LEMMA OwnClaims ==
  ASSUME RacesKnown, NEW r \in Requests, Moved(r)
  PROVE  Claims(r, req[r].touches) /\ Claims(r, req'[r].touches)
<1>1. ASSUME NEW q \in Requests \ {r}
      PROVE  /\ req[q].touches \cap req[r].touches \subseteq raced'
             /\ req[q].touches \cap req'[r].touches \subseteq raced'
  <2>1. req'[q] = req[q] /\ raced \subseteq raced' /\ RacesKnown'
    BY DEF Moved
  <2>2. req[q].touches \cap req[r].touches \subseteq raced
    BY DEF RacesKnown
  <2>3. req'[q].touches \cap req'[r].touches \subseteq raced'
    BY <2>1 DEF RacesKnown
  <2> QED
    BY <2>1, <2>2, <2>3
<1> QED
  BY <1>1 DEF Claims

\* Nothing that is known of requests is lost when no request moves.
LEMMA NothingMoves ==
  ASSUME ReqFn, RacesKnown, HandlersTypeOK, UNCHANGED handlers
  PROVE  Moved(0) /\ 0 \notin Requests /\ HandlersTypeOK' /\ req' = req /\ failures' = failures
<1>1. req' = req /\ calls' = calls /\ failures' = failures /\ raced' = raced
  BY DEF handlers
<1> QED
  BY <1>1, HandlersAssumption DEF Moved, ReqFn, RacesKnown, HandlersTypeOK

-----------------------------------------------------------------------------
(* Numbers and small sets.                                                 *)

\* All of whose members are the same.
LEMMA AtMostOne ==
  ASSUME NEW S, \A x, y \in S : x = y
  PROVE  Cardinality(S) <= 1
<1>1. CASE S = {}
  BY <1>1, FS_EmptySet
<1>2. CASE S # {}
  <2>1. PICK x \in S : TRUE
    BY <1>2
  <2>2. S = {x}
    BY <2>1
  <2> QED
    BY <2>2, FS_Singleton
<1> QED
  BY <1>1, <1>2

\* A set of ids has a first one.
LEMMA LeastNatural ==
  ASSUME NEW T, T \subseteq Nat, T # {}
  PROVE  \E x \in T : \A y \in T : x <= y
<1> DEFINE R == {pair \in Nat \X Nat : pair[1] < pair[2]}
<1>1. IsWellFoundedOn(R, Nat)
  BY NatLessThanWellFounded DEF OpToRel
<1>2. PICK x \in T : \A y \in T : ~ (<<y, x>> \in R)
  BY <1>1, WFMin
<1>3. ASSUME NEW y \in T PROVE x <= y
  <2>1. x \in Nat /\ y \in Nat /\ <<y, x>> \notin R
    BY <1>2
  <2>2. ~ y < x
    BY <2>1
  <2> QED
    BY <2>1, <2>2
<1> QED
  BY <1>3

=============================================================================
