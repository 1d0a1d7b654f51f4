------------------------------ MODULE MCJourney ------------------------------
(* Two services, the first milestone of the catalog and the step that asks to *)
(* come more often.                                                           *)
EXTENDS Journey, TLC

CONSTANTS sunday, wednesday, substitution, task, r1, r2, firstPresence, retakeConstancy

MCHeldOn == [s \in Services |-> IF s = sunday THEN 1 ELSE 4]
MCNeeded == [m \in Milestones |-> 1]
MCBelow == [t \in StepTypes |-> 55]
MCSymmetry == Permutations(Requests)
=============================================================================
