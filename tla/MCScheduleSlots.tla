--------------------------- MODULE MCScheduleSlots ---------------------------
(* Two ministries, and servants who belong to both.                         *)
EXTENDS SlotFilling, TLC

CONSTANTS s1, s2, s3, m1, m2, ana, bia, e1, e2, e3, e4, r1, r2

MCMinistryOf == [s \in Slots |-> IF s = s3 THEN m2 ELSE m1]
MCMembers == Servants \X Ministries

\* Schedule ids and requests are interchangeable.
MCSymmetry ==
    Permutations(ScheduleIds) \cup Permutations(Requests) \cup Permutations(Servants)
=============================================================================
