-------------------------- MODULE MCMinistryTasks --------------------------
(* Model values of the run of the rota and the tasks of a service.         *)
EXTENDS MinistryTasks, TLC
CONSTANTS ana, bia, music, media, t1, t2, i1, i2
MCServants == {ana, bia}
MCMinistries == {music, media}
MCTasks == {t1, t2}
MCItems == {i1, i2}
MCRequired == {i1}

\* Servants are interchangeable, and so are the ids of occurrences.
MCSymmetry == Permutations(MCServants) \cup Permutations(MCTasks)
=============================================================================
