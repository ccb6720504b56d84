------------------------------ MODULE MCIdeaLease ------------------------------
(* Instances of IdeaLease for TLC. Three incarnations are the fewest that let an *)
(* abandoned attempt, its stalled owner and a third process meet; with two       *)
(* attempts a fourth could only repeat what the third does.                      *)
EXTENDS IdeaLease

CONSTANTS w1, w2, w3, r1

MCWorkers == {w1, w2, w3}
MCRuns    == {r1}

\* The guarded SELECT and the flush after it fit in the lease that precedes them.
PersistPunctual == Saving
================================================================================
