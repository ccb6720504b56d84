---------------------------- MODULE MCIdeaRequests ----------------------------
(* A small newsroom for IdeaRequests.                                           *)
EXTENDS IdeaRequests, TLC
CONSTANTS alice, root, r1, r2, k1, k2, q1, q2

MCUsers    == {alice, root}
MCAdmins   == {root}
MCRunIds   == {r1, r2}
MCKeys     == {k1, k2}
MCFormats  == {"documentary", "expert_interview"}
MCRequests == {q1, q2}
MCSymmetry == Permutations(MCRunIds) \cup Permutations(MCKeys) \cup Permutations(MCRequests)
================================================================================
