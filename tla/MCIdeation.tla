------------------------------- MODULE MCIdeation ------------------------------
(* An instance of Ideation for TLC: two texts, so that a part of the plan can    *)
(* change, and enough requests to approve a plan, generate a script and revise.  *)
EXTENDS Ideation

CONSTANTS a, b

MCTexts == {a, b}
================================================================================
