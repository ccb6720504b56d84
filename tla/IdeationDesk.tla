------------------------------ MODULE IdeationDesk ------------------------------
(* What the ideation workspace promises a producer: a plan decided part by part, at *)
(* most one operation at work on it, and a script that stays beside the plan it was *)
(* written for or goes to the shelf of versions. Tasks and what they have read,     *)
(* heartbeats, messages, the watchdog and process stops are out of sight. The       *)
(* promise supposes punctual agents and scripts edited between operations only.     *)
EXTENDS Naturals, Sequences

CONSTANTS Texts,          \* contents an angle, a hook or an outline can have
          None,           \* a part that is not decided
          MaxVersions     \* room on the shelf

VARIABLES desk,           \* what is going on
          plan,           \* angle, hook and chapters
          script,         \* the number of the script beside the plan, 0 for none
          shelf,          \* the versions kept, the oldest first
          stored          \* scripts so far

vars == <<desk, plan, script, shelf, stored>>

--------------------------------------------------------------------------------
Part     == Texts \cup {None}
Plans    == [angle: Part, hook: Part, chapters: Part]
Blank    == [angle |-> None, hook |-> None, chapters |-> None]
Complete == \A part \in DOMAIN plan : plan[part] # None

Init == desk = "planning" /\ plan = Blank /\ script = 0 /\ shelf = <<>> /\ stored = 0

\* A part is decided on what comes before it: changing one clears those after it.
Follows(new) ==
  /\ new.angle # plan.angle => new.hook = None /\ new.chapters = None
  /\ new.hook # plan.hook => new.chapters = None

\* The script beside the plan joins the shelf, where the oldest makes room.
Newest(s) == SubSeq(s, IF Len(s) > MaxVersions THEN Len(s) + 1 - MaxVersions ELSE 1, Len(s))
Shelved   == IF script = 0 THEN shelf ELSE Newest(Append(shelf, script))

\* Another plan takes the script away; the same plan may leave it.
Redraft ==
  /\ plan' \in {new \in Plans : Follows(new)}
  /\ \/ script' = 0 /\ shelf' = Shelved
     \/ UNCHANGED <<plan, script, shelf>>
  /\ UNCHANGED stored

\* A request is taken when nothing is going on, and may change the plan at once.
Ask     == desk = "free" /\ desk' = "planning" /\ Redraft
Approve == desk = "free" /\ desk' = "free" /\ Redraft

\* What the request was for arrives.
Propose == desk = "planning" /\ desk' = "free" /\ Redraft

\* A complete plan is written up; nothing changes the plan meanwhile.
AskScript ==
  /\ desk = "free" /\ desk' = "writing" /\ Complete
  /\ script' = 0 /\ shelf' = Shelved
  /\ UNCHANGED <<plan, stored>>

Store == script' = stored + 1 /\ stored' = stored + 1 /\ UNCHANGED plan

Write == desk = "writing" /\ desk' = "free" /\ Store /\ UNCHANGED shelf

Edit == desk = "free" /\ desk' = "free" /\ script # 0 /\ Store /\ shelf' = Shelved

\* An agent failed, or the watchdog found nobody at work.
GiveUp == desk \in {"planning", "writing"} /\ desk' = "free" /\ UNCHANGED <<plan, script, shelf, stored>>

Remove ==
  /\ desk # "removed" /\ desk' = "removed"
  /\ plan' = Blank /\ script' = 0 /\ shelf' = <<>> /\ UNCHANGED stored

Next == Ask \/ Approve \/ Propose \/ AskScript \/ Write \/ Edit \/ GiveUp \/ Remove

Spec == Init /\ [][Next]_vars
================================================================================
