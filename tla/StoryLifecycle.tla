----------------------------- MODULE StoryLifecycle -----------------------------
(* What the story pipeline promises whoever looks at the stories. A story works,  *)
(* pauses for the choice of an angle, completes with the script of that angle or  *)
(* ends without; revisions of it are stories of their own, without a pause. The   *)
(* graph, its nodes, the jobs, the watchdog and process stops are out of sight.   *)
(* The promise lasts while no request is made of a story at work and no job       *)
(* outlives the watchdog's patience; afterwards only part of it is left.          *)
EXTENDS Naturals

CONSTANTS Stories,        \* the stories there may be
          Angles,         \* the angles that may be chosen, numbers above 0
          Revised         \* the script of a revision, which has no angle

VARIABLES shown,          \* what each story shows
          calm            \* history: the conditions of the promise held so far

vars == <<shown, calm>>

--------------------------------------------------------------------------------
\* Progress is the phase of the shown status, 3 for the pause and 7 for an end; an angle
\* or a script that is not there is 0.
View(stage, progress, selected, script) ==
  [stage |-> stage, progress |-> progress, selected |-> selected, script |-> script]

Blank(stage) == View(stage, 0, 0, 0)

Init ==
  /\ \E first \in Stories :
       shown = [s \in Stories |-> Blank(IF s = first THEN "working" ELSE "none")]
  /\ calm = TRUE

\* A step changes what one story shows.
Show(s, view) == shown' = [shown EXCEPT ![s] = view]

\* A revision of a finished story begins, with a copy of its script or without.
Revise(s, clone) ==
  /\ shown[s].stage \in {"completed", "ended"}
  /\ shown[clone].stage = "none"
  /\ \E progress \in {2, 4, 6}, script \in {0, Revised} :
       /\ script # 0 => shown[s].script # 0
       /\ Show(clone, View("working", progress, 0, script))

Work(s) ==
  /\ shown[s].stage = "working"
  /\ \E progress \in (shown[s].progress + 1)..6 :
       Show(s, View("working", progress, shown[s].selected, shown[s].script))

\* A story pauses before anything was chosen or written.
Pause(s) ==
  /\ shown[s].stage = "working" /\ shown[s].progress < 3
  /\ shown[s].selected = 0 /\ shown[s].script = 0
  /\ Show(s, View("paused", 3, 0, 0))

\* An angle is chosen once.
Choose(s, angle) ==
  /\ shown[s].stage = "paused" /\ shown[s].selected = 0
  /\ Show(s, View("working", 4, angle, 0))

\* The script that completes a story is the chosen angle's, or the revision's.
Complete(s) ==
  /\ shown[s].stage = "working" /\ shown[s].progress >= 4
  /\ Show(s, View("completed", 7, shown[s].selected,
                  IF shown[s].selected = 0 THEN Revised ELSE shown[s].selected))

\* An agent failed, or nobody worked on the story or answered its question.
Abandon(s) ==
  /\ shown[s].stage \in {"working", "paused"}
  /\ Show(s, View("ended", 7, shown[s].selected, shown[s].script))

\* Saving an edited script completes a story that nobody works on.
Edit(s) ==
  /\ shown[s].stage \in {"working", "ended"} /\ shown[s].script # 0
  /\ Show(s, View("completed", 7, shown[s].selected, shown[s].script))

Remove(s) ==
  /\ shown[s].stage \notin {"none", "deleted"}
  /\ Show(s, Blank("deleted"))

\* Writers meet on a story. What is left: a step still changes one story, a deleted one
\* never comes back, and none is completed without a script.
Disorder ==
  /\ ~calm'
  /\ \E s \in Stories :
       /\ Show(s, shown'[s])
       /\ shown[s].stage = "deleted" => shown'[s] = shown[s]
       /\ shown'[s].stage = "completed" => shown'[s].script # 0

Next ==
  \/ /\ calm /\ calm'
     /\ \E s \in Stories :
          \/ \E clone \in Stories : Revise(s, clone)
          \/ \E angle \in Angles : Choose(s, angle)
          \/ Work(s) \/ Pause(s) \/ Complete(s) \/ Abandon(s) \/ Edit(s) \/ Remove(s)
  \/ Disorder

Spec == Init /\ [][Next]_vars
================================================================================
