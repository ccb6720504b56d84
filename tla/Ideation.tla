------------------------------- MODULE Ideation --------------------------------
(* The ideation workspace of one story (backend/api/routes/stories.py): the plan *)
(* (angle, hook, chapters) a producer approves step by step, the background     *)
(* tasks that draft it, script generation from the approved plan, manual edits  *)
(* of the script, the watchdog and process stops.                               *)
(*                                                                              *)
(* A request checks the row and updates it. A background task reads the row     *)
(* when it starts, works for minutes, and then updates the columns it computed  *)
(* from that snapshot, whatever the row holds by then. Texts stand for angles,  *)
(* hooks and outlines; scripts are numbered in the order they are stored.       *)
EXTENDS Naturals, Sequences

CONSTANTS Texts,          \* contents an angle, a hook or an outline can have
          None,           \* NULL
          MaxRequests,    \* bound: requests that start a background task, the first included
          MaxEdits,       \* bound: manual script edits
          MaxVersions,    \* versions kept by _archive_current_script
          EditsWait,      \* TRUE: the script is edited only between operations
          PunctualAgent   \* TRUE: no live task exceeds the watchdog's threshold

VARIABLES story,          \* the columns of stories the workspace uses
          task,           \* the background task of each request
          sent,           \* requests sent so far
          edits,          \* manual edits so far
          stored          \* scripts stored so far

vars == <<story, task, sent, edits, stored>>

--------------------------------------------------------------------------------
ASSUME NoneAssumption  == None \notin Texts
ASSUME BoundAssumption == /\ MaxRequests \in Nat \ {0} /\ MaxEdits \in Nat
                          /\ MaxVersions \in Nat \ {0}
ASSUME ModeAssumption  == EditsWait \in BOOLEAN /\ PunctualAgent \in BOOLEAN

Part     == Texts \cup {None}
Plan     == [angle: Part, hook: Part, chapters: Part]
Stages   == {"angles", "hook", "chapters", "ready_for_script"}
Planning == {"initial_angles", "chat", "generate_angles", "generate_hooks",
             "approve_angle", "approve_hook"}
Kinds    == Planning \cup {"script_generation"}

\* script is 0 for NULL; pending counts the chat messages shown as running.
Story == [status: {"ideating", "completed", "failed", "deleted"}, stage: Stages,
          plan: Plan, op: {"none", "running", "failed"}, kind: Kinds, pending: Nat,
          script: Nat, written: Plan, versions: Seq(Nat)]

\* A task keeps the row it read at its start and, while it renews the heartbeat of
\* the operation, the kind of operation it has read.
Task == [pc: {"none", "scheduled", "working", "touching"}, kind: Kinds, stage: Stages,
         arg: Part, snap: Story, seen: Kinds]

NoPlan == [angle |-> None, hook |-> None, chapters |-> None]
Draft  == [status |-> "ideating", stage |-> "angles", plan |-> NoPlan, op |-> "running",
           kind |-> "initial_angles", pending |-> 1, script |-> 0, written |-> NoPlan,
           versions |-> <<>>]
Scheduled(kind, stage, arg) ==
  [pc |-> "scheduled", kind |-> kind, stage |-> stage, arg |-> arg, snap |-> Draft,
   seen |-> kind]
NoTask == [Scheduled("chat", "angles", None) EXCEPT !.pc = "none"]

Requests == 1..MaxRequests
Exists   == story.status # "deleted"
Live(n)  == task[n].pc # "none"
Complete(plan) == \A part \in DOMAIN plan : plan[part] # None

\* create_ideation_story.
Init ==
  /\ story = Draft
  /\ task = [n \in Requests |-> IF n = 1 THEN Scheduled("initial_angles", "angles", None)
                                         ELSE NoTask]
  /\ sent = 1
  /\ edits = 0
  /\ stored = 0

\* Faulty: the list of versions is never cut.
ArchivedAll(s) == IF s.script = 0 THEN s.versions ELSE Append(s.versions, s.script)

\* _archive_current_script: the version list a story gets when its script goes.
Archived(s) ==
  IF s.script = 0 THEN s.versions
  ELSE LET all == Append(s.versions, s.script) IN
       IF Len(all) > MaxVersions THEN Tail(all) ELSE all

\* _invalidate_current_script_values, applied to s with the script seen in snap.
Invalidated(s, snap) ==
  IF snap.script = 0 THEN s
  ELSE [s EXCEPT !.versions = Archived(snap), !.script = 0, !.written = NoPlan]

\* Faulty: a new angle leaves the hook that was written for the old one.
WithAngleAlone(plan, a) == [plan EXCEPT !.angle = a]

\* A new angle clears the hook, a new hook clears the chapters.
WithAngle(plan, a) == [angle |-> a, hook |-> None, chapters |-> None]
WithHook(plan, h)  == [plan EXCEPT !.hook = h, !.chapters = None]

\* _complete_pending_ideation_message: the last running message is closed.
ClosedMessages(s) == IF s.pending > 0 THEN s.pending - 1 ELSE 0

--------------------------------------------------------------------------------
\* _ensure_ideation_editable, and the 409 while an operation is running.
Editable == story.status \in {"ideating", "completed"} /\ story.op # "running"

\* A planning request: new is the story with the plan the handler has written.
Submit(kind, stage, arg, new) ==
  /\ Editable
  /\ sent < MaxRequests
  /\ sent' = sent + 1
  /\ story' = [new EXCEPT !.status = "ideating", !.op = "running", !.kind = kind,
                          !.pending = @ + 1]
  /\ task' = [task EXCEPT ![sent + 1] = Scheduled(kind, stage, arg)]
  /\ UNCHANGED <<edits, stored>>

\* chat_with_ideation_story without edits to the plan, from any visible page.
Chat(stage) == Submit("chat", stage, None, story)

\* Faulty: an edited angle keeps the script written for the old one.
ChatWithAngleKeeping(a) ==
  Submit("chat", "angles", None,
         IF a = story.plan.angle THEN story
         ELSE [story EXCEPT !.plan = WithAngle(@, a), !.stage = "angles"])

\* A chat request that carries the angle edited on its page.
ChatWithAngle(a) ==
  Submit("chat", "angles", None,
         IF a = story.plan.angle THEN story
         ELSE [Invalidated(story, story) EXCEPT !.plan = WithAngle(@, a),
                                                !.stage = "angles"])

ChatWithHook(h) ==
  Submit("chat", "hook", None,
         IF h = story.plan.hook THEN story
         ELSE [Invalidated(story, story) EXCEPT !.plan = WithHook(@, h), !.stage = "hook"])

ChatWithChapters(c) ==
  Submit("chat", "chapters", None,
         [Invalidated(story, story) EXCEPT !.plan.chapters = c, !.stage = "chapters"])

GenerateAngles ==
  Submit("generate_angles", "angles", None,
         [Invalidated(story, story) EXCEPT !.plan = NoPlan, !.stage = "angles"])

GenerateHooks ==
  /\ story.plan.angle # None
  /\ Submit("generate_hooks", "hook", None,
            [Invalidated(story, story) EXCEPT !.plan.chapters = None, !.stage = "hook"])

ApproveAngle(a) ==
  Submit("approve_angle", "hook", a,
         [Invalidated(story, story) EXCEPT !.plan = WithAngle(@, a), !.stage = "hook"])

ApproveHook(h) ==
  Submit("approve_hook", "chapters", h,
         [Invalidated(story, story) EXCEPT !.plan = WithHook(@, h), !.stage = "chapters"])

\* Starts no task.
ApproveChapters(c) ==
  /\ Editable
  /\ story' = [Invalidated(story, story) EXCEPT !.status = "ideating",
                 !.plan.chapters = c, !.stage = "ready_for_script"]
  /\ UNCHANGED <<task, sent, edits, stored>>

GenerateScript ==
  /\ Editable
  /\ sent < MaxRequests
  /\ Complete(story.plan)
  /\ sent' = sent + 1
  /\ story' = [Invalidated(story, story) EXCEPT !.status = "ideating",
                 !.stage = "ready_for_script", !.op = "running",
                 !.kind = "script_generation"]
  /\ task' = [task EXCEPT ![sent + 1] =
                Scheduled("script_generation", "ready_for_script", None)]
  /\ UNCHANGED <<edits, stored>>

\* update_script: PUT .../script checks neither the status nor the operation.
UpdateScript ==
  /\ Exists /\ story.script # 0
  /\ EditsWait => story.op # "running"
  /\ edits < MaxEdits
  /\ edits' = edits + 1
  /\ stored' = stored + 1
  /\ story' = [story EXCEPT !.status = "completed", !.script = stored + 1,
                            !.versions = Archived(story)]
  /\ UNCHANGED <<task, sent>>

DeleteStory ==
  /\ Exists
  /\ story' = [Draft EXCEPT !.status = "deleted", !.op = "none", !.pending = 0]
  /\ UNCHANGED <<task, sent, edits, stored>>

--------------------------------------------------------------------------------
\* A task reads the row. The script task refuses an incomplete plan, and then the
\* story fails with its operation still marked as running.
TaskStart(n) ==
  /\ task[n].pc = "scheduled"
  /\ IF ~Exists THEN /\ task' = [task EXCEPT ![n] = NoTask]
                     /\ UNCHANGED story
     ELSE IF task[n].kind = "script_generation" /\ ~Complete(story.plan)
     THEN /\ task' = [task EXCEPT ![n] = NoTask]
          /\ story' = [story EXCEPT !.status = "failed"]
     ELSE /\ task' = [task EXCEPT ![n].pc = "working", ![n].snap = story]
          /\ UNCHANGED story
  /\ UNCHANGED <<sent, edits, stored>>

\* The task is over and has written new, unless the story is gone.
Finish(n, new) ==
  /\ task[n].pc = "working"
  /\ task' = [task EXCEPT ![n] = NoTask]
  /\ story' = IF Exists THEN new ELSE story

\* The operation and chat columns of a planning task that succeeded.
Settled(snap) == [story EXCEPT !.op = "none", !.pending = ClosedMessages(snap)]

\* initial_angles, generate_angles and chat on the angle page. The first two always
\* offer angles; a chat may offer none, or offer the selected one again.
AnglesOffered(n, offered, again) ==
  LET snap == task[n].snap
      done == Settled(snap)
  IN
  /\ task[n].kind \in {"initial_angles", "generate_angles", "chat"}
  /\ task[n].stage = "angles"
  /\ task[n].kind # "chat" => offered
  /\ Finish(n, IF ~offered \/ (task[n].kind = "chat" /\ snap.plan.angle # None /\ again)
               THEN done
               ELSE [Invalidated(done, snap) EXCEPT !.plan = NoPlan, !.stage = "angles"])
  /\ UNCHANGED <<sent, edits, stored>>

\* approve_angle, generate_hooks and chat on the hook page.
HookDrafted(n, hook) ==
  LET snap == task[n].snap
      done == IF task[n].kind = "approve_angle"
              THEN [Settled(snap) EXCEPT !.plan = WithAngle(@, task[n].arg), !.stage = "hook"]
              ELSE Settled(snap)
      with == [done EXCEPT !.plan.hook = hook, !.stage = "hook"]
  IN
  /\ task[n].stage = "hook"
  /\ Finish(n, IF hook = None THEN done
               ELSE IF task[n].kind = "chat" /\ hook # snap.plan.hook
               THEN [Invalidated(with, snap) EXCEPT !.plan.chapters = None]
               ELSE with)
  /\ UNCHANGED <<sent, edits, stored>>

\* approve_hook and chat on the chapters page.
ChaptersDrafted(n, chapters) ==
  LET snap == task[n].snap
      done == IF task[n].kind = "approve_hook"
              THEN [Settled(snap) EXCEPT !.plan.hook = task[n].arg, !.stage = "chapters"]
              ELSE Settled(snap)
      with == [done EXCEPT !.plan.chapters = chapters]
  IN
  /\ task[n].stage = "chapters"
  /\ Finish(n, IF chapters = None THEN done
               ELSE IF task[n].kind = "chat"
               THEN [Invalidated(with, snap) EXCEPT !.stage = "chapters"]
               ELSE with)
  /\ UNCHANGED <<sent, edits, stored>>

\* An exception anywhere in a planning task.
PlanningFails(n) ==
  /\ task[n].kind \in Planning
  /\ Finish(n, [story EXCEPT !.op = "failed", !.kind = task[n].kind,
                             !.pending = ClosedMessages(story)])
  /\ UNCHANGED <<sent, edits, stored>>

\* The pipeline has produced a script for the plan it was started with.
ScriptWritten(n) ==
  /\ task[n].kind = "script_generation"
  /\ Finish(n, [story EXCEPT !.status = "completed", !.op = "none", !.script = stored + 1,
                             !.written = task[n].snap.plan])
  /\ stored' = IF Exists THEN stored + 1 ELSE stored
  /\ UNCHANGED <<sent, edits>>

\* Faulty: the story of a failed script generation fails, as a direct pipeline's does.
NoScriptFails(n) ==
  /\ task[n].kind = "script_generation"
  /\ Finish(n, [story EXCEPT !.status = "failed", !.script = 0, !.written = NoPlan])
  /\ UNCHANGED <<sent, edits, stored>>

\* It ended without one.
NoScript(n) ==
  /\ task[n].kind = "script_generation"
  /\ Finish(n, [story EXCEPT !.status = "ideating", !.op = "failed",
                             !.kind = "script_generation", !.script = 0,
                             !.written = NoPlan])
  /\ UNCHANGED <<sent, edits, stored>>

\* It raised.
PipelineRaises(n) ==
  /\ task[n].kind = "script_generation"
  /\ Finish(n, [story EXCEPT !.op = "failed", !.kind = "script_generation"])
  /\ UNCHANGED <<sent, edits, stored>>

\* _touch_running_ideation_operation, after every node of the pipeline: the
\* operation is read and, if it is running, written back with a new heartbeat.
TouchLoad(n) ==
  /\ task[n].kind = "script_generation" /\ task[n].pc = "working"
  /\ Exists /\ story.op = "running"
  /\ task' = [task EXCEPT ![n].pc = "touching", ![n].seen = story.kind]
  /\ UNCHANGED <<story, sent, edits, stored>>

TouchWrite(n) ==
  /\ task[n].pc = "touching"
  /\ task' = [task EXCEPT ![n].pc = "working"]
  /\ story' = IF Exists THEN [story EXCEPT !.op = "running", !.kind = task[n].seen]
                        ELSE story
  /\ UNCHANGED <<sent, edits, stored>>

\* The watchdog's ideation pass: an operation of an ideating story whose heartbeat
\* is older than its threshold. How long that takes is left open.
WatchdogFails ==
  /\ story.status = "ideating" /\ story.op = "running"
  /\ PunctualAgent => \A n \in Requests : ~Live(n)
  /\ story' = [story EXCEPT !.op = "failed", !.pending = ClosedMessages(story)]
  /\ UNCHANGED <<task, sent, edits, stored>>

Restart ==
  /\ \E n \in Requests : Live(n)
  /\ task' = [n \in Requests |-> NoTask]
  /\ UNCHANGED <<story, sent, edits, stored>>

--------------------------------------------------------------------------------
Request ==
  \/ \E stage \in {"angles", "hook", "chapters"} : Chat(stage)
  \/ \E text \in Part : ChatWithAngle(text) \/ ChatWithHook(text) \/ ChatWithChapters(text)
  \/ \E text \in Texts : ApproveAngle(text) \/ ApproveHook(text) \/ ApproveChapters(text)
  \/ GenerateAngles \/ GenerateHooks \/ GenerateScript \/ UpdateScript \/ DeleteStory

TaskEnds(n) ==
  \/ \E offered, again \in BOOLEAN : AnglesOffered(n, offered, again)
  \/ \E text \in Part : HookDrafted(n, text) \/ ChaptersDrafted(n, text)
  \/ PlanningFails(n) \/ ScriptWritten(n) \/ NoScript(n) \/ PipelineRaises(n)

Next ==
  \/ Request
  \/ \E n \in Requests : TaskStart(n) \/ TaskEnds(n) \/ TouchLoad(n) \/ TouchWrite(n)
  \/ WatchdogFails \/ Restart

Spec == Init /\ [][Next]_vars

\* The event loop runs the tasks, the watchdog passes every five minutes, and a
\* punctual agent ends.
Fairness ==
  /\ WF_vars(WatchdogFails)
  /\ \A n \in Requests :
       /\ WF_vars(TaskStart(n)) /\ WF_vars(TouchWrite(n))
       /\ PunctualAgent => SF_vars(TaskEnds(n))

FairSpec == Spec /\ Fairness

--------------------------------------------------------------------------------
\* Every variable stays within the types of the columns and of the tasks.
TypeOK ==
  /\ story \in Story
  /\ task \in [Requests -> Task]
  /\ sent \in 1..MaxRequests
  /\ edits \in 0..MaxEdits
  /\ stored \in Nat
  /\ Len(story.versions) <= MaxVersions

\* The script shown was written, or edited from one written, for the plan shown: no
\* path that changes an angle, a hook or an outline keeps the old script.
ScriptMatchesPlan ==
  story.script # 0 => story.written = story.plan /\ Complete(story.plan)

\* Every script that was generated or saved by hand is the current one or among
\* the archived versions, as far back as versions are kept (_archive_current_script;
\* "Persist manual edits to the final script", stories.py:2532). It follows from the
\* desk below when edits wait; EditsWait = FALSE refutes it.
NoScriptLost ==
  Exists =>
    \A id \in 1..stored :
      id + MaxVersions > stored
        => id = story.script \/ \E i \in DOMAIN story.versions : story.versions[i] = id

\* What a producer sees: the plan, its script and versions, and whether an operation runs.
Doing ==
  CASE ~Exists -> "removed"
    [] Exists /\ story.op # "running" -> "free"
    [] OTHER -> IF story.kind = "script_generation" THEN "writing" ELSE "planning"

Desk == INSTANCE IdeationDesk WITH
  Texts <- Texts, None <- None, MaxVersions <- MaxVersions, desk <- Doing,
  plan <- story.plan, script <- story.script, shelf <- story.versions, stored <- stored

\* Requests, tasks that write what they made of a row read minutes before, heartbeats,
\* watchdog and stops together look like one operation at a time on a desk: each changes
\* the plan as its parts depend on each other and takes the script along or leaves both,
\* with agents and edits in time.
ImplementsIdeationDesk == Desk!Spec

\* The workspace is never blocked for good: an operation marked as running ends,
\* by its task or by the watchdog, which "scans for active story and research
\* operations" and fails the stale ones (stale_pipeline_watchdog.py:10-11).
EveryOperationEnds == story.op = "running" ~> story.op # "running"
================================================================================
