----------------------------- MODULE IdeationProofs -----------------------------
(* Machine-checked proofs of Ideation's safety properties, for any texts, any    *)
(* number of requests and edits and any depth of the version list.               *)
EXTENDS Ideation, SequenceTheorems, TLAPS

--------------------------------------------------------------------------------
(* Types. The version list a task writes back is the one it read, so the rows    *)
(* the tasks hold are typed with the story's.                                    *)

Row == {s \in Story : Len(s.versions) <= MaxVersions}

Typed ==
  /\ TypeOK
  /\ \A n \in Requests : Len(task[n].snap.versions) <= MaxVersions

LEMMA TypedRows ==
  ASSUME Typed
  PROVE  /\ story \in Row /\ task \in [Requests -> Task]
         /\ \A n \in Requests : task[n] \in Task /\ task[n].snap \in Row
  BY DEF Typed, TypeOK, Row, Task

LEMMA NoPlanTyped == NoPlan \in Plan /\ None \in Part
  BY DEF NoPlan, Plan, Part

LEMMA DraftTyped == Draft \in Row
<1>1. <<>> \in Seq(Nat) /\ Len(<<>>) <= MaxVersions
  BY BoundAssumption
<1>2. QED
  BY <1>1, NoPlanTyped DEF Draft, Row, Story, Stages, Kinds, Planning

LEMMA ScheduledTyped ==
  ASSUME NEW kind \in Kinds, NEW stage \in Stages, NEW arg \in Part
  PROVE  LET t == Scheduled(kind, stage, arg) IN
         /\ t \in Task /\ t.snap \in Row
         /\ t.pc = "scheduled" /\ t.kind = kind /\ t.stage = stage /\ t.arg = arg
  BY DraftTyped DEF Scheduled, Task, Row

LEMMA NoTaskTyped == NoTask \in Task /\ NoTask.snap \in Row /\ NoTask.pc = "none"
<1> DEFINE t == Scheduled("chat", "angles", None)
<1>1. t \in Task /\ t.snap \in Row
  BY ScheduledTyped, NoPlanTyped DEF Kinds, Planning, Stages
<1> HIDE DEF t
<1>2. [t EXCEPT !.pc = "none"] \in Task /\ [t EXCEPT !.pc = "none"].snap = t.snap
      /\ [t EXCEPT !.pc = "none"].pc = "none"
  BY <1>1 DEF Task
<1>3. QED
  BY <1>1, <1>2 DEF NoTask, t

LEMMA ArchivedTyped ==
  ASSUME NEW s \in Row
  PROVE  Archived(s) \in Seq(Nat) /\ Len(Archived(s)) <= MaxVersions
<1>1. s.versions \in Seq(Nat) /\ Len(s.versions) <= MaxVersions /\ s.script \in Nat
  BY DEF Row, Story
<1> DEFINE all == Append(s.versions, s.script)
<1>2. all \in Seq(Nat) /\ Len(all) = Len(s.versions) + 1 /\ Len(s.versions) \in Nat
  BY <1>1
<1>3. Tail(all) \in Seq(Nat) /\ Len(Tail(all)) = Len(s.versions)
  BY <1>2
<1>4. QED
  BY <1>1, <1>2, <1>3, BoundAssumption DEF Archived

\* What _invalidate_current_script_values changes.
LEMMA InvalidatedRow ==
  ASSUME NEW s \in Row, NEW snap \in Row
  PROVE  LET r == Invalidated(s, snap) IN
         /\ r \in Row
         /\ r.status = s.status /\ r.stage = s.stage /\ r.plan = s.plan /\ r.op = s.op
         /\ r.kind = s.kind /\ r.pending = s.pending
         /\ r.script = IF snap.script = 0 THEN s.script ELSE 0
         /\ r.versions = IF snap.script = 0 THEN s.versions ELSE Archived(snap)
         /\ r.written = IF snap.script = 0 THEN s.written ELSE NoPlan
<1>1. Archived(snap) \in Seq(Nat) /\ Len(Archived(snap)) <= MaxVersions
  BY ArchivedTyped
<1>2. QED
  BY <1>1, NoPlanTyped DEF Invalidated, Row, Story

--------------------------------------------------------------------------------
(* What the steps do to the script and the plan.                                 *)

\* The script with its plan and its versions is left alone.
ScriptLeft == /\ story'.script = story.script /\ story'.versions = story.versions
              /\ story'.written = story.written

\* The script goes, if the row in snap had one.
ScriptGoes(snap) ==
  /\ story'.script = IF snap.script = 0 THEN story.script ELSE 0
  /\ story'.versions = IF snap.script = 0 THEN story.versions ELSE Archived(snap)
  /\ story'.written = IF snap.script = 0 THEN story.written ELSE NoPlan

Submitted ==
  /\ Editable
  /\ story' \in Row /\ story'.op = "running" /\ story'.status = "ideating"
  /\ sent' \in 1..MaxRequests /\ UNCHANGED <<edits, stored>>
  /\ \E n \in Requests, kind \in Kinds, stage \in Stages, arg \in Part :
       /\ task' = [task EXCEPT ![n] = Scheduled(kind, stage, arg)]
       /\ (kind = "chat" /\ ScriptLeft /\ story'.plan = story.plan) \/ ScriptGoes(story)
       /\ kind = "script_generation" => Complete(story'.plan)

Approved ==
  /\ Editable
  /\ story' \in Row /\ story'.op = story.op /\ story'.status = "ideating"
  /\ ScriptGoes(story) /\ UNCHANGED <<task, sent, edits, stored>>

\* Every planning request submits a row whose script is still there only if the
\* request is a chat that has not touched the plan.
LEMMA SubmitEffect ==
  ASSUME Typed, NEW kind \in Planning, NEW stage \in Stages, NEW arg \in Part, NEW new \in Row,
         Submit(kind, stage, arg, new),
         \/ kind = "chat" /\ new = story
         \/ /\ new.script = 0 \/ (story.script = 0 /\ new.script = story.script)
            /\ new.versions = IF story.script = 0 THEN story.versions ELSE Archived(story)
            /\ new.written = IF story.script = 0 THEN story.written ELSE NoPlan
  PROVE  Submitted
<1> DEFINE row == [new EXCEPT !.status = "ideating", !.op = "running", !.kind = kind,
                              !.pending = @ + 1]
<1>1. /\ Editable /\ sent < MaxRequests /\ sent' = sent + 1 /\ story' = row
      /\ task' = [task EXCEPT ![sent + 1] = Scheduled(kind, stage, arg)]
      /\ UNCHANGED <<edits, stored>>
  BY DEF Submit
<1>2. /\ row \in Row /\ row.op = "running" /\ row.status = "ideating"
      /\ row.script = new.script /\ row.versions = new.versions /\ row.written = new.written
      /\ row.plan = new.plan
  <2>1. new \in Story /\ new.pending + 1 \in Nat /\ kind \in Kinds /\ Len(new.versions) <= MaxVersions
    BY DEF Row, Story, Kinds
  <2>2. /\ row \in Story /\ row.versions = new.versions
        /\ row.op = "running" /\ row.status = "ideating"
        /\ row.script = new.script /\ row.written = new.written /\ row.plan = new.plan
    BY <2>1 DEF Story
  <2>3. QED
    BY <2>1, <2>2 DEF Row
<1> HIDE DEF row
<1>3. sent + 1 \in Requests /\ sent' \in 1..MaxRequests
  BY <1>1, BoundAssumption DEF Typed, TypeOK, Requests
<1>4. kind \in Kinds /\ kind # "script_generation"
  BY DEF Kinds, Planning
<1>5. (kind = "chat" /\ ScriptLeft /\ story'.plan = story.plan) \/ ScriptGoes(story)
  BY <1>1, <1>2 DEF ScriptLeft, ScriptGoes
<1>6. QED
  BY <1>1, <1>2, <1>3, <1>4, <1>5 DEF Submitted

\* The row of a request that drops the script and redrafts the plan.
Redrafted(plan, stage) == [Invalidated(story, story) EXCEPT !.plan = plan, !.stage = stage]

LEMMA RedraftedRow ==
  ASSUME Typed, NEW plan \in Plan, NEW stage \in Stages
  PROVE  LET r == Redrafted(plan, stage) IN
         /\ r \in Row /\ r.plan = plan /\ r.stage = stage /\ r.script = 0
         /\ r.op = story.op /\ r.status = story.status
         /\ r.versions = IF story.script = 0 THEN story.versions ELSE Archived(story)
         /\ r.written = IF story.script = 0 THEN story.written ELSE NoPlan
<1> DEFINE i == Invalidated(story, story)
           r == [i EXCEPT !.plan = plan, !.stage = stage]
<1>1. /\ i \in Row
      /\ i.status = story.status /\ i.op = story.op
      /\ i.script = IF story.script = 0 THEN story.script ELSE 0
      /\ i.versions = IF story.script = 0 THEN story.versions ELSE Archived(story)
      /\ i.written = IF story.script = 0 THEN story.written ELSE NoPlan
  BY TypedRows, InvalidatedRow
<1> HIDE DEF i
<1>2. i \in Story /\ Len(i.versions) <= MaxVersions
  BY <1>1 DEF Row
<1>3. /\ r \in Story /\ r.plan = plan /\ r.stage = stage /\ r.versions = i.versions
      /\ r.script = i.script /\ r.written = i.written /\ r.op = i.op /\ r.status = i.status
  BY <1>2 DEF Story
<1>4. r = Redrafted(plan, stage)
  BY DEF i, Redrafted
<1> HIDE DEF r
<1>5. QED
  BY <1>1, <1>2, <1>3, <1>4 DEF Row

LEMMA PlansTyped ==
  ASSUME NEW plan \in Plan, NEW text \in Part
  PROVE  /\ WithAngle(plan, text) \in Plan /\ WithHook(plan, text) \in Plan
         /\ [plan EXCEPT !.chapters = text] \in Plan /\ [plan EXCEPT !.hook = text] \in Plan
         /\ WithHook(plan, text) = [plan EXCEPT !.hook = text, !.chapters = None]
  BY NoPlanTyped DEF WithAngle, WithHook, Plan

LEMMA RedraftSubmitted ==
  ASSUME Typed, NEW kind \in Planning, NEW on \in Stages, NEW arg \in Part, NEW plan \in Plan,
         NEW stage \in Stages, Submit(kind, on, arg, Redrafted(plan, stage))
  PROVE  Submitted
<1> DEFINE r == Redrafted(plan, stage)
<1>1. /\ r \in Row /\ r.script = 0
      /\ r.versions = IF story.script = 0 THEN story.versions ELSE Archived(story)
      /\ r.written = IF story.script = 0 THEN story.written ELSE NoPlan
  BY RedraftedRow
<1>2. Submit(kind, on, arg, r)
  OBVIOUS
<1> HIDE DEF r
<1>3. QED
  BY <1>1, <1>2, SubmitEffect

LEMMA RequestEffect ==
  ASSUME Typed, Request
  PROVE  Submitted \/ Approved \/ UpdateScript \/ DeleteStory
<1> DEFINE i == Invalidated(story, story)
<1>0. /\ story \in Row /\ story.plan \in Plan /\ i \in Row /\ i.plan = story.plan
      /\ {"angles", "hook", "chapters", "ready_for_script"} \subseteq Stages
      /\ {"chat", "generate_angles", "generate_hooks", "approve_angle", "approve_hook"} \subseteq Planning
      /\ None \in Part
  BY TypedRows, InvalidatedRow, NoPlanTyped DEF Row, Story, Stages, Planning
\* A chat with the plan as it is.
<1>1. ASSUME NEW stage \in {"angles", "hook", "chapters"}, Submit("chat", stage, None, story)
      PROVE  Submitted
  BY <1>0, <1>1, SubmitEffect
\* Anything else that is submitted.
<1>2. ASSUME NEW kind \in Planning, NEW on \in Stages, NEW arg \in Part, NEW plan \in Plan,
             NEW stage \in Stages, Submit(kind, on, arg, [i EXCEPT !.plan = plan, !.stage = stage])
      PROVE  Submitted
  BY <1>2, RedraftSubmitted DEF Redrafted
<1>3. ASSUME NEW stage \in {"angles", "hook", "chapters"}, Chat(stage)
      PROVE  Submitted
  BY <1>1, <1>3 DEF Chat
<1>4. ASSUME NEW text \in Part, ChatWithAngle(text)
      PROVE  Submitted
  <2>1. CASE text = story.plan.angle
    BY <1>1, <1>4, <2>1 DEF ChatWithAngle
  <2>2. CASE text # story.plan.angle
    <3>1. Submit("chat", "angles", None, [i EXCEPT !.plan = WithAngle(i.plan, text), !.stage = "angles"])
      BY <1>4, <2>2 DEF ChatWithAngle
    <3>2. WithAngle(i.plan, text) \in Plan
      BY <1>0, PlansTyped
    <3> HIDE DEF i
    <3>3. QED
      BY <1>0, <1>2, <3>1, <3>2
  <2>3. QED
    BY <2>1, <2>2
<1>5. ASSUME NEW text \in Part, ChatWithHook(text)
      PROVE  Submitted
  <2>1. CASE text = story.plan.hook
    BY <1>1, <1>5, <2>1 DEF ChatWithHook
  <2>2. CASE text # story.plan.hook
    <3>1. Submit("chat", "hook", None, [i EXCEPT !.plan = WithHook(i.plan, text), !.stage = "hook"])
      BY <1>5, <2>2 DEF ChatWithHook
    <3>2. WithHook(i.plan, text) \in Plan
      BY <1>0, PlansTyped
    <3> HIDE DEF i
    <3>3. QED
      BY <1>0, <1>2, <3>1, <3>2
  <2>3. QED
    BY <2>1, <2>2
<1>6. ASSUME NEW text \in Part, ChatWithChapters(text)
      PROVE  Submitted
  <2>1. Submit("chat", "chapters", None,
               [i EXCEPT !.plan = [i.plan EXCEPT !.chapters = text], !.stage = "chapters"])
    BY <1>6 DEF ChatWithChapters
  <2>2. [i.plan EXCEPT !.chapters = text] \in Plan
    BY <1>0, PlansTyped
  <2> HIDE DEF i
  <2>3. QED
    BY <1>0, <1>2, <2>1, <2>2
<1>7. ASSUME NEW text \in Texts, ApproveAngle(text)
      PROVE  Submitted
  <2>1. Submit("approve_angle", "hook", text,
               [i EXCEPT !.plan = WithAngle(i.plan, text), !.stage = "hook"])
    BY <1>7 DEF ApproveAngle
  <2>2. WithAngle(i.plan, text) \in Plan /\ text \in Part
    BY <1>0, PlansTyped DEF Part
  <2> HIDE DEF i
  <2>3. QED
    BY <1>0, <1>2, <2>1, <2>2
<1>8. ASSUME NEW text \in Texts, ApproveHook(text)
      PROVE  Submitted
  <2>1. Submit("approve_hook", "chapters", text,
               [i EXCEPT !.plan = WithHook(i.plan, text), !.stage = "chapters"])
    BY <1>8 DEF ApproveHook
  <2>2. WithHook(i.plan, text) \in Plan /\ text \in Part
    BY <1>0, PlansTyped DEF Part
  <2> HIDE DEF i
  <2>3. QED
    BY <1>0, <1>2, <2>1, <2>2
<1>9. ASSUME GenerateAngles
      PROVE  Submitted
  BY <1>0, <1>2, <1>9, NoPlanTyped DEF GenerateAngles
<1>10. ASSUME GenerateHooks
       PROVE  Submitted
  <2>1. Submit("generate_hooks", "hook", None,
               [i EXCEPT !.plan = [i.plan EXCEPT !.chapters = None], !.stage = "hook"])
    BY <1>10 DEF GenerateHooks
  <2>2. [i.plan EXCEPT !.chapters = None] \in Plan
    BY <1>0, PlansTyped
  <2> HIDE DEF i
  <2>3. QED
    BY <1>0, <1>2, <2>1, <2>2
<1>11. ASSUME NEW text \in Texts, ApproveChapters(text)
       PROVE  Approved
  <2> DEFINE plan == [i.plan EXCEPT !.chapters = text]
             r == Redrafted(plan, "ready_for_script")
  <2>1. plan \in Plan
    BY <1>0, PlansTyped DEF Part
  <2>2. /\ r \in Row /\ r.script = 0 /\ r.op = story.op
        /\ r.versions = IF story.script = 0 THEN story.versions ELSE Archived(story)
        /\ r.written = IF story.script = 0 THEN story.written ELSE NoPlan
    BY <1>0, <2>1, RedraftedRow
  <2>3. story' = [r EXCEPT !.status = "ideating"]
    <3>1. r = [i EXCEPT !.plan = plan, !.stage = "ready_for_script"]
      BY DEF Redrafted
    <3>2. story' = [i EXCEPT !.status = "ideating", !.plan.chapters = text, !.stage = "ready_for_script"]
      BY <1>11 DEF ApproveChapters
    <3> HIDE DEF r
    <3>3. i \in Story
      BY <1>0 DEF Row
    <3> HIDE DEF i
    <3>4. QED
      BY <3>1, <3>2, <3>3 DEF Story
  <2> HIDE DEF r
  <2>4. r \in Story /\ Len(r.versions) <= MaxVersions
    BY <2>2 DEF Row
  <2>5. /\ story' \in Story /\ story'.status = "ideating" /\ story'.versions = r.versions
        /\ story'.script = r.script /\ story'.written = r.written /\ story'.op = r.op
    BY <2>3, <2>4 DEF Story
  <2>6. story' \in Row /\ ScriptGoes(story)
    BY <2>2, <2>4, <2>5 DEF Row, ScriptGoes
  <2>7. QED
    BY <1>11, <2>2, <2>5, <2>6 DEF ApproveChapters, Approved
<1>12. ASSUME GenerateScript
       PROVE  Submitted
  <2> DEFINE r == Redrafted(story.plan, "ready_for_script")
  <2>1. /\ r \in Row /\ r.script = 0 /\ r.plan = story.plan
        /\ r.versions = IF story.script = 0 THEN story.versions ELSE Archived(story)
        /\ r.written = IF story.script = 0 THEN story.written ELSE NoPlan
    BY <1>0, RedraftedRow
  <2>2. story' = [r EXCEPT !.status = "ideating", !.op = "running", !.kind = "script_generation"]
    <3>1. r = [i EXCEPT !.plan = story.plan, !.stage = "ready_for_script"]
      BY DEF Redrafted
    <3>2. story' = [i EXCEPT !.status = "ideating", !.stage = "ready_for_script", !.op = "running",
                             !.kind = "script_generation"]
      BY <1>12 DEF GenerateScript
    <3> HIDE DEF r
    <3>3. i \in Story /\ i.plan = story.plan
      BY <1>0 DEF Row
    <3> HIDE DEF i
    <3>4. QED
      BY <3>1, <3>2, <3>3 DEF Story
  <2> HIDE DEF r
  <2>3. r \in Story /\ Len(r.versions) <= MaxVersions /\ "script_generation" \in Kinds
    BY <2>1 DEF Row, Kinds
  <2>4. /\ story' \in Story /\ story'.status = "ideating" /\ story'.op = "running"
        /\ story'.versions = r.versions /\ story'.script = r.script
        /\ story'.written = r.written /\ story'.plan = r.plan
    BY <2>2, <2>3 DEF Story
  <2>5. story' \in Row /\ ScriptGoes(story) /\ Complete(story'.plan)
    BY <1>12, <2>1, <2>3, <2>4 DEF Row, ScriptGoes, GenerateScript
  <2>6. /\ sent' \in 1..MaxRequests /\ sent + 1 \in Requests
        /\ task' = [task EXCEPT ![sent + 1] = Scheduled("script_generation", "ready_for_script", None)]
        /\ Editable /\ UNCHANGED <<edits, stored>>
    BY <1>12, BoundAssumption DEF GenerateScript, Typed, TypeOK, Requests
  <2>7. QED
    BY <1>0, <2>3, <2>4, <2>5, <2>6 DEF Submitted
<1>13. QED
  BY <1>3, <1>4, <1>5, <1>6, <1>7, <1>8, <1>9, <1>10, <1>11, <1>12 DEF Request

\* What the end of task n does to a story that is still there.
TaskWrites(n) ==
  LET snap == task[n].snap IN
  /\ story' \in Row
  /\ \/ ScriptLeft /\ stored' = stored
        /\ \/ story'.plan = story.plan
           \/ task[n].kind # "chat"
           \/ story'.plan = [story.plan EXCEPT !.hook = snap.plan.hook]
     \/ ScriptGoes(snap) /\ stored' = stored
     \/ /\ task[n].kind = "script_generation"
        /\ story'.plan = story.plan /\ story'.versions = story.versions
        /\ \/ /\ stored' = stored + 1 /\ story'.script = stored + 1
              /\ story'.written = snap.plan
           \/ stored' = stored /\ story'.script = 0 /\ story'.written = NoPlan

LEMMA SettledRow ==
  ASSUME Typed, NEW snap \in Row
  PROVE  LET r == Settled(snap) IN
         /\ r \in Row /\ r.plan = story.plan /\ r.stage = story.stage
         /\ r.script = story.script /\ r.versions = story.versions /\ r.written = story.written
         /\ r.op = "none" /\ r.status = story.status
<1>1. snap.pending \in Nat /\ story \in Story /\ Len(story.versions) <= MaxVersions
  BY TypedRows DEF Row, Story
<1>2. ClosedMessages(snap) \in Nat
  BY <1>1 DEF ClosedMessages
<1> DEFINE r == Settled(snap)
<1>3. r \in Story /\ r.plan = story.plan /\ r.stage = story.stage /\ r.script = story.script
      /\ r.versions = story.versions /\ r.written = story.written
      /\ r.op = "none" /\ r.status = story.status
  BY <1>1, <1>2 DEF Settled, Story
<1> HIDE DEF r
<1>4. r \in Row
  BY <1>1, <1>3 DEF Row
<1>5. QED
  BY <1>3, <1>4 DEF r

\* The fields of a row with another plan and stage.
Replan(s, plan, stage) == [s EXCEPT !.plan = plan, !.stage = stage]

LEMMA ReplanRow ==
  ASSUME NEW s \in Row, NEW plan \in Plan, NEW stage \in Stages
  PROVE  /\ Replan(s, plan, stage) \in Row
         /\ Replan(s, plan, stage).plan = plan /\ Replan(s, plan, stage).stage = stage
         /\ Replan(s, plan, stage).script = s.script /\ Replan(s, plan, stage).versions = s.versions
         /\ Replan(s, plan, stage).written = s.written
         /\ Replan(s, plan, stage).op = s.op /\ Replan(s, plan, stage).status = s.status
<1> DEFINE r == Replan(s, plan, stage)
<1>1. s \in Story /\ Len(s.versions) <= MaxVersions
  BY DEF Row
<1>2. r \in Story /\ r.plan = plan /\ r.stage = stage /\ r.script = s.script
      /\ r.versions = s.versions /\ r.written = s.written /\ r.op = s.op /\ r.status = s.status
  BY <1>1 DEF Story, Replan
<1> HIDE DEF r
<1>3. r \in Row
  BY <1>1, <1>2 DEF Row
<1>4. QED
  BY <1>2, <1>3 DEF r

LEMMA AnglesEffect ==
  ASSUME Typed, NEW n \in Requests, NEW offered \in BOOLEAN, NEW again \in BOOLEAN,
         AnglesOffered(n, offered, again), Exists
  PROVE  TaskWrites(n)
<1> DEFINE snap == task[n].snap
           done == Settled(snap)
           i == Invalidated(done, snap)
           new == Replan(i, NoPlan, "angles")
<1>1. story' \in {done, new} /\ stored' = stored
  BY DEF AnglesOffered, Finish, Replan
<1>2. snap \in Row
  BY TypedRows
<1> HIDE DEF snap
<1>3. /\ done \in Row /\ done.plan = story.plan /\ done.script = story.script
      /\ done.versions = story.versions /\ done.written = story.written
  BY <1>2, SettledRow
<1> HIDE DEF done
<1>4. /\ i \in Row
      /\ i.script = IF snap.script = 0 THEN done.script ELSE 0
      /\ i.versions = IF snap.script = 0 THEN done.versions ELSE Archived(snap)
      /\ i.written = IF snap.script = 0 THEN done.written ELSE NoPlan
  BY <1>2, <1>3, InvalidatedRow
<1> HIDE DEF i
<1>5. new \in Row /\ new.script = i.script /\ new.versions = i.versions /\ new.written = i.written
  BY <1>4, ReplanRow, NoPlanTyped DEF Stages
<1> HIDE DEF new
<1>6. CASE story' = done
  BY <1>1, <1>3, <1>6 DEF TaskWrites, ScriptLeft
<1>7. CASE story' = new
  <2>1. ScriptGoes(snap)
    BY <1>3, <1>4, <1>5, <1>7 DEF ScriptGoes
  <2>2. QED
    BY <1>1, <1>5, <1>7, <2>1 DEF TaskWrites, snap
<1>8. QED
  BY <1>1, <1>6, <1>7

LEMMA HookEffect ==
  ASSUME Typed, NEW n \in Requests, NEW hook \in Part, HookDrafted(n, hook), Exists
  PROVE  TaskWrites(n)
<1> DEFINE snap == task[n].snap
           settled == Settled(snap)
           done == IF task[n].kind = "approve_angle"
                   THEN Replan(settled, WithAngle(settled.plan, task[n].arg), "hook")
                   ELSE settled
           with == Replan(done, [done.plan EXCEPT !.hook = hook], "hook")
           i == Invalidated(with, snap)
           new == Replan(i, [i.plan EXCEPT !.chapters = None], i.stage)
<1>0. /\ snap \in Row /\ task[n].arg \in Part /\ "hook" \in Stages /\ None \in Part
      /\ story.plan \in Plan
  BY TypedRows, NoPlanTyped DEF Task, Stages, Row, Story
<1>1. /\ settled \in Row /\ settled.plan = story.plan /\ settled.script = story.script
      /\ settled.versions = story.versions /\ settled.written = story.written
  BY <1>0, SettledRow
<1>2. Archived(snap) \in Seq(Nat)
  BY <1>0, ArchivedTyped
<1>3. /\ stored' = stored
      /\ story' = IF hook = None THEN done
                  ELSE IF task[n].kind = "chat" /\ hook # snap.plan.hook
                  THEN [i EXCEPT !.plan.chapters = None]
                  ELSE with
  BY DEF HookDrafted, Finish, Replan
<1> HIDE DEF settled
<1>4. /\ done \in Row /\ done.script = story.script /\ done.versions = story.versions
      /\ done.written = story.written /\ done.plan \in Plan
      /\ task[n].kind # "approve_angle" => done.plan = story.plan
  <2>1. CASE task[n].kind = "approve_angle"
    <3>1. WithAngle(settled.plan, task[n].arg) \in Plan
      BY <1>0, <1>1, PlansTyped
    <3>2. QED
      BY <1>0, <1>1, <2>1, <3>1, ReplanRow
  <2>2. CASE task[n].kind # "approve_angle"
    BY <1>0, <1>1, <2>2
  <2>3. QED
    BY <2>1, <2>2
<1> HIDE DEF done
<1>5. [done.plan EXCEPT !.hook = hook] \in Plan
  BY <1>4, PlansTyped
<1>6. /\ with \in Row /\ with.script = story.script /\ with.versions = story.versions
      /\ with.written = story.written /\ with.plan = [done.plan EXCEPT !.hook = hook]
  BY <1>0, <1>4, <1>5, ReplanRow
<1> HIDE DEF with
<1>7. /\ i \in Row /\ i.plan \in Plan /\ i.stage \in Stages
      /\ i.script = IF snap.script = 0 THEN with.script ELSE 0
      /\ i.versions = IF snap.script = 0 THEN with.versions ELSE Archived(snap)
      /\ i.written = IF snap.script = 0 THEN with.written ELSE NoPlan
  BY <1>0, <1>6, InvalidatedRow DEF Row, Story
<1> HIDE DEF i
<1>8. new \in Row /\ new.script = i.script /\ new.versions = i.versions /\ new.written = i.written
  <2>1. [i.plan EXCEPT !.chapters = None] \in Plan
    BY <1>0, <1>7, PlansTyped
  <2>2. QED
    BY <1>7, <2>1, ReplanRow
<1>9. new = [i EXCEPT !.plan.chapters = None]
  BY <1>7 DEF Row, Story, Replan
<1> HIDE DEF new
<1>10. CASE story' = done
  BY <1>3, <1>4, <1>10 DEF TaskWrites, ScriptLeft
<1>11. CASE story' = new
  <2>1. ScriptGoes(snap)
    BY <1>6, <1>7, <1>8, <1>11 DEF ScriptGoes
  <2>2. QED
    BY <1>3, <1>8, <1>11, <2>1 DEF TaskWrites, snap
<1>12. CASE story' = with /\ (task[n].kind = "chat" => hook = snap.plan.hook)
  <2>1. task[n].kind = "chat" => story'.plan = [story.plan EXCEPT !.hook = snap.plan.hook]
    BY <1>4, <1>6, <1>12
  <2>2. ScriptLeft
    BY <1>6, <1>12 DEF ScriptLeft
  <2>3. QED
    BY <1>3, <1>6, <1>12, <2>1, <2>2 DEF TaskWrites, snap
<1>13. QED
  BY <1>3, <1>9, <1>10, <1>11, <1>12

LEMMA ChaptersEffect ==
  ASSUME Typed, NEW n \in Requests, NEW chapters \in Part, ChaptersDrafted(n, chapters), Exists
  PROVE  TaskWrites(n)
<1> DEFINE snap == task[n].snap
           settled == Settled(snap)
           done == IF task[n].kind = "approve_hook"
                   THEN Replan(settled, [settled.plan EXCEPT !.hook = task[n].arg], "chapters")
                   ELSE settled
           with == Replan(done, [done.plan EXCEPT !.chapters = chapters], done.stage)
           i == Invalidated(with, snap)
           new == Replan(i, i.plan, "chapters")
<1>0. /\ snap \in Row /\ task[n].arg \in Part /\ "chapters" \in Stages /\ story.plan \in Plan
  BY TypedRows DEF Task, Stages, Row, Story
<1>1. /\ settled \in Row /\ settled.plan = story.plan /\ settled.script = story.script
      /\ settled.versions = story.versions /\ settled.written = story.written
  BY <1>0, SettledRow
<1>d. done = IF task[n].kind = "approve_hook"
             THEN [settled EXCEPT !.plan.hook = task[n].arg, !.stage = "chapters"]
             ELSE settled
  BY <1>1 DEF Row, Story, Replan
<1>w. ASSUME done \in Row
      PROVE  with = [done EXCEPT !.plan.chapters = chapters]
  BY <1>w DEF Row, Story, Replan
<1>3. /\ stored' = stored
      /\ story' = LET d == IF task[n].kind = "approve_hook"
                           THEN [settled EXCEPT !.plan.hook = task[n].arg, !.stage = "chapters"]
                           ELSE settled
                      w == [d EXCEPT !.plan.chapters = chapters]
                  IN  IF chapters = None THEN d
                      ELSE IF task[n].kind = "chat"
                      THEN [Invalidated(w, snap) EXCEPT !.stage = "chapters"]
                      ELSE w
  BY DEF ChaptersDrafted, Finish
<1> HIDE DEF settled
<1>4. /\ done \in Row /\ done.script = story.script /\ done.versions = story.versions
      /\ done.written = story.written /\ done.plan \in Plan /\ done.stage \in Stages
      /\ task[n].kind # "approve_hook" => done.plan = story.plan
  <2>1. CASE task[n].kind = "approve_hook"
    <3>1. [settled.plan EXCEPT !.hook = task[n].arg] \in Plan
      BY <1>0, <1>1, PlansTyped
    <3>2. QED
      BY <1>0, <1>1, <2>1, <3>1, ReplanRow
  <2>2. CASE task[n].kind # "approve_hook"
    BY <1>0, <1>1, <2>2 DEF Row, Story
  <2>3. QED
    BY <2>1, <2>2
<1>5. story' = IF chapters = None THEN done
               ELSE IF task[n].kind = "chat" THEN [i EXCEPT !.stage = "chapters"] ELSE with
  BY <1>3, <1>4, <1>d, <1>w
<1> HIDE DEF done
<1>6. /\ with \in Row /\ with.script = story.script /\ with.versions = story.versions
      /\ with.written = story.written
  <2>1. [done.plan EXCEPT !.chapters = chapters] \in Plan
    BY <1>4, PlansTyped
  <2>2. QED
    BY <1>4, <2>1, ReplanRow
<1> HIDE DEF with
<1>7. /\ i \in Row /\ i.plan \in Plan
      /\ i.script = IF snap.script = 0 THEN with.script ELSE 0
      /\ i.versions = IF snap.script = 0 THEN with.versions ELSE Archived(snap)
      /\ i.written = IF snap.script = 0 THEN with.written ELSE NoPlan
  BY <1>0, <1>6, InvalidatedRow DEF Row, Story
<1> HIDE DEF i
<1>8. new \in Row /\ new.script = i.script /\ new.versions = i.versions /\ new.written = i.written
  BY <1>0, <1>7, ReplanRow
<1>9. new = [i EXCEPT !.stage = "chapters"]
  BY <1>7 DEF Row, Story, Replan
<1> HIDE DEF new
<1>10. CASE story' = done
  BY <1>3, <1>4, <1>10 DEF TaskWrites, ScriptLeft
<1>11. CASE story' = new
  <2>1. ScriptGoes(snap)
    BY <1>6, <1>7, <1>8, <1>11 DEF ScriptGoes
  <2>2. QED
    BY <1>3, <1>8, <1>11, <2>1 DEF TaskWrites, snap
<1>12. CASE story' = with /\ task[n].kind # "chat"
  BY <1>3, <1>6, <1>12 DEF TaskWrites, ScriptLeft
<1>13. QED
  BY <1>5, <1>9, <1>10, <1>11, <1>12

LEMMA TaskEndsEffect ==
  ASSUME Typed, NEW n \in Requests, TaskEnds(n)
  PROVE  /\ task[n].pc = "working" /\ task' = [task EXCEPT ![n] = NoTask]
         /\ UNCHANGED <<sent, edits>>
         /\ IF Exists THEN TaskWrites(n) ELSE UNCHANGED <<story, stored>>
<1>0. story \in Story /\ Len(story.versions) <= MaxVersions /\ stored \in Nat
      /\ task[n].snap.plan \in Plan /\ NoPlan \in Plan /\ task[n].kind \in Kinds
  BY TypedRows, NoPlanTyped DEF Row, Typed, TypeOK, Task, Story
<1>1. /\ task[n].pc = "working" /\ task' = [task EXCEPT ![n] = NoTask] /\ UNCHANGED <<sent, edits>>
      /\ ~Exists => UNCHANGED <<story, stored>>
  BY DEF TaskEnds, AnglesOffered, HookDrafted, ChaptersDrafted, PlanningFails, ScriptWritten, NoScript,
         PipelineRaises, Finish
<1>2. ASSUME Exists
      PROVE  TaskWrites(n)
  <2>1. ASSUME PlanningFails(n)
        PROVE  TaskWrites(n)
    <3>1. story' = [story EXCEPT !.op = "failed", !.kind = task[n].kind,
                                 !.pending = ClosedMessages(story)] /\ stored' = stored
      BY <1>2, <2>1 DEF PlanningFails, Finish
    <3>2. ClosedMessages(story) \in Nat
      BY <1>0 DEF ClosedMessages, Story
    <3>3. story' \in Story /\ ScriptLeft /\ story'.plan = story.plan
      BY <1>0, <3>1, <3>2 DEF Story, ScriptLeft
    <3>4. story' \in Row
      BY <1>0, <3>3 DEF Row, ScriptLeft
    <3>5. QED
      BY <3>1, <3>3, <3>4 DEF TaskWrites
  <2>2. ASSUME ScriptWritten(n)
        PROVE  TaskWrites(n)
    <3>1. /\ story' = [story EXCEPT !.status = "completed", !.op = "none", !.script = stored + 1,
                                    !.written = task[n].snap.plan]
          /\ stored' = stored + 1 /\ task[n].kind = "script_generation"
      BY <1>2, <2>2 DEF ScriptWritten, Finish
    <3>2. /\ story' \in Story /\ story'.plan = story.plan /\ story'.versions = story.versions
          /\ story'.script = stored + 1 /\ story'.written = task[n].snap.plan
      <4>1. stored + 1 \in Nat /\ task[n].snap.plan \in Plan
        BY <1>0
      <4>2. QED
        BY <1>0, <3>1, <4>1 DEF Story
    <3>3. story' \in Row
      BY <1>0, <3>2 DEF Row
    <3>4. QED
      BY <3>1, <3>2, <3>3 DEF TaskWrites
  <2>3. ASSUME NoScript(n)
        PROVE  TaskWrites(n)
    <3>1. /\ story' = [story EXCEPT !.status = "ideating", !.op = "failed",
                             !.kind = "script_generation", !.script = 0, !.written = NoPlan]
          /\ stored' = stored /\ task[n].kind = "script_generation"
      BY <1>2, <2>3 DEF NoScript, Finish
    <3>2. /\ story' \in Story /\ story'.plan = story.plan /\ story'.versions = story.versions
          /\ story'.script = 0 /\ story'.written = NoPlan
      BY <1>0, <3>1 DEF Story
    <3>3. story' \in Row
      BY <1>0, <3>2 DEF Row
    <3>4. QED
      BY <3>1, <3>2, <3>3 DEF TaskWrites
  <2>4. ASSUME PipelineRaises(n)
        PROVE  TaskWrites(n)
    <3>1. story' = [story EXCEPT !.op = "failed", !.kind = "script_generation"] /\ stored' = stored
          /\ "script_generation" \in Kinds
      BY <1>2, <2>4 DEF PipelineRaises, Finish, Kinds
    <3>2. story' \in Story /\ ScriptLeft /\ story'.plan = story.plan
      BY <1>0, <3>1 DEF Story, ScriptLeft
    <3>3. story' \in Row
      BY <1>0, <3>2 DEF Row, ScriptLeft
    <3>4. QED
      BY <3>1, <3>2, <3>3 DEF TaskWrites
  <2>5. QED
    BY <1>2, <2>1, <2>2, <2>3, <2>4, AnglesEffect, HookEffect, ChaptersEffect DEF TaskEnds
<1>3. QED
  BY <1>1, <1>2

--------------------------------------------------------------------------------
(* The steps of tasks that do not end, and of everybody else.                    *)

\* _touch_running_ideation_operation writes the kind of operation and marks it as
\* running; the failing start of a script task leaves everything else.
Touches(n) ==
  /\ task[n].pc # "none" /\ ScriptLeft /\ story'.plan = story.plan /\ story' \in Row
  /\ Exists' => Exists
  /\ UNCHANGED <<sent, edits, stored>>
  /\ \/ /\ task' = [task EXCEPT ![n] = NoTask]
     \/ /\ UNCHANGED story \/ (Exists /\ story'.op = "running")
        /\ \E t \in Task :
             /\ task' = [task EXCEPT ![n] = t] /\ t.pc # "none"
             /\ t.kind = task[n].kind
             /\ \/ t.snap = task[n].snap /\ task[n].pc # "scheduled" /\ Exists
                \/ t.snap = task[n].snap /\ ~Exists
                \/ t.snap = story /\ UNCHANGED story

LEMMA TouchEffect ==
  ASSUME Typed, NEW n \in Requests, TaskStart(n) \/ TouchLoad(n) \/ TouchWrite(n)
  PROVE  Touches(n)
<1>0. /\ story \in Row /\ story \in Story /\ task[n] \in Task /\ task \in [Requests -> Task]
      /\ Len(story.versions) <= MaxVersions
  BY TypedRows DEF Row
<1>1. CASE TaskStart(n)
  <2>1. UNCHANGED <<sent, edits, stored>> /\ task[n].pc = "scheduled"
    BY <1>1 DEF TaskStart
  <2>2. CASE UNCHANGED story /\ task' = [task EXCEPT ![n] = NoTask]
    BY <1>0, <2>1, <2>2 DEF Touches, ScriptLeft, Exists
  <2>3. CASE /\ Exists /\ story' = [story EXCEPT !.status = "failed"]
             /\ task' = [task EXCEPT ![n] = NoTask]
    <3>1. story' \in Story /\ ScriptLeft /\ story'.plan = story.plan
      BY <1>0, <2>3 DEF Story, ScriptLeft
    <3>2. story' \in Row
      BY <1>0, <3>1 DEF Row, ScriptLeft
    <3>3. QED
      BY <2>1, <2>3, <3>1, <3>2 DEF Touches, Exists
  <2>4. CASE UNCHANGED story /\ task' = [task EXCEPT ![n].pc = "working", ![n].snap = story]
    <3> DEFINE t == [task[n] EXCEPT !.pc = "working", !.snap = story]
    <3>1. t \in Task /\ t.pc # "none" /\ t.kind = task[n].kind /\ t.snap = story
      BY <1>0 DEF Task
    <3>2. task' = [task EXCEPT ![n] = t]
      BY <1>0, <2>4
    <3> HIDE DEF t
    <3>3. QED
      BY <1>0, <2>1, <2>4, <3>1, <3>2 DEF Touches, ScriptLeft, Exists
  <2>5. QED
    BY <1>1, <2>2, <2>3, <2>4 DEF TaskStart
<1>2. CASE TouchLoad(n)
  <2> DEFINE t == [task[n] EXCEPT !.pc = "touching", !.seen = story.kind]
  <2>1. story.kind \in Kinds
    BY <1>0 DEF Story
  <2>2. t \in Task /\ t.pc # "none" /\ t.kind = task[n].kind /\ t.snap = task[n].snap
    BY <1>0, <2>1 DEF Task
  <2>3. task' = [task EXCEPT ![n] = t]
    BY <1>0, <1>2 DEF TouchLoad
  <2> HIDE DEF t
  <2>4. QED
    BY <1>0, <1>2, <2>2, <2>3 DEF TouchLoad, Touches, ScriptLeft, Exists
<1>3. CASE TouchWrite(n)
  <2> DEFINE t == [task[n] EXCEPT !.pc = "working"]
  <2>1. t \in Task /\ t.pc # "none" /\ t.kind = task[n].kind /\ t.snap = task[n].snap
    BY <1>0 DEF Task
  <2>2. task' = [task EXCEPT ![n] = t]
    BY <1>0, <1>3 DEF TouchWrite
  <2> HIDE DEF t
  <2>3. task[n].seen \in Kinds
    BY <1>0 DEF Task
  <2>4. /\ story' \in Story /\ ScriptLeft /\ story'.plan = story.plan
        /\ UNCHANGED story \/ (Exists /\ story'.op = "running")
    BY <1>0, <1>3, <2>3 DEF TouchWrite, Story, ScriptLeft
  <2>5. story' \in Row
    BY <1>0, <2>4 DEF Row, ScriptLeft
  <2>6. QED
    BY <1>3, <2>1, <2>2, <2>4, <2>5 DEF TouchWrite, Touches, Exists
<1>4. QED
  BY <1>1, <1>2, <1>3

Edited ==
  /\ UpdateScript
  /\ story' \in Row /\ stored' = stored + 1 /\ story'.script = stored + 1
  /\ story'.versions = Archived(story) /\ story'.written = story.written
  /\ story'.plan = story.plan /\ story'.op = story.op
  /\ UNCHANGED <<task, sent>>

LEMMA EditEffect ==
  ASSUME Typed, UpdateScript
  PROVE  Edited
<1>0. /\ story \in Row /\ story \in Story /\ stored \in Nat
      /\ Archived(story) \in Seq(Nat) /\ Len(Archived(story)) <= MaxVersions
  BY TypedRows, ArchivedTyped DEF Row, Typed, TypeOK
<1>1. story' = [story EXCEPT !.status = "completed", !.script = stored + 1,
                             !.versions = Archived(story)]
  BY DEF UpdateScript
<1>2. /\ story' \in Story /\ story'.script = stored + 1 /\ story'.versions = Archived(story)
      /\ story'.written = story.written /\ story'.plan = story.plan /\ story'.op = story.op
  <2>1. stored + 1 \in Nat
    BY <1>0
  <2>2. QED
    BY <1>0, <1>1, <2>1 DEF Story
<1>3. story' \in Row
  BY <1>0, <1>2 DEF Row
<1>4. QED
  BY <1>2, <1>3 DEF Edited, UpdateScript

Dropped == ~Exists' /\ story' \in Row /\ story'.script = 0 /\ UNCHANGED <<task, sent, edits, stored>>

LEMMA DeleteEffect ==
  ASSUME DeleteStory
  PROVE  Dropped
<1>1. Draft \in Story /\ Len(Draft.versions) <= MaxVersions
  BY DraftTyped DEF Row
<1>2. /\ story' \in Story /\ story'.versions = Draft.versions /\ story'.script = 0
      /\ story'.status = "deleted"
  BY <1>1 DEF DeleteStory, Draft, Story
<1>3. QED
  BY <1>1, <1>2 DEF DeleteStory, Dropped, Exists, Row

Expired ==
  /\ story.op = "running" /\ (PunctualAgent => \A n \in Requests : ~Live(n))
  /\ story' \in Row /\ ScriptLeft /\ story'.plan = story.plan /\ (Exists' => Exists)
  /\ UNCHANGED <<task, sent, edits, stored>>

LEMMA WatchdogEffect ==
  ASSUME Typed, WatchdogFails
  PROVE  Expired
<1>0. story \in Story /\ Len(story.versions) <= MaxVersions
  BY TypedRows DEF Row
<1>1. ClosedMessages(story) \in Nat
  BY <1>0 DEF ClosedMessages, Story
<1>2. story' \in Story /\ ScriptLeft /\ story'.plan = story.plan
  BY <1>0, <1>1 DEF WatchdogFails, Story, ScriptLeft
<1>3. story' \in Row
  BY <1>0, <1>2 DEF Row, ScriptLeft
<1>4. QED
  BY <1>2, <1>3 DEF WatchdogFails, Expired, Exists

\* Every step is one of these.
LEMMA StepEffect ==
  ASSUME Typed, [Next]_vars
  PROVE  \/ Submitted \/ Approved \/ Edited \/ Dropped \/ Expired
         \/ \E n \in Requests : TaskEnds(n) \/ Touches(n)
         \/ Restart
         \/ UNCHANGED vars
  BY RequestEffect, EditEffect, DeleteEffect, WatchdogEffect, TouchEffect DEF Next

LEMMA TypedInit == Init => Typed
<1> SUFFICES ASSUME Init PROVE Typed
  OBVIOUS
<1>1. /\ Scheduled("initial_angles", "angles", None) \in Task
      /\ Scheduled("initial_angles", "angles", None).snap \in Row
  BY ScheduledTyped, NoPlanTyped DEF Kinds, Planning, Stages
<1>2. \A n \in Requests : task[n] \in Task /\ task[n].snap \in Row
  BY <1>1, NoTaskTyped DEF Init
<1>3. task \in [Requests -> Task]
  BY <1>1, NoTaskTyped DEF Init
<1>4. QED
  BY <1>2, <1>3, DraftTyped, BoundAssumption DEF Init, Typed, TypeOK, Row

LEMMA TypedStep ==
  ASSUME Typed, [Next]_vars
  PROVE  Typed'
<1>0. /\ task \in [Requests -> Task] /\ story \in Row
      /\ \A n \in Requests : task[n].snap \in Row
      /\ sent \in 1..MaxRequests /\ edits \in 0..MaxEdits /\ stored \in Nat
  BY TypedRows DEF Typed, TypeOK
\* It is enough that the row and each task are typed.
<1>1. ASSUME story' \in Row, task' \in [Requests -> Task],
             \A n \in Requests : task'[n].snap \in Row,
             sent' \in 1..MaxRequests, edits' \in 0..MaxEdits, stored' \in Nat
      PROVE  Typed'
  BY <1>1 DEF Typed, TypeOK, Row
<1>2. ASSUME NEW n \in Requests, NEW t \in Task, t.snap \in Row, task' = [task EXCEPT ![n] = t]
      PROVE  task' \in [Requests -> Task] /\ \A m \in Requests : task'[m].snap \in Row
  BY <1>0, <1>2
<1>3. CASE Submitted
  <2>1. PICK n \in Requests, kind \in Kinds, stage \in Stages, arg \in Part :
          task' = [task EXCEPT ![n] = Scheduled(kind, stage, arg)]
    BY <1>3 DEF Submitted
  <2>2. Scheduled(kind, stage, arg) \in Task /\ Scheduled(kind, stage, arg).snap \in Row
    BY ScheduledTyped
  <2>3. task' \in [Requests -> Task] /\ \A m \in Requests : task'[m].snap \in Row
    BY <1>2, <2>1, <2>2
  <2>4. QED
    BY <1>0, <1>1, <1>3, <2>3 DEF Submitted
<1>4. CASE Approved \/ Dropped \/ Expired \/ UNCHANGED vars
  BY <1>0, <1>1, <1>4 DEF Approved, Dropped, Expired, vars
<1>5. CASE Edited
  <2>1. edits' \in 0..MaxEdits
    BY <1>0, <1>5, BoundAssumption DEF Edited, UpdateScript
  <2>2. QED
    BY <1>0, <1>1, <1>5, <2>1 DEF Edited
<1>6. ASSUME NEW n \in Requests, TaskEnds(n)
      PROVE  Typed'
  <2>1. /\ task' = [task EXCEPT ![n] = NoTask] /\ UNCHANGED <<sent, edits>>
        /\ IF Exists THEN TaskWrites(n) ELSE UNCHANGED <<story, stored>>
    BY <1>6, TaskEndsEffect
  <2>2. story' \in Row /\ stored' \in Nat
    <3>1. stored + 1 \in Nat
      BY <1>0
    <3>2. CASE Exists
      BY <1>0, <2>1, <3>1, <3>2 DEF TaskWrites
    <3>3. CASE ~Exists
      BY <1>0, <2>1, <3>3
    <3>4. QED
      BY <3>2, <3>3
  <2>3. QED
    BY <1>0, <1>1, <1>2, <2>1, <2>2, NoTaskTyped
<1>7. ASSUME NEW n \in Requests, Touches(n)
      PROVE  Typed'
  <2>1. story' \in Row /\ UNCHANGED <<sent, edits, stored>>
    BY <1>7 DEF Touches
  <2>2. \E t \in Task : t.snap \in Row /\ task' = [task EXCEPT ![n] = t]
    BY <1>0, <1>7, NoTaskTyped DEF Touches
  <2>3. QED
    BY <1>0, <1>1, <1>2, <2>1, <2>2
<1>8. CASE Restart
  BY <1>0, <1>1, <1>8, NoTaskTyped DEF Restart
<1>9. QED
  BY <1>3, <1>4, <1>5, <1>6, <1>7, <1>8, StepEffect

\* Every column and every task stays within its type, and no story keeps more versions
\* than _archive_current_script allows, however late a task writes back the list it has
\* read.
THEOREM TypeCorrect == Spec => []TypeOK
<1>1. Typed => TypeOK
  BY DEF Typed
<1>2. QED
  BY <1>1, TypedInit, TypedStep, PTL DEF Spec

--------------------------------------------------------------------------------
(* One operation at a time. Under a punctual agent the watchdog fails no         *)
(* operation whose task still runs, so a request that finds no operation running *)
(* finds no task running, and the row a task has read keeps its plan until the   *)
(* task writes: this is all that protects the row from a stale write.            *)

Single ==
  /\ \A m, n \in Requests : Live(m) /\ Live(n) => m = n
  /\ \A n \in Requests : Live(n) /\ Exists => story.op = "running"

\* What task n may rely on: a task other than a chat finds no script, a script task a
\* complete plan, and the row in snap still has the plan of the story.
Relies(n) ==
  /\ task[n].kind # "chat" => story.script = 0
  /\ task[n].kind = "script_generation" => Complete(story.plan)
  /\ task[n].pc \in {"working", "touching"} =>
       /\ task[n].snap.plan = story.plan
       /\ (task[n].snap.script = 0) <=> (story.script = 0)
       /\ EditsWait => /\ task[n].snap.script = story.script
                       /\ task[n].snap.versions = story.versions

Fresh == \A n \in Requests : Live(n) /\ Exists => Relies(n)

InTurn == Typed /\ Single /\ Fresh

\* A request is accepted only when no task is alive.
LEMMA EditableAlone ==
  ASSUME InTurn, Editable
  PROVE  Exists /\ \A n \in Requests : ~Live(n)
  BY DEF InTurn, Single, Editable, Exists

\* No step but the task's own disturbs what it relies on.
LEMMA ReliesKept ==
  ASSUME NEW n \in Requests, Relies(n), task'[n] = task[n],
         story'.plan = story.plan, story'.script = story.script, story'.versions = story.versions
  PROVE  Relies(n)'
  BY DEF Relies, Complete

LEMMA InTurnInit == Init => InTurn
<1> SUFFICES ASSUME Init PROVE InTurn
  OBVIOUS
<1>1. \A n \in Requests : task[n].pc # "none" => n = 1
  BY NoTaskTyped DEF Init
<1>2. /\ Scheduled("initial_angles", "angles", None).pc = "scheduled"
      /\ Scheduled("initial_angles", "angles", None).kind = "initial_angles"
  BY DEF Scheduled
<1>3. 1 \in Requests /\ task[1] = Scheduled("initial_angles", "angles", None)
  BY BoundAssumption DEF Init, Requests
<1>4. story.op = "running" /\ story.script = 0
  BY DEF Init, Draft
<1>5. Single
  BY <1>1, <1>4 DEF Single, Live
<1>6. Fresh
  BY <1>1, <1>2, <1>3, <1>4 DEF Fresh, Relies, Live
<1>7. QED
  BY <1>5, <1>6, TypedInit DEF InTurn

LEMMA InTurnStep ==
  ASSUME InTurn, PunctualAgent, [Next]_vars
  PROVE  InTurn'
<1>0. Typed /\ Single /\ Fresh /\ Typed' /\ task \in [Requests -> Task]
  BY TypedStep, TypedRows DEF InTurn
\* A step that leaves no task alive.
<1>1. ASSUME \A n \in Requests : ~Live(n)'
      PROVE  InTurn'
  BY <1>0, <1>1 DEF InTurn, Single, Fresh
<1>2. CASE Submitted
  <2>1. \A n \in Requests : task[n].pc = "none"
    BY <1>2, EditableAlone DEF Submitted, Live
  <2>2. PICK n \in Requests, kind \in Kinds, stage \in Stages, arg \in Part :
          /\ task' = [task EXCEPT ![n] = Scheduled(kind, stage, arg)]
          /\ (kind = "chat" /\ ScriptLeft /\ story'.plan = story.plan) \/ ScriptGoes(story)
          /\ kind = "script_generation" => Complete(story'.plan)
    BY <1>2 DEF Submitted
  <2> DEFINE t == Scheduled(kind, stage, arg)
  <2>3. t.pc = "scheduled" /\ t.kind = kind
    BY DEF Scheduled
  <2>4. task' = [task EXCEPT ![n] = t]
    BY <2>2
  <2> HIDE DEF t
  <2>5. task'[n] = t /\ \A m \in Requests : m # n => task'[m].pc = "none"
    BY <1>0, <2>1, <2>4
  <2>6. Single'
    BY <1>2, <2>5 DEF Submitted, Single, Live
  <2>7. kind # "chat" => story'.script = 0
    BY <2>2 DEF ScriptGoes
  <2>8. Relies(n)'
    BY <2>2, <2>3, <2>5, <2>7 DEF Relies, Complete
  <2>9. Fresh'
    BY <2>5, <2>8 DEF Fresh, Live
  <2>10. QED
    BY <1>0, <2>6, <2>9 DEF InTurn
<1>3. CASE Approved
  BY <1>1, <1>3, EditableAlone DEF Approved, Live
<1>4. CASE Edited
  <2>1. /\ Exists /\ story.script # 0 /\ (EditsWait => story.op # "running")
        /\ stored' = stored + 1 /\ stored \in Nat
    BY <1>0, <1>4 DEF Edited, UpdateScript, Typed, TypeOK
  <2>2. /\ story'.script = stored + 1 /\ story'.plan = story.plan /\ story'.op = story.op
        /\ task' = task
    BY <1>4 DEF Edited
  <2>3. story'.script # 0
    BY <2>1, <2>2
  <2>4. Single'
    BY <1>0, <2>1, <2>2 DEF Single, Live, Exists
  <2>5. ASSUME NEW n \in Requests, Live(n)
        PROVE  Relies(n)'
    <3>1. Relies(n) /\ story.op = "running"
      BY <1>0, <2>1, <2>5 DEF Fresh, Single
    <3>2. QED
      BY <2>1, <2>2, <2>3, <3>1 DEF Relies, Complete
  <2>6. QED
    BY <1>0, <2>2, <2>4, <2>5 DEF InTurn, Fresh, Live
<1>5. CASE Dropped
  BY <1>0, <1>5 DEF Dropped, InTurn, Single, Fresh, Live
<1>6. CASE Expired
  BY <1>1, <1>6 DEF Expired, Live
<1>7. ASSUME NEW n \in Requests, TaskEnds(n)
      PROVE  InTurn'
  <2>1. task[n].pc # "none" /\ task' = [task EXCEPT ![n] = NoTask]
    BY <1>0, <1>7, TaskEndsEffect
  <2>2. \A m \in Requests : ~Live(m)'
    BY <1>0, <2>1, NoTaskTyped DEF Single, Live
  <2>3. QED
    BY <1>1, <2>2
<1>8. ASSUME NEW n \in Requests, Touches(n)
      PROVE  InTurn'
  <2>1. \A m \in Requests : Live(m) => m = n
    BY <1>0, <1>8 DEF Touches, Single, Live
  <2>2. CASE task' = [task EXCEPT ![n] = NoTask]
    BY <1>0, <1>1, <2>1, <2>2, NoTaskTyped DEF Live
  <2>3. CASE task' # [task EXCEPT ![n] = NoTask]
    <3>1. /\ UNCHANGED story \/ (Exists /\ story'.op = "running")
          /\ task[n].pc # "none" /\ ScriptLeft /\ story'.plan = story.plan
      BY <1>8, <2>3 DEF Touches
    <3>2. PICK t \in Task :
            /\ task' = [task EXCEPT ![n] = t] /\ t.pc # "none" /\ t.kind = task[n].kind
            /\ \/ t.snap = task[n].snap /\ task[n].pc # "scheduled" /\ Exists
               \/ t.snap = task[n].snap /\ ~Exists
               \/ t.snap = story /\ UNCHANGED story
      BY <1>8, <2>3 DEF Touches
    <3>3. task'[n] = t /\ \A m \in Requests : Live(m)' => m = n
      BY <1>0, <2>1, <3>2 DEF Live
    <3>4. Exists' => Exists
      BY <3>1 DEF Exists
    <3>5. Single'
      BY <1>0, <3>1, <3>3, <3>4 DEF Single, Live, Exists
    <3>6. ASSUME Exists
          PROVE  Relies(n)'
      <4>1. Relies(n) /\ task[n].pc \in {"none", "scheduled", "working", "touching"}
        BY <1>0, <3>1, <3>6 DEF Fresh, Live, Task
      <4>2. /\ t.snap.plan = story.plan
            /\ (t.snap.script = 0) <=> (story.script = 0)
            /\ EditsWait => t.snap.script = story.script /\ t.snap.versions = story.versions
        BY <3>1, <3>2, <3>6, <4>1 DEF Relies
      <4>3. QED
        BY <3>1, <3>2, <3>3, <4>1, <4>2 DEF Relies, ScriptLeft, Complete
    <3>7. QED
      BY <1>0, <3>3, <3>4, <3>5, <3>6 DEF InTurn, Fresh
  <2>4. QED
    BY <2>2, <2>3
<1>9. CASE Restart
  BY <1>1, <1>9, NoTaskTyped DEF Restart, Live
<1>10. CASE UNCHANGED vars
  BY <1>0, <1>10 DEF InTurn, Single, Fresh, Relies, Live, Exists, Complete, vars
<1>11. QED
  BY <1>0, <1>2, <1>3, <1>4, <1>5, <1>6, <1>7, <1>8, <1>9, <1>10, StepEffect

--------------------------------------------------------------------------------
(* The script and the plan.                                                      *)

LEMMA PlanStep ==
  ASSUME InTurn, ScriptMatchesPlan, [Next]_vars
  PROVE  ScriptMatchesPlan'
<1>0. Typed /\ Fresh /\ Single /\ stored \in Nat
  BY DEF InTurn, Typed, TypeOK
\* The script is left with the plan it was written for, or there is none.
<1>1. ASSUME ScriptLeft, story'.plan = story.plan
      PROVE  ScriptMatchesPlan'
  BY <1>1 DEF ScriptLeft, ScriptMatchesPlan, Complete
<1>2. ASSUME story'.script = 0
      PROVE  ScriptMatchesPlan'
  BY <1>2 DEF ScriptMatchesPlan
<1>3. CASE Submitted
  BY <1>1, <1>2, <1>3 DEF Submitted, ScriptGoes
<1>4. CASE Approved
  BY <1>2, <1>4 DEF Approved, ScriptGoes
<1>5. CASE Edited
  BY <1>5 DEF Edited, UpdateScript, ScriptMatchesPlan, Complete
<1>6. CASE Dropped \/ Expired \/ Restart \/ UNCHANGED vars
  BY <1>1, <1>2, <1>6 DEF Dropped, Expired, Restart, vars, ScriptLeft
<1>7. ASSUME NEW n \in Requests, Touches(n)
      PROVE  ScriptMatchesPlan'
  BY <1>1, <1>7 DEF Touches
<1>8. ASSUME NEW n \in Requests, TaskEnds(n)
      PROVE  ScriptMatchesPlan'
  <2>1. CASE ~Exists
    BY <1>0, <1>1, <1>8, <2>1, TaskEndsEffect DEF ScriptLeft
  <2>2. CASE Exists
    <3>1. task[n].pc = "working" /\ TaskWrites(n) /\ Relies(n)
      BY <1>0, <1>8, <2>2, TaskEndsEffect DEF Fresh, Live
    <3> DEFINE snap == task[n].snap
    <3>2. /\ snap.plan = story.plan
          /\ (snap.script = 0) <=> (story.script = 0)
          /\ task[n].kind # "chat" => story.script = 0
          /\ task[n].kind = "script_generation" => Complete(story.plan)
      BY <3>1 DEF Relies
    <3>3. CASE ScriptLeft /\ story'.plan = story.plan
      BY <1>1, <3>3
    <3>4. CASE ScriptLeft /\ task[n].kind # "chat"
      BY <1>2, <3>2, <3>4 DEF ScriptLeft
    <3>5. CASE ScriptLeft /\ story'.plan = [story.plan EXCEPT !.hook = snap.plan.hook]
      <4>1. story.plan \in Plan
        BY <1>0, TypedRows DEF Row, Story
      <4>2. [story.plan EXCEPT !.hook = story.plan.hook] = story.plan
        BY <4>1 DEF Plan
      <4>3. story'.plan = story.plan
        BY <3>2, <3>5, <4>2
      <4>4. QED
        BY <1>1, <3>5, <4>3
    <3>6. CASE ScriptGoes(snap)
      BY <1>2, <3>2, <3>6 DEF ScriptGoes
    <3>7. CASE /\ task[n].kind = "script_generation" /\ story'.plan = story.plan
               /\ story'.written = snap.plan
      BY <3>2, <3>7 DEF ScriptMatchesPlan, Complete
    <3>8. CASE story'.script = 0
      BY <1>2, <3>8
    <3>9. QED
      BY <3>1, <3>3, <3>4, <3>5, <3>6, <3>7, <3>8 DEF TaskWrites
  <2>3. QED
    BY <2>1, <2>2
<1>9. QED
  BY <1>0, <1>3, <1>4, <1>5, <1>6, <1>7, <1>8, StepEffect

\* No path through the workspace (chat with or without edits, approvals, drafting and
\* script tasks that write columns computed from a row they read minutes before, failed
\* runs, restarts, the watchdog) shows a script beside a plan it was not written for, as
\* long as no live task outlasts the watchdog's threshold; scripts may be edited by hand
\* at any time.
THEOREM ScriptIsForPlan == ASSUME PunctualAgent PROVE Spec => []ScriptMatchesPlan
<1> DEFINE Inv == InTurn /\ ScriptMatchesPlan
<1>1. Init => Inv
  BY InTurnInit DEF Init, Draft, ScriptMatchesPlan
<1>2. Inv /\ [Next]_vars => Inv'
  BY InTurnStep, PlanStep
<1>3. Inv => ScriptMatchesPlan
  OBVIOUS
<1> HIDE DEF Inv
<1>4. QED
  BY <1>1, <1>2, <1>3, PTL DEF Spec

--------------------------------------------------------------------------------
(* The version list. It holds the last scripts in the order they were stored,    *)
(* the current one excepted.                                                     *)

\* v holds the scripts up to number top, as far back as versions are kept.
Holds(v, top) ==
  /\ Len(v) = IF top <= MaxVersions THEN top ELSE MaxVersions
  /\ \A i \in 1..Len(v) : v[i] = i + top - Len(v)

Top == IF story.script = 0 THEN stored ELSE stored - 1

Shelf == Exists => /\ story.script \in {0, stored} /\ story.script <= stored
                   /\ Holds(story.versions, Top)

LEMMA ArchivedHolds ==
  ASSUME NEW s \in Row, s.script # 0, Holds(s.versions, s.script - 1)
  PROVE  Holds(Archived(s), s.script)
<1> DEFINE v == s.versions
           top == s.script
           all == Append(v, top)
<1>1. v \in Seq(Nat) /\ Len(v) \in Nat /\ top \in Nat /\ top >= 1
      /\ MaxVersions \in Nat /\ MaxVersions >= 1
  BY BoundAssumption DEF Row, Story
<1>2. /\ Len(v) = IF top - 1 <= MaxVersions THEN top - 1 ELSE MaxVersions
      /\ \A i \in 1..Len(v) : v[i] = i + (top - 1) - Len(v)
  BY DEF Holds
<1>3. /\ all \in Seq(Nat) /\ Len(all) = Len(v) + 1 /\ all[Len(v) + 1] = top
      /\ \A i \in 1..Len(v) : all[i] = v[i]
  BY <1>1
<1>4. \A i \in 1..Len(all) : all[i] = i + top - Len(all)
  <2> HIDE DEF all, v, top
  <2> TAKE i \in 1..Len(all)
  <2>1. CASE i = Len(v) + 1
    BY <1>1, <1>3, <2>1
  <2>2. CASE i \in 1..Len(v)
    BY <1>1, <1>2, <1>3, <2>2
  <2>3. QED
    BY <1>1, <1>3, <2>1, <2>2
<1>5. CASE Len(all) > MaxVersions
  <2>1. Archived(s) = Tail(all)
    BY <1>5 DEF Archived
  <2>2. Len(Tail(all)) = Len(v) /\ \A i \in 1..Len(v) : Tail(all)[i] = all[i + 1]
    BY <1>1, <1>3
  <2> HIDE DEF all, v, top
  <2>3. \A i \in 1..Len(v) : i + 1 \in 1..Len(all) /\ all[i + 1] = i + top - Len(v)
    <3> TAKE i \in 1..Len(v)
    <3>1. i + 1 \in 1..Len(all) /\ i \in Nat
      BY <1>1, <1>3
    <3>2. all[i + 1] = (i + 1) + top - Len(all)
      BY <1>4, <3>1
    <3>3. QED
      BY <1>1, <1>3, <3>1, <3>2
  <2>4. Len(v) = MaxVersions /\ ~(top <= MaxVersions)
    BY <1>1, <1>2, <1>3, <1>5
  <2>5. QED
    BY <1>1, <2>1, <2>2, <2>3, <2>4 DEF Holds, top
<1>6. CASE ~(Len(all) > MaxVersions)
  <2>1. Archived(s) = all
    BY <1>6 DEF Archived
  <2>2. Len(all) = top /\ top <= MaxVersions
    BY <1>1, <1>2, <1>3, <1>6
  <2> HIDE DEF all, v
  <2>3. QED
    BY <1>4, <2>1, <2>2 DEF Holds
<1>7. QED
  BY <1>5, <1>6

\* A script that goes joins the versions, and the list is then the whole history.
LEMMA GoesToShelf ==
  ASSUME Typed, Shelf, Exists, NEW snap \in Row, ScriptGoes(snap), stored' = stored,
         snap.script = story.script, snap.versions = story.versions
  PROVE  Shelf'
<1>1. story.script \in {0, stored} /\ Holds(story.versions, Top) /\ stored \in Nat
  BY DEF Shelf, Typed, TypeOK
<1>2. CASE story.script = 0
  BY <1>1, <1>2 DEF Shelf, ScriptGoes, Holds, Top
<1>3. CASE story.script # 0
  <2>1. snap.script = stored /\ Holds(snap.versions, snap.script - 1)
    BY <1>1, <1>3 DEF Top
  <2>2. Holds(Archived(snap), stored)
    BY <1>3, <2>1, ArchivedHolds
  <2>3. story'.versions = Archived(snap) /\ story'.script = 0 /\ Top' = stored
    BY <1>3 DEF ScriptGoes, Top
  <2>4. QED
    BY <1>1, <2>2, <2>3 DEF Shelf, Holds
<1>4. QED
  BY <1>2, <1>3

LEMMA ShelfStep ==
  ASSUME InTurn, Shelf, EditsWait, [Next]_vars
  PROVE  Shelf'
<1>0. /\ Typed /\ Fresh /\ Single /\ stored \in Nat /\ story \in Row
      /\ \A n \in Requests : task[n].snap \in Row
  BY TypedRows DEF InTurn, Typed, TypeOK
<1>1. ASSUME ScriptLeft, stored' = stored, Exists' => Exists
      PROVE  Shelf'
  BY <1>1 DEF ScriptLeft, Shelf, Top, Holds
<1>2. CASE Submitted
  <2>1. Exists /\ stored' = stored /\ (ScriptLeft \/ ScriptGoes(story))
    BY <1>2 DEF Submitted, Editable, Exists
  <2>2. QED
    BY <1>0, <1>1, <2>1, GoesToShelf
<1>3. CASE Approved
  <2>1. Exists /\ stored' = stored /\ ScriptGoes(story)
    BY <1>3 DEF Approved, Editable, Exists
  <2>2. QED
    BY <1>0, <2>1, GoesToShelf
<1>4. CASE Edited
  <2>1. /\ Exists /\ story.script # 0 /\ stored' = stored + 1
        /\ story'.script = stored + 1 /\ story'.versions = Archived(story)
    BY <1>4 DEF Edited, UpdateScript
  <2>2. story.script = stored /\ Holds(story.versions, story.script - 1)
    BY <2>1 DEF Shelf, Top
  <2>3. Holds(Archived(story), stored)
    BY <1>0, <2>1, <2>2, ArchivedHolds
  <2>4. Top' = stored
    BY <1>0, <2>1 DEF Top
  <2>5. QED
    BY <1>0, <2>1, <2>3, <2>4 DEF Shelf, Holds
<1>5. CASE Dropped
  BY <1>5 DEF Dropped, Shelf
<1>6. CASE Expired \/ Restart \/ UNCHANGED vars
  <2>1. ScriptLeft /\ stored' = stored
    BY <1>6 DEF Expired, Restart, vars, ScriptLeft
  <2>2. Exists' => Exists
    BY <1>6 DEF Expired, Restart, vars, Exists
  <2>3. QED
    BY <1>1, <2>1, <2>2
<1>7. ASSUME NEW n \in Requests, Touches(n)
      PROVE  Shelf'
  <2>1. QED
    BY <1>1, <1>7 DEF Touches, Exists
<1>8. ASSUME NEW n \in Requests, TaskEnds(n)
      PROVE  Shelf'
  <2>1. CASE ~Exists
    BY <1>0, <1>8, <2>1, TaskEndsEffect DEF Shelf, Exists
  <2>2. CASE Exists
    <3> DEFINE snap == task[n].snap
    <3>1. TaskWrites(n) /\ Relies(n) /\ task[n].pc = "working"
      BY <1>0, <1>8, <2>2, TaskEndsEffect DEF Fresh, Live
    <3>2. /\ snap \in Row /\ snap.script = story.script /\ snap.versions = story.versions
          /\ task[n].kind = "script_generation" => story.script = 0
      BY <1>0, <3>1 DEF Relies
    <3>3. CASE ScriptLeft /\ stored' = stored
      BY <1>1, <2>2, <3>3
    <3>4. CASE ScriptGoes(snap) /\ stored' = stored
      BY <1>0, <2>2, <3>2, <3>4, GoesToShelf
    <3>5. CASE /\ task[n].kind = "script_generation" /\ story'.versions = story.versions
               /\ \/ stored' = stored + 1 /\ story'.script = stored + 1
                  \/ stored' = stored /\ story'.script = 0
      <4>1. Holds(story.versions, stored) /\ story.script = 0
        BY <2>2, <3>2, <3>5 DEF Shelf, Top
      <4>2. Top' = stored /\ story'.script \in {0, stored'} /\ story'.script <= stored'
        BY <1>0, <3>5 DEF Top
      <4>3. QED
        BY <3>5, <4>1, <4>2 DEF Shelf, Holds
    <3>6. QED
      BY <3>1, <3>3, <3>4, <3>5 DEF TaskWrites
  <2>3. QED
    BY <2>1, <2>2
<1>9. QED
  BY <1>0, <1>2, <1>3, <1>4, <1>5, <1>6, <1>7, <1>8, StepEffect

LEMMA ShelfKeepsAll ==
  ASSUME Typed, Shelf
  PROVE  NoScriptLost
<1> SUFFICES ASSUME Exists, NEW id \in 1..stored, id + MaxVersions > stored
             PROVE  id = story.script \/ \E i \in DOMAIN story.versions : story.versions[i] = id
  BY DEF NoScriptLost
<1> DEFINE v == story.versions
<1>1. /\ v \in Seq(Nat) /\ Len(v) \in Nat /\ stored \in Nat /\ MaxVersions \in Nat
      /\ DOMAIN v = 1..Len(v) /\ story.script \in {0, stored}
      /\ Len(v) = (IF Top <= MaxVersions THEN Top ELSE MaxVersions)
      /\ \A i \in 1..Len(v) : v[i] = i + Top - Len(v)
  BY TypedRows, BoundAssumption DEF Row, Story, Shelf, Holds, Typed, TypeOK
<1>2. CASE id = story.script
  BY <1>2
<1>3. CASE id # story.script
  <2>1. Top \in Nat /\ id <= Top /\ Top <= stored /\ id \in Nat /\ id >= 1
    BY <1>1, <1>3 DEF Top
  <2> DEFINE i == id + Len(v) - Top
  <2> HIDE DEF v
  <2>2. i \in 1..Len(v)
    BY <1>1, <2>1
  <2>3. v[i] = i + Top - Len(v)
    BY <1>1, <2>2
  <2>4. v[i] = id
    BY <1>1, <2>1, <2>3
  <2>5. QED
    BY <1>1, <2>2, <2>4 DEF v
<1>4. QED
  BY <1>2, <1>3

\* No script is lost: each one generated or saved by hand is the current script or one of
\* the archived versions, as far back as they are kept, provided scripts are edited only
\* between operations (IdeationEditLost shows one lost otherwise) and no live task
\* outlasts the watchdog's threshold.
THEOREM ScriptsAreKept == ASSUME PunctualAgent, EditsWait PROVE Spec => []NoScriptLost
<1> DEFINE Inv == InTurn /\ Shelf
<1>1. Init => Shelf
  <2>1. Len(<<>>) = 0 /\ 0 <= MaxVersions
    BY BoundAssumption
  <2>2. QED
    BY <2>1 DEF Init, Draft, Shelf, Top, Holds
<1>2. Init => Inv
  BY <1>1, InTurnInit
<1>3. Inv /\ [Next]_vars => Inv'
  BY InTurnStep, ShelfStep
<1>4. Inv => NoScriptLost
  BY ShelfKeepsAll DEF InTurn
<1> HIDE DEF Inv
<1>5. QED
  BY <1>2, <1>3, <1>4, PTL DEF Spec
--------------------------------------------------------------------------------
(* The desk. Every step of the workspace is a step of IdeationDesk or is not     *)
(* seen, when agents are punctual and scripts are edited between operations.     *)

\* The page a task's answer is for, and what its request has already made of the plan.
Suits(kind, stage, arg, plan) ==
  /\ kind \in {"initial_angles", "generate_angles"} => stage = "angles"
  /\ kind = "approve_angle" =>
       stage = "hook" /\ plan.angle = arg /\ plan.hook = None /\ plan.chapters = None
  /\ kind = "generate_hooks" => stage = "hook" /\ plan.chapters = None
  /\ kind = "approve_hook" => stage = "chapters" /\ plan.hook = arg
  /\ kind = "script_generation" => stage = "ready_for_script"

\* The row names the kind of the live task, and so does what its heartbeat writes back.
Filed ==
  \A n \in Requests : Live(n) /\ Exists =>
    /\ story.kind = task[n].kind
    /\ task[n].pc = "touching" => task[n].seen = task[n].kind
    /\ Suits(task[n].kind, task[n].stage, task[n].arg, story.plan)

\* _archive_current_script keeps the newest versions.
LEMMA ArchivedShows ==
  ASSUME Typed
  PROVE  Desk!Shelved = Archived(story)
<1> DEFINE v == story.versions
           all == Append(v, story.script)
<1>1. v \in Seq(Nat) /\ Len(v) \in Nat /\ Len(v) <= MaxVersions /\ story.script \in Nat
  BY TypedRows DEF Row, Story
<1>2. all \in Seq(Nat) /\ Len(all) = Len(v) + 1 /\ all # <<>>
  BY <1>1
<1>3. CASE Len(all) > MaxVersions
  <2>1. Len(all) + 1 - MaxVersions = 2
    BY <1>1, <1>2, <1>3, BoundAssumption
  <2>2. Tail(all) = SubSeq(all, 2, Len(all))
    BY <1>2, TailIsSubSeq
  <2>3. Desk!Newest(all) = Tail(all)
    BY <1>3, <2>1, <2>2 DEF Desk!Newest
  <2>4. QED
    BY <1>3, <2>3 DEF Desk!Shelved, Archived
<1>4. CASE ~(Len(all) > MaxVersions)
  <2>1. SubSeq(all, 1, Len(all)) = all
    BY <1>2, SubSeqFull
  <2>2. Desk!Newest(all) = all
    BY <1>4, <2>1 DEF Desk!Newest
  <2>3. QED
    BY <1>4, <2>2 DEF Desk!Shelved, Archived
<1>5. QED
  BY <1>3, <1>4

\* A plan that follows from the one shown, with its script left or shelved.
LEMMA RedraftShows ==
  ASSUME Typed, story' \in Row, stored' = stored, Desk!Follows(story'.plan),
         \/ story'.plan = story.plan /\ story'.script = story.script /\ story'.versions = story.versions
         \/ story'.script = 0 /\ story'.versions = Archived(story)
  PROVE  Desk!Redraft
<1>1. Desk!Plans = Plan
  BY DEF Desk!Plans, Desk!Part, Plan, Part
<1>2. story'.plan \in Plan
  BY DEF Row, Story
<1>3. QED
  BY <1>1, <1>2, ArchivedShows DEF Desk!Redraft

LEMMA DoingIs ==
  /\ Doing = IF ~Exists THEN "removed" ELSE IF story.op # "running" THEN "free"
             ELSE IF story.kind = "script_generation" THEN "writing" ELSE "planning"
  BY DEF Doing

\* A planning request.
LEMMA SubmitShows ==
  ASSUME InTurn, NEW kind \in Planning, NEW stage \in Stages, NEW arg \in Part, NEW new \in Row,
         Submit(kind, stage, arg, new), Suits(kind, stage, arg, new.plan),
         Desk!Follows(new.plan),
         \/ new.plan = story.plan /\ new.script = story.script /\ new.versions = story.versions
         \/ new.script = 0 /\ new.versions = Archived(story)
  PROVE  Desk!Ask /\ Filed'
<1> DEFINE row == [new EXCEPT !.status = "ideating", !.op = "running", !.kind = kind,
                              !.pending = @ + 1]
           t == Scheduled(kind, stage, arg)
<1>1. /\ Editable /\ sent < MaxRequests /\ story' = row /\ stored' = stored
      /\ task' = [task EXCEPT ![sent + 1] = t]
  BY DEF Submit
<1>2. /\ row \in Row /\ row.op = "running" /\ row.status = "ideating" /\ row.kind = kind
      /\ row.script = new.script /\ row.versions = new.versions /\ row.plan = new.plan
  <2>1. new \in Story /\ new.pending + 1 \in Nat /\ kind \in Kinds /\ Len(new.versions) <= MaxVersions
    BY DEF Row, Story, Kinds
  <2>2. /\ row \in Story /\ row.versions = new.versions
        /\ row.op = "running" /\ row.status = "ideating" /\ row.kind = kind
        /\ row.script = new.script /\ row.plan = new.plan
    BY <2>1 DEF Story
  <2>3. QED
    BY <2>1, <2>2 DEF Row
<1> HIDE DEF row
<1>3. t.kind = kind /\ t.stage = stage /\ t.arg = arg /\ t.pc = "scheduled"
  BY DEF Scheduled
<1> HIDE DEF t
<1>4. kind # "script_generation"
  BY DEF Planning
<1>5. Typed /\ Exists /\ \A n \in Requests : ~Live(n)
  BY <1>1, EditableAlone DEF InTurn
<1>6. Desk!Redraft
  BY <1>1, <1>2, <1>5, RedraftShows
<1>7. Doing = "free" /\ Doing' = "planning"
  BY <1>1, <1>2, <1>4, <1>5, DoingIs DEF Editable, Doing, Exists
<1>8. Filed'
  <2> SUFFICES ASSUME NEW n \in Requests, Live(n)'
               PROVE  task'[n] = t
    BY <1>1, <1>2, <1>3 DEF Filed
  <2>1. task \in [Requests -> Task]
    BY <1>5, TypedRows
  <2>2. QED
    BY <1>1, <1>5, <2>1 DEF Live
<1>9. QED
  BY <1>6, <1>7, <1>8 DEF Desk!Ask

LEMMA RedraftedShows ==
  ASSUME InTurn, NEW kind \in Planning, NEW on \in Stages, NEW arg \in Part, NEW plan \in Plan,
         NEW stage \in Stages,
         Submit(kind, on, arg, [Invalidated(story, story) EXCEPT !.plan = plan, !.stage = stage]),
         Suits(kind, on, arg, plan), Desk!Follows(plan)
  PROVE  Desk!Ask /\ Filed'
<1> DEFINE r == Redrafted(plan, stage)
<1>1. /\ r \in Row /\ r.script = 0 /\ r.plan = plan
      /\ r.versions = IF story.script = 0 THEN story.versions ELSE Archived(story)
  BY RedraftedRow DEF InTurn
<1>2. r.versions = Archived(story)
  BY <1>1 DEF Archived
<1>3. Submit(kind, on, arg, r)
  BY DEF Redrafted
<1> HIDE DEF r
<1>4. QED
  BY <1>1, <1>2, <1>3, SubmitShows

\* What the parts of a changed plan are.
LEMMA NewAngle ==
  ASSUME NEW plan \in Plan, NEW text \in Part
  PROVE  LET new == WithAngle(plan, text) IN
         new \in Plan /\ new.angle = text /\ new.hook = None /\ new.chapters = None
  BY PlansTyped DEF WithAngle, Plan

LEMMA NewHook ==
  ASSUME NEW plan \in Plan, NEW text \in Part
  PROVE  LET new == WithHook(plan, text) IN
         new \in Plan /\ new.angle = plan.angle /\ new.hook = text /\ new.chapters = None
  BY PlansTyped DEF WithHook, Plan

LEMMA NewChapters ==
  ASSUME NEW plan \in Plan, NEW text \in Part
  PROVE  LET new == [plan EXCEPT !.chapters = text] IN
         new \in Plan /\ new.angle = plan.angle /\ new.hook = plan.hook /\ new.chapters = text
  BY PlansTyped DEF Plan

\* Requests that start no planning task.
LEMMA ApproveShows ==
  ASSUME InTurn, NEW text \in Texts, ApproveChapters(text)
  PROVE  Desk!Approve /\ Filed'
<1> DEFINE plan == [story.plan EXCEPT !.chapters = text]
           i == Invalidated(story, story)
           r == Redrafted(plan, "ready_for_script")
<1>1. /\ Typed /\ story \in Row /\ story.plan \in Plan /\ i \in Row /\ i.plan = story.plan
      /\ text \in Part /\ "ready_for_script" \in Stages
  BY TypedRows, InvalidatedRow DEF InTurn, Row, Story, Part, Stages
<1>2. plan \in Plan /\ Desk!Follows(plan)
  BY <1>1, NewChapters DEF Desk!Follows
<1>3. /\ r \in Row /\ r.script = 0 /\ r.op = story.op /\ r.plan = plan
      /\ r.versions = IF story.script = 0 THEN story.versions ELSE Archived(story)
  BY <1>1, <1>2, RedraftedRow
<1>4. story' = [r EXCEPT !.status = "ideating"]
  <2>1. r = [i EXCEPT !.plan = plan, !.stage = "ready_for_script"]
    BY DEF Redrafted
  <2>2. story' = [i EXCEPT !.status = "ideating", !.plan.chapters = text, !.stage = "ready_for_script"]
    BY DEF ApproveChapters
  <2>3. plan = [i.plan EXCEPT !.chapters = text] /\ i \in Story
    BY <1>1 DEF Row
  <2> HIDE DEF r, i, plan
  <2>4. QED
    BY <2>1, <2>2, <2>3 DEF Story
<1> HIDE DEF r
<1>5. /\ story' \in Row /\ story'.status = "ideating" /\ story'.versions = Archived(story)
      /\ story'.script = 0 /\ story'.plan = plan /\ story'.op = story.op
  <2>1. r \in Story /\ Len(r.versions) <= MaxVersions /\ r.versions = Archived(story)
    BY <1>3 DEF Row, Archived
  <2>2. /\ story' \in Story /\ story'.status = "ideating" /\ story'.versions = r.versions
        /\ story'.script = r.script /\ story'.plan = r.plan /\ story'.op = r.op
    BY <1>4, <2>1 DEF Story
  <2>3. QED
    BY <1>3, <2>1, <2>2 DEF Row
<1>6. Editable /\ UNCHANGED <<task, stored>>
  BY DEF ApproveChapters
<1>7. Exists /\ \A n \in Requests : ~Live(n)
  BY <1>6, EditableAlone
<1>8. Desk!Redraft
  BY <1>1, <1>2, <1>5, <1>6, RedraftShows
<1>9. Doing = "free" /\ Doing' = "free"
  BY <1>5, <1>6, <1>7, DoingIs DEF Editable, Doing, Exists
<1>10. QED
  BY <1>6, <1>7, <1>8, <1>9 DEF Desk!Approve, Filed, Live

LEMMA AskScriptShows ==
  ASSUME InTurn, GenerateScript
  PROVE  Desk!AskScript /\ Filed'
<1> DEFINE i == Invalidated(story, story)
           t == Scheduled("script_generation", "ready_for_script", None)
<1>1. /\ Typed /\ i \in Row /\ i.plan = story.plan
      /\ i.script = IF story.script = 0 THEN story.script ELSE 0
      /\ i.versions = IF story.script = 0 THEN story.versions ELSE Archived(story)
      /\ "ready_for_script" \in Stages /\ "script_generation" \in Kinds
  BY TypedRows, InvalidatedRow DEF InTurn, Stages, Kinds
<1>2. /\ story' = [i EXCEPT !.status = "ideating", !.stage = "ready_for_script", !.op = "running",
                            !.kind = "script_generation"]
      /\ task' = [task EXCEPT ![sent + 1] = t]
      /\ Editable /\ stored' = stored /\ Complete(story.plan)
  BY DEF GenerateScript
<1>3. t.kind = "script_generation" /\ t.stage = "ready_for_script" /\ t.pc = "scheduled"
  BY DEF Scheduled
<1> HIDE DEF i, t
<1>4. /\ story'.status = "ideating" /\ story'.op = "running" /\ story'.kind = "script_generation"
      /\ story'.plan = story.plan /\ story'.script = i.script /\ story'.versions = i.versions
  BY <1>1, <1>2 DEF Row, Story
<1>5. story'.script = 0 /\ story'.versions = Archived(story)
  BY <1>1, <1>4 DEF Archived
<1>6. Exists /\ \A n \in Requests : ~Live(n)
  BY <1>2, EditableAlone
<1>7. Doing = "free" /\ Doing' = "writing"
  BY <1>2, <1>4, <1>6, DoingIs DEF Editable, Doing, Exists
<1>8. Desk!Complete
  BY <1>2 DEF Desk!Complete, Complete
<1>9. Filed'
  <2> SUFFICES ASSUME NEW n \in Requests, Live(n)'
               PROVE  task'[n] = t
    BY <1>3, <1>4 DEF Filed, Suits
  <2>1. task \in [Requests -> Task]
    BY <1>1, TypedRows
  <2>2. QED
    BY <1>2, <1>6, <2>1 DEF Live
<1>10. QED
  BY <1>1, <1>2, <1>4, <1>5, <1>7, <1>8, <1>9, ArchivedShows DEF Desk!AskScript

LEMMA EditShows ==
  ASSUME InTurn, Filed, EditsWait, UpdateScript
  PROVE  Desk!Edit /\ Filed'
<1>1. Typed /\ Edited /\ story \in Story
  BY EditEffect, TypedRows DEF InTurn, Row
<1>2. /\ Exists /\ story.script # 0 /\ story.op # "running" /\ task' = task
      /\ stored' = stored + 1 /\ story'.script = stored + 1 /\ story'.versions = Archived(story)
      /\ story'.plan = story.plan /\ story'.op = story.op
  BY <1>1 DEF Edited, UpdateScript
<1>3. story'.status = "completed"
  BY <1>1 DEF UpdateScript, Story
<1>4. Doing = "free" /\ Doing' = "free"
  BY <1>2, <1>3, DoingIs DEF Doing, Exists
<1>5. \A n \in Requests : ~Live(n)
  BY <1>2 DEF InTurn, Single
<1>6. QED
  BY <1>1, <1>2, <1>4, <1>5, ArchivedShows DEF Desk!Edit, Desk!Store, Filed, Live

LEMMA RemoveShows ==
  ASSUME InTurn, DeleteStory
  PROVE  Desk!Remove /\ Filed'
<1>1. Exists /\ stored' = stored
  BY DEF DeleteStory
<1>2. Draft \in Story
  BY DraftTyped DEF Row
<1>3. /\ story'.status = "deleted" /\ story'.plan = NoPlan /\ story'.script = 0
      /\ story'.versions = <<>>
  BY <1>2 DEF DeleteStory, Draft, Story
<1>4. Doing # "removed" /\ Doing' = "removed"
  BY <1>1, <1>3 DEF Doing, Exists
<1>5. QED
  BY <1>1, <1>3, <1>4 DEF Desk!Remove, Desk!Blank, NoPlan, Filed, Exists

LEMMA RequestShows ==
  ASSUME InTurn, Filed, EditsWait, Request
  PROVE  Desk!Next /\ Filed'
<1> DEFINE i == Invalidated(story, story)
           p == story.plan
<1>0. /\ Typed /\ story \in Row /\ p \in Plan /\ i \in Row /\ i.plan = p
      /\ {"angles", "hook", "chapters", "ready_for_script"} \subseteq Stages
      /\ {"chat", "generate_angles", "generate_hooks", "approve_angle", "approve_hook"} \subseteq Planning
      /\ None \in Part /\ Texts \subseteq Part
  BY TypedRows, InvalidatedRow, NoPlanTyped DEF InTurn, Row, Story, Stages, Planning, Part
<1>1. ASSUME NEW stage \in {"angles", "hook", "chapters"}, Submit("chat", stage, None, story)
      PROVE  Desk!Ask /\ Filed'
  <2>1. Suits("chat", stage, None, p) /\ Desk!Follows(p)
    BY DEF Suits, Desk!Follows
  <2>2. QED
    BY <1>0, <1>1, <2>1, SubmitShows
<1>2. ASSUME NEW kind \in Planning, NEW on \in Stages, NEW arg \in Part, NEW new \in Plan,
             NEW stage \in Stages, Submit(kind, on, arg, [i EXCEPT !.plan = new, !.stage = stage]),
             Suits(kind, on, arg, new), Desk!Follows(new)
      PROVE  Desk!Ask /\ Filed'
  BY <1>2, RedraftedShows
<1>3. ASSUME NEW stage \in {"angles", "hook", "chapters"}, Chat(stage)
      PROVE  Desk!Ask /\ Filed'
  BY <1>1, <1>3 DEF Chat
<1>4. ASSUME NEW text \in Part, ChatWithAngle(text)
      PROVE  Desk!Ask /\ Filed'
  <2>1. CASE text = p.angle
    BY <1>1, <1>4, <2>1 DEF ChatWithAngle
  <2>2. CASE text # p.angle
    <3> DEFINE new == WithAngle(i.plan, text)
    <3>1. Submit("chat", "angles", None, [i EXCEPT !.plan = new, !.stage = "angles"])
      BY <1>4, <2>2 DEF ChatWithAngle
    <3> HIDE DEF i
    <3>2. new \in Plan /\ Suits("chat", "angles", None, new) /\ Desk!Follows(new)
      <4>1. new \in Plan /\ new.angle = text /\ new.hook = None /\ new.chapters = None
        BY <1>0, NewAngle
      <4> HIDE DEF new
      <4>2. QED
        BY <1>0, <4>1 DEF Suits, Desk!Follows
    <3> HIDE DEF new
    <3>3. QED
      BY <1>0, <1>2, <3>1, <3>2
  <2>3. QED
    BY <2>1, <2>2
<1>5. ASSUME NEW text \in Part, ChatWithHook(text)
      PROVE  Desk!Ask /\ Filed'
  <2>1. CASE text = p.hook
    BY <1>1, <1>5, <2>1 DEF ChatWithHook
  <2>2. CASE text # p.hook
    <3> DEFINE new == WithHook(i.plan, text)
    <3>1. Submit("chat", "hook", None, [i EXCEPT !.plan = new, !.stage = "hook"])
      BY <1>5, <2>2 DEF ChatWithHook
    <3> HIDE DEF i
    <3>2. new \in Plan /\ Suits("chat", "hook", None, new) /\ Desk!Follows(new)
      <4>1. new \in Plan /\ new.angle = p.angle /\ new.hook = text /\ new.chapters = None
        BY <1>0, NewHook
      <4> HIDE DEF new
      <4>2. QED
        BY <1>0, <4>1 DEF Suits, Desk!Follows
    <3> HIDE DEF new
    <3>3. QED
      BY <1>0, <1>2, <3>1, <3>2
  <2>3. QED
    BY <2>1, <2>2
<1>6. ASSUME NEW text \in Part, ChatWithChapters(text)
      PROVE  Desk!Ask /\ Filed'
  <2> DEFINE new == [i.plan EXCEPT !.chapters = text]
  <2>1. Submit("chat", "chapters", None, [i EXCEPT !.plan = new, !.stage = "chapters"])
    BY <1>6 DEF ChatWithChapters
  <2> HIDE DEF i
  <2>2. new \in Plan /\ Suits("chat", "chapters", None, new) /\ Desk!Follows(new)
    <3>1. new \in Plan /\ new.angle = p.angle /\ new.hook = p.hook
      BY <1>0, NewChapters
    <3> HIDE DEF new
    <3>2. QED
      BY <1>0, <3>1 DEF Suits, Desk!Follows
  <2> HIDE DEF new
  <2>3. QED
    BY <1>0, <1>2, <2>1, <2>2
<1>7. ASSUME NEW text \in Texts, ApproveAngle(text)
      PROVE  Desk!Ask /\ Filed'
  <2> DEFINE new == WithAngle(i.plan, text)
  <2>1. Submit("approve_angle", "hook", text, [i EXCEPT !.plan = new, !.stage = "hook"])
    BY <1>7 DEF ApproveAngle
  <2> HIDE DEF i
  <2>2. new \in Plan /\ Suits("approve_angle", "hook", text, new) /\ Desk!Follows(new)
    <3>1. new \in Plan /\ new.angle = text /\ new.hook = None /\ new.chapters = None
      BY <1>0, NewAngle
    <3> HIDE DEF new
    <3>2. QED
      BY <1>0, <3>1 DEF Suits, Desk!Follows
  <2> HIDE DEF new
  <2>3. QED
    BY <1>0, <1>2, <2>1, <2>2
<1>8. ASSUME NEW text \in Texts, ApproveHook(text)
      PROVE  Desk!Ask /\ Filed'
  <2> DEFINE new == WithHook(i.plan, text)
  <2>1. Submit("approve_hook", "chapters", text, [i EXCEPT !.plan = new, !.stage = "chapters"])
    BY <1>8 DEF ApproveHook
  <2> HIDE DEF i
  <2>2. new \in Plan /\ Suits("approve_hook", "chapters", text, new) /\ Desk!Follows(new)
    <3>1. new \in Plan /\ new.angle = p.angle /\ new.hook = text /\ new.chapters = None
      BY <1>0, NewHook
    <3> HIDE DEF new
    <3>2. QED
      BY <1>0, <3>1 DEF Suits, Desk!Follows
  <2> HIDE DEF new
  <2>3. QED
    BY <1>0, <1>2, <2>1, <2>2
<1>9. ASSUME GenerateAngles
      PROVE  Desk!Ask /\ Filed'
  <2>1. Submit("generate_angles", "angles", None, [i EXCEPT !.plan = NoPlan, !.stage = "angles"])
    BY <1>9 DEF GenerateAngles
  <2>2. NoPlan \in Plan /\ Suits("generate_angles", "angles", None, NoPlan) /\ Desk!Follows(NoPlan)
    BY NoPlanTyped DEF NoPlan, Suits, Desk!Follows
  <2> HIDE DEF i
  <2>3. QED
    BY <1>0, <1>2, <2>1, <2>2
<1>10. ASSUME GenerateHooks
       PROVE  Desk!Ask /\ Filed'
  <2> DEFINE new == [i.plan EXCEPT !.chapters = None]
  <2>1. Submit("generate_hooks", "hook", None, [i EXCEPT !.plan = new, !.stage = "hook"])
    BY <1>10 DEF GenerateHooks
  <2> HIDE DEF i
  <2>2. new \in Plan /\ Suits("generate_hooks", "hook", None, new) /\ Desk!Follows(new)
    <3>1. new \in Plan /\ new.angle = p.angle /\ new.hook = p.hook /\ new.chapters = None
      BY <1>0, NewChapters
    <3> HIDE DEF new
    <3>2. QED
      BY <1>0, <3>1 DEF Suits, Desk!Follows
  <2> HIDE DEF new
  <2>3. QED
    BY <1>0, <1>2, <2>1, <2>2
<1>11. QED
  BY <1>3, <1>4, <1>5, <1>6, <1>7, <1>8, <1>9, <1>10, ApproveShows, AskScriptShows, EditShows,
     RemoveShows DEF Request, Desk!Next

--------------------------------------------------------------------------------
(* Answers.                                                                      *)

\* What a planning task that succeeds may have done to the row.
LEMMA ProposalShows ==
  ASSUME InTurn, Filed, EditsWait, Exists, NEW n \in Requests, task[n].pc = "working",
         task[n].kind \in Planning, story' \in Row, stored' = stored, story'.op = "none",
         story'.status = story.status, Desk!Follows(story'.plan),
         \/ story'.plan = story.plan /\ ScriptLeft
         \/ ScriptLeft /\ task[n].kind # "chat"
         \/ ScriptGoes(task[n].snap)
  PROVE  Desk!Propose
<1> DEFINE snap == task[n].snap
<1>1. Typed /\ Live(n) /\ story.kind = task[n].kind /\ story.op = "running" /\ Relies(n)
  BY DEF InTurn, Filed, Single, Fresh, Live
<1>2. /\ snap.script = story.script /\ snap.versions = story.versions
      /\ task[n].kind # "chat" => story.script = 0
  BY <1>1 DEF Relies
<1>3. Archived(snap) = Archived(story)
  BY <1>2 DEF Archived
<1>4. \/ story'.plan = story.plan /\ story'.script = story.script /\ story'.versions = story.versions
      \/ story'.script = 0 /\ story'.versions = Archived(story)
  BY <1>2, <1>3 DEF ScriptLeft, ScriptGoes, Archived
<1>5. Desk!Redraft
  BY <1>1, <1>4, RedraftShows
<1>6. Doing = "planning" /\ Doing' = "free"
  BY <1>1, DoingIs DEF Doing, Exists, Planning
<1>7. QED
  BY <1>5, <1>6 DEF Desk!Propose

LEMMA AnglesShow ==
  ASSUME InTurn, Filed, EditsWait, Exists, NEW n \in Requests, NEW offered \in BOOLEAN,
         NEW again \in BOOLEAN, AnglesOffered(n, offered, again)
  PROVE  Desk!Propose
<1> DEFINE snap == task[n].snap
           done == Settled(snap)
           i == Invalidated(done, snap)
           new == Replan(i, NoPlan, "angles")
<1>1. /\ story' \in {done, new} /\ stored' = stored /\ task[n].pc = "working"
      /\ task[n].kind \in Planning
  BY DEF AnglesOffered, Finish, Replan, Planning
<1>2. Typed /\ snap \in Row
  BY TypedRows DEF InTurn
<1> HIDE DEF snap
<1>3. /\ done \in Row /\ done.plan = story.plan /\ done.script = story.script
      /\ done.versions = story.versions /\ done.written = story.written
      /\ done.op = "none" /\ done.status = story.status
  BY <1>2, SettledRow
<1> HIDE DEF done
<1>4. /\ i \in Row /\ i.op = done.op /\ i.status = done.status
      /\ i.script = IF snap.script = 0 THEN done.script ELSE 0
      /\ i.versions = IF snap.script = 0 THEN done.versions ELSE Archived(snap)
      /\ i.written = IF snap.script = 0 THEN done.written ELSE NoPlan
  BY <1>2, <1>3, InvalidatedRow
<1> HIDE DEF i
<1>5. /\ new \in Row /\ new.script = i.script /\ new.versions = i.versions /\ new.written = i.written
      /\ new.op = i.op /\ new.status = i.status /\ new.plan = NoPlan
  BY <1>4, ReplanRow, NoPlanTyped DEF Stages
<1> HIDE DEF new
<1>6. CASE story' = done
  <2>1. Desk!Follows(story'.plan) /\ ScriptLeft
    BY <1>3, <1>6 DEF Desk!Follows, ScriptLeft
  <2>2. QED
    BY <1>1, <1>3, <1>6, <2>1, ProposalShows
<1>7. CASE story' = new
  <2>1. ScriptGoes(snap)
    BY <1>3, <1>4, <1>5, <1>7 DEF ScriptGoes
  <2>2. Desk!Follows(story'.plan)
    BY <1>5, <1>7 DEF Desk!Follows, NoPlan
  <2>3. story' \in Row /\ story'.op = "none" /\ story'.status = story.status
    BY <1>3, <1>4, <1>5, <1>7
  <2>4. QED
    BY <1>1, <2>1, <2>2, <2>3, ProposalShows DEF snap
<1>8. QED
  BY <1>1, <1>6, <1>7

\* An answer for the hook page. The angle it was drafted for is the plan's.
LEMMA HookShows ==
  ASSUME InTurn, Filed, EditsWait, Exists, NEW n \in Requests, NEW hook \in Part,
         HookDrafted(n, hook)
  PROVE  Desk!Propose
<1> DEFINE snap == task[n].snap
           kind == task[n].kind
           settled == Settled(snap)
           done == IF kind = "approve_angle"
                   THEN Replan(settled, WithAngle(settled.plan, task[n].arg), "hook")
                   ELSE settled
           with == Replan(done, [done.plan EXCEPT !.hook = hook], "hook")
           i == Invalidated(with, snap)
           new == Replan(i, [i.plan EXCEPT !.chapters = None], i.stage)
<1>1. /\ stored' = stored /\ task[n].pc = "working" /\ task[n].stage = "hook"
      /\ story' = IF hook = None THEN done
                  ELSE IF kind = "chat" /\ hook # snap.plan.hook
                  THEN [i EXCEPT !.plan.chapters = None]
                  ELSE with
  BY DEF HookDrafted, Finish, Replan
<1>2. /\ snap \in Row /\ task[n].arg \in Part /\ "hook" \in Stages /\ None \in Part
      /\ story.plan \in Plan /\ kind \in Kinds /\ Typed
  BY TypedRows, NoPlanTyped DEF InTurn, Task, Stages, Row, Story
<1>3. /\ snap.plan = story.plan /\ Suits(kind, "hook", task[n].arg, story.plan)
      /\ kind # "chat" => story.script = 0
  BY <1>1 DEF InTurn, Fresh, Relies, Filed, Live
<1>4. /\ kind \in {"chat", "approve_angle", "generate_hooks"} /\ kind \in Planning
      /\ kind = "approve_angle" => story.plan.angle = task[n].arg
      /\ kind # "chat" => story.plan.chapters = None
      /\ kind = "approve_angle" => story.plan.hook = None
  BY <1>2, <1>3 DEF Suits, Kinds, Planning
<1>5. /\ settled \in Row /\ settled.plan = story.plan /\ settled.script = story.script
      /\ settled.versions = story.versions /\ settled.written = story.written
      /\ settled.op = "none" /\ settled.status = story.status
  BY <1>2, SettledRow
<1>6. Archived(snap) \in Seq(Nat)
  BY <1>2, ArchivedTyped
<1> HIDE DEF settled, kind, snap
<1>7. /\ done \in Row /\ done.plan = story.plan /\ done.script = story.script
      /\ done.versions = story.versions /\ done.written = story.written
      /\ done.op = "none" /\ done.status = story.status
  <2>1. CASE kind = "approve_angle"
    <3>1. WithAngle(settled.plan, task[n].arg) = story.plan
      BY <1>2, <1>4, <1>5, <2>1 DEF WithAngle, Plan
    <3>2. QED
      BY <1>2, <1>5, <2>1, <3>1, ReplanRow
  <2>2. CASE kind # "approve_angle"
    BY <1>5, <2>2
  <2>3. QED
    BY <2>1, <2>2
<1> HIDE DEF done
<1>8. /\ [done.plan EXCEPT !.hook = hook] \in Plan
      /\ [done.plan EXCEPT !.hook = hook].angle = story.plan.angle
      /\ [done.plan EXCEPT !.hook = hook].hook = hook
      /\ [done.plan EXCEPT !.hook = hook].chapters = story.plan.chapters
  BY <1>2, <1>7 DEF Plan
<1>9. /\ with \in Row /\ with.script = story.script /\ with.versions = story.versions
      /\ with.written = story.written /\ with.plan = [done.plan EXCEPT !.hook = hook]
      /\ with.op = "none" /\ with.status = story.status
  BY <1>2, <1>7, <1>8, ReplanRow
<1> HIDE DEF with
<1>10. /\ i \in Row /\ i.plan = with.plan /\ i.stage \in Stages
       /\ i.op = "none" /\ i.status = story.status
       /\ i.script = IF snap.script = 0 THEN with.script ELSE 0
       /\ i.versions = IF snap.script = 0 THEN with.versions ELSE Archived(snap)
       /\ i.written = IF snap.script = 0 THEN with.written ELSE NoPlan
  BY <1>2, <1>9, InvalidatedRow DEF Row, Story
<1> HIDE DEF i
<1>11. LET plan == [i.plan EXCEPT !.chapters = None] IN
       plan \in Plan /\ plan.angle = story.plan.angle /\ plan.chapters = None
  <2>1. i.plan \in Plan /\ i.plan.angle = story.plan.angle
    BY <1>8, <1>9, <1>10
  <2>2. QED
    BY <1>2, <2>1, NewChapters
<1>12. /\ new \in Row /\ new.script = i.script /\ new.versions = i.versions
       /\ new.written = i.written /\ new.op = "none" /\ new.status = story.status
       /\ new.plan = [i.plan EXCEPT !.chapters = None]
  BY <1>10, <1>11, ReplanRow
<1>13. new = [i EXCEPT !.plan.chapters = None]
  BY <1>10 DEF Row, Story, Replan
<1> HIDE DEF new
\* Nothing was drafted, or a chat kept the hook.
<1>14. CASE story' = done
  <2>1. Desk!Follows(story'.plan) /\ ScriptLeft /\ story'.plan = story.plan
    BY <1>7, <1>14 DEF Desk!Follows, ScriptLeft
  <2>2. QED
    BY <1>1, <1>4, <1>7, <1>14, <2>1, ProposalShows DEF kind
<1>15. CASE story' = new
  <2>1. ScriptGoes(snap)
    BY <1>9, <1>10, <1>12, <1>15 DEF ScriptGoes
  <2>2. Desk!Follows(story'.plan)
    BY <1>11, <1>12, <1>15 DEF Desk!Follows
  <2>3. QED
    BY <1>1, <1>4, <1>12, <1>15, <2>1, <2>2, ProposalShows DEF kind, snap
<1>16. CASE story' = with /\ (kind = "chat" => hook = snap.plan.hook)
  <2>1. ScriptLeft
    BY <1>9, <1>16 DEF ScriptLeft
  <2>2. CASE kind = "chat"
    <3>1. story'.plan = story.plan
      BY <1>2, <1>3, <1>7, <1>9, <1>16, <2>2 DEF Plan
    <3>2. Desk!Follows(story'.plan)
      BY <3>1 DEF Desk!Follows
    <3>3. QED
      BY <1>1, <1>4, <1>9, <1>16, <2>1, <3>1, <3>2, ProposalShows DEF kind
  <2>3. CASE kind # "chat"
    <3>1. Desk!Follows(story'.plan)
      BY <1>4, <1>8, <1>9, <1>16, <2>3 DEF Desk!Follows
    <3>2. QED
      BY <1>1, <1>4, <1>9, <1>16, <2>1, <2>3, <3>1, ProposalShows DEF kind
  <2>4. QED
    BY <2>2, <2>3
<1>17. QED
  BY <1>1, <1>13, <1>14, <1>15, <1>16

\* An answer for the chapters page. The hook it was drafted for is the plan's.
LEMMA ChaptersShow ==
  ASSUME InTurn, Filed, EditsWait, Exists, NEW n \in Requests, NEW chapters \in Part,
         ChaptersDrafted(n, chapters)
  PROVE  Desk!Propose
<1> DEFINE snap == task[n].snap
           kind == task[n].kind
           settled == Settled(snap)
           done == IF kind = "approve_hook"
                   THEN Replan(settled, [settled.plan EXCEPT !.hook = task[n].arg], "chapters")
                   ELSE settled
           with == Replan(done, [done.plan EXCEPT !.chapters = chapters], done.stage)
           i == Invalidated(with, snap)
           new == Replan(i, i.plan, "chapters")
<1>1. /\ stored' = stored /\ task[n].pc = "working" /\ task[n].stage = "chapters"
      /\ story' = LET d == IF kind = "approve_hook"
                           THEN [settled EXCEPT !.plan.hook = task[n].arg, !.stage = "chapters"]
                           ELSE settled
                      w == [d EXCEPT !.plan.chapters = chapters]
                  IN  IF chapters = None THEN d
                      ELSE IF kind = "chat" THEN [Invalidated(w, snap) EXCEPT !.stage = "chapters"]
                      ELSE w
  BY DEF ChaptersDrafted, Finish
<1>2. /\ snap \in Row /\ task[n].arg \in Part /\ "chapters" \in Stages
      /\ story.plan \in Plan /\ kind \in Kinds /\ Typed
  BY TypedRows DEF InTurn, Task, Stages, Row, Story
<1>3. /\ Suits(kind, "chapters", task[n].arg, story.plan)
      /\ kind # "chat" => story.script = 0
  BY <1>1 DEF InTurn, Fresh, Relies, Filed, Live
<1>4. /\ kind \in {"chat", "approve_hook"} /\ kind \in Planning
      /\ kind = "approve_hook" => story.plan.hook = task[n].arg
  BY <1>2, <1>3 DEF Suits, Kinds, Planning
<1>5. /\ settled \in Row /\ settled.plan = story.plan /\ settled.script = story.script
      /\ settled.versions = story.versions /\ settled.written = story.written
      /\ settled.op = "none" /\ settled.status = story.status
  BY <1>2, SettledRow
<1>6. done = IF kind = "approve_hook"
             THEN [settled EXCEPT !.plan.hook = task[n].arg, !.stage = "chapters"]
             ELSE settled
  BY <1>5 DEF Row, Story, Replan
<1>7. ASSUME done \in Row
      PROVE  with = [done EXCEPT !.plan.chapters = chapters]
  BY <1>7 DEF Row, Story, Replan
<1> HIDE DEF settled, kind, snap
<1>8. /\ done \in Row /\ done.plan = story.plan /\ done.script = story.script
      /\ done.versions = story.versions /\ done.written = story.written
      /\ done.op = "none" /\ done.status = story.status /\ done.stage \in Stages
  <2>1. CASE kind = "approve_hook"
    <3>1. [settled.plan EXCEPT !.hook = task[n].arg] = story.plan
      BY <1>2, <1>4, <1>5, <2>1 DEF Plan
    <3>2. QED
      BY <1>2, <1>5, <2>1, <3>1, ReplanRow
  <2>2. CASE kind # "approve_hook"
    BY <1>5, <2>2 DEF Row, Story
  <2>3. QED
    BY <2>1, <2>2
<1>9. story' = IF chapters = None THEN done
               ELSE IF kind = "chat" THEN [i EXCEPT !.stage = "chapters"] ELSE with
  BY <1>1, <1>6, <1>7, <1>8
<1> HIDE DEF done
<1>10. LET plan == [done.plan EXCEPT !.chapters = chapters] IN
       plan \in Plan /\ plan.angle = story.plan.angle /\ plan.hook = story.plan.hook
  BY <1>2, <1>8, NewChapters
<1>11. /\ with \in Row /\ with.script = story.script /\ with.versions = story.versions
       /\ with.written = story.written /\ with.plan = [done.plan EXCEPT !.chapters = chapters]
       /\ with.op = "none" /\ with.status = story.status
  BY <1>8, <1>10, ReplanRow
<1> HIDE DEF with
<1>12. /\ i \in Row /\ i.plan = with.plan /\ i.plan \in Plan
       /\ i.op = "none" /\ i.status = story.status
       /\ i.script = IF snap.script = 0 THEN with.script ELSE 0
       /\ i.versions = IF snap.script = 0 THEN with.versions ELSE Archived(snap)
       /\ i.written = IF snap.script = 0 THEN with.written ELSE NoPlan
  BY <1>2, <1>11, InvalidatedRow DEF Row, Story
<1> HIDE DEF i
<1>13. /\ new \in Row /\ new.script = i.script /\ new.versions = i.versions
       /\ new.written = i.written /\ new.op = "none" /\ new.status = story.status
       /\ new.plan = i.plan
  BY <1>2, <1>12, ReplanRow
<1>14. new = [i EXCEPT !.stage = "chapters"]
  BY <1>12 DEF Row, Story, Replan
<1> HIDE DEF new
<1>15. CASE story' = done
  <2>1. Desk!Follows(story'.plan) /\ ScriptLeft /\ story'.plan = story.plan
    BY <1>8, <1>15 DEF Desk!Follows, ScriptLeft
  <2>2. QED
    BY <1>1, <1>4, <1>8, <1>15, <2>1, ProposalShows DEF kind
<1>16. CASE story' = new
  <2>1. ScriptGoes(snap)
    BY <1>11, <1>12, <1>13, <1>16 DEF ScriptGoes
  <2>2. Desk!Follows(story'.plan)
    BY <1>10, <1>11, <1>12, <1>13, <1>16 DEF Desk!Follows
  <2>3. QED
    BY <1>1, <1>4, <1>13, <1>16, <2>1, <2>2, ProposalShows DEF kind, snap
<1>17. CASE story' = with /\ kind # "chat"
  <2>1. ScriptLeft
    BY <1>11, <1>17 DEF ScriptLeft
  <2>2. Desk!Follows(story'.plan)
    BY <1>10, <1>11, <1>17 DEF Desk!Follows
  <2>3. QED
    BY <1>1, <1>4, <1>11, <1>17, <2>1, <2>2, ProposalShows DEF kind
<1>18. QED
  BY <1>9, <1>14, <1>15, <1>16, <1>17

--------------------------------------------------------------------------------
(* Failures, scripts, and steps the desk does not see.                           *)

\* A story that keeps its plan, its script and its versions while its operation is over.
LEMMA GiveUpShows ==
  ASSUME Exists, story.op = "running", Exists', story'.op # "running", stored' = stored,
         story'.plan = story.plan, story'.script = story.script, story'.versions = story.versions
  PROVE  Desk!GiveUp
<1>1. Doing \in {"planning", "writing"} /\ Doing' = "free"
  BY DoingIs DEF Doing
<1>2. QED
  BY <1>1 DEF Desk!GiveUp

\* The end of a task, whatever it made of the row.
LEMMA FailureShows ==
  ASSUME InTurn, Exists, NEW n \in Requests, PlanningFails(n) \/ NoScript(n) \/ PipelineRaises(n)
  PROVE  Desk!GiveUp
<1>1. story \in Story /\ task[n].pc = "working"
  BY TypedRows DEF InTurn, Row, PlanningFails, NoScript, PipelineRaises, Finish
<1>2. story.op = "running" /\ Relies(n)
  BY <1>1 DEF InTurn, Single, Fresh, Live
<1>3. CASE PlanningFails(n)
  <2>1. story' = [story EXCEPT !.op = "failed", !.kind = task[n].kind,
                               !.pending = ClosedMessages(story)] /\ stored' = stored
    BY <1>3 DEF PlanningFails, Finish
  <2>2. /\ story'.op = "failed" /\ story'.status = story.status /\ story'.plan = story.plan
        /\ story'.script = story.script /\ story'.versions = story.versions
    BY <1>1, <2>1 DEF Story
  <2>3. QED
    BY <1>2, <2>1, <2>2, GiveUpShows DEF Exists
<1>4. CASE NoScript(n)
  <2>1. /\ story' = [story EXCEPT !.status = "ideating", !.op = "failed",
                                  !.kind = "script_generation", !.script = 0, !.written = NoPlan]
        /\ stored' = stored /\ story.script = 0
    BY <1>2, <1>4 DEF NoScript, Finish, Relies
  <2>2. /\ story'.op = "failed" /\ story'.status = "ideating" /\ story'.plan = story.plan
        /\ story'.script = 0 /\ story'.versions = story.versions
    BY <1>1, <2>1 DEF Story
  <2>3. QED
    BY <1>2, <2>1, <2>2, GiveUpShows DEF Exists
<1>5. CASE PipelineRaises(n)
  <2>1. /\ story' = [story EXCEPT !.op = "failed", !.kind = "script_generation"]
        /\ stored' = stored
    BY <1>5 DEF PipelineRaises, Finish
  <2>2. /\ story'.op = "failed" /\ story'.status = story.status /\ story'.plan = story.plan
        /\ story'.script = story.script /\ story'.versions = story.versions
    BY <1>1, <2>1 DEF Story
  <2>3. QED
    BY <1>2, <2>1, <2>2, GiveUpShows DEF Exists
<1>6. QED
  BY <1>3, <1>4, <1>5

\* No script stands beside the plan when the pipeline returns one.
LEMMA WriteShows ==
  ASSUME InTurn, Filed, Exists, NEW n \in Requests, ScriptWritten(n)
  PROVE  Desk!Write
<1>1. /\ story \in Story /\ task[n].pc = "working" /\ task[n].kind = "script_generation"
      /\ story' = [story EXCEPT !.status = "completed", !.op = "none", !.script = stored + 1,
                                !.written = task[n].snap.plan]
      /\ stored' = stored + 1
  BY TypedRows DEF InTurn, Row, ScriptWritten, Finish
<1>2. story.op = "running" /\ story.kind = "script_generation"
  BY <1>1 DEF InTurn, Single, Filed, Live
<1>3. /\ story'.op = "none" /\ story'.status = "completed" /\ story'.plan = story.plan
      /\ story'.script = stored + 1 /\ story'.versions = story.versions
  BY <1>1 DEF Story
<1>4. Doing = "writing" /\ Doing' = "free"
  BY <1>2, <1>3, DoingIs DEF Doing, Exists
<1>5. QED
  BY <1>1, <1>3, <1>4 DEF Desk!Write, Desk!Store

\* A task that ends leaves none behind; its answer to a removed story changes nothing.
LEMMA TaskEndsShows ==
  ASSUME InTurn, Filed, EditsWait, NEW n \in Requests, TaskEnds(n)
  PROVE  [Desk!Next]_Desk!vars /\ Filed'
<1>1. /\ task[n].pc = "working" /\ task' = [task EXCEPT ![n] = NoTask]
      /\ ~Exists => story' = story /\ stored' = stored
  BY DEF TaskEnds, AnglesOffered, HookDrafted, ChaptersDrafted, PlanningFails, ScriptWritten,
         NoScript, PipelineRaises, Finish
<1>2. Filed'
  <2>1. task \in [Requests -> Task] /\ \A m \in Requests : Live(m) => m = n
    BY <1>1, TypedRows DEF InTurn, Single, Live
  <2>2. \A m \in Requests : task'[m].pc = "none"
    BY <1>1, <2>1, NoTaskTyped DEF Live
  <2>3. QED
    BY <2>2 DEF Filed, Live
<1>3. CASE ~Exists
  BY <1>1, <1>2, <1>3 DEF Desk!vars, Doing, Exists
<1>4. CASE Exists
  <2>1. Desk!Propose \/ Desk!GiveUp \/ Desk!Write
    BY <1>4, AnglesShow, HookShows, ChaptersShow, FailureShows, WriteShows DEF TaskEnds
  <2>2. QED
    BY <1>2, <2>1 DEF Desk!Next
<1>5. QED
  BY <1>2, <1>3, <1>4

\* Starting and the heartbeat show nothing: the row is what the task has read.
LEMMA StartShows ==
  ASSUME InTurn, Filed, NEW n \in Requests, TaskStart(n)
  PROVE  UNCHANGED Desk!vars /\ Filed'
<1>1. /\ task \in [Requests -> Task] /\ task[n] \in Task /\ task[n].pc = "scheduled"
      /\ stored' = stored
  BY TypedRows DEF InTurn, TaskStart
<1>2. CASE ~Exists
  BY <1>1, <1>2 DEF TaskStart, Filed, Exists, Desk!vars, Doing
<1>3. CASE Exists
  <2>1. ~(task[n].kind = "script_generation" /\ ~Complete(story.plan))
    BY <1>1, <1>3 DEF InTurn, Fresh, Relies, Live
  <2>2. story' = story /\ task' = [task EXCEPT ![n].pc = "working", ![n].snap = story]
    BY <1>3, <2>1 DEF TaskStart
  <2>3. /\ task'[n].kind = task[n].kind /\ task'[n].stage = task[n].stage
        /\ task'[n].arg = task[n].arg /\ task'[n].pc = "working"
        /\ \A m \in Requests : m # n => task'[m] = task[m]
    BY <1>1, <2>2 DEF Task
  <2>4. Filed'
    BY <1>1, <2>2, <2>3 DEF Filed, Live, Exists, Suits
  <2>5. QED
    BY <1>1, <2>2, <2>4 DEF Desk!vars, Doing, Exists
<1>4. QED
  BY <1>2, <1>3

LEMMA TouchShows ==
  ASSUME InTurn, Filed, NEW n \in Requests, TouchLoad(n) \/ TouchWrite(n)
  PROVE  UNCHANGED Desk!vars /\ Filed'
<1>1. /\ task \in [Requests -> Task] /\ task[n] \in Task /\ story \in Story /\ stored' = stored
      /\ Live(n)
  BY TypedRows DEF InTurn, Row, TouchLoad, TouchWrite, Live
<1>2. CASE TouchLoad(n)
  <2>1. /\ story' = story /\ Exists
        /\ task' = [task EXCEPT ![n].pc = "touching", ![n].seen = story.kind]
    BY <1>2 DEF TouchLoad
  <2>2. /\ task'[n].kind = task[n].kind /\ task'[n].stage = task[n].stage
        /\ task'[n].arg = task[n].arg /\ task'[n].seen = story.kind
        /\ \A m \in Requests : m # n => task'[m] = task[m]
    BY <1>1, <2>1 DEF Task
  <2>3. Filed'
    BY <1>1, <2>1, <2>2 DEF Filed, Live, Exists, Suits
  <2>4. QED
    BY <1>1, <2>1, <2>3 DEF Desk!vars, Doing, Exists
<1>3. CASE TouchWrite(n)
  <2>1. /\ task' = [task EXCEPT ![n].pc = "working"] /\ task[n].pc = "touching"
        /\ story' = IF Exists THEN [story EXCEPT !.op = "running", !.kind = task[n].seen] ELSE story
    BY <1>3 DEF TouchWrite
  <2>2. Exists => story.op = "running" /\ task[n].seen = story.kind
    BY <1>1, <2>1 DEF InTurn, Single, Filed
  <2>3. story' = story
    BY <1>1, <2>1, <2>2 DEF Story
  <2>4. /\ task'[n].kind = task[n].kind /\ task'[n].stage = task[n].stage
        /\ task'[n].arg = task[n].arg /\ task'[n].pc = "working"
        /\ \A m \in Requests : m # n => task'[m] = task[m]
    BY <1>1, <2>1 DEF Task
  <2>5. Filed'
    BY <1>1, <2>3, <2>4 DEF Filed, Live, Exists, Suits
  <2>6. QED
    BY <1>1, <2>3, <2>5 DEF Desk!vars, Doing, Exists
<1>4. QED
  BY <1>2, <1>3

\* The watchdog finds no live task when agents are punctual; a stop only ends tasks.
LEMMA WatchdogShows ==
  ASSUME InTurn, PunctualAgent, WatchdogFails
  PROVE  Desk!GiveUp /\ Filed'
<1>1. /\ story \in Story /\ story.status = "ideating" /\ story.op = "running"
      /\ story' = [story EXCEPT !.op = "failed", !.pending = ClosedMessages(story)]
      /\ UNCHANGED <<task, stored>> /\ \A n \in Requests : ~Live(n)
  BY TypedRows DEF InTurn, Row, WatchdogFails
<1>2. /\ story'.op = "failed" /\ story'.status = "ideating" /\ story'.plan = story.plan
      /\ story'.script = story.script /\ story'.versions = story.versions
  BY <1>1 DEF Story
<1>3. QED
  BY <1>1, <1>2, GiveUpShows DEF Exists, Filed, Live

LEMMA RestartShows ==
  ASSUME Restart
  PROVE  UNCHANGED Desk!vars /\ Filed'
<1>1. \A n \in Requests : task'[n].pc = "none"
  BY NoTaskTyped DEF Restart
<1>2. QED
  BY <1>1 DEF Restart, Filed, Live, Desk!vars, Doing, Exists

--------------------------------------------------------------------------------
LEMMA DeskInit == Init => Desk!Init /\ Filed
<1> SUFFICES ASSUME Init PROVE Desk!Init /\ Filed
  OBVIOUS
<1> DEFINE t == Scheduled("initial_angles", "angles", None)
<1>1. /\ story.status = "ideating" /\ story.op = "running" /\ story.kind = "initial_angles"
      /\ story.plan = NoPlan /\ story.script = 0 /\ story.versions = <<>> /\ stored = 0
  BY DEF Init, Draft
<1>2. Doing = "planning"
  BY <1>1, DoingIs DEF Exists
<1>3. t.kind = "initial_angles" /\ t.stage = "angles" /\ t.pc = "scheduled"
  BY DEF Scheduled
<1>4. \A n \in Requests : Live(n) => task[n] = t
  BY NoTaskTyped DEF Init, Live
<1> HIDE DEF t
<1>5. Filed
  BY <1>1, <1>3, <1>4 DEF Filed, Suits
<1>6. QED
  BY <1>1, <1>2, <1>5 DEF Desk!Init, Desk!Blank, NoPlan

LEMMA DeskStep ==
  ASSUME InTurn, Filed, PunctualAgent, EditsWait, [Next]_vars
  PROVE  [Desk!Next]_Desk!vars /\ Filed'
<1>1. CASE Request
  BY <1>1, RequestShows
<1>2. ASSUME NEW n \in Requests, TaskStart(n) \/ TaskEnds(n) \/ TouchLoad(n) \/ TouchWrite(n)
      PROVE  [Desk!Next]_Desk!vars /\ Filed'
  BY <1>2, StartShows, TaskEndsShows, TouchShows
<1>3. CASE WatchdogFails
  BY <1>3, WatchdogShows DEF Desk!Next
<1>4. CASE Restart
  BY <1>4, RestartShows
<1>5. CASE UNCHANGED vars
  BY <1>5 DEF vars, Desk!vars, Doing, Exists, Filed, Live
<1>6. QED
  BY <1>1, <1>2, <1>3, <1>4, <1>5 DEF Next

\* The workspace implements the desk: tasks that read the row, work for minutes and
\* write columns back, next to requests, heartbeats, the watchdog and stops, amount to
\* one operation at a time on a plan whose parts follow from one another, for any number
\* of requests, edits and versions, when agents are punctual and edits wait.
THEOREM WorkspaceImplementsDesk ==
  ASSUME PunctualAgent, EditsWait
  PROVE  Spec => ImplementsIdeationDesk
<1> DEFINE IInv == InTurn /\ Filed
<1>1. Init => IInv /\ Desk!Init
  BY InTurnInit, DeskInit
<1>2. IInv /\ [Next]_vars => IInv' /\ [Desk!Next]_Desk!vars
  BY InTurnStep, DeskStep
<1>3. QED
  BY <1>1, <1>2, PTL DEF Spec, ImplementsIdeationDesk, Desk!Spec

================================================================================
