----------------------------- MODULE StoryPipeline -----------------------------
(* Stories and their background jobs (backend/api/routes/stories.py): the direct *)
(* pipeline with its pause for the choice of an angle, the resumed pipeline, the *)
(* revisions made from an ended story (rewrite, regenerate, implement            *)
(* recommendations), manual script edits, deletion, the watchdog and process     *)
(* stops. Story 1 is created by POST /stories, the others are revisions.         *)
EXTENDS PipelineGraph

CONSTANTS MaxStories,      \* bound: stories, revisions included
          MaxJobs          \* bound: background jobs

VARIABLES story,           \* the row of each story
          job,             \* the background jobs
          started,         \* jobs started so far
          offered,         \* generations of angles so far
          calm             \* history: no request was made of a story at work and no live
                           \* job exceeded the watchdog's thresholds

vars == <<story, job, started, offered, calm>>

--------------------------------------------------------------------------------
ASSUME PipelineBounds == MaxStories \in Nat \ {0} /\ MaxJobs \in Nat \ {0}

Stories == 1..MaxStories
Jobs    == 1..MaxJobs

Running  == {"pending", "researching", "analysing", "writing_storyline", "evaluating",
             "scripting"}
Terminal == {"completed", "failed", "angle_selection_expired"}
Awaiting == "awaiting_angle_selection"
Absent   == {"none", "deleted"}
Statuses == Running \cup Terminal \cup Absent \cup {Awaiting}

\* _STATUS_PHASE_ORDER.
Phase(status) ==
  CASE status = "pending"           -> 0
    [] status = "researching"       -> 1
    [] status = "analysing"         -> 2
    [] status = Awaiting            -> 3
    [] status = "writing_storyline" -> 4
    [] status = "evaluating"        -> 5
    [] status = "scripting"         -> 6
    [] status \in Terminal          -> 7

\* A script is the number of the angle it was written for, 0 for NULL; revisions
\* select no angle and their scripts get the number Revised.
Revised == MaxJobs + 1
Story == [status: Statuses, research: BOOLEAN, analysis: BOOLEAN, angles: 0..MaxJobs,
          selected: 0..MaxJobs, script: 0..Revised]
NoStory == [status |-> "none", research |-> FALSE, analysis |-> FALSE, angles |-> 0,
            selected |-> 0, script |-> 0]

\* A job walks the graph (node is a node or "end") or the phases of a revision
\* (node is the status it has written last).
GraphKinds == {"fresh", "resume"}
Revisions  == {"rewrite", "regenerate", "implement"}
Job == [pc: {"none", "scheduled", "working"}, kind: GraphKinds \cup Revisions \cup {"angles"},
        story: Stories, source: Stories, angle: 0..MaxJobs, node: Nodes \cup Running \cup {"end"},
        g: GraphState]
NoJob == [pc |-> "none", kind |-> "fresh", story |-> 1, source |-> 1, angle |-> 0,
          node |-> "research_agent", g |-> InitialState]
Scheduled(kind, s, source, angle) ==
  [NoJob EXCEPT !.pc = "scheduled", !.kind = kind, !.story = s, !.source = source,
                !.angle = angle]

Exists(s) == story[s].status \notin Absent
Busy(s)   == \E j \in Jobs : job[j].pc # "none" /\ job[j].story = s

\* create_story.
Init ==
  /\ story = [s \in Stories |-> IF s = 1 THEN [NoStory EXCEPT !.status = "pending"] ELSE NoStory]
  /\ job = [j \in Jobs |-> IF j = 1 THEN Scheduled("fresh", 1, 1, 0) ELSE NoJob]
  /\ started = 1
  /\ offered = 0
  /\ calm = TRUE

--------------------------------------------------------------------------------
\* The requests. Each checks the row it has read and updates it.

StartJob(record) ==
  /\ started < MaxJobs
  /\ started' = started + 1
  /\ job' = [job EXCEPT ![started + 1] = record]

Free(s) == Exists(s) /\ calm' = (calm /\ ~Busy(s))

\* Faulty: an angle can be selected at any time.
SelectAngleAnyTime(s, angle) ==
  /\ Free(s)
  /\ StartJob(Scheduled("resume", s, s, angle))
  /\ story' = [story EXCEPT ![s].selected = angle, ![s].status = "writing_storyline"]
  /\ UNCHANGED offered

\* select_angle: the angle is trusted, so any one ever offered may come back.
SelectAngle(s, angle) ==
  /\ Free(s) /\ story[s].status = Awaiting
  /\ StartJob(Scheduled("resume", s, s, angle))
  /\ story' = [story EXCEPT ![s].selected = angle, ![s].status = "writing_storyline"]
  /\ UNCHANGED offered

RegenerateAngles(s) ==
  /\ Free(s) /\ story[s].status = Awaiting
  /\ story[s].research /\ story[s].analysis
  /\ StartJob(Scheduled("angles", s, s, 0))
  /\ story' = [story EXCEPT ![s].angles = 0, ![s].selected = 0]
  /\ UNCHANGED offered

\* Faulty: the choice of an angle is copied with the research it was made from.
CloneWithSelection(source, status, carry) ==
  [NoStory EXCEPT !.status = status, !.research = source.research,
                  !.analysis = source.analysis, !.selected = source.selected,
                  !.script = IF carry /\ source.script # 0 THEN Revised ELSE 0]

\* _clone_story_for_revision: angles and their choice stay behind.
Clone(source, status, carry) ==
  [NoStory EXCEPT !.status = status, !.research = source.research,
                  !.analysis = source.analysis,
                  !.script = IF carry /\ source.script # 0 THEN Revised ELSE 0]

Revise(kind, s, clone, status, carry) ==
  /\ Free(s) /\ story[s].status \in Terminal
  /\ story[clone].status = "none"
  /\ \A lower \in 1..(clone - 1) : story[lower].status # "none"
  /\ StartJob(Scheduled(kind, clone, s, 0))
  /\ story' = [story EXCEPT ![clone] = Clone(story[s], status, carry)]
  /\ UNCHANGED offered

RewriteStory(s, clone)   == story[s].script # 0 /\ Revise("rewrite", s, clone, "scripting", TRUE)
RegenerateStory(s, clone) == story[s].research /\ Revise("regenerate", s, clone, "analysing", TRUE)
ImplementRecommendations(s, clone) ==
  story[s].script # 0 /\ Revise("implement", s, clone, "writing_storyline", FALSE)

\* update_script: PUT .../script. A script keeps its angle when it is edited, so an
\* edit of a completed story changes nothing here.
UpdateScript(s) ==
  /\ Free(s) /\ story[s].script # 0 /\ story[s].status # "completed"
  /\ story' = [story EXCEPT ![s].status = "completed"]
  /\ UNCHANGED <<job, started, offered>>

DeleteStory(s) ==
  /\ Exists(s)
  /\ story' = [story EXCEPT ![s] = [NoStory EXCEPT !.status = "deleted"]]
  /\ UNCHANGED <<job, started, offered, calm>>

--------------------------------------------------------------------------------
\* The jobs. An update by id of a deleted row changes nothing.

Write(s, new) == story' = IF Exists(s) THEN [story EXCEPT ![s] = new] ELSE story
End(j)        == job' = [job EXCEPT ![j] = NoJob]
Fail(s)       == Write(s, [story[s] EXCEPT !.status = "failed"])

\* Faulty: every node writes its status.
AdvancedAlways(s, status) == [story[s] EXCEPT !.status = status]

\* _advance_story_status: only to a later phase.
Advanced(s, status) ==
  IF Exists(s) /\ Phase(story[s].status) < Phase(status)
  THEN [story[s] EXCEPT !.status = status]
  ELSE story[s]

\* _run_pipeline and _run_pipeline_resume_after_angle_selection.
GraphJobStarts(j) ==
  LET s == job[j].story IN
  /\ job[j].pc = "scheduled" /\ job[j].kind \in GraphKinds
  /\ \/ /\ job[j].kind = "fresh"
        /\ job' = [job EXCEPT ![j].pc = "working"]
        /\ UNCHANGED story
     \/ /\ job[j].kind = "resume" /\ Exists(s) /\ story[s].research /\ story[s].analysis
        /\ job' = [job EXCEPT ![j].pc = "working",
                     ![j].g = [InitialState EXCEPT !.research = TRUE, !.analysis = TRUE,
                                 !.angles = story[s].angles, !.selected = job[j].angle]]
        /\ UNCHANGED story
     \/ /\ job[j].kind = "resume" /\ ~(Exists(s) /\ story[s].research /\ story[s].analysis)
        /\ End(j) /\ Fail(s)
  /\ UNCHANGED <<started, offered, calm>>

\* _status_for_completed_node; "none" for no change.
StatusAfter(node, g) ==
  CASE node = "research_agent"         -> "researching"
    [] node = "angles_and_hooks"       -> IF g.angles = 0 THEN "analysing"
                                          ELSE IF g.selected # 0 THEN "none" ELSE Awaiting
    [] node = "chapter_writer"         -> "writing_storyline"
    [] node = "chief_editor_evaluator" -> "evaluating"
    [] OTHER                           -> "scripting"

\* One node of the graph in _drive_pipeline.
NodeCompletes(j) ==
  LET s == job[j].story
      node == job[j].node
  IN
  /\ job[j].pc = "working" /\ job[j].kind \in GraphKinds /\ node # "end"
  /\ \E g \in Results(node, job[j].g, offered + 1) :
       /\ job' = [job EXCEPT ![j].g = g, ![j].node = Successor(node, g)]
       /\ offered' = IF g.angles # job[j].g.angles THEN offered + 1 ELSE offered
       /\ story' = IF StatusAfter(node, g) = "none" THEN story
                   ELSE [story EXCEPT ![s] = Advanced(s, StatusAfter(node, g))]
  /\ UNCHANGED <<started, calm>>

\* The end of _drive_pipeline: paused for the choice of an angle, or completed with
\* a script, or failed without one.
Save(j) ==
  LET s == job[j].story
      g == job[j].g
  IN
  /\ job[j].pc = "working" /\ job[j].kind \in GraphKinds /\ job[j].node = "end"
  /\ End(j)
  /\ Write(s, IF g.angles # 0 /\ g.selected = 0
              THEN [story[s] EXCEPT !.status = Awaiting, !.angles = g.angles,
                                    !.research = g.research, !.analysis = g.analysis]
              ELSE [story[s] EXCEPT !.status = IF g.script THEN "completed" ELSE "failed",
                                    !.script = IF g.script THEN g.selected ELSE 0,
                                    !.research = g.research, !.analysis = g.analysis])
  /\ UNCHANGED <<started, offered, calm>>

\* The graph or a status update raised.
PipelineRaises(j) ==
  /\ job[j].pc = "working" /\ job[j].kind \in GraphKinds
  /\ End(j) /\ Fail(job[j].story)
  /\ UNCHANGED <<started, offered, calm>>

\* _run_regenerate_angles: an exception ends it without a trace.
AnglesJob(j) ==
  LET s == job[j].story IN
  /\ job[j].kind = "angles"
  /\ \/ /\ job[j].pc = "scheduled" /\ Exists(s) /\ story[s].research /\ story[s].analysis
        /\ job' = [job EXCEPT ![j].pc = "working"]
        /\ UNCHANGED <<story, offered>>
     \/ /\ job[j].pc = "scheduled" /\ ~(Exists(s) /\ story[s].research /\ story[s].analysis)
        /\ End(j)
        /\ UNCHANGED <<story, offered>>
     \/ /\ job[j].pc = "working"
        /\ End(j)
        /\ UNCHANGED <<story, offered>>
     \/ /\ job[j].pc = "working"
        /\ End(j)
        /\ offered' = offered + 1
        /\ Write(s, [story[s] EXCEPT !.angles = offered + 1, !.selected = 0, !.analysis = TRUE,
                                     !.status = Awaiting])
  /\ UNCHANGED <<started, calm>>

\* The status a revision writes after the one it is in; "end" after the last.
NextPhase(kind, analysis, phase) ==
  CASE phase = "analysing"  -> IF kind = "regenerate" THEN "writing_storyline" ELSE "evaluating"
    [] phase = "writing_storyline" ->
         IF kind = "implement" /\ ~analysis THEN "analysing" ELSE "evaluating"
    [] phase = "evaluating" -> "scripting"
    [] phase = "scripting"  -> "end"

\* The revision reads its row, and implement also its source's.
RevisionStarts(j) ==
  LET s    == job[j].story
      kind == job[j].kind
      source == job[j].source
  IN
  /\ job[j].pc = "scheduled" /\ kind \in Revisions
  /\ \/ /\ ~Exists(s) \/ (kind = "implement" /\ ~Exists(source))
        /\ End(j) /\ UNCHANGED story
     \/ /\ Exists(s)
        /\ \/ kind = "rewrite" /\ ~(story[s].script # 0 /\ story[s].research /\ story[s].analysis)
           \/ kind = "implement" /\ Exists(source) /\ ~story[source].research
           \/ kind = "regenerate" /\ ~story[s].research
        /\ End(j) /\ Fail(s)
     \/ /\ Exists(s)
        /\ \/ kind = "rewrite" /\ story[s].script # 0 /\ story[s].research /\ story[s].analysis
           \/ kind = "implement" /\ Exists(source) /\ story[source].research
           \/ kind = "regenerate" /\ story[s].research
        /\ LET phase == CASE kind = "rewrite"    -> "scripting"
                          [] kind = "regenerate" -> "analysing"
                          [] kind = "implement"  -> "writing_storyline"
           IN
           /\ story' = [story EXCEPT ![s].status = IF kind = "rewrite" THEN @ ELSE phase]
           /\ job' = [job EXCEPT ![j].pc = "working", ![j].node = phase,
                        ![j].g.analysis = IF kind = "implement" THEN story[source].analysis
                                                                ELSE story[s].analysis]
  /\ UNCHANGED <<started, offered, calm>>

\* An agent of a revision answered: the next status, or the new script.
RevisionStep(j) ==
  LET s    == job[j].story
      next == NextPhase(job[j].kind, job[j].g.analysis, job[j].node)
  IN
  /\ job[j].pc = "working" /\ job[j].kind \in Revisions
  /\ IF next = "end"
     THEN /\ End(j)
          /\ Write(s, [story[s] EXCEPT !.status = "completed", !.script = Revised,
                                       !.analysis = job[j].kind # "rewrite" \/ @])
     ELSE /\ job' = [job EXCEPT ![j].node = next]
          /\ Write(s, [story[s] EXCEPT !.status = next])
  /\ UNCHANGED <<started, offered, calm>>

RevisionFails(j) ==
  /\ job[j].pc = "working" /\ job[j].kind \in Revisions
  /\ End(j) /\ Fail(job[j].story)
  /\ UNCHANGED <<started, offered, calm>>

--------------------------------------------------------------------------------
\* The watchdog's two story passes: updated_at older than thirty minutes, and older
\* than six hours while an angle is awaited.
Idle(s) == calm' = (calm /\ ~Busy(s))

\* Faulty: a story that has not started yet is not scanned.
WatchdogFailsStarted(s) ==
  /\ story[s].status \in Running \ {"pending"} /\ Idle(s)
  /\ story' = [story EXCEPT ![s].status = "failed"]
  /\ UNCHANGED <<job, started, offered>>

WatchdogFails(s) ==
  /\ story[s].status \in Running /\ Idle(s)
  /\ story' = [story EXCEPT ![s].status = "failed"]
  /\ UNCHANGED <<job, started, offered>>

WatchdogExpires(s) ==
  /\ story[s].status = Awaiting /\ Idle(s)
  /\ story' = [story EXCEPT ![s].status = "angle_selection_expired"]
  /\ UNCHANGED <<job, started, offered>>

Restart ==
  /\ \E j \in Jobs : job[j].pc # "none"
  /\ job' = [j \in Jobs |-> NoJob]
  /\ UNCHANGED <<story, started, offered, calm>>

--------------------------------------------------------------------------------
Request(s) ==
  \/ \E angle \in 1..offered : SelectAngle(s, angle)
  \/ RegenerateAngles(s) \/ UpdateScript(s) \/ DeleteStory(s)
  \/ \E clone \in Stories :
       RewriteStory(s, clone) \/ RegenerateStory(s, clone) \/ ImplementRecommendations(s, clone)

JobStarts(j) == GraphJobStarts(j) \/ RevisionStarts(j)
JobSteps(j)  ==
  NodeCompletes(j) \/ Save(j) \/ PipelineRaises(j) \/ AnglesJob(j) \/ RevisionStep(j)
    \/ RevisionFails(j)

Next ==
  \/ \E s \in Stories : Request(s) \/ WatchdogFails(s) \/ WatchdogExpires(s)
  \/ \E j \in Jobs : JobStarts(j) \/ JobSteps(j)
  \/ Restart

Spec == Init /\ [][Next]_vars

\* The event loop starts the jobs and the watchdog passes every five minutes; no agent
\* need answer.
Fairness ==
  /\ \A s \in Stories : WF_vars(WatchdogFails(s)) /\ WF_vars(WatchdogExpires(s))
  /\ \A j \in Jobs : WF_vars(JobStarts(j))

FairSpec == Spec /\ Fairness

--------------------------------------------------------------------------------
\* Every variable stays within the types of the columns and of the jobs; no
\* pipeline rewrites a script more often than max_script_revision_cycles.
TypeOK ==
  /\ story \in [Stories -> Story]
  /\ job \in [Jobs -> Job]
  /\ started \in 1..MaxJobs
  /\ offered \in 0..MaxJobs /\ calm \in BOOLEAN

\* The script of a story was written for the angle the story shows as selected,
\* whatever was regenerated, selected again or resumed in between, as long as requests
\* waited for the job of their story and no agent outlived the watchdog's patience.
ScriptMatchesSelection ==
  calm => \A s \in Stories : story[s].script \notin {0, Revised} => story[s].script = story[s].selected

\* A story is completed only with a script, however its pipeline ended and whoever wrote
\* over whom (a part of ImplementsStoryLifecycle that needs no calm).
CompletedHasScript ==
  \A s \in Stories : story[s].status = "completed" => story[s].script # 0

\* Progress is shown in order: no node, re-driven node or job of a revision moves a
\* story back to an earlier phase, and an ended story stays ended so that the event stream
\* may close.
StatusMovesForward ==
  [][calm' => \A s \in Stories :
       Exists(s) /\ story'[s].status # "deleted"
         => Phase(story'[s].status) >= Phase(story[s].status)]_vars

\* What a story shows: the stage and phase of its status, the chosen angle and the script.
Stage(status) ==
  CASE status \in Running -> "working"
    [] status = Awaiting  -> "paused"
    [] status \in Terminal \ {"completed"} -> "ended"
    [] OTHER -> status

Shown == [s \in Stories |->
  [stage |-> Stage(story[s].status),
   progress |-> IF Exists(s) THEN Phase(story[s].status) ELSE 0,
   selected |-> story[s].selected, script |-> story[s].script]]

Lifecycle == INSTANCE StoryLifecycle WITH
  Stories <- Stories, Angles <- 1..MaxJobs, Revised <- Revised, shown <- Shown, calm <- calm

\* Graph, jobs, revisions, watchdog and stops together look like a story that works, pauses
\* once for one choice, and completes with that angle's script or ends: each step is one
\* step of one story's life.
ImplementsStoryLifecycle == Lifecycle!Spec

\* Whatever stops, fails or is never answered, every story reaches an end.
EveryStoryEnds ==
  \A s \in Stories : story[s].status \in Running \cup {Awaiting}
                       ~> story[s].status \in Terminal \cup Absent
================================================================================
