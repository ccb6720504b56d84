-------------------------- MODULE StoryPipelineProofs --------------------------
(* Machine-checked proofs of StoryPipeline's safety properties, for any number   *)
(* of stories and jobs and any budget of rewrites.                               *)
EXTENDS StoryPipeline, FiniteSetTheorems, TLAPS

--------------------------------------------------------------------------------
(* What a job record may be.                                                     *)

Phases == {"analysing", "writing_storyline", "evaluating", "scripting"}

\* The walk of a job through the graph: a fresh pipeline pauses before the nodes
\* that need an angle, a resumed one keeps the angle it was given.
GraphWalk(r) ==
  /\ r.node \in Nodes \cup {"end"}
  /\ r.g.angles <= MaxJobs
  /\ r.kind = "fresh"  => /\ r.g.selected = 0 /\ ~r.g.script
                          /\ r.node \in {"research_agent", "angles_and_hooks", "end"}
                          /\ ~r.g.analysis => r.g.angles = 0
  /\ r.kind = "resume" => r.g.selected = r.angle /\ r.g.research /\ r.g.analysis
  /\ r.node = "chief_editor_rewrite" => r.g.cycle < MaxCycles

Sound(r) ==
  /\ r.kind = "resume" => r.angle # 0
  /\ r.pc = "scheduled" => r.g = InitialState /\ r.node = "research_agent"
  /\ r.pc = "working" /\ r.kind \in GraphKinds => GraphWalk(r)
  /\ r.pc = "working" /\ r.kind \in Revisions => r.node \in Phases

LEMMA InitialGraph == InitialState \in GraphState
  BY MaxCyclesAssumption DEF InitialState, GraphState

LEMMA NoJobSound == NoJob \in Job /\ Sound(NoJob) /\ NoJob.pc = "none"
  BY InitialGraph, PipelineBounds DEF NoJob, Job, Sound, GraphKinds, Revisions, Stories, Nodes

LEMMA ScheduledSound ==
  ASSUME NEW kind \in GraphKinds \cup Revisions \cup {"angles"}, NEW s \in Stories,
         NEW source \in Stories, NEW angle \in 0..MaxJobs, kind = "resume" => angle # 0
  PROVE  LET r == Scheduled(kind, s, source, angle) IN
         /\ r \in Job /\ Sound(r)
         /\ r.pc = "scheduled" /\ r.kind = kind /\ r.story = s /\ r.source = source
         /\ r.angle = angle /\ r.g = InitialState
  BY InitialGraph DEF Scheduled, NoJob, Job, Sound, Nodes

\* What a node leaves of the graph state.
LEMMA NodeResult ==
  ASSUME NEW node \in Nodes, NEW g \in GraphState, NEW fresh \in Nat,
         node = "chief_editor_rewrite" => g.cycle < MaxCycles,
         NEW h \in Results(node, g, fresh)
  PROVE  /\ h \in GraphState
         /\ h.selected = g.selected
         /\ g.research => h.research
         /\ g.analysis => h.analysis
         /\ h.angles = g.angles \/ (node = "angles_and_hooks" /\ ~g.analysis /\ h.analysis /\ h.angles = fresh)
         /\ node # "scriptwriter" => h.script = g.script
<1> USE MaxCyclesAssumption DEF GraphState
<1>1. CASE node = "research_agent"
  BY <1>1 DEF Results, Research, Failed
<1>2. CASE node = "angles_and_hooks"
  BY <1>2 DEF Results, AnglesAndHooks, Failed
<1>3. CASE node = "chapter_writer"
  BY <1>3 DEF Results, ChapterWriter, Failed
<1>4. CASE node = "chief_editor_evaluator"
  BY <1>4 DEF Results, Failed
<1>5. CASE node = "scriptwriter"
  BY <1>5 DEF Results, Scriptwriter, Failed
<1>6. CASE node = "chief_editor_script_audit"
  BY <1>6 DEF Results, Audit
<1>7. CASE node = "chief_editor_rewrite"
  <2>1. g.cycle + 1 \in 0..MaxCycles
    BY <1>7
  <2>2. h = [g EXCEPT !.cycle = g.cycle + 1] \/ h = Failed(g)
    BY <1>7 DEF Results, Rewrite
  <2>3. QED
    BY <1>7, <2>1, <2>2 DEF Failed
<1>8. QED
  BY <1>1, <1>2, <1>3, <1>4, <1>5, <1>6, <1>7 DEF Nodes

LEMMA NextNode ==
  ASSUME NEW node \in Nodes, NEW g \in GraphState
  PROVE  /\ Successor(node, g) \in Nodes \cup {"end"}
         /\ Successor(node, g) = "chief_editor_rewrite" => g.cycle < MaxCycles
         /\ node = "research_agent" => Successor(node, g) \in {"angles_and_hooks", "end"}
         /\ node = "angles_and_hooks" /\ g.selected = 0 => Successor(node, g) = "end"
  BY DEF Successor, Nodes, WantsRewrite

LEMMA WalkStep ==
  ASSUME NEW r \in Job, Sound(r), r.pc = "working", r.kind \in GraphKinds, r.node # "end",
         NEW n \in Nat, r.kind = "fresh" /\ ~r.g.analysis => n <= MaxJobs,
         NEW g \in Results(r.node, r.g, n)
  PROVE  /\ [r EXCEPT !.g = g, !.node = Successor(r.node, g)] \in Job
         /\ Sound([r EXCEPT !.g = g, !.node = Successor(r.node, g)])
         /\ g.angles # r.g.angles => r.kind = "fresh" /\ ~r.g.analysis /\ g.analysis
         /\ r.g.analysis => g.analysis
<1> DEFINE next == Successor(r.node, g)
           new  == [r EXCEPT !.g = g, !.node = next]
<1>1. GraphWalk(r) /\ r.node \in Nodes /\ r.g \in GraphState
  BY DEF Sound, GraphWalk, Job
<1>2. /\ g \in GraphState /\ g.selected = r.g.selected
      /\ r.g.research => g.research
      /\ r.g.analysis => g.analysis
      /\ g.angles = r.g.angles \/ (r.node = "angles_and_hooks" /\ ~r.g.analysis /\ g.analysis /\ g.angles = n)
      /\ r.node # "scriptwriter" => g.script = r.g.script
  BY <1>1, NodeResult DEF GraphWalk
<1>3. /\ next \in Nodes \cup {"end"}
      /\ next = "chief_editor_rewrite" => g.cycle < MaxCycles
      /\ r.node = "research_agent" => next \in {"angles_and_hooks", "end"}
      /\ r.node = "angles_and_hooks" /\ g.selected = 0 => next = "end"
  BY <1>1, <1>2, NextNode
<1> HIDE DEF next
<1>4. /\ new \in Job /\ new.pc = r.pc /\ new.kind = r.kind /\ new.angle = r.angle
      /\ new.g = g /\ new.node = next
  BY <1>2, <1>3 DEF Job
<1>5. r.kind = "resume" => r.g.analysis
  BY <1>1 DEF GraphWalk
<1>6. g.angles # r.g.angles => r.kind = "fresh" /\ ~r.g.analysis /\ g.analysis /\ g.angles = n
  BY <1>2, <1>5 DEF GraphKinds
<1> HIDE DEF new
<1>7. GraphWalk(new)
  BY <1>1, <1>2, <1>3, <1>4, <1>6 DEF GraphWalk
<1>8. Sound(new)
  BY <1>4, <1>7 DEF Sound, GraphKinds, Revisions
<1>9. QED
  BY <1>2, <1>4, <1>6, <1>8 DEF new, next

--------------------------------------------------------------------------------
(* Types. The counter of generations stays within its bound because every job      *)
(* that may still offer angles has a turn of its own left.                         *)

Live(j) == job[j].pc # "none"

MayOffer(j) == Live(j) /\ (job[j].kind = "angles" \/ (job[j].kind = "fresh" /\ ~job[j].g.analysis))
Offering    == {j \in Jobs : MayOffer(j)}

JobsSound == \A j \in Jobs : Sound(job[j])
Unstarted == \A j \in Jobs : j > started => ~Live(j)
Counted   == offered + Cardinality(Offering) <= started

Typed == TypeOK /\ JobsSound /\ Unstarted /\ Counted

LEMMA OfferingFinite == IsFiniteSet(Offering) /\ Cardinality(Offering) \in Nat
<1>1. IsFiniteSet(Jobs)
  BY PipelineBounds, FS_Interval DEF Jobs
<1>2. QED
  BY <1>1, FS_Subset, FS_CardinalityType DEF Offering

\* A new job may add one offer.
LEMMA CountedStart ==
  ASSUME Typed, started < MaxJobs, NEW record \in Job, Sound(record),
         started' = started + 1, job' = [job EXCEPT ![started + 1] = record], offered' = offered
  PROVE  job' \in [Jobs -> Job] /\ started' \in 1..MaxJobs /\ JobsSound' /\ Unstarted' /\ Counted'
<1> USE PipelineBounds DEF Typed, TypeOK, Jobs
<1>1. job' \in [Jobs -> Job] /\ started' \in 1..MaxJobs /\ JobsSound' /\ Unstarted'
  BY DEF JobsSound, Unstarted, Live
<1>2. Offering' \subseteq Offering \cup {started + 1}
  BY DEF Offering, MayOffer, Live
<1>3. /\ IsFiniteSet(Offering \cup {started + 1})
      /\ Cardinality(Offering \cup {started + 1}) <= Cardinality(Offering) + 1
  <2> HIDE DEF Typed, TypeOK, Jobs
  <2>1. /\ IsFiniteSet(Offering \cup {started + 1})
        /\ \/ Cardinality(Offering \cup {started + 1}) = Cardinality(Offering)
           \/ Cardinality(Offering \cup {started + 1}) = Cardinality(Offering) + 1
    BY OfferingFinite, FS_AddElement, Zenon
  <2>2. QED
    BY <2>1, OfferingFinite
<1>4. Cardinality(Offering') <= Cardinality(Offering) + 1 /\ Cardinality(Offering') \in Nat
  BY <1>2, <1>3, FS_Subset, FS_CardinalityType, OfferingFinite
<1>5. QED
  BY <1>1, <1>4, OfferingFinite DEF Counted

\* A job that moves on offers no more than before.
LEMMA CountedMove ==
  ASSUME Typed, NEW j \in Jobs, NEW record \in Job, Sound(record),
         record.pc # "none" => Live(j),
         started' = started, job' = [job EXCEPT ![j] = record],
         \/ /\ offered' = offered
            /\ record.pc # "none" /\ record.kind \in {"angles", "fresh"}
                 => record.kind = job[j].kind /\ (job[j].g.analysis => record.g.analysis)
         \/ /\ offered' = offered + 1 /\ MayOffer(j)
            /\ record.pc # "none" => record.kind = "fresh" /\ record.g.analysis
  PROVE  job' \in [Jobs -> Job] /\ JobsSound' /\ Unstarted' /\ Counted' /\ offered' \in 0..MaxJobs
<1> USE PipelineBounds DEF Typed, TypeOK
<1>1. job' \in [Jobs -> Job] /\ JobsSound' /\ Unstarted'
  BY DEF JobsSound, Unstarted, Live
<1>2. CASE offered' = offered /\ (record.pc # "none" /\ record.kind \in {"angles", "fresh"}
             => record.kind = job[j].kind /\ (job[j].g.analysis => record.g.analysis))
  <2>1. Offering' \subseteq Offering
    BY <1>2 DEF Offering, MayOffer, Live
  <2>2. Cardinality(Offering') <= Cardinality(Offering) /\ Cardinality(Offering') \in Nat
    BY <2>1, OfferingFinite, FS_Subset, FS_CardinalityType
  <2>3. QED
    BY <1>1, <1>2, <2>2, OfferingFinite DEF Counted
<1>3. CASE offered' = offered + 1 /\ MayOffer(j)
             /\ (record.pc # "none" => record.kind = "fresh" /\ record.g.analysis)
  <2>1. Offering' \subseteq Offering \ {j} /\ j \in Offering
    BY <1>3 DEF Offering, MayOffer, Live
  <2>2. /\ IsFiniteSet(Offering \ {j})
        /\ Cardinality(Offering \ {j}) = Cardinality(Offering) - 1
    BY <2>1, OfferingFinite, FS_RemoveElement
  <2>3. Cardinality(Offering') <= Cardinality(Offering) - 1 /\ Cardinality(Offering') \in Nat
    BY <2>1, <2>2, FS_Subset, FS_CardinalityType
  <2>4. QED
    BY <1>1, <1>3, <2>3, OfferingFinite DEF Counted
<1>4. QED
  BY <1>2, <1>3

LEMMA CountedEnd ==
  ASSUME Typed, NEW j \in Jobs, End(j), started' = started,
         offered' = offered \/ (offered' = offered + 1 /\ MayOffer(j))
  PROVE  job' \in [Jobs -> Job] /\ JobsSound' /\ Unstarted' /\ Counted' /\ offered' \in 0..MaxJobs
  BY NoJobSound, CountedMove DEF End

\* A job that may still offer has room for it.
LEMMA RoomToOffer ==
  ASSUME Typed, NEW j \in Jobs, MayOffer(j)
  PROVE  offered + 1 \in 1..MaxJobs
<1>1. Cardinality(Offering) # 0
  BY OfferingFinite, FS_EmptySet DEF Offering
<1>2. QED
  BY <1>1, OfferingFinite, PipelineBounds DEF Typed, TypeOK, Counted

LEMMA Numbers ==
  0 \in 0..MaxJobs /\ 0 \in 0..Revised /\ Revised \in 0..Revised /\ 0..MaxJobs \subseteq 0..Revised
  BY PipelineBounds DEF Revised

LEMMA NoStoryTyped ==
  ASSUME NEW status \in Statuses
  PROVE  [NoStory EXCEPT !.status = status] \in Story /\ NoStory \in Story
<1>1. "none" \in Statuses
  BY DEF Statuses, Absent
<1>2. QED
  BY <1>1, Numbers DEF NoStory, Story

LEMMA WriteTyped ==
  ASSUME Typed, NEW s \in Stories, NEW new \in Story, Write(s, new)
  PROVE  story' \in [Stories -> Story]
  BY DEF Write, Typed, TypeOK

LEMMA FailTyped ==
  ASSUME Typed, NEW s \in Stories, Fail(s)
  PROVE  story' \in [Stories -> Story]
<1>1. [story[s] EXCEPT !.status = "failed"] \in Story
  BY DEF Typed, TypeOK, Story, Statuses, Terminal
<1>2. QED
  BY <1>1, WriteTyped DEF Fail

LEMMA StartTyped ==
  ASSUME Typed, NEW kind \in GraphKinds \cup Revisions \cup {"angles"}, NEW s \in Stories,
         NEW source \in Stories, NEW angle \in 0..MaxJobs, kind = "resume" => angle # 0,
         StartJob(Scheduled(kind, s, source, angle)), offered' = offered
  PROVE  job' \in [Jobs -> Job] /\ started' \in 1..MaxJobs /\ JobsSound' /\ Unstarted' /\ Counted'
<1> DEFINE r == Scheduled(kind, s, source, angle)
<1>1. r \in Job /\ Sound(r)
  BY ScheduledSound
<1> HIDE DEF r
<1>2. started < MaxJobs /\ started' = started + 1 /\ job' = [job EXCEPT ![started + 1] = r]
  BY DEF StartJob, r
<1>3. QED
  BY <1>1, <1>2, CountedStart

LEMMA TypedInit == Init => Typed
<1> SUFFICES ASSUME Init PROVE Typed
  OBVIOUS
<1> USE PipelineBounds DEF Init
<1>1. Scheduled("fresh", 1, 1, 0) \in Job /\ Sound(Scheduled("fresh", 1, 1, 0))
  BY ScheduledSound DEF Stories, GraphKinds
<1>2. job \in [Jobs -> Job] /\ JobsSound
  BY <1>1, NoJobSound DEF JobsSound
<1>3. story \in [Stories -> Story]
  BY NoStoryTyped DEF Statuses, Running
<1>4. Unstarted
  BY NoJobSound DEF Unstarted, Live, Jobs
<1>5. Offering \subseteq {1}
  BY NoJobSound DEF Offering, MayOffer, Live
<1>6. Cardinality(Offering) <= 1
  <2>1. IsFiniteSet({1}) /\ Cardinality({1}) = 1
    BY FS_Singleton
  <2>2. Cardinality(Offering) <= Cardinality({1})
    BY <1>5, <2>1, FS_Subset
  <2>3. QED
    BY <2>1, <2>2
<1>7. started = 1 /\ offered = 0 /\ calm \in BOOLEAN
  OBVIOUS
<1>8. Counted
  BY <1>6, <1>7, OfferingFinite DEF Counted
<1>9. QED
  BY <1>2, <1>3, <1>4, <1>7, <1>8 DEF Typed, TypeOK

LEMMA RequestTyped ==
  ASSUME Typed, NEW s \in Stories, Request(s)
  PROVE  Typed'
<1>0. calm \in BOOLEAN /\ story \in [Stories -> Story] /\ offered \in 0..MaxJobs
  BY DEF Typed, TypeOK
<1>1. ASSUME NEW angle \in 1..offered, SelectAngle(s, angle)
      PROVE  Typed'
  <2>1. /\ "resume" \in GraphKinds \cup Revisions \cup {"angles"} /\ angle \in 0..MaxJobs /\ angle # 0
        /\ offered' = offered
    BY <1>0, <1>1, PipelineBounds DEF SelectAngle, GraphKinds
  <2>2. job' \in [Jobs -> Job] /\ started' \in 1..MaxJobs /\ JobsSound' /\ Unstarted' /\ Counted'
    BY <1>1, <2>1, StartTyped DEF SelectAngle
  <2>3. story' \in [Stories -> Story]
    BY <1>0, <1>1, <2>1 DEF SelectAngle, Story, Statuses, Running
  <2>4. QED
    BY <1>0, <1>1, <2>1, <2>2, <2>3 DEF SelectAngle, Free, Typed, TypeOK
<1>2. ASSUME RegenerateAngles(s)
      PROVE  Typed'
  <2>1. /\ "angles" \in GraphKinds \cup Revisions \cup {"angles"} /\ 0 \in 0..MaxJobs
        /\ offered' = offered
    BY <1>2, PipelineBounds DEF RegenerateAngles
  <2>2. job' \in [Jobs -> Job] /\ started' \in 1..MaxJobs /\ JobsSound' /\ Unstarted' /\ Counted'
    BY <1>2, <2>1, StartTyped DEF RegenerateAngles
  <2>3. story' \in [Stories -> Story]
    BY <1>0, <1>2, <2>1 DEF RegenerateAngles, Story
  <2>4. QED
    BY <1>0, <1>2, <2>1, <2>2, <2>3 DEF RegenerateAngles, Free, Typed, TypeOK
<1>3. ASSUME NEW kind \in Revisions, NEW clone \in Stories, NEW status \in Phases, NEW carry \in BOOLEAN,
             Revise(kind, s, clone, status, carry)
      PROVE  Typed'
  <2>1. kind \in GraphKinds \cup Revisions \cup {"angles"} /\ 0 \in 0..MaxJobs /\ kind # "resume"
        /\ offered' = offered
    BY <1>3, PipelineBounds DEF Revise, Revisions
  <2>2. job' \in [Jobs -> Job] /\ started' \in 1..MaxJobs /\ JobsSound' /\ Unstarted' /\ Counted'
    BY <1>3, <2>1, StartTyped DEF Revise
  <2>3. Clone(story[s], status, carry) \in Story
    <3>1. status \in Statuses /\ NoStory \in Story
      BY NoStoryTyped DEF Statuses, Running, Phases
    <3>2. QED
      BY <1>0, <3>1, Numbers DEF Clone, Story
  <2>4. story' \in [Stories -> Story]
    BY <1>0, <1>3, <2>3 DEF Revise
  <2>5. QED
    BY <1>0, <1>3, <2>1, <2>2, <2>4 DEF Revise, Free, Typed, TypeOK
<1>4. ASSUME UpdateScript(s) \/ DeleteStory(s)
      PROVE  Typed'
  <2>1. story' \in [Stories -> Story]
    <3>1. CASE UpdateScript(s)
      BY <1>0, <3>1 DEF UpdateScript, Story, Statuses, Terminal
    <3>2. CASE DeleteStory(s)
      <4>1. [NoStory EXCEPT !.status = "deleted"] \in Story
        BY NoStoryTyped DEF Statuses, Absent
      <4>2. QED
        BY <1>0, <3>2, <4>1 DEF DeleteStory
    <3>3. QED
      BY <1>4, <3>1, <3>2
  <2>2. UNCHANGED <<job, started, offered>> /\ calm' \in BOOLEAN
    BY <1>0, <1>4 DEF UpdateScript, DeleteStory, Free
  <2>3. QED
    BY <2>1, <2>2
    DEF Typed, TypeOK, JobsSound, Unstarted, Counted, Offering, MayOffer, Live
<1>5. QED
  BY <1>1, <1>2, <1>3, <1>4
  DEF Request, RewriteStory, RegenerateStory, ImplementRecommendations, Revisions, Phases

LEMMA JobTyped ==
  ASSUME Typed, NEW j \in Jobs, JobStarts(j) \/ JobSteps(j)
  PROVE  Typed'
<1>0. /\ calm \in BOOLEAN /\ story \in [Stories -> Story] /\ job[j] \in Job /\ Sound(job[j])
      /\ job \in [Jobs -> Job] /\ job[j].story \in Stories /\ job[j].source \in Stories
      /\ offered \in 0..MaxJobs
  BY DEF Typed, TypeOK, JobsSound, Job
<1> DEFINE s == job[j].story
\* A step that ends the job or fails its story.
<1>1. ASSUME End(j), UNCHANGED <<started, calm>>, story' \in [Stories -> Story],
             offered' = offered \/ (offered' = offered + 1 /\ MayOffer(j))
      PROVE  Typed'
  BY <1>0, <1>1, CountedEnd DEF Typed, TypeOK
\* A step that moves the job on without an offer.
<1>2. ASSUME NEW r \in Job, Sound(r), Live(j), job' = [job EXCEPT ![j] = r], r.kind = job[j].kind,
             job[j].g.analysis => r.g.analysis \/ r.kind \notin {"angles", "fresh"},
             UNCHANGED <<started, calm, offered>>, story' \in [Stories -> Story]
      PROVE  Typed'
  BY <1>0, <1>2, CountedMove DEF Typed, TypeOK
<1>3. CASE GraphJobStarts(j)
  <2>1. Live(j) /\ UNCHANGED <<started, calm, offered>>
    BY <1>3 DEF GraphJobStarts, Live
  <2>2. CASE job[j].kind = "fresh" /\ job' = [job EXCEPT ![j].pc = "working"] /\ UNCHANGED story
    <3> DEFINE r == [job[j] EXCEPT !.pc = "working"]
    <3>1. /\ r \in Job /\ r.pc = "working" /\ r.kind = "fresh" /\ r.g = InitialState
          /\ r.node = "research_agent"
      BY <1>0, <1>3, <2>2 DEF GraphJobStarts, Job, Sound
    <3>2. job' = [job EXCEPT ![j] = r]
      BY <1>0, <2>2
    <3> HIDE DEF r
    <3>3. Sound(r)
      BY <3>1, PipelineBounds DEF Sound, GraphWalk, InitialState, Nodes, Revisions
    <3>4. job[j].g = InitialState
      BY <1>0, <1>3 DEF GraphJobStarts, Sound
    <3>5. QED
      BY <1>0, <1>2, <2>1, <2>2, <3>1, <3>2, <3>3, <3>4
  <2>3. CASE /\ job[j].kind = "resume"
             /\ job' = [job EXCEPT ![j].pc = "working",
                     ![j].g = [InitialState EXCEPT !.research = TRUE, !.analysis = TRUE,
                                 !.angles = story[s].angles, !.selected = job[j].angle]]
             /\ UNCHANGED story
    <3> DEFINE g == [InitialState EXCEPT !.research = TRUE, !.analysis = TRUE,
                                 !.angles = story[s].angles, !.selected = job[j].angle]
               r == [job[j] EXCEPT !.pc = "working", !.g = g]
    <3>1. story[s].angles \in 0..MaxJobs /\ job[j].angle \in 0..MaxJobs
      BY <1>0 DEF Story, Job
    <3>2. g \in GraphState /\ g.angles <= MaxJobs /\ g.selected = job[j].angle /\ g.research /\ g.analysis
      <4>1. story[s].angles \in Nat /\ story[s].angles <= MaxJobs /\ job[j].angle \in Nat
        BY <3>1, PipelineBounds
      <4>2. QED
        BY <4>1, InitialGraph DEF GraphState
    <3> HIDE DEF g
    <3>3. /\ r \in Job /\ r.pc = "working" /\ r.kind = "resume" /\ r.g = g
          /\ r.node = "research_agent" /\ r.angle = job[j].angle
      BY <1>0, <1>3, <2>3, <3>2 DEF GraphJobStarts, Job, Sound
    <3>4. job' = [job EXCEPT ![j] = r]
      BY <1>0, <2>3 DEF g
    <3> HIDE DEF r
    <3>5. Sound(r)
      BY <1>0, <2>3, <3>2, <3>3 DEF Sound, GraphWalk, Nodes, Revisions
    <3>6. QED
      BY <1>0, <1>2, <2>1, <2>3, <3>3, <3>4, <3>5
  <2>4. CASE End(j) /\ Fail(s)
    BY <1>0, <1>1, <2>1, <2>4, FailTyped
  <2>5. QED
    BY <1>3, <2>2, <2>3, <2>4 DEF GraphJobStarts
<1>4. CASE NodeCompletes(j)
  <2> DEFINE node == job[j].node
  <2>1. PICK g \in Results(node, job[j].g, offered + 1) :
          /\ job' = [job EXCEPT ![j].g = g, ![j].node = Successor(node, g)]
          /\ offered' = IF g.angles # job[j].g.angles THEN offered + 1 ELSE offered
          /\ story' = IF StatusAfter(node, g) = "none" THEN story
                      ELSE [story EXCEPT ![s] = Advanced(s, StatusAfter(node, g))]
    BY <1>4 DEF NodeCompletes
  <2> DEFINE r == [job[j] EXCEPT !.g = g, !.node = Successor(node, g)]
  <2>2. job[j].kind = "fresh" /\ ~job[j].g.analysis => MayOffer(j)
    BY <1>4 DEF NodeCompletes, MayOffer, Live
  <2>3. job[j].kind = "fresh" /\ ~job[j].g.analysis => offered + 1 <= MaxJobs
    BY <2>2, RoomToOffer
  <2>4. /\ r \in Job /\ Sound(r)
        /\ g.angles # job[j].g.angles => job[j].kind = "fresh" /\ ~job[j].g.analysis /\ g.analysis
        /\ job[j].g.analysis => g.analysis
    <3>1. /\ job[j].pc = "working" /\ job[j].kind \in GraphKinds /\ job[j].node # "end"
          /\ offered + 1 \in Nat
      BY <1>0, <1>4 DEF NodeCompletes
    <3> DEFINE k == job[j]
               n == offered + 1
    <3>2. /\ k \in Job /\ Sound(k) /\ k.pc = "working" /\ k.kind \in GraphKinds /\ k.node # "end"
          /\ n \in Nat /\ (k.kind = "fresh" /\ ~k.g.analysis => n <= MaxJobs)
          /\ g \in Results(k.node, k.g, n)
      BY <1>0, <2>3, <3>1
    <3> HIDE DEF k, n
    <3>3. /\ [k EXCEPT !.g = g, !.node = Successor(k.node, g)] \in Job
          /\ Sound([k EXCEPT !.g = g, !.node = Successor(k.node, g)])
          /\ g.angles # k.g.angles => k.kind = "fresh" /\ ~k.g.analysis /\ g.analysis
          /\ k.g.analysis => g.analysis
      BY <3>2, WalkStep
    <3>4. QED
      BY <3>3 DEF k
  <2>5. job' = [job EXCEPT ![j] = r]
    BY <1>0, <2>1
  <2>6. r.g = g /\ r.kind = job[j].kind
    BY <1>0 DEF Job
  <2>7. story' \in [Stories -> Story]
    <3>1. StatusAfter(node, g) \in Statuses
      BY DEF StatusAfter, Statuses, Running, Absent
    <3>2. Advanced(s, StatusAfter(node, g)) \in Story
      BY <1>0, <3>1 DEF Advanced, Story
    <3>3. QED
      BY <1>0, <2>1, <3>2
  <2>8. Live(j) /\ UNCHANGED <<started, calm>>
    BY <1>4 DEF NodeCompletes, Live
  <2> HIDE DEF r, node
  <2>9. \/ offered' = offered
        \/ offered' = offered + 1 /\ MayOffer(j) /\ r.kind = "fresh" /\ r.g.analysis
    BY <2>1, <2>2, <2>4, <2>6
  <2>10. job' \in [Jobs -> Job] /\ JobsSound' /\ Unstarted' /\ Counted' /\ offered' \in 0..MaxJobs
    <3>1. started' = started /\ r \in Job /\ Sound(r) /\ (job[j].g.analysis => r.g.analysis)
      BY <2>4, <2>6, <2>8
    <3>2. QED
      BY <2>5, <2>6, <2>8, <2>9, <3>1, CountedMove
  <2>11. QED
    BY <1>0, <2>7, <2>8, <2>10 DEF Typed, TypeOK
<1>5. CASE Save(j)
  <2>1. /\ job[j].g.angles \in 0..MaxJobs /\ job[j].g.selected \in 0..MaxJobs
        /\ job[j].g.research \in BOOLEAN /\ job[j].g.analysis \in BOOLEAN
    BY <1>0, <1>5, PipelineBounds DEF Save, Sound, GraphWalk, Job, GraphState, GraphKinds
  <2>2. {Awaiting, "completed", "failed"} \subseteq Statuses
    BY DEF Statuses, Terminal
  <2>3. \E new \in Story : Write(s, new)
    BY <1>0, <1>5, <2>1, <2>2, Numbers DEF Save, Story
  <2>4. story' \in [Stories -> Story]
    BY <1>0, <2>3, WriteTyped
  <2>5. QED
    BY <1>1, <1>5, <2>4 DEF Save
<1>6. CASE PipelineRaises(j)
  BY <1>0, <1>1, <1>6, FailTyped DEF PipelineRaises
<1>7. CASE AnglesJob(j)
  <2>1. CASE /\ job[j].pc = "scheduled" /\ job' = [job EXCEPT ![j].pc = "working"]
             /\ UNCHANGED <<story, offered, started, calm>>
    <3> DEFINE r == [job[j] EXCEPT !.pc = "working"]
    <3>1. r \in Job /\ r.pc = "working" /\ r.kind = "angles" /\ r.g = job[j].g
      BY <1>0, <1>7 DEF AnglesJob, Job
    <3>2. job' = [job EXCEPT ![j] = r]
      BY <1>0, <2>1
    <3> HIDE DEF r
    <3>3. Sound(r)
      BY <3>1 DEF Sound, GraphKinds, Revisions
    <3>4. Live(j) /\ r.kind = job[j].kind
      BY <1>7, <2>1, <3>1 DEF Live, AnglesJob
    <3>5. QED
      BY <1>0, <1>2, <2>1, <3>1, <3>2, <3>3, <3>4
  <2>2. CASE End(j) /\ UNCHANGED <<story, offered, started, calm>>
    BY <1>0, <1>1, <2>2
  <2>3. CASE /\ job[j].pc = "working" /\ End(j) /\ offered' = offered + 1
             /\ Write(s, [story[s] EXCEPT !.angles = offered + 1, !.selected = 0, !.analysis = TRUE,
                                          !.status = Awaiting])
             /\ UNCHANGED <<started, calm>>
    <3>1. MayOffer(j)
      BY <1>7, <2>3 DEF AnglesJob, MayOffer, Live
    <3>2. offered + 1 \in 1..MaxJobs
      BY <3>1, RoomToOffer
    <3>3. [story[s] EXCEPT !.angles = offered + 1, !.selected = 0, !.analysis = TRUE,
                           !.status = Awaiting] \in Story
      <4>1. Awaiting \in Statuses /\ offered + 1 \in 0..MaxJobs
        BY <3>2 DEF Statuses
      <4>2. QED
        BY <1>0, <4>1, Numbers DEF Story
    <3>4. QED
      BY <1>0, <1>1, <2>3, <3>1, <3>3, WriteTyped
  <2>4. QED
    BY <1>7, <2>1, <2>2, <2>3 DEF AnglesJob
<1>8. CASE RevisionStarts(j)
  <2>1. Live(j) /\ UNCHANGED <<started, calm, offered>> /\ job[j].kind \in Revisions
    BY <1>8 DEF RevisionStarts, Live
  <2>2. CASE End(j) /\ (UNCHANGED story \/ Fail(s))
    BY <1>0, <1>1, <2>1, <2>2, FailTyped
  <2>3. CASE \E phase \in Phases, b \in BOOLEAN :
               /\ story' = [story EXCEPT ![s].status = IF job[j].kind = "rewrite" THEN @ ELSE phase]
               /\ job' = [job EXCEPT ![j].pc = "working", ![j].node = phase, ![j].g.analysis = b]
    <3>1. PICK phase \in Phases, b \in BOOLEAN :
            /\ story' = [story EXCEPT ![s].status = IF job[j].kind = "rewrite" THEN @ ELSE phase]
            /\ job' = [job EXCEPT ![j].pc = "working", ![j].node = phase, ![j].g.analysis = b]
      BY <2>3
    <3> DEFINE r == [job[j] EXCEPT !.pc = "working", !.node = phase, !.g.analysis = b]
    <3>2. r \in Job /\ r.pc = "working" /\ r.kind = job[j].kind /\ r.node = phase
      BY <1>0 DEF Job, GraphState, Phases, Running
    <3>3. job' = [job EXCEPT ![j] = r]
      BY <1>0, <3>1
    <3> HIDE DEF r
    <3>4. Sound(r)
      BY <2>1, <3>2 DEF Sound, GraphKinds, Revisions
    <3>5. story' \in [Stories -> Story]
      BY <1>0, <3>1 DEF Story, Statuses, Running, Phases
    <3>6. QED
      BY <1>0, <1>2, <2>1, <3>2, <3>3, <3>4, <3>5 DEF Revisions
  <2>4. QED
    <3>1. \A t \in Stories : story[t].analysis \in BOOLEAN
      BY <1>0 DEF Story
    <3>2. (CASE job[j].kind = "rewrite"    -> "scripting"
             [] job[j].kind = "regenerate" -> "analysing"
             [] job[j].kind = "implement"  -> "writing_storyline") \in Phases
      BY <2>1 DEF Revisions, Phases
    <3>3. QED
      BY <1>0, <1>8, <2>2, <2>3, <3>1, <3>2 DEF RevisionStarts
<1>9. CASE RevisionStep(j)
  <2> DEFINE next == NextPhase(job[j].kind, job[j].g.analysis, job[j].node)
  <2>1. Live(j) /\ UNCHANGED <<started, calm, offered>> /\ job[j].kind \in Revisions /\ job[j].node \in Phases
    BY <1>0, <1>9 DEF RevisionStep, Live, Sound
  <2>2. next \in Phases \cup {"end"}
    BY <2>1 DEF NextPhase, Phases
  <2>3. CASE next = "end"
    <3> DEFINE new == [story[s] EXCEPT !.status = "completed", !.script = Revised,
                                       !.analysis = job[j].kind # "rewrite" \/ @]
    <3>1. new \in Story
      BY <1>0, Numbers DEF Story, Statuses, Terminal
    <3>2. Write(s, new) /\ End(j)
      BY <1>9, <2>3 DEF RevisionStep
    <3> HIDE DEF new
    <3>3. QED
      BY <1>0, <1>1, <2>1, <3>1, <3>2, WriteTyped
  <2>4. CASE next # "end"
    <3> DEFINE r == [job[j] EXCEPT !.node = next]
    <3>1. r \in Job /\ r.pc = job[j].pc /\ r.kind = job[j].kind /\ r.node = next /\ r.g = job[j].g
      BY <1>0, <2>2, <2>4 DEF Job, Phases, Running
    <3>2. job' = [job EXCEPT ![j] = r] /\ Write(s, [story[s] EXCEPT !.status = next])
      BY <1>0, <1>9, <2>4 DEF RevisionStep
    <3>3. [story[s] EXCEPT !.status = next] \in Story
      BY <1>0, <2>2, <2>4 DEF Story, Statuses, Running, Phases
    <3>4. job[j].pc = "working"
      BY <1>9 DEF RevisionStep
    <3> HIDE DEF r, next
    <3>5. Sound(r)
      BY <2>1, <2>2, <2>4, <3>1, <3>4 DEF Sound, GraphKinds, Revisions
    <3>6. story' \in [Stories -> Story]
      BY <1>0, <3>2, <3>3, WriteTyped
    <3>7. QED
      BY <1>0, <1>2, <2>1, <3>1, <3>2, <3>5, <3>6
  <2>5. QED
    BY <2>3, <2>4
<1>10. CASE RevisionFails(j)
  BY <1>0, <1>1, <1>10, FailTyped DEF RevisionFails
<1>11. QED
  BY <1>3, <1>4, <1>5, <1>6, <1>7, <1>8, <1>9, <1>10 DEF JobStarts, JobSteps

LEMMA TypedStep ==
  ASSUME Typed, [Next]_vars
  PROVE  Typed'
<1>1. ASSUME NEW s \in Stories, WatchdogFails(s) \/ WatchdogExpires(s)
      PROVE  Typed'
  <2>1. story' \in [Stories -> Story] /\ calm' \in BOOLEAN
    BY <1>1 DEF WatchdogFails, WatchdogExpires, Idle, Typed, TypeOK, Story, Statuses, Terminal
  <2>2. UNCHANGED <<job, started, offered>>
    BY <1>1 DEF WatchdogFails, WatchdogExpires
  <2>3. QED
    BY <2>1, <2>2 DEF Typed, TypeOK, JobsSound, Unstarted, Counted, Offering, MayOffer, Live
<1>2. CASE Restart
  <2>1. job' \in [Jobs -> Job] /\ JobsSound' /\ Unstarted'
    BY <1>2, NoJobSound DEF Restart, JobsSound, Unstarted, Live
  <2>2. Offering' \subseteq Offering
    BY <1>2, NoJobSound DEF Restart, Offering, MayOffer, Live
  <2>3. Cardinality(Offering') <= Cardinality(Offering) /\ Cardinality(Offering') \in Nat
    BY <2>2, OfferingFinite, FS_Subset, FS_CardinalityType
  <2>4. QED
    BY <1>2, <2>1, <2>3, OfferingFinite, PipelineBounds DEF Restart, Typed, TypeOK, Counted
<1>3. CASE UNCHANGED vars
  BY <1>3 DEF vars, Typed, TypeOK, JobsSound, Unstarted, Counted, Offering, MayOffer, Live
<1>4. QED
  BY <1>1, <1>2, <1>3, RequestTyped, JobTyped DEF Next

\* Every variable stays within its type: no pipeline rewrites a script more often than
\* its budget allows, and no job offers angles twice (journalist_graph.py,
\* route_after_chief_editor_script_audit).
THEOREM TypeCorrect == Spec => []TypeOK
<1>1. Typed => TypeOK
  BY DEF Typed
<1>2. QED
  BY <1>1, TypedInit, TypedStep, PTL DEF Spec

--------------------------------------------------------------------------------
(* Which job works on which story.                                               *)

\* A job keeps its kind, its story, its source and its angle for as long as it lives.
Kept(i) ==
  /\ Live(i)
  /\ job'[i].kind = job[i].kind /\ job'[i].story = job[i].story
  /\ job'[i].source = job[i].source /\ job'[i].angle = job[i].angle

JobsKept == \A i \in Jobs : Live(i)' => Kept(i)

Started(record) ==
  /\ started < MaxJobs
  /\ job' = [job EXCEPT ![started + 1] = record]

\* The requests that start a job, with what they had to find.
ResumeStarted(s, angle) ==
  /\ story[s].status = Awaiting /\ calm' = (calm /\ ~Busy(s))
  /\ Started(Scheduled("resume", s, s, angle))
  /\ story' = [story EXCEPT ![s].selected = angle, ![s].status = "writing_storyline"]

AnglesStarted(s) ==
  /\ story[s].status = Awaiting /\ calm' = (calm /\ ~Busy(s))
  /\ Started(Scheduled("angles", s, s, 0))
  /\ story' = [story EXCEPT ![s].angles = 0, ![s].selected = 0]

RevisionStarted(s, clone, kind, status, carry) ==
  /\ story[s].status \in Terminal /\ calm' = (calm /\ ~Busy(s))
  /\ story[clone].status = "none"
  /\ kind = "rewrite"    => story[s].script # 0 /\ status = "scripting" /\ carry
  /\ kind = "regenerate" => status = "analysing" /\ carry
  /\ kind = "implement"  => story[s].script # 0 /\ status = "writing_storyline" /\ ~carry
  /\ Started(Scheduled(kind, clone, s, 0))
  /\ story' = [story EXCEPT ![clone] = Clone(story[s], status, carry)]

JobStarted ==
  \/ \E s \in Stories : AnglesStarted(s) \/ \E angle \in 1..MaxJobs : ResumeStarted(s, angle)
  \/ \E s, clone \in Stories, kind \in Revisions, status \in Phases, carry \in BOOLEAN :
       RevisionStarted(s, clone, kind, status, carry)

\* What the other requests and the watchdog may do to a row: end its status, or delete it.
RowLeft(s)  == story'[s] = story[s]
RowEnded(s) ==
  /\ Exists(s)
  /\ \/ /\ calm' = (calm /\ ~Busy(s))
        /\ \E status \in Terminal :
             /\ IF status = "completed" THEN story[s].script # 0 /\ story[s].status # "completed"
                                        ELSE story[s].status \in Running \cup {Awaiting}
             /\ story'[s] = [story[s] EXCEPT !.status = status]
     \/ story'[s] = [NoStory EXCEPT !.status = "deleted"]
RowsEnded ==
  /\ UNCHANGED job /\ (calm' => calm)
  /\ \A t \in Stories : RowLeft(t) \/ RowEnded(t)
  /\ \E s \in Stories : \A t \in Stories \ {s} : RowLeft(t)

LEMMA FirstStory == 1 \in Stories
  BY PipelineBounds DEF Stories

LEMMA RequestEffect ==
  ASSUME Typed, NEW s \in Stories, Request(s)
  PROVE  JobStarted \/ RowsEnded
<1>1. ASSUME NEW angle \in 1..offered, SelectAngle(s, angle)
      PROVE  JobStarted
  <2>1. angle \in 1..MaxJobs
    BY PipelineBounds DEF Typed, TypeOK
  <2>2. ResumeStarted(s, angle)
    BY <1>1 DEF SelectAngle, Free, StartJob, Started, ResumeStarted
  <2>3. QED
    BY <2>1, <2>2 DEF JobStarted
<1>2. ASSUME RegenerateAngles(s)
      PROVE  JobStarted
  BY <1>2 DEF RegenerateAngles, Free, StartJob, JobStarted, Started, AnglesStarted
<1>3. ASSUME NEW clone \in Stories,
             RewriteStory(s, clone) \/ RegenerateStory(s, clone) \/ ImplementRecommendations(s, clone)
      PROVE  JobStarted
  <2>1. ASSUME NEW kind \in Revisions, NEW status \in Phases, NEW carry \in BOOLEAN,
               Revise(kind, s, clone, status, carry),
               kind = "rewrite"    => story[s].script # 0 /\ status = "scripting" /\ carry,
               kind = "regenerate" => status = "analysing" /\ carry,
               kind = "implement"  => story[s].script # 0 /\ status = "writing_storyline" /\ ~carry
        PROVE  JobStarted
    <3>1. RevisionStarted(s, clone, kind, status, carry)
      BY <2>1 DEF Revise, Free, StartJob, Started, RevisionStarted
    <3>2. QED
      BY <2>1, <3>1 DEF JobStarted
  <2>2. CASE RewriteStory(s, clone)
    BY <2>1, <2>2 DEF RewriteStory, Revisions, Phases
  <2>3. CASE RegenerateStory(s, clone)
    BY <2>1, <2>3 DEF RegenerateStory, Revisions, Phases
  <2>4. CASE ImplementRecommendations(s, clone)
    BY <2>1, <2>4 DEF ImplementRecommendations, Revisions, Phases
  <2>5. QED
    BY <1>3, <2>2, <2>3, <2>4
<1>4. ASSUME UpdateScript(s) \/ DeleteStory(s)
      PROVE  RowsEnded
  <2>1. UNCHANGED job /\ (calm' => calm)
    BY <1>4 DEF UpdateScript, DeleteStory, Free, Typed, TypeOK
  <2>2. \A t \in Stories : RowLeft(t) \/ RowEnded(t)
    BY <1>4 DEF UpdateScript, DeleteStory, Free, RowLeft, RowEnded, Typed, TypeOK, Terminal
  <2>3. \A t \in Stories \ {s} : RowLeft(t)
    BY <1>4 DEF UpdateScript, DeleteStory, RowLeft, Typed, TypeOK
  <2>4. QED
    BY <2>1, <2>2, <2>3 DEF RowsEnded
<1>5. QED
  BY <1>1, <1>2, <1>3, <1>4 DEF Request

LEMMA JobEffect ==
  ASSUME Typed, NEW j \in Jobs, JobStarts(j) \/ JobSteps(j)
  PROVE  /\ JobsKept /\ Live(j)
         /\ \A i \in Jobs : i # j => job'[i] = job[i]
         /\ \A t \in Stories : t # job[j].story => RowLeft(t)
         /\ calm' = calm
<1>0. job \in [Jobs -> Job] /\ NoJob.pc = "none" /\ job[j].story \in Stories
  BY NoJobSound DEF Typed, TypeOK, Job
<1>1. Live(j) /\ calm' = calm
  BY DEF JobStarts, JobSteps, GraphJobStarts, NodeCompletes, Save, PipelineRaises, AnglesJob,
         RevisionStarts, RevisionStep, RevisionFails, Live
<1>2. \E r \in {NoJob} \cup {x \in Job : /\ x.kind = job[j].kind /\ x.story = job[j].story
                                       /\ x.source = job[j].source /\ x.angle = job[j].angle} :
        job' = [job EXCEPT ![j] = r]
  <2> DEFINE Same == {x \in Job : /\ x.kind = job[j].kind /\ x.story = job[j].story
                                  /\ x.source = job[j].source /\ x.angle = job[j].angle}
  <2>1. job' \in [Jobs -> Job]
    BY JobTyped DEF Typed, TypeOK
  <2>2. \/ End(j)
        \/ job' = [job EXCEPT ![j] = job'[j]] /\ job'[j] \in Same
    <3>1. CASE GraphJobStarts(j)
      BY <1>0, <2>1, <3>1 DEF GraphJobStarts, Job
    <3>2. CASE NodeCompletes(j)
      <4>1. PICK g : job' = [job EXCEPT ![j].g = g, ![j].node = Successor(job[j].node, g)]
        BY <3>2 DEF NodeCompletes
      <4> DEFINE r == [job[j] EXCEPT !.g = g, !.node = Successor(job[j].node, g)]
      <4>2. job' = [job EXCEPT ![j] = r] /\ job'[j] = r
        BY <1>0, <4>1
      <4>3. /\ r.kind = job[j].kind /\ r.story = job[j].story
            /\ r.source = job[j].source /\ r.angle = job[j].angle
        BY <1>0 DEF Job
      <4> HIDE DEF r
      <4>4. QED
        BY <2>1, <4>2, <4>3
    <3>3. CASE AnglesJob(j)
      BY <1>0, <2>1, <3>3 DEF AnglesJob, Job
    <3>4. CASE RevisionStarts(j)
      BY <1>0, <2>1, <3>4 DEF RevisionStarts, Job
    <3>5. CASE RevisionStep(j)
      BY <1>0, <2>1, <3>5 DEF RevisionStep, Job
    <3>6. QED
      BY <3>1, <3>2, <3>3, <3>4, <3>5
      DEF JobStarts, JobSteps, Save, PipelineRaises, RevisionFails
  <2>3. QED
    BY <2>2 DEF End
<1>3. JobsKept /\ \A i \in Jobs : i # j => job'[i] = job[i]
  BY <1>0, <1>1, <1>2 DEF JobsKept, Kept, Live
<1>4. \A t \in Stories : t # job[j].story => RowLeft(t)
  BY <1>0 DEF JobStarts, JobSteps, GraphJobStarts, NodeCompletes, Save, PipelineRaises, AnglesJob,
         RevisionStarts, RevisionStep, RevisionFails, Fail, Write, RowLeft, Typed, TypeOK
<1>5. QED
  BY <1>1, <1>3, <1>4

LEMMA StepEffect ==
  ASSUME Typed, [Next]_vars
  PROVE  \/ JobStarted
         \/ RowsEnded
         \/ \E j \in Jobs : JobStarts(j) \/ JobSteps(j)
         \/ Restart
<1>1. ASSUME NEW s \in Stories, WatchdogFails(s) \/ WatchdogExpires(s)
      PROVE  RowsEnded
  <2>1. Exists(s)
    BY <1>1 DEF WatchdogFails, WatchdogExpires, Exists, Running, Absent, Awaiting
  <2>2. \A t \in Stories : RowLeft(t) \/ RowEnded(t)
    BY <1>1, <2>1 DEF WatchdogFails, WatchdogExpires, Idle, RowLeft, RowEnded, Typed, TypeOK, Terminal
  <2>3. \A t \in Stories \ {s} : RowLeft(t)
    BY <1>1 DEF WatchdogFails, WatchdogExpires, RowLeft, Typed, TypeOK
  <2>4. QED
    BY <1>1, <2>2, <2>3 DEF WatchdogFails, WatchdogExpires, Idle, RowsEnded
<1>2. CASE UNCHANGED vars
  BY <1>2, FirstStory DEF vars, RowsEnded, RowLeft
<1>3. QED
  BY <1>1, <1>2, RequestEffect DEF Next

\* What a job writes to its story, by the kind of job.
Early == {"researching", "analysing", Awaiting}

Advances(j, old, new) ==
  /\ job[j].kind \in GraphKinds
  /\ \E status \in Running \cup {Awaiting} :
       /\ Phase(old.status) < Phase(status)
       /\ job[j].kind = "fresh"  => status \in Early
       /\ job[j].kind = "resume" => status # Awaiting
       /\ new = [old EXCEPT !.status = status]

Pauses(j, old, new) ==
  /\ job[j].kind \in {"fresh", "angles"}
  /\ new.status = Awaiting /\ new.script = old.script /\ new.analysis
  /\ new.selected = IF job[j].kind = "fresh" THEN old.selected ELSE 0

Finishes(j, old, new) ==
  /\ new.selected = old.selected
  /\ \/ job[j].kind \in GraphKinds /\ new.status = "failed" /\ new.script = 0
     \/ /\ job[j].kind = "resume" /\ new.status = "completed" /\ new.script = job[j].angle
        /\ new.analysis
     \/ /\ job[j].kind \in Revisions /\ new.status = "completed" /\ new.script = Revised
        /\ new.analysis = (job[j].kind # "rewrite" \/ old.analysis) /\ job[j].pc = "working"
        /\ job[j].node = "scripting"

MovesPhase(j, old, new) ==
  /\ job[j].kind \in Revisions
  /\ \E phase \in Phases : new = [old EXCEPT !.status = phase]

Ends(j, old, new) ==
  new = [old EXCEPT !.status = "failed"] \/ Pauses(j, old, new) \/ Finishes(j, old, new)

Writes(j, old, new) ==
  \/ Live(j)' /\ (Advances(j, old, new) \/ MovesPhase(j, old, new))
  \/ ~Live(j)' /\ Ends(j, old, new)

LEMMA JobWrites ==
  ASSUME Typed, NEW j \in Jobs, JobStarts(j) \/ JobSteps(j)
  PROVE  LET s == job[j].story IN
         RowLeft(s) \/ (Exists(s) /\ Writes(j, story[s], story'[s]))
<1> DEFINE s == job[j].story
<1>0. /\ story \in [Stories -> Story] /\ job[j] \in Job /\ Sound(job[j]) /\ s \in Stories
      /\ job \in [Jobs -> Job]
  BY DEF Typed, TypeOK, JobsSound, Job
<1>e. End(j) => ~Live(j)'
  BY <1>0, NoJobSound DEF End, Live
<1>1. ASSUME End(j), Fail(s)
      PROVE  RowLeft(s) \/ (Exists(s) /\ Writes(j, story[s], story'[s]))
  BY <1>0, <1>e, <1>1 DEF Fail, Write, RowLeft, Writes, Ends
<1>2. CASE GraphJobStarts(j)
  BY <1>1, <1>2 DEF GraphJobStarts, RowLeft
<1>3. CASE NodeCompletes(j)
  <2>1. PICK g \in Results(job[j].node, job[j].g, offered + 1) :
          /\ job' = [job EXCEPT ![j].g = g, ![j].node = Successor(job[j].node, g)]
          /\ story' = IF StatusAfter(job[j].node, g) = "none" THEN story
                      ELSE [story EXCEPT ![s] = Advanced(s, StatusAfter(job[j].node, g))]
    BY <1>3 DEF NodeCompletes
  <2> DEFINE status == StatusAfter(job[j].node, g)
  <2>2. CASE status = "none" \/ Advanced(s, status) = story[s]
    BY <1>0, <2>1, <2>2 DEF RowLeft
  <2>3. CASE status # "none" /\ Advanced(s, status) # story[s]
    <3>1. /\ Exists(s) /\ Phase(story[s].status) < Phase(status)
          /\ story'[s] = [story[s] EXCEPT !.status = status]
      BY <1>0, <2>1, <2>3 DEF Advanced
    <3>2. /\ job[j].pc = "working" /\ job[j].kind \in GraphKinds /\ job[j].node \in Nodes
          /\ GraphWalk(job[j])
      BY <1>0, <1>3 DEF NodeCompletes, Sound, GraphWalk
    <3>3. g.selected = job[j].g.selected
      BY <1>0, <2>1, <3>2, NodeResult DEF GraphWalk, Job, Typed, TypeOK
    <3>4. status \in Running \cup {Awaiting}
      BY <2>3 DEF StatusAfter, Running
    <3>5. job[j].kind = "fresh" => status \in Early
      <4>1. job[j].kind = "fresh" => job[j].node \in {"research_agent", "angles_and_hooks"} /\ g.selected = 0
        BY <1>3, <3>2, <3>3 DEF NodeCompletes, GraphWalk
      <4>2. QED
        BY <2>3, <4>1 DEF StatusAfter, Early
    <3>6. job[j].kind = "resume" => status # Awaiting
      BY <1>0, <3>2, <3>3 DEF GraphWalk, StatusAfter, Sound, Awaiting
    <3>7. Live(j)'
      BY <1>0, <2>1, <3>2 DEF Live, Job
    <3> HIDE DEF status
    <3>8. QED
      BY <3>1, <3>2, <3>4, <3>5, <3>6, <3>7 DEF Writes, Advances
  <2>4. QED
    BY <2>2, <2>3
<1>4. CASE Save(j)
  <2> DEFINE g == job[j].g
  <2>1. /\ job[j].pc = "working" /\ job[j].kind \in GraphKinds /\ GraphWalk(job[j]) /\ ~Live(j)'
    BY <1>0, <1>e, <1>4 DEF Save, Sound
  <2>2. CASE ~Exists(s)
    BY <1>4, <2>2 DEF Save, Write, RowLeft
  <2>3. CASE Exists(s) /\ g.angles # 0 /\ g.selected = 0
    <3>1. job[j].kind = "fresh" /\ g.analysis
      BY <1>0, <2>1, <2>3 DEF GraphWalk, GraphKinds, Sound
    <3>2. story'[s] = [story[s] EXCEPT !.status = Awaiting, !.angles = g.angles,
                                       !.research = g.research, !.analysis = g.analysis]
      BY <1>0, <1>4, <2>3 DEF Save, Write
    <3>3. Pauses(j, story[s], story'[s])
      BY <1>0, <3>1, <3>2 DEF Pauses, Story
    <3>4. QED
      BY <2>1, <2>3, <3>3 DEF Writes, Ends
  <2>4. CASE Exists(s) /\ ~(g.angles # 0 /\ g.selected = 0)
    <3>1. story'[s] = [story[s] EXCEPT !.status = IF g.script THEN "completed" ELSE "failed",
                                    !.script = IF g.script THEN g.selected ELSE 0,
                                    !.research = g.research, !.analysis = g.analysis]
      BY <1>0, <1>4, <2>4 DEF Save, Write
    <3>2. g.script => job[j].kind = "resume" /\ g.selected = job[j].angle /\ g.analysis
      BY <2>1 DEF GraphWalk, GraphKinds
    <3>3. Finishes(j, story[s], story'[s])
      BY <1>0, <2>1, <3>1, <3>2 DEF Finishes, Story
    <3>4. QED
      BY <2>1, <2>4, <3>3 DEF Writes, Ends
  <2>5. QED
    BY <2>2, <2>3, <2>4
<1>5. CASE PipelineRaises(j)
  BY <1>1, <1>5 DEF PipelineRaises
<1>6. CASE AnglesJob(j)
  <2>1. CASE UNCHANGED story \/ ~Exists(s)
    BY <1>6, <2>1 DEF AnglesJob, RowLeft, Write
  <2>2. CASE story' # story /\ Exists(s)
    <3>1. /\ End(j) /\ job[j].kind = "angles"
          /\ story'[s] = [story[s] EXCEPT !.angles = offered + 1, !.selected = 0, !.analysis = TRUE,
                                          !.status = Awaiting]
      BY <1>0, <1>6, <2>2 DEF AnglesJob, Write
    <3>2. Pauses(j, story[s], story'[s])
      BY <1>0, <3>1 DEF Pauses, Story
    <3>3. QED
      BY <1>e, <2>2, <3>1, <3>2 DEF Writes, Ends
  <2>3. QED
    BY <2>1, <2>2
<1>7. CASE RevisionStarts(j)
  <2>1. job[j].kind \in Revisions
    BY <1>7 DEF RevisionStarts
  <2>2. CASE End(j) /\ (UNCHANGED story \/ Fail(s))
    BY <1>1, <2>2 DEF RowLeft
  <2>3. CASE /\ Exists(s)
             /\ \E phase \in Phases, b \in BOOLEAN :
                  /\ story' = [story EXCEPT ![s].status = IF job[j].kind = "rewrite" THEN @ ELSE phase]
                  /\ job' = [job EXCEPT ![j].pc = "working", ![j].node = phase, ![j].g.analysis = b]
    <3>1. Live(j)' /\ (RowLeft(s) \/ \E phase \in Phases : story'[s] = [story[s] EXCEPT !.status = phase])
      BY <1>0, <2>3 DEF RowLeft, Story, Live, Job
    <3>2. QED
      BY <2>1, <2>3, <3>1 DEF Writes, MovesPhase
  <2>4. QED
    <3>1. (CASE job[j].kind = "rewrite"    -> "scripting"
             [] job[j].kind = "regenerate" -> "analysing"
             [] job[j].kind = "implement"  -> "writing_storyline") \in Phases
      BY <2>1 DEF Revisions, Phases
    <3>2. \A t \in Stories : story[t].analysis \in BOOLEAN
      BY <1>0 DEF Story
    <3>3. job[j].source \in Stories
      BY <1>0 DEF Job
    <3>4. QED
      BY <1>0, <1>7, <2>2, <2>3, <3>1, <3>2, <3>3 DEF RevisionStarts
<1>8. CASE RevisionStep(j)
  <2> DEFINE next == NextPhase(job[j].kind, job[j].g.analysis, job[j].node)
  <2>1. job[j].kind \in Revisions /\ job[j].node \in Phases /\ job[j].pc = "working"
    BY <1>0, <1>8 DEF RevisionStep, Sound
  <2>2. next \in Phases \cup {"end"}
    BY <2>1 DEF NextPhase, Phases
  <2>3. CASE ~Exists(s)
    BY <1>8, <2>3 DEF RevisionStep, Write, RowLeft
  <2>4. CASE Exists(s) /\ next = "end"
    <3>1. /\ End(j)
          /\ story'[s] = [story[s] EXCEPT !.status = "completed", !.script = Revised,
                                          !.analysis = job[j].kind # "rewrite" \/ story[s].analysis]
      BY <1>0, <1>8, <2>4 DEF RevisionStep, Write
    <3>2. Finishes(j, story[s], story'[s])
      <4>1. story[s] \in Story /\ job[j].kind \in Revisions /\ job[j].pc = "working"
        BY <1>0, <2>1
      <4>2. /\ story'[s].selected = story[s].selected /\ story'[s].status = "completed"
            /\ story'[s].script = Revised
            /\ story'[s].analysis = (job[j].kind # "rewrite" \/ story[s].analysis)
        BY <3>1, <4>1 DEF Story
      <4>3. job[j].node = "scripting"
        BY <2>1, <2>4 DEF NextPhase, Phases
      <4>4. QED
        BY <4>1, <4>2, <4>3, Zenon DEF Finishes
    <3>3. QED
      BY <1>e, <2>4, <3>1, <3>2 DEF Writes, Ends
  <2>5. CASE Exists(s) /\ next # "end"
    <3>1. story'[s] = [story[s] EXCEPT !.status = next] /\ job' = [job EXCEPT ![j].node = next]
      BY <1>0, <1>8, <2>5 DEF RevisionStep, Write
    <3> HIDE DEF next
    <3>2. Live(j)'
      BY <1>0, <2>1, <3>1 DEF Live, Job
    <3>3. QED
      BY <2>1, <2>2, <2>5, <3>1, <3>2 DEF Writes, MovesPhase
  <2>6. QED
    BY <2>3, <2>4, <2>5
<1>9. CASE RevisionFails(j)
  BY <1>1, <1>9 DEF RevisionFails
<1>10. QED
  BY <1>2, <1>3, <1>4, <1>5, <1>6, <1>7, <1>8, <1>9 DEF JobStarts, JobSteps

\* A restart leaves the rows and no job.
LEMMA RestartEffect ==
  ASSUME Restart
  PROVE  UNCHANGED <<story, calm>> /\ \A j \in Jobs : ~Live(j)'
  BY NoJobSound DEF Restart, Live

--------------------------------------------------------------------------------
(* The jobs of a story: revisions work on the stories made for them, one job     *)
(* each, and only the first story is ever asked for an angle.                    *)

Family ==
  /\ story[1].status # "none"
  /\ \A j \in Jobs : Live(j) => /\ story[job[j].story].status # "none"
                                /\ job[j].kind \in Revisions <=> job[j].story # 1
  /\ \A s \in Stories : story[s].status = Awaiting => s = 1
  /\ \A i, j \in Jobs : Live(i) /\ Live(j) /\ job[i].story = job[j].story /\ i # j => job[i].story = 1

LEMMA FamilyInit == Init => Family
<1> SUFFICES ASSUME Init PROVE Family
  OBVIOUS
<1>1. /\ Scheduled("fresh", 1, 1, 0).kind = "fresh" /\ Scheduled("fresh", 1, 1, 0).story = 1
  BY ScheduledSound, PipelineBounds, FirstStory DEF GraphKinds
<1>2. \A j \in Jobs : Live(j) => j = 1 /\ job[j].kind = "fresh" /\ job[j].story = 1
  BY <1>1, NoJobSound DEF Init, Live
<1>3. \A s \in Stories : story[s].status = IF s = 1 THEN "pending" ELSE "none"
  BY DEF Init, NoStory
<1>4. QED
  BY <1>2, <1>3, FirstStory DEF Family, Revisions, Awaiting

LEMMA NewJob ==
  ASSUME Typed, NEW kind \in GraphKinds \cup Revisions \cup {"angles"}, NEW s \in Stories,
         NEW source \in Stories, NEW angle \in 0..MaxJobs, kind = "resume" => angle # 0,
         Started(Scheduled(kind, s, source, angle))
  PROVE  \E n \in Jobs :
           /\ ~Live(n) /\ Live(n)' /\ \A j \in Jobs : j # n => job'[j] = job[j]
           /\ job'[n].pc = "scheduled" /\ job'[n].kind = kind /\ job'[n].story = s
           /\ job'[n].source = source /\ job'[n].angle = angle
<1> DEFINE r == Scheduled(kind, s, source, angle)
<1>1. r.pc = "scheduled" /\ r.kind = kind /\ r.story = s /\ r.source = source /\ r.angle = angle
  BY ScheduledSound
<1> HIDE DEF r
<1>2. /\ started + 1 \in Jobs /\ started + 1 > started /\ job \in [Jobs -> Job]
      /\ job' = [job EXCEPT ![started + 1] = r]
  BY PipelineBounds DEF Started, r, Typed, TypeOK, Jobs
<1>3. ~Live(started + 1)
  BY <1>2 DEF Typed, Unstarted
<1>4. QED
  BY <1>1, <1>2, <1>3 DEF Live

LEMMA FamilyStart ==
  ASSUME Typed, Family, JobStarted
  PROVE  Family'
<1>0. story \in [Stories -> Story] /\ \A j \in Jobs : job[j].story \in Stories
  BY DEF Typed, TypeOK, Job
<1>1. ASSUME NEW s \in Stories, NEW angle \in 1..MaxJobs, ResumeStarted(s, angle)
      PROVE  Family'
  <2>1. s = 1 /\ angle \in 0..MaxJobs /\ angle # 0 /\ "resume" \in GraphKinds \cup Revisions \cup {"angles"}
    BY <1>1, PipelineBounds DEF Family, GraphKinds, ResumeStarted
  <2>2. PICK n \in Jobs :
          /\ ~Live(n) /\ Live(n)' /\ \A j \in Jobs : j # n => job'[j] = job[j]
          /\ job'[n].kind = "resume" /\ job'[n].story = 1
    BY <1>1, <2>1, NewJob DEF ResumeStarted
  <2>3. \A t \in Stories : story'[t].status = IF t = 1 THEN "writing_storyline" ELSE story[t].status
    BY <1>0, <1>1, <2>1 DEF Story, ResumeStarted
  <2>4. QED
    BY <1>0, <2>2, <2>3, FirstStory DEF Family, Live, Revisions, Awaiting
<1>2. ASSUME NEW s \in Stories, AnglesStarted(s)
      PROVE  Family'
  <2>1. s = 1 /\ 0 \in 0..MaxJobs
    BY <1>2, PipelineBounds DEF Family, AnglesStarted
  <2>2. PICK n \in Jobs :
          /\ ~Live(n) /\ Live(n)' /\ \A j \in Jobs : j # n => job'[j] = job[j]
          /\ job'[n].kind = "angles" /\ job'[n].story = 1
    BY <1>2, <2>1, NewJob DEF AnglesStarted
  <2>3. \A t \in Stories : story'[t].status = story[t].status
    BY <1>0, <1>2 DEF Story, AnglesStarted
  <2>4. QED
    BY <1>0, <2>2, <2>3, FirstStory DEF Family, Live, Revisions
<1>3. ASSUME NEW s \in Stories, NEW clone \in Stories, NEW kind \in Revisions, NEW status \in Phases,
             NEW carry \in BOOLEAN, RevisionStarted(s, clone, kind, status, carry)
      PROVE  Family'
  <2>1. clone # 1 /\ 0 \in 0..MaxJobs /\ kind # "resume"
        /\ \A j \in Jobs : Live(j) => job[j].story # clone
    BY <1>3, PipelineBounds DEF Family, Revisions, RevisionStarted
  <2>2. PICK n \in Jobs :
          /\ ~Live(n) /\ Live(n)' /\ \A j \in Jobs : j # n => job'[j] = job[j]
          /\ job'[n].kind = kind /\ job'[n].story = clone
    BY <1>3, <2>1, NewJob DEF RevisionStarted
  <2>3. \A t \in Stories : story'[t].status = IF t = clone THEN status ELSE story[t].status
    BY <1>0, <1>3 DEF Clone, NoStory, RevisionStarted
  <2>4. status # "none" /\ status # Awaiting
    BY DEF Phases, Awaiting
  <2>5. QED
    BY <1>0, <1>3, <2>1, <2>2, <2>3, <2>4, FirstStory DEF Family, Live, RevisionStarted
<1>4. QED
  BY <1>1, <1>2, <1>3 DEF JobStarted

LEMMA FamilyStep ==
  ASSUME Typed, Family, [Next]_vars
  PROVE  Family'
<1>0. story \in [Stories -> Story] /\ \A j \in Jobs : job[j].story \in Stories
  BY DEF Typed, TypeOK, Job
<1>1. CASE JobStarted
  BY <1>1, FamilyStart
<1>2. CASE RowsEnded
  <2>1. \A t \in Stories : \/ story'[t].status = story[t].status
                           \/ Exists(t) /\ story'[t].status \in Terminal \cup {"deleted"}
    BY <1>0, <1>2 DEF RowsEnded, RowLeft, RowEnded, Story, NoStory
  <2>2. QED
    BY <1>0, <1>2, <2>1, FirstStory DEF RowsEnded, Family, Live, Terminal, Awaiting, Exists, Absent
<1>3. ASSUME NEW j \in Jobs, JobStarts(j) \/ JobSteps(j)
      PROVE  Family'
  <2> DEFINE s == job[j].story
  <2>1. /\ JobsKept /\ Live(j) /\ s \in Stories /\ \A t \in Stories : t # s => RowLeft(t)
        /\ RowLeft(s) \/ (Exists(s) /\ Writes(j, story[s], story'[s]))
    BY <1>0, <1>3, JobEffect, JobWrites
  <2>2. \/ story'[s].status = story[s].status
        \/ story'[s].status # "none" /\ (story'[s].status = Awaiting => job[j].kind \notin Revisions)
    <3>1. CASE RowLeft(s)
      BY <3>1 DEF RowLeft
    <3>2. CASE Live(j)' /\ Advances(j, story[s], story'[s])
      BY <1>0, <2>1, <3>2 DEF Advances, Story, Running, Awaiting, GraphKinds, Revisions
    <3>3. CASE Live(j)' /\ MovesPhase(j, story[s], story'[s])
      BY <1>0, <2>1, <3>3 DEF MovesPhase, Story, Phases, Awaiting
    <3>4. CASE ~Live(j)' /\ Ends(j, story[s], story'[s])
      BY <1>0, <2>1, <3>4 DEF Ends, Pauses, Finishes, Story, Awaiting, Revisions
    <3>5. QED
      BY <2>1, <3>1, <3>2, <3>3, <3>4 DEF Writes
  <2>3. story'[s].status = Awaiting => s = 1
    BY <2>1, <2>2 DEF Family
  <2>4. \A t \in Stories : story[t].status # "none" => story'[t].status # "none"
    BY <2>1, <2>2 DEF RowLeft
  <2>5. QED
    BY <1>0, <2>1, <2>3, <2>4, FirstStory DEF Family, JobsKept, Kept, RowLeft
<1>4. CASE Restart
  BY <1>4, RestartEffect DEF Family
<1>5. QED
  BY <1>1, <1>2, <1>3, <1>4, StepEffect

--------------------------------------------------------------------------------
(* What a row holds at its end: a completed story has a script, and a script     *)
(* comes with the analysis an implementation of recommendations starts from.     *)

Rewriting(j) == Live(j) /\ job[j].kind = "rewrite" /\ job[j].pc = "working"

Artefacts ==
  /\ \A s \in Stories : story[s].status = "completed" => story[s].script # 0
  /\ \A s \in Stories : story[s].script # 0 => story[s].analysis
  /\ \A j \in Jobs : Rewriting(j) /\ Exists(job[j].story) => story[job[j].story].analysis

LEMMA ArtefactsInit == Init => Artefacts
<1> SUFFICES ASSUME Init PROVE Artefacts
  OBVIOUS
<1>1. \A s \in Stories : story[s].script = 0 /\ story[s].status # "completed"
  BY DEF Init, NoStory
<1>2. Scheduled("fresh", 1, 1, 0).kind = "fresh"
  BY ScheduledSound, PipelineBounds, FirstStory DEF GraphKinds
<1>3. \A j \in Jobs : Live(j) => job[j].kind = "fresh"
  BY <1>2, NoJobSound DEF Init, Live
<1>4. QED
  BY <1>1, <1>3 DEF Artefacts, Rewriting

LEMMA ArtefactsStart ==
  ASSUME Typed, Family, Artefacts, JobStarted
  PROVE  Artefacts'
<1>0. story \in [Stories -> Story] /\ \A j \in Jobs : job[j].story \in Stories
  BY DEF Typed, TypeOK, Job
\* A new job rewrites nothing yet; the others keep their rows' analysis.
<1>1. ASSUME NEW n \in Jobs, job'[n].pc = "scheduled", \A j \in Jobs : j # n => job'[j] = job[j],
             \A t \in Stories : \/ /\ story'[t].status # "completed" \/ story'[t] = story[t]
                                   /\ story'[t].script = story[t].script
                                   /\ story'[t].analysis = story[t].analysis
                                   /\ Exists(t)
                                \/ story'[t] = story[t]
                                \/ /\ story[t].status = "none" /\ story'[t].status # "completed"
                                   /\ story'[t].script # 0 => story'[t].analysis
      PROVE  Artefacts'
  <2>1. \A t \in Stories : story'[t].status = "completed" => story'[t].script # 0
    BY <1>1 DEF Artefacts
  <2>2. \A t \in Stories : story'[t].script # 0 => story'[t].analysis
    BY <1>1 DEF Artefacts
  <2>3. ASSUME NEW j \in Jobs, Rewriting(j)', Exists(job[j].story)'
        PROVE  story'[job[j].story].analysis
    <3>1. j # n /\ Rewriting(j)
      BY <1>1, <2>3 DEF Rewriting, Live
    <3>2. Exists(job[j].story) \/ story'[job[j].story] = story[job[j].story]
      BY <1>0, <1>1, <3>1 DEF Family, Rewriting
    <3>3. QED
      BY <1>0, <1>1, <2>3, <3>1, <3>2 DEF Artefacts, Exists, Family, Rewriting
  <2>4. \A j \in Jobs : Rewriting(j)' => job'[j] = job[j]
    BY <1>1 DEF Rewriting
  <2>5. QED
    BY <2>1, <2>2, <2>3, <2>4 DEF Artefacts
<1>2. ASSUME NEW s \in Stories, NEW angle \in 1..MaxJobs, ResumeStarted(s, angle)
      PROVE  Artefacts'
  <2>1. angle \in 0..MaxJobs /\ angle # 0 /\ "resume" \in GraphKinds \cup Revisions \cup {"angles"}
    BY PipelineBounds DEF GraphKinds
  <2>2. PICK n \in Jobs : job'[n].pc = "scheduled" /\ \A j \in Jobs : j # n => job'[j] = job[j]
    BY <1>2, <2>1, NewJob DEF ResumeStarted
  <2>3. Exists(s)
    BY <1>2 DEF Exists, Awaiting, Absent, ResumeStarted
  <2>4. QED
    BY <1>0, <1>1, <1>2, <2>2, <2>3 DEF Story, ResumeStarted
<1>3. ASSUME NEW s \in Stories, AnglesStarted(s)
      PROVE  Artefacts'
  <2>1. 0 \in 0..MaxJobs
    BY PipelineBounds
  <2>2. PICK n \in Jobs : job'[n].pc = "scheduled" /\ \A j \in Jobs : j # n => job'[j] = job[j]
    BY <1>3, <2>1, NewJob DEF AnglesStarted
  <2>3. Exists(s) /\ story[s].status # "completed"
    BY <1>3 DEF Exists, Awaiting, Absent, AnglesStarted
  <2>4. QED
    BY <1>0, <1>1, <1>3, <2>2, <2>3 DEF Story, AnglesStarted
<1>4. ASSUME NEW s \in Stories, NEW clone \in Stories, NEW kind \in Revisions, NEW status \in Phases,
             NEW carry \in BOOLEAN, RevisionStarted(s, clone, kind, status, carry)
      PROVE  Artefacts'
  <2>1. 0 \in 0..MaxJobs /\ kind # "resume"
    BY PipelineBounds DEF Revisions
  <2>2. PICK n \in Jobs : job'[n].pc = "scheduled" /\ \A j \in Jobs : j # n => job'[j] = job[j]
    BY <1>4, <2>1, NewJob DEF RevisionStarted
  <2>3. /\ story'[clone].status = status
        /\ story'[clone].script # 0 => story[s].script # 0
        /\ story'[clone].analysis = story[s].analysis
    BY <1>0, <1>4 DEF Clone, NoStory, RevisionStarted
  <2>4. status # "completed"
    BY DEF Phases
  <2>5. \A t \in Stories : t # clone => story'[t] = story[t]
    BY <1>0, <1>4 DEF RevisionStarted
  <2>6. QED
    BY <1>1, <1>4, <2>2, <2>3, <2>4, <2>5 DEF Artefacts, RevisionStarted
<1>5. QED
  BY <1>2, <1>3, <1>4 DEF JobStarted

\* A rewrite starts only on an analysed story.
LEMMA RewriteStarts ==
  ASSUME Typed, NEW j \in Jobs, JobStarts(j) \/ JobSteps(j), Rewriting(j)', ~Rewriting(j)
  PROVE  LET s == job[j].story IN story'[s] = story[s] /\ story[s].analysis
<1>0. story \in [Stories -> Story] /\ job \in [Jobs -> Job] /\ job[j].story \in Stories
  BY DEF Typed, TypeOK, Job
<1>1. JobsKept /\ Live(j)
  BY JobEffect
<1>2. job[j].kind = "rewrite" /\ job[j].pc # "working" /\ ~End(j)
  BY <1>0, <1>1, NoJobSound DEF JobsKept, Kept, Rewriting, End, Live
<1>3. RevisionStarts(j)
  BY <1>2 DEF JobStarts, JobSteps, GraphJobStarts, NodeCompletes, Save, PipelineRaises, AnglesJob,
              RevisionStep, RevisionFails, GraphKinds
<1>4. QED
  BY <1>0, <1>2, <1>3 DEF RevisionStarts, Story

LEMMA ArtefactsStep ==
  ASSUME Typed, Family, Artefacts, [Next]_vars
  PROVE  Artefacts'
<1>0. story \in [Stories -> Story] /\ \A j \in Jobs : job[j].story \in Stories
  BY DEF Typed, TypeOK, Job
<1>1. CASE JobStarted
  BY <1>1, ArtefactsStart
<1>2. CASE RowsEnded
  <2>1. \A t \in Stories :
          \/ story'[t] = story[t]
          \/ /\ Exists(t) /\ story'[t].script = story[t].script
             /\ story'[t].analysis = story[t].analysis
             /\ story'[t].status = "completed" => story[t].script # 0
          \/ story'[t].script = 0 /\ story'[t].status = "deleted"
    BY <1>0, <1>2 DEF RowsEnded, RowLeft, RowEnded, Story, NoStory
  <2>2. QED
    BY <1>0, <1>2, <2>1 DEF RowsEnded, Artefacts, Rewriting, Live, Exists, Absent
<1>3. ASSUME NEW j \in Jobs, JobStarts(j) \/ JobSteps(j)
      PROVE  Artefacts'
  <2> DEFINE s == job[j].story
  <2>1. /\ JobsKept /\ Live(j) /\ s \in Stories /\ \A t \in Stories : t # s => RowLeft(t)
        /\ RowLeft(s) \/ (Exists(s) /\ Writes(j, story[s], story'[s]))
        /\ \A i \in Jobs : i # j => job'[i] = job[i]
    BY <1>0, <1>3, JobEffect, JobWrites
  <2>2. \/ RowLeft(s)
        \/ /\ Exists(s) /\ story'[s].script = story[s].script
           /\ story[s].analysis => story'[s].analysis
           /\ story'[s].status # "completed"
        \/ /\ ~Live(j)'
           /\ story'[s].script # 0 => story'[s].analysis
           /\ story'[s].status = "completed" => story'[s].script # 0
    <3>1. CASE Live(j)' /\ Advances(j, story[s], story'[s]) /\ Exists(s)
      BY <1>0, <2>1, <3>1 DEF Advances, Story, Running, Awaiting
    <3>2. CASE Live(j)' /\ MovesPhase(j, story[s], story'[s]) /\ Exists(s)
      BY <1>0, <2>1, <3>2 DEF MovesPhase, Story, Phases
    <3>3. CASE ~Live(j)' /\ story'[s] = [story[s] EXCEPT !.status = "failed"]
      BY <1>0, <2>1, <3>3 DEF Story, Artefacts
    <3>4. CASE ~Live(j)' /\ Pauses(j, story[s], story'[s])
      BY <3>4 DEF Pauses, Awaiting
    <3>5. CASE ~Live(j)' /\ Finishes(j, story[s], story'[s]) /\ Exists(s)
      <4>1. Sound(job[j]) /\ Revised # 0
        BY PipelineBounds DEF Typed, JobsSound, Revised
      <4>2. job[j].kind = "rewrite" /\ job[j].pc = "working" => story[s].analysis
        BY <2>1, <3>5 DEF Artefacts, Rewriting
      <4>3. QED
        BY <3>5, <4>1, <4>2 DEF Finishes, Sound
    <3>6. QED
      BY <2>1, <3>1, <3>2, <3>3, <3>4, <3>5 DEF Writes, Ends
  <2>3. \A t \in Stories : story'[t].status = "completed" => story'[t].script # 0
    BY <2>1, <2>2 DEF RowLeft, Artefacts
  <2>4. \A t \in Stories : story'[t].script # 0 => story'[t].analysis
    BY <2>1, <2>2 DEF RowLeft, Artefacts
  <2>5. ASSUME NEW i \in Jobs, Rewriting(i)', Exists(job[i].story)'
        PROVE  story'[job[i].story].analysis
    <3>1. CASE i = j
      <4>1. CASE ~Rewriting(j)
        BY <1>3, <2>5, <3>1, <4>1, RewriteStarts
      <4>2. CASE Rewriting(j)
        <5>1. Live(j)' /\ job'[j].story = s
          BY <2>1, <2>5, <3>1 DEF Rewriting, JobsKept, Kept
        <5>2. Exists(s) /\ (RowLeft(s) \/ (story[s].analysis => story'[s].analysis))
          BY <2>2, <2>5, <3>1, <5>1 DEF RowLeft, Exists
        <5>3. QED
          BY <3>1, <4>2, <5>2 DEF Artefacts, RowLeft
      <4>3. QED
        BY <4>1, <4>2
    <3>2. CASE i # j
      <4>1. Rewriting(i) /\ job[i].story # s
        BY <2>1, <2>5, <3>2 DEF Rewriting, Live, Family, Revisions
      <4>2. QED
        BY <1>0, <2>1, <2>5, <4>1 DEF RowLeft, Artefacts, Exists
    <3>3. QED
      BY <3>1, <3>2
  <2>6. \A i \in Jobs : Rewriting(i)' => job'[i].story = job[i].story
    BY <2>1 DEF Rewriting, JobsKept, Kept
  <2>7. QED
    BY <2>3, <2>4, <2>5, <2>6 DEF Artefacts
<1>4. CASE Restart
  BY <1>4, RestartEffect DEF Artefacts, Rewriting
<1>5. QED
  BY <1>1, <1>2, <1>3, <1>4, StepEffect

\* A story is completed only with a script, however its pipeline or its revision ended
\* and however often it was edited, rewritten or implemented again (_drive_pipeline,
\* update_script).
THEOREM CompletedMeansScript == Spec => []CompletedHasScript
<1> DEFINE IInv == Typed /\ Family /\ Artefacts
<1>1. Init => IInv
  BY TypedInit, FamilyInit, ArtefactsInit
<1>2. IInv /\ [Next]_vars => IInv'
  BY TypedStep, FamilyStep, ArtefactsStep
<1>3. IInv => CompletedHasScript
  BY DEF Artefacts, CompletedHasScript
<1> HIDE DEF IInv
<1>4. QED
  BY <1>1, <1>2, <1>3, PTL DEF Spec

--------------------------------------------------------------------------------
(* The order of the writes, as long as requests wait for the job of their story  *)
(* and no job outlives the watchdog's patience: the row a job works on is the    *)
(* row it left.                                                                  *)

FirstPhase(kind) ==
  CASE kind = "rewrite"    -> "scripting"
    [] kind = "regenerate" -> "analysing"
    [] kind = "implement"  -> "writing_storyline"

Fits(j) ==
  LET row == story[job[j].story] IN
  Exists(job[j].story) =>
    /\ job[j].kind = "fresh"  => row.status \in Early \cup {"pending"} /\ row.script = 0
    /\ job[j].kind = "resume" => row.selected = job[j].angle /\ row.script = 0
    /\ job[j].kind = "angles" => row.status = Awaiting
    /\ job[j].kind \in Revisions =>
         row.status = IF job[j].pc = "scheduled" THEN FirstPhase(job[j].kind) ELSE job[j].node

\* Recommendations are implemented from an analysed story that stays ended or goes.
SourceKept(j) ==
  LET source == job[j].source IN
  job[j].kind = "implement" =>
    IF job[j].pc = "scheduled"
    THEN \/ story[source].status = "deleted"
         \/ story[source].status \in Terminal /\ story[source].analysis /\ ~Busy(source)
    ELSE job[j].g.analysis

Alone == \A i, j \in Jobs : Live(i) /\ Live(j) /\ job[i].story = job[j].story => i = j

Ordered ==
  calm =>
    /\ Alone
    /\ \A s \in Stories : story[s].status = Awaiting => story[s].script = 0
    /\ \A s \in Stories : story[s].script \notin {0, Revised} => story[s].script = story[s].selected
    /\ \A j \in Jobs : Live(j) => Fits(j) /\ SourceKept(j)

LEMMA NotBusy ==
  ASSUME NEW s \in Stories
  PROVE  Busy(s) <=> \E j \in Jobs : Live(j) /\ job[j].story = s
  BY DEF Busy, Live

LEMMA OrderedInit == Init => Ordered
<1> SUFFICES ASSUME Init PROVE Ordered
  OBVIOUS
<1>1. /\ Scheduled("fresh", 1, 1, 0).kind = "fresh" /\ Scheduled("fresh", 1, 1, 0).story = 1
  BY ScheduledSound, PipelineBounds, FirstStory DEF GraphKinds
<1>2. \A j \in Jobs : Live(j) => j = 1 /\ job[j].kind = "fresh" /\ job[j].story = 1
  BY <1>1, NoJobSound DEF Init, Live
<1>3. \A s \in Stories : story[s].script = 0 /\ story[s].status = IF s = 1 THEN "pending" ELSE "none"
  BY DEF Init, NoStory
<1>4. QED
  BY <1>2, <1>3, FirstStory DEF Ordered, Alone, Fits, SourceKept, Revisions, Awaiting

\* A request that starts a job for a story nobody works on.
LEMMA OrderedStart ==
  ASSUME Typed, Family, Artefacts, Ordered, JobStarted
  PROVE  Ordered'
<1>0. /\ story \in [Stories -> Story] /\ calm \in BOOLEAN
      /\ \A j \in Jobs : job[j].story \in Stories /\ job[j].source \in Stories
  BY DEF Typed, TypeOK, Job
\* The story the new job works on is the only row written, and no other job's.
<1>1. ASSUME NEW s \in Stories, NEW n \in Jobs, NEW new, calm',
             calm => \A j \in Jobs : Live(j) => job[j].story # s,
             calm' => calm, story' = [story EXCEPT ![s] = new],
             ~Live(n), Live(n)', \A j \in Jobs : j # n => job'[j] = job[j], job'[n].story = s,
             story[s].status \notin Terminal \cup {"deleted"},
             new.status = Awaiting => new.script = 0,
             new.script \notin {0, Revised} => new.script = new.selected,
             Fits(n)', SourceKept(n)'
      PROVE  Ordered'
  <2>1. calm /\ (\A j \in Jobs : Live(j)' <=> Live(j) \/ j = n)
        /\ \A j \in Jobs : Live(j) => job'[j] = job[j] /\ job[j].story # s /\ j # n
    BY <1>1 DEF Live
  <2>2. Alone'
    BY <1>1, <2>1 DEF Ordered, Alone
  <2>3. \A t \in Stories : story'[t] = IF t = s THEN new ELSE story[t]
    BY <1>0, <1>1
  <2>4. /\ \A t \in Stories : story'[t].status = Awaiting => story'[t].script = 0
        /\ \A t \in Stories : story'[t].script \notin {0, Revised} => story'[t].script = story'[t].selected
    BY <1>1, <2>1, <2>3 DEF Ordered
  <2>5. ASSUME NEW j \in Jobs, Live(j)
        PROVE  Fits(j)' /\ SourceKept(j)'
    <3>1. Fits(j) /\ SourceKept(j) /\ job'[j] = job[j] /\ job[j].story # s
      BY <2>1, <2>5 DEF Ordered
    <3>2. Fits(j)'
      BY <1>0, <2>3, <3>1 DEF Fits, Exists
    <3>3. job[j].kind = "implement" /\ job[j].pc = "scheduled" => job[j].source # s
      BY <1>1, <3>1 DEF SourceKept
    <3>4. job[j].source # s => (Busy(job[j].source)' => Busy(job[j].source))
      BY <1>0, <1>1, <2>1, <3>1 DEF Busy, Live
    <3>5. SourceKept(j)'
      BY <1>0, <2>3, <3>1, <3>3, <3>4 DEF SourceKept
    <3>6. QED
      BY <3>2, <3>5
  <2>6. QED
    BY <1>1, <2>1, <2>2, <2>4, <2>5 DEF Ordered
<1>2. ASSUME NEW s \in Stories, NEW angle \in 1..MaxJobs, ResumeStarted(s, angle), calm'
      PROVE  Ordered'
  <2>1. angle \in 0..MaxJobs /\ angle # 0 /\ "resume" \in GraphKinds \cup Revisions \cup {"angles"}
    BY PipelineBounds DEF GraphKinds
  <2>2. PICK n \in Jobs :
          /\ ~Live(n) /\ Live(n)' /\ \A j \in Jobs : j # n => job'[j] = job[j]
          /\ job'[n].kind = "resume" /\ job'[n].story = s /\ job'[n].angle = angle
    BY <1>2, <2>1, NewJob DEF ResumeStarted
  <2>3. calm /\ \A j \in Jobs : Live(j) => job[j].story # s
    BY <1>2 DEF Busy, Live, ResumeStarted
  <2> DEFINE new == [story[s] EXCEPT !.selected = angle, !.status = "writing_storyline"]
  <2>4. /\ story' = [story EXCEPT ![s] = new] /\ new.selected = angle /\ new.script = story[s].script
        /\ new.status = "writing_storyline"
    BY <1>0, <1>2 DEF Story, ResumeStarted
  <2> HIDE DEF new
  <2>5. story'[s] = new /\ new.script = 0
    BY <1>0, <1>2, <2>3, <2>4 DEF Ordered, ResumeStarted
  <2>6. Fits(n)' /\ SourceKept(n)'
    BY <2>2, <2>4, <2>5 DEF Fits, SourceKept, Revisions
  <2>7. story[s].status \notin Terminal \cup {"deleted"} /\ new.status # Awaiting
    BY <1>2, <2>4 DEF Awaiting, Terminal, ResumeStarted
  <2>8. QED
    BY <1>1, <1>2, <2>2, <2>3, <2>4, <2>5, <2>6, <2>7 DEF ResumeStarted
<1>3. ASSUME NEW s \in Stories, AnglesStarted(s), calm'
      PROVE  Ordered'
  <2>1. 0 \in 0..MaxJobs /\ "angles" \in GraphKinds \cup Revisions \cup {"angles"} /\ "angles" # "resume"
    BY PipelineBounds
  <2>2. PICK n \in Jobs :
          /\ ~Live(n) /\ Live(n)' /\ \A j \in Jobs : j # n => job'[j] = job[j]
          /\ job'[n].kind = "angles" /\ job'[n].story = s
    <3>1. Started(Scheduled("angles", s, s, 0))
      BY <1>3 DEF AnglesStarted
    <3>2. QED
      BY <2>1, <3>1, NewJob
  <2>3. calm /\ \A j \in Jobs : Live(j) => job[j].story # s
    BY <1>3 DEF Busy, Live, AnglesStarted
  <2> DEFINE new == [story[s] EXCEPT !.angles = 0, !.selected = 0]
  <2>4. /\ story' = [story EXCEPT ![s] = new] /\ new.script = story[s].script
        /\ new.status = story[s].status
    BY <1>0, <1>3 DEF Story, AnglesStarted
  <2> HIDE DEF new
  <2>5. story'[s] = new /\ new.script = 0
    BY <1>0, <1>3, <2>3, <2>4 DEF Ordered, AnglesStarted
  <2>6. Fits(n)' /\ SourceKept(n)'
    BY <1>3, <2>2, <2>4, <2>5 DEF Fits, SourceKept, Revisions, AnglesStarted
  <2>7. story[s].status \notin Terminal \cup {"deleted"}
    BY <1>3 DEF Awaiting, Terminal, AnglesStarted
  <2>8. QED
    BY <1>1, <1>3, <2>2, <2>3, <2>4, <2>5, <2>6, <2>7 DEF AnglesStarted
<1>4. ASSUME NEW s \in Stories, NEW clone \in Stories, NEW kind \in Revisions, NEW status \in Phases,
             NEW carry \in BOOLEAN, RevisionStarted(s, clone, kind, status, carry), calm'
      PROVE  Ordered'
  <2>1. 0 \in 0..MaxJobs /\ kind # "resume" /\ kind # "fresh" /\ kind # "angles"
    BY PipelineBounds DEF Revisions
  <2>2. PICK n \in Jobs :
          /\ ~Live(n) /\ Live(n)' /\ \A j \in Jobs : j # n => job'[j] = job[j]
          /\ job'[n].kind = kind /\ job'[n].story = clone /\ job'[n].source = s
          /\ job'[n].pc = "scheduled"
    BY <1>4, <2>1, NewJob DEF RevisionStarted
  <2>3. calm /\ \A j \in Jobs : Live(j) => job[j].story # s
    BY <1>4 DEF Busy, Live, RevisionStarted
  <2>4. \A j \in Jobs : Live(j) => job[j].story # clone
    BY <1>4 DEF Family, RevisionStarted
  <2> DEFINE new == Clone(story[s], status, carry)
  <2>5. new.script \in {0, Revised} /\ new.status = status
    BY DEF Clone, NoStory
  <2> HIDE DEF new
  <2>6. s # clone /\ story'[clone] = new /\ story'[s] = story[s]
    BY <1>0, <1>4 DEF Terminal, new, RevisionStarted
  <2>7. status # Awaiting /\ story[clone].status \notin Terminal \cup {"deleted"}
    BY <1>4 DEF Phases, Awaiting, Terminal, RevisionStarted
  <2>8. Fits(n)'
    <3>1. status = FirstPhase(kind)
      BY <1>4 DEF RevisionStarted, FirstPhase, Revisions
    <3>2. QED
      BY <2>1, <2>2, <2>5, <2>6, <3>1 DEF Fits
  <2>9. SourceKept(n)'
    <3>1. ~Busy(s)'
      BY <2>2, <2>3, <2>6 DEF Busy, Live
    <3>2. kind = "implement" => story[s].analysis
      BY <1>4 DEF Artefacts, RevisionStarted
    <3>3. QED
      BY <1>4, <2>2, <2>6, <3>1, <3>2 DEF SourceKept, RevisionStarted
  <2>10. story' = [story EXCEPT ![clone] = new] /\ (calm' => calm)
    BY <1>4, <2>3 DEF new, RevisionStarted
  <2>11. QED
    BY <1>1, <1>4, <2>2, <2>4, <2>5, <2>7, <2>8, <2>9, <2>10 DEF RevisionStarted
<1>5. CASE calm'
  BY <1>2, <1>3, <1>4, <1>5 DEF JobStarted
<1>6. QED
  BY <1>5 DEF Ordered

LEMMA OrderedEnds ==
  ASSUME Typed, Family, Artefacts, Ordered, RowsEnded
  PROVE  Ordered'
<1>0. /\ story \in [Stories -> Story] /\ calm \in BOOLEAN
      /\ \A j \in Jobs : job[j].story \in Stories /\ job[j].source \in Stories
  BY DEF Typed, TypeOK, Job
<1> SUFFICES ASSUME calm' PROVE Ordered'
  BY DEF Ordered
<1>1. calm /\ UNCHANGED job /\ \A t \in Stories : RowLeft(t) \/ RowEnded(t)
  BY DEF RowsEnded
<1>2. \A t \in Stories :
        \/ story'[t] = story[t]
        \/ story'[t].status = "deleted" /\ story'[t].script = 0
        \/ /\ ~Busy(t) /\ Exists(t) /\ story'[t].status \in Terminal
           /\ story'[t].script = story[t].script /\ story'[t].selected = story[t].selected
           /\ story'[t].analysis = story[t].analysis
  <2> SUFFICES ASSUME NEW t \in Stories, Exists(t),
                      \/ ~Busy(t) /\ \E status \in Terminal : story'[t] = [story[t] EXCEPT !.status = status]
                      \/ story'[t] = [NoStory EXCEPT !.status = "deleted"]
               PROVE  \/ story'[t].status = "deleted" /\ story'[t].script = 0
                      \/ /\ ~Busy(t) /\ story'[t].status \in Terminal
                         /\ story'[t].script = story[t].script
                         /\ story'[t].selected = story[t].selected
                         /\ story'[t].analysis = story[t].analysis
    BY <1>1 DEF RowLeft, RowEnded
  <2>1. QED
    BY <1>0 DEF Story, NoStory
<1>3. /\ \A t \in Stories : story'[t].status = Awaiting => story'[t].script = 0
      /\ \A t \in Stories : story'[t].script \notin {0, Revised} => story'[t].script = story'[t].selected
  BY <1>1, <1>2 DEF Ordered, Awaiting, Terminal
<1>4. ASSUME NEW j \in Jobs, Live(j)
      PROVE  Fits(j)' /\ SourceKept(j)'
  <2>1. Fits(j) /\ SourceKept(j) /\ job'[j] = job[j] /\ Busy(job[j].story)
    BY <1>1, <1>4 DEF Ordered, Busy, Live
  <2>2. story'[job[j].story] = story[job[j].story] \/ ~Exists(job[j].story)'
    BY <1>0, <1>1, <1>2, <2>1 DEF Exists, Absent
  <2>3. Fits(j)'
    BY <1>1, <2>1, <2>2 DEF Fits, Exists
  <2>4. Busy(job[j].source)' = Busy(job[j].source)
    BY <1>1 DEF Busy
  <2>5. SourceKept(j)'
    BY <1>0, <1>1, <1>2, <2>1, <2>4 DEF SourceKept, Exists, Absent
  <2>6. QED
    BY <2>3, <2>5
<1>5. Alone'
  BY <1>1 DEF Ordered, Alone, Live
<1>6. QED
  BY <1>1, <1>3, <1>4, <1>5 DEF Ordered, Live

LEMMA PhaseOrder ==
  /\ Phase("pending") = 0 /\ Phase("researching") = 1 /\ Phase("analysing") = 2
  /\ Phase(Awaiting) = 3
  /\ Phase("writing_storyline") = 4 /\ Phase("evaluating") = 5 /\ Phase("scripting") = 6
  /\ \A status \in Terminal : Phase(status) = 7
  /\ \A status \in Statuses \ Absent : Phase(status) \in 0..7
  BY DEF Phase, Awaiting, Terminal, Statuses, Absent, Running

\* A revision starts in the phase its story was made in and writes each phase after the
\* one before it: an implementation of recommendations has an analysis and never goes
\* back to make one.
LEMMA RevisionFits ==
  ASSUME Typed, Family, Artefacts, NEW j \in Jobs, JobStarts(j) \/ JobSteps(j), Fits(j),
         SourceKept(j), job[j].kind \in Revisions, Live(j)'
  PROVE  LET s == job[j].story IN
         /\ job'[j].pc = "working"
         /\ job[j].kind = "implement" => job'[j].g.analysis
         /\ Exists(s) => /\ story'[s].status = job'[j].node
                         /\ Phase(story[s].status) <= Phase(story'[s].status)
<1> DEFINE s == job[j].story
<1>0. /\ story \in [Stories -> Story] /\ job \in [Jobs -> Job] /\ s \in Stories
      /\ job[j].source \in Stories /\ job[j] \in Job /\ Sound(job[j]) /\ ~End(j)
  <2>1. End(j) => ~Live(j)'
    BY NoJobSound DEF End, Live, Typed, TypeOK
  <2>2. QED
    BY <2>1 DEF Typed, TypeOK, JobsSound, Job
<1>1. CASE RevisionStarts(j)
  <2> DEFINE first == FirstPhase(job[j].kind)
             source == job[j].source
  <2>1. /\ Exists(s) /\ job[j].pc = "scheduled"
        /\ story' = [story EXCEPT ![s].status = IF job[j].kind = "rewrite" THEN @ ELSE first]
        /\ job' = [job EXCEPT ![j].pc = "working", ![j].node = first,
                     ![j].g.analysis = IF job[j].kind = "implement" THEN story[source].analysis
                                                                    ELSE story[s].analysis]
        /\ job[j].kind = "implement" => Exists(source)
    BY <1>0, <1>1 DEF RevisionStarts, FirstPhase
  <2>2. story[s].status = first
    BY <2>1 DEF Fits
  <2>3. story'[s].status = first
    BY <1>0, <2>1, <2>2 DEF Story
  <2>4. /\ job'[j].pc = "working" /\ job'[j].node = first
        /\ job[j].kind = "implement" => job'[j].g.analysis = story[source].analysis
    BY <1>0, <2>1 DEF Job, GraphState
  <2>5. job[j].kind = "implement" => story[source].analysis
    BY <2>1 DEF SourceKept, Exists, Absent
  <2>6. Phase(first) <= Phase(first)
    BY DEF FirstPhase, Phase, Revisions, Awaiting
  <2>7. QED
    BY <2>2, <2>3, <2>4, <2>5, <2>6
<1>2. CASE RevisionStep(j)
  <2> DEFINE next == NextPhase(job[j].kind, job[j].g.analysis, job[j].node)
  <2>1. /\ job[j].pc = "working" /\ job' = [job EXCEPT ![j].node = next]
        /\ Write(s, [story[s] EXCEPT !.status = next])
    BY <1>0, <1>2 DEF RevisionStep
  <2>2. /\ job'[j].pc = "working" /\ job'[j].node = next
        /\ job[j].kind = "implement" => job'[j].g.analysis
    BY <1>0, <2>1 DEF Job, SourceKept
  <2>3. ASSUME Exists(s)
        PROVE  story'[s].status = next /\ Phase(story[s].status) <= Phase(next)
    <3>1. story'[s].status = next
      BY <1>0, <2>1, <2>3 DEF Write, Story
    <3>2. story[s].status = job[j].node /\ job[j].node \in Phases
      BY <1>0, <2>1, <2>3 DEF Fits, Sound
    <3>3. next # "end"
      BY <1>0, <1>2 DEF RevisionStep
    <3>4. job[j].kind = "implement" => job[j].g.analysis
      BY <2>1 DEF SourceKept
    <3>5. Phase(job[j].node) <= Phase(next)
      <4>1. CASE job[j].node = "analysing"
        BY <3>4, <4>1, PhaseOrder DEF NextPhase
      <4>2. CASE job[j].node = "writing_storyline"
        BY <3>4, <4>2, PhaseOrder DEF NextPhase
      <4>3. CASE job[j].node = "evaluating"
        BY <4>3, PhaseOrder DEF NextPhase
      <4>4. CASE job[j].node = "scripting"
        BY <3>3, <4>4 DEF NextPhase
      <4>5. QED
        BY <3>2, <4>1, <4>2, <4>3, <4>4 DEF Phases
    <3>6. QED
      BY <3>1, <3>2, <3>5
  <2> HIDE DEF next
  <2>4. QED
    BY <2>2, <2>3
<1>3. RevisionStarts(j) \/ RevisionStep(j)
  BY <1>0 DEF JobStarts, JobSteps, GraphJobStarts, NodeCompletes, Save, PipelineRaises, AnglesJob,
              RevisionFails, GraphKinds, Revisions
<1>4. QED
  BY <1>1, <1>2, <1>3

\* What the other jobs find after a step of job j.
LEMMA OrderedWork ==
  ASSUME Typed, Family, Artefacts, Ordered, NEW j \in Jobs, JobStarts(j) \/ JobSteps(j), calm'
  PROVE  /\ Ordered'
         /\ LET s == job[j].story IN
            Exists(s) => story'[s] = story[s] \/ Phase(story[s].status) <= Phase(story'[s].status)
<1> DEFINE s == job[j].story
<1>0. /\ story \in [Stories -> Story]
      /\ \A i \in Jobs : job[i].story \in Stories /\ job[i].source \in Stories
      /\ s \in Stories /\ Sound(job[j])
  BY DEF Typed, TypeOK, JobsSound, Job
<1>1. /\ JobsKept /\ Live(j) /\ calm /\ \A t \in Stories : t # s => story'[t] = story[t]
      /\ \A i \in Jobs : i # j => job'[i] = job[i]
      /\ story'[s] = story[s] \/ (Exists(s) /\ Writes(j, story[s], story'[s]))
  BY JobEffect, JobWrites DEF RowLeft
<1>2. /\ Fits(j) /\ SourceKept(j) /\ Alone
      /\ story[s].status = Awaiting => story[s].script = 0
      /\ story[s].script \notin {0, Revised} => story[s].script = story[s].selected
  BY <1>0, <1>1 DEF Ordered
<1>3. story'[s].status \in Statuses /\ story[s].status \in Statuses
  BY <1>0, JobTyped DEF Typed, TypeOK, Story
\* What the written row holds.
<1>4. ASSUME Exists(s), story'[s] # story[s]
      PROVE  /\ story'[s].status = Awaiting => story'[s].script = 0
             /\ story'[s].script \notin {0, Revised} => story'[s].script = story'[s].selected
             /\ Phase(story[s].status) <= Phase(story'[s].status)
             /\ Live(j)' => /\ job[j].kind # "angles"
                            /\ job[j].kind = "fresh" => story'[s].status \in Early
                            /\ story'[s].script = story[s].script
                            /\ story'[s].selected = story[s].selected
  <2>1. Phase(story[s].status) \in 0..7
    BY <1>3, <1>4, PhaseOrder DEF Exists
  <2>2. CASE Live(j)' /\ Advances(j, story[s], story'[s])
    <3>1. PICK status \in Running \cup {Awaiting} :
            /\ Phase(story[s].status) < Phase(status)
            /\ job[j].kind = "fresh"  => status \in Early
            /\ job[j].kind = "resume" => status # Awaiting
            /\ story'[s] = [story[s] EXCEPT !.status = status]
      BY <2>2 DEF Advances
    <3>2. /\ story'[s].status = status /\ story'[s].script = story[s].script
          /\ story'[s].selected = story[s].selected
      BY <1>0, <3>1 DEF Story
    <3>3. job[j].kind \in {"fresh", "resume"}
      BY <2>2 DEF Advances, GraphKinds
    <3>4. story[s].script = 0
      BY <1>2, <1>4, <3>3 DEF Fits
    <3>5. Phase(status) \in 0..7
      BY PhaseOrder DEF Running, Statuses, Absent, Awaiting
    <3>6. QED
      BY <2>1, <3>1, <3>2, <3>3, <3>4, <3>5
  <2>3. CASE Live(j)' /\ MovesPhase(j, story[s], story'[s])
    <3>1. job[j].kind \in Revisions /\ \E phase \in Phases : story'[s] = [story[s] EXCEPT !.status = phase]
      BY <2>3 DEF MovesPhase
    <3>2. /\ story'[s].status # Awaiting /\ story'[s].script = story[s].script
          /\ story'[s].selected = story[s].selected
      BY <1>0, <3>1 DEF Story, Phases, Awaiting
    <3>3. Phase(story[s].status) <= Phase(story'[s].status)
      BY <1>2, <1>4, <2>3, <3>1, RevisionFits
    <3>4. QED
      BY <1>2, <3>1, <3>2, <3>3 DEF Revisions
  <2>4. CASE ~Live(j)' /\ story'[s] = [story[s] EXCEPT !.status = "failed"]
    <3>1. /\ story'[s].status = "failed" /\ story'[s].script = story[s].script
          /\ story'[s].selected = story[s].selected
      BY <1>0, <2>4 DEF Story
    <3>2. QED
      BY <1>2, <2>1, <2>4, <3>1, PhaseOrder DEF Terminal, Awaiting
  <2>5. CASE ~Live(j)' /\ Pauses(j, story[s], story'[s])
    <3>1. story[s].script = 0 /\ story[s].status \in Early \cup {"pending"}
      BY <1>2, <1>4, <2>5 DEF Pauses, Fits, Early
    <3>2. Phase(story[s].status) <= 3
      BY <3>1, PhaseOrder DEF Early
    <3>3. QED
      BY <2>5, <3>1, <3>2, PhaseOrder DEF Pauses
  <2>6. CASE ~Live(j)' /\ Finishes(j, story[s], story'[s])
    <3>1. story'[s].status \in {"completed", "failed"}
      BY <2>6 DEF Finishes
    <3>2. Phase(story'[s].status) = 7 /\ story'[s].status # Awaiting
      BY <3>1, PhaseOrder DEF Terminal, Awaiting
    <3>3. story'[s].script \notin {0, Revised} => story'[s].script = story'[s].selected
      BY <1>2, <1>4, <2>6 DEF Finishes, Fits
    <3>4. QED
      BY <2>1, <2>6, <3>2, <3>3
  <2>7. QED
    BY <1>1, <1>4, <2>2, <2>3, <2>4, <2>5, <2>6 DEF Writes, Ends
<1>5. /\ \A t \in Stories : story'[t].status = Awaiting => story'[t].script = 0
      /\ \A t \in Stories : story'[t].script \notin {0, Revised} => story'[t].script = story'[t].selected
  BY <1>0, <1>1, <1>2, <1>4 DEF Ordered
<1>6. Alone'
  BY <1>1, <1>2 DEF Alone, JobsKept, Kept
\* The job itself.
<1>7. ASSUME Live(j)'
      PROVE  Fits(j)' /\ SourceKept(j)'
  <2>1. Kept(j)
    BY <1>1, <1>7 DEF JobsKept
  <2>2. Exists(s)' => Exists(s)
    BY <1>1, <2>1 DEF Exists, Kept
  <2>3. CASE job[j].kind \in Revisions
    <3>1. /\ job'[j].pc = "working" /\ (job[j].kind = "implement" => job'[j].g.analysis)
          /\ Exists(s) => story'[s].status = job'[j].node
      BY <1>2, <1>7, <2>3, RevisionFits
    <3>2. QED
      BY <2>1, <2>2, <2>3, <3>1 DEF Kept, Fits, SourceKept, Exists, Revisions
  <2>4. CASE job[j].kind \notin Revisions
    <3>1. Fits(j)'
      BY <1>1, <1>2, <1>4, <1>7, <2>1, <2>2, <2>4 DEF Kept, Fits, Exists
    <3>2. SourceKept(j)'
      BY <2>1, <2>4 DEF Kept, SourceKept, Revisions
    <3>3. QED
      BY <3>1, <3>2
  <2>5. QED
    BY <2>3, <2>4
\* The other jobs: none works on s, and none keeps s as a source that still exists.
<1>8. ASSUME NEW i \in Jobs, i # j, Live(i)'
      PROVE  Fits(i)' /\ SourceKept(i)'
  <2>1. Live(i) /\ job'[i] = job[i] /\ Fits(i) /\ SourceKept(i)
    BY <1>1, <1>8 DEF Live, Ordered
  <2>2. job[i].story # s
    BY <1>1, <1>2, <1>8, <2>1 DEF Alone
  <2>3. Fits(i)'
    BY <1>0, <1>1, <2>1, <2>2 DEF Fits, Exists
  <2>4. Busy(s)
    BY <1>1 DEF Busy, Live
  <2>5. job[i].kind = "implement" /\ job[i].pc = "scheduled"
          => story'[job[i].source] = story[job[i].source]
    BY <1>0, <1>1, <2>1, <2>4 DEF SourceKept, Exists, Absent
  <2>6. Busy(job[i].source)' => Busy(job[i].source)
    BY <1>1, <2>1 DEF Busy, JobsKept, Kept, Live
  <2>7. SourceKept(i)'
    BY <2>1, <2>5, <2>6 DEF SourceKept
  <2>8. QED
    BY <2>3, <2>7
<1>9. Ordered'
  BY <1>5, <1>6, <1>7, <1>8 DEF Ordered
<1>10. QED
  BY <1>4, <1>9

LEMMA OrderedStep ==
  ASSUME Typed, Family, Artefacts, Ordered, [Next]_vars
  PROVE  Ordered'
<1>1. CASE JobStarted
  BY <1>1, OrderedStart
<1>2. CASE RowsEnded
  BY <1>2, OrderedEnds
<1>3. ASSUME NEW j \in Jobs, JobStarts(j) \/ JobSteps(j)
      PROVE  Ordered'
  <2>1. CASE calm'
    BY <1>3, <2>1, OrderedWork
  <2>2. CASE ~calm'
    BY <2>2 DEF Ordered
  <2>3. QED
    BY <2>1, <2>2
<1>4. CASE Restart
  BY <1>4, RestartEffect DEF Ordered, Alone
<1>5. QED
  BY <1>1, <1>2, <1>3, <1>4, StepEffect

LEMMA OrderInvariant == Spec => [](Typed /\ Family /\ Artefacts /\ Ordered)
<1> DEFINE IInv == Typed /\ Family /\ Artefacts /\ Ordered
<1>1. Init => IInv
  BY TypedInit, FamilyInit, ArtefactsInit, OrderedInit
<1>2. IInv /\ [Next]_vars => IInv'
  BY TypedStep, FamilyStep, ArtefactsStep, OrderedStep
<1> HIDE DEF IInv
<1>3. QED
  <2>1. Spec => []IInv
    BY <1>1, <1>2, PTL DEF Spec
  <2>2. QED
    BY <2>1 DEF IInv

\* The script of a story was written for the angle the story shows as selected,
\* whatever was regenerated, selected again or resumed in between (select_angle,
\* _drive_pipeline), as long as requests waited for the job of their story.
THEOREM ScriptIsForSelection == Spec => []ScriptMatchesSelection
<1>1. Ordered => ScriptMatchesSelection
  BY DEF Ordered, ScriptMatchesSelection
<1>2. QED
  BY <1>1, OrderInvariant, PTL

\* Progress is shown in order: no node and no job of a revision moves a story back to
\* an earlier phase, and an ended story stays ended (_advance_story_status).
THEOREM ProgressMovesForward == Spec => StatusMovesForward
<1> DEFINE Forward ==
      calm' => \A s \in Stories :
                 Exists(s) /\ story'[s].status # "deleted"
                   => Phase(story'[s].status) >= Phase(story[s].status)
<1>1. ASSUME Typed, Family, Artefacts, Ordered, [Next]_vars, calm', NEW s \in Stories,
             Exists(s), story'[s].status # "deleted"
      PROVE  Phase(story'[s].status) >= Phase(story[s].status)
  <2>1. story \in [Stories -> Story] /\ Phase(story[s].status) \in 0..7
    BY <1>1, PhaseOrder DEF Typed, TypeOK, Story, Exists
  <2>2. CASE story'[s].status = story[s].status
    BY <2>1, <2>2
  <2>3. CASE story'[s].status \in Terminal
    BY <2>1, <2>3, PhaseOrder
  <2>4. CASE JobStarted
    <3>1. ASSUME NEW t \in Stories, NEW angle \in 1..MaxJobs, ResumeStarted(t, angle)
          PROVE  Phase(story'[s].status) >= Phase(story[s].status)
      <4>1. \/ story'[s] = story[s]
            \/ story[s].status = Awaiting /\ story'[s].status = "writing_storyline"
        BY <2>1, <3>1 DEF ResumeStarted, Story
      <4>2. QED
        BY <2>2, <4>1, PhaseOrder
    <3>2. ASSUME NEW t \in Stories, AnglesStarted(t)
          PROVE  Phase(story'[s].status) >= Phase(story[s].status)
      <4>1. story'[s].status = story[s].status
        BY <2>1, <3>2 DEF AnglesStarted, Story
      <4>2. QED
        BY <2>2, <4>1
    <3>3. ASSUME NEW t \in Stories, NEW clone \in Stories, NEW kind \in Revisions,
                 NEW status \in Phases, NEW carry \in BOOLEAN,
                 RevisionStarted(t, clone, kind, status, carry)
          PROVE  Phase(story'[s].status) >= Phase(story[s].status)
      <4>1. clone # s
        BY <1>1, <3>3 DEF RevisionStarted, Exists, Absent
      <4>2. story'[s] = story[s]
        BY <2>1, <3>3, <4>1 DEF RevisionStarted
      <4>3. QED
        BY <2>2, <4>2
    <3>4. QED
      BY <2>4, <3>1, <3>2, <3>3 DEF JobStarted
  <2>5. CASE RowsEnded
    <3>1. story'[s] = story[s] \/ story'[s].status \in Terminal \cup {"deleted"}
      BY <2>1, <2>5 DEF RowsEnded, RowLeft, RowEnded, Story, NoStory
    <3>2. QED
      BY <1>1, <2>2, <2>3, <3>1
  <2>6. ASSUME NEW j \in Jobs, JobStarts(j) \/ JobSteps(j)
        PROVE  Phase(story'[s].status) >= Phase(story[s].status)
    <3>1. CASE job[j].story = s
      <4>1. story'[s] = story[s] \/ Phase(story[s].status) <= Phase(story'[s].status)
        BY <1>1, <2>6, <3>1, OrderedWork
      <4>2. CASE story'[s] = story[s]
        BY <2>2, <4>2
      <4>3. QED
        BY <4>1, <4>2
    <3>2. CASE job[j].story # s
      <4>1. story'[s] = story[s]
        BY <1>1, <2>6, <3>2, JobEffect DEF RowLeft
      <4>2. QED
        BY <2>2, <4>1
    <3>3. QED
      BY <3>1, <3>2
  <2>7. CASE Restart
    BY <2>2, <2>7, RestartEffect
  <2>8. QED
    BY <1>1, <2>4, <2>5, <2>6, <2>7, StepEffect
<1>2. Typed /\ Family /\ Artefacts /\ Ordered /\ [Next]_vars => [Forward]_vars
  BY <1>1
<1>3. QED
  BY <1>2, OrderInvariant, PTL DEF Spec, StatusMovesForward

--------------------------------------------------------------------------------
(* The pipeline implements the life that StoryLifecycle promises of a story.      *)

Resumed == {"writing_storyline", "evaluating", "scripting"}

\* An angle is selected only in the first story and only after its pause; a resumed
\* pipeline works on a story that is past it.
Choosing ==
  calm =>
    /\ \A s \in Stories : s # 1 \/ story[s].status \in Early \cup {"pending"} => story[s].selected = 0
    /\ \A j \in Jobs : Live(j) /\ job[j].kind = "resume" /\ Exists(job[j].story)
                        => story[job[j].story].status \in Resumed

LEMMA ChoosingInit == Init => Choosing
<1> SUFFICES ASSUME Init PROVE Choosing
  OBVIOUS
<1>1. Scheduled("fresh", 1, 1, 0).kind = "fresh"
  BY ScheduledSound, PipelineBounds, FirstStory DEF GraphKinds
<1>2. \A j \in Jobs : Live(j) => job[j].kind = "fresh"
  BY <1>1, NoJobSound DEF Init, Live
<1>3. \A s \in Stories : story[s].selected = 0
  BY DEF Init, NoStory
<1>4. QED
  BY <1>2, <1>3 DEF Choosing

LEMMA StartIsCalm ==
  ASSUME Typed, JobStarted, calm'
  PROVE  calm
<1>1. calm \in BOOLEAN
  BY DEF Typed, TypeOK
<1>2. \E s \in Stories : calm' = (calm /\ ~Busy(s))
  BY DEF JobStarted, ResumeStarted, AnglesStarted, RevisionStarted
<1>3. QED
  BY <1>1, <1>2

LEMMA ChoosingStart ==
  ASSUME Typed, Family, Choosing, JobStarted, calm'
  PROVE  Choosing'
<1>0. story \in [Stories -> Story] /\ (\A j \in Jobs : job[j].story \in Stories) /\ calm
  BY StartIsCalm DEF Typed, TypeOK, Job
<1>1. ASSUME NEW s \in Stories, NEW angle \in 1..MaxJobs, ResumeStarted(s, angle)
      PROVE  Choosing'
  <2>1. s = 1 /\ angle \in 0..MaxJobs /\ angle # 0 /\ "resume" \in GraphKinds \cup Revisions \cup {"angles"}
    BY <1>1, PipelineBounds DEF Family, GraphKinds, ResumeStarted
  <2>2. PICK n \in Jobs :
          /\ ~Live(n) /\ Live(n)' /\ \A j \in Jobs : j # n => job'[j] = job[j]
          /\ job'[n].kind = "resume" /\ job'[n].story = 1
    BY <1>1, <2>1, NewJob DEF ResumeStarted
  <2>3. /\ story'[1].status = "writing_storyline"
        /\ \A t \in Stories : t # 1 => story'[t] = story[t]
    BY <1>0, <1>1, <2>1 DEF Story, ResumeStarted
  <2>4. \A j \in Jobs : Live(j)' /\ job'[j].kind = "resume" => job'[j].story = 1
    BY <2>2 DEF Family, Live, Revisions
  <2>5. QED
    BY <1>0, <2>3, <2>4 DEF Choosing, Resumed, Early, Awaiting
<1>2. ASSUME NEW s \in Stories, AnglesStarted(s)
      PROVE  Choosing'
  <2>1. /\ s = 1 /\ 0 \in 0..MaxJobs
        /\ "angles" \in GraphKinds \cup Revisions \cup {"angles"} /\ "angles" # "resume"
    BY <1>2, PipelineBounds DEF Family, AnglesStarted
  <2>2. PICK n \in Jobs :
          /\ ~Live(n) /\ Live(n)' /\ \A j \in Jobs : j # n => job'[j] = job[j]
          /\ job'[n].kind = "angles" /\ job'[n].story = s
    <3>1. Started(Scheduled("angles", s, s, 0))
      BY <1>2 DEF AnglesStarted
    <3>2. QED
      BY <2>1, <3>1, NewJob
  <2>3. \A t \in Stories : story'[t].status = story[t].status
                           /\ story'[t].selected = IF t = 1 THEN 0 ELSE story[t].selected
    BY <1>0, <1>2, <2>1 DEF Story, AnglesStarted
  <2>4. \A j \in Jobs : Live(j)' /\ job'[j].kind = "resume" => Live(j) /\ job'[j] = job[j]
    BY <2>2 DEF Live
  <2>5. \A t \in Stories : t # 1 \/ story'[t].status \in Early \cup {"pending"} => story'[t].selected = 0
    BY <1>0, <2>3 DEF Choosing
  <2>6. QED
    BY <1>0, <2>3, <2>4, <2>5 DEF Choosing, Exists
<1>3. ASSUME NEW s \in Stories, NEW clone \in Stories, NEW kind \in Revisions, NEW status \in Phases,
             NEW carry \in BOOLEAN, RevisionStarted(s, clone, kind, status, carry)
      PROVE  Choosing'
  <2>1. /\ clone # 1 /\ 0 \in 0..MaxJobs /\ kind # "resume"
        /\ \A j \in Jobs : Live(j) => job[j].story # clone
    BY <1>3, PipelineBounds DEF Family, Revisions, RevisionStarted
  <2>2. PICK n \in Jobs :
          /\ ~Live(n) /\ Live(n)' /\ \A j \in Jobs : j # n => job'[j] = job[j]
          /\ job'[n].kind = kind /\ job'[n].story = clone
    BY <1>3, <2>1, NewJob DEF RevisionStarted
  <2>3. \A t \in Stories : IF t = clone THEN story'[t].selected = 0 ELSE story'[t] = story[t]
    BY <1>0, <1>3 DEF Clone, NoStory, RevisionStarted
  <2>4. \A j \in Jobs : Live(j)' /\ job'[j].kind = "resume" => Live(j) /\ job'[j] = job[j]
    BY <2>1, <2>2 DEF Live
  <2>5. QED
    BY <1>0, <2>1, <2>3, <2>4 DEF Choosing, Exists
<1>4. QED
  BY <1>1, <1>2, <1>3 DEF JobStarted

LEMMA ChoosingStep ==
  ASSUME Typed, Family, Artefacts, Ordered, Choosing, [Next]_vars
  PROVE  Choosing'
<1> SUFFICES ASSUME calm' PROVE Choosing'
  BY DEF Choosing
<1>0. story \in [Stories -> Story] /\ \A j \in Jobs : job[j].story \in Stories
  BY DEF Typed, TypeOK, Job
<1>1. CASE JobStarted
  BY <1>1, ChoosingStart
<1>2. CASE RowsEnded
  <2>1. calm /\ UNCHANGED job
    BY <1>2 DEF RowsEnded
  <2>2. \A t \in Stories :
          \/ story'[t] = story[t]
          \/ story'[t].status = "deleted" /\ story'[t].selected = 0
          \/ /\ ~Busy(t) /\ story'[t].status \in Terminal /\ story'[t].selected = story[t].selected
    <3> SUFFICES ASSUME NEW t \in Stories,
                        \/ ~Busy(t) /\ \E status \in Terminal : story'[t] = [story[t] EXCEPT !.status = status]
                        \/ story'[t] = [NoStory EXCEPT !.status = "deleted"]
                 PROVE  \/ story'[t].status = "deleted" /\ story'[t].selected = 0
                        \/ /\ ~Busy(t) /\ story'[t].status \in Terminal
                           /\ story'[t].selected = story[t].selected
      BY <1>2 DEF RowsEnded, RowLeft, RowEnded
    <3>1. QED
      BY <1>0 DEF Story, NoStory
  <2>3. \A t \in Stories : t # 1 \/ story'[t].status \in Early \cup {"pending"} => story'[t].selected = 0
    BY <2>1, <2>2 DEF Choosing, Early, Terminal, Awaiting
  <2>4. ASSUME NEW j \in Jobs, Live(j)', job'[j].kind = "resume", Exists(job[j].story)'
        PROVE  story'[job'[j].story].status \in Resumed
    <3>1. Live(j) /\ job'[j] = job[j] /\ Busy(job[j].story)
      BY <2>1, <2>4 DEF Live, Busy
    <3>2. story'[job[j].story] = story[job[j].story]
      BY <1>0, <2>2, <2>4, <3>1 DEF Exists, Absent
    <3>3. QED
      BY <2>1, <2>4, <3>1, <3>2 DEF Choosing, Exists
  <2>5. QED
    BY <2>3, <2>4 DEF Choosing
<1>3. ASSUME NEW j \in Jobs, JobStarts(j) \/ JobSteps(j)
      PROVE  Choosing'
  <2> DEFINE s == job[j].story
  <2>1. /\ JobsKept /\ Live(j) /\ calm /\ s \in Stories /\ \A t \in Stories : t # s => story'[t] = story[t]
        /\ story'[s] = story[s] \/ (Exists(s) /\ Writes(j, story[s], story'[s]))
        /\ \A i \in Jobs : i # j => job'[i] = job[i]
    BY <1>0, <1>3, JobEffect, JobWrites DEF RowLeft
  <2>2. /\ Fits(j) /\ Alone /\ (job[j].kind \in Revisions <=> s # 1)
        /\ s # 1 \/ story[s].status \in Early \cup {"pending"} => story[s].selected = 0
        /\ job[j].kind = "resume" /\ Exists(s) => story[s].status \in Resumed
    BY <2>1 DEF Ordered, Family, Choosing
  <2>3. ASSUME Exists(s), story'[s] # story[s]
        PROVE  /\ s # 1 \/ story'[s].status \in Early \cup {"pending"} => story'[s].selected = 0
               /\ Live(j)' /\ job[j].kind = "resume" => story'[s].status \in Resumed
    <3>1. CASE Live(j)' /\ Advances(j, story[s], story'[s])
      <4>1. PICK status \in Running \cup {Awaiting} :
              /\ Phase(story[s].status) < Phase(status)
              /\ job[j].kind = "fresh"  => status \in Early
              /\ job[j].kind = "resume" => status # Awaiting
              /\ story'[s] = [story[s] EXCEPT !.status = status]
        BY <3>1 DEF Advances
      <4>2. story'[s].status = status /\ story'[s].selected = story[s].selected
        BY <1>0, <2>1, <4>1 DEF Story
      <4>3. s = 1 /\ job[j].kind \in {"fresh", "resume"}
        BY <2>2, <3>1 DEF Advances, GraphKinds, Revisions
      <4>4. CASE job[j].kind = "fresh"
        <5>1. story[s].status \in Early \cup {"pending"}
          BY <2>2, <2>3, <4>4 DEF Fits
        <5>2. QED
          BY <2>2, <4>2, <4>4, <5>1
      <4>5. CASE job[j].kind = "resume"
        <5>1. story[s].status \in Resumed
          BY <2>2, <2>3, <4>5
        <5>2. Phase(story[s].status) >= 4
          BY <5>1, PhaseOrder DEF Resumed
        <5>3. status \in Resumed
          BY <4>1, <4>5, <5>1, <5>2, PhaseOrder DEF Resumed, Running
        <5>4. status \notin Early \cup {"pending"}
          BY <5>3 DEF Resumed, Early, Awaiting
        <5>5. QED
          BY <4>2, <4>3, <5>3, <5>4
      <4>6. QED
        BY <4>3, <4>4, <4>5
    <3>2. CASE Live(j)' /\ MovesPhase(j, story[s], story'[s])
      <4>1. story'[s].selected = story[s].selected /\ s # 1 /\ job[j].kind # "resume"
        BY <1>0, <2>1, <2>2, <3>2 DEF MovesPhase, Story, Revisions
      <4>2. QED
        BY <2>2, <4>1
    <3>3. CASE ~Live(j)' /\ story'[s] = [story[s] EXCEPT !.status = "failed"]
      <4>1. story'[s].status = "failed" /\ story'[s].selected = story[s].selected
        BY <1>0, <2>1, <3>3 DEF Story
      <4>2. QED
        BY <2>2, <3>3, <4>1 DEF Early, Awaiting
    <3>4. CASE ~Live(j)' /\ Pauses(j, story[s], story'[s])
      <4>1. job[j].kind = "fresh" => story[s].selected = 0
        BY <2>2, <2>3 DEF Fits
      <4>2. story'[s].selected = 0
        BY <3>4, <4>1 DEF Pauses
      <4>3. QED
        BY <3>4, <4>2
    <3>5. CASE ~Live(j)' /\ Finishes(j, story[s], story'[s])
      <4>1. story'[s].status \in {"completed", "failed"} /\ story'[s].selected = story[s].selected
        BY <3>5 DEF Finishes
      <4>2. QED
        BY <2>2, <3>5, <4>1 DEF Early, Awaiting
    <3>6. QED
      BY <2>1, <2>3, <3>1, <3>2, <3>3, <3>4, <3>5 DEF Writes, Ends
  <2>4. \A t \in Stories : t # 1 \/ story'[t].status \in Early \cup {"pending"} => story'[t].selected = 0
    BY <2>1, <2>3 DEF Choosing
  <2>5. ASSUME NEW i \in Jobs, Live(i)', job'[i].kind = "resume", Exists(job[i].story)'
        PROVE  story'[job'[i].story].status \in Resumed
    <3>1. Live(i) /\ job[i].kind = "resume" /\ job'[i].story = job[i].story
      BY <2>1, <2>5 DEF JobsKept, Kept
    <3>2. CASE i = j
      <4>1. Exists(s)
        BY <2>1, <2>5, <3>1, <3>2 DEF Exists
      <4>2. QED
        BY <2>1, <2>2, <2>3, <2>5, <3>1, <3>2, <4>1
    <3>3. CASE i # j
      <4>1. job[i].story # s
        BY <2>1, <2>2, <3>1, <3>3 DEF Alone
      <4>2. story'[job[i].story] = story[job[i].story]
        BY <1>0, <2>1, <4>1
      <4>3. QED
        BY <2>1, <2>5, <3>1, <4>2 DEF Choosing, Exists
    <3>4. QED
      BY <3>2, <3>3
  <2>6. QED
    BY <2>4, <2>5 DEF Choosing
<1>4. CASE Restart
  BY <1>4, RestartEffect DEF Choosing
<1>5. QED
  BY <1>1, <1>2, <1>3, <1>4, StepEffect

\* What a row shows.
Seen(r) ==
  [stage |-> Stage(r.status), progress |-> IF r.status \notin Absent THEN Phase(r.status) ELSE 0,
   selected |-> r.selected, script |-> r.script]

LEMMA StageOf ==
  /\ \A status \in Running : Stage(status) = "working" /\ status \notin Absent
  /\ Stage(Awaiting) = "paused" /\ Awaiting \notin Absent
  /\ Stage("completed") = "completed" /\ "completed" \notin Absent
  /\ \A status \in {"failed", "angle_selection_expired"} : Stage(status) = "ended" /\ status \notin Absent
  /\ Stage("none") = "none" /\ Stage("deleted") = "deleted"
  /\ \A status \in Statuses : Stage(status) = "deleted" => status = "deleted"
  /\ \A status \in Statuses : Stage(status) = "completed" => status = "completed"
  BY DEF Stage, Running, Awaiting, Terminal, Absent, Statuses

LEMMA PhaseOfWork ==
  \A status \in Running : Phase(status) \in 0..6 /\ Phase(status) # 3
  BY PhaseOrder DEF Running

\* A step that writes one row changes what one story shows.
Rewrites(s) == Shown[s] = Seen(story[s]) /\ Shown' = [Shown EXCEPT ![s] = Seen(story'[s])]

LEMMA ShownStep ==
  ASSUME NEW s \in Stories, \A t \in Stories \ {s} : story'[t] = story[t]
  PROVE  Rewrites(s)
<1>1. Shown = [t \in Stories |-> Seen(story[t])]
  BY DEF Shown, Seen, Exists
<1>2. Shown' = [t \in Stories |-> Seen(story'[t])]
  BY DEF Shown, Seen, Exists
<1>3. QED
  BY <1>1, <1>2 DEF Rewrites

\* The view of a row by its status, and its parts.
LEMMA SeenAs ==
  ASSUME NEW r
  PROVE  /\ r.status \in Running
              => Seen(r) = Lifecycle!View("working", Phase(r.status), r.selected, r.script)
         /\ r.status = Awaiting
              => Seen(r) = Lifecycle!View("paused", 3, r.selected, r.script)
         /\ r.status = "completed"
              => Seen(r) = Lifecycle!View("completed", 7, r.selected, r.script)
         /\ r.status \in {"failed", "angle_selection_expired"}
              => Seen(r) = Lifecycle!View("ended", 7, r.selected, r.script)
<1>1. Phase(Awaiting) = 3 /\ \A status \in Terminal : Phase(status) = 7
  BY PhaseOrder
<1>2. QED
  BY <1>1, StageOf DEF Seen, Lifecycle!View, Terminal

LEMMA SeenParts ==
  ASSUME NEW r
  PROVE  /\ Seen(r).stage = Stage(r.status)
         /\ r.status \notin Absent => Seen(r).progress = Phase(r.status)
         /\ Seen(r).selected = r.selected /\ Seen(r).script = r.script
  BY DEF Seen

\* The steps of a life, told by the rows.
LEMMA ShowsWork ==
  ASSUME NEW s \in Stories, Rewrites(s), NEW old \in Story, story[s] = old,
         old.status \in Running, NEW status \in Running, Phase(old.status) < Phase(status),
         story'[s] = [old EXCEPT !.status = status]
  PROVE  Lifecycle!Work(s)
<1>1. /\ story'[s].status = status /\ story'[s].selected = old.selected
      /\ story'[s].script = old.script
  BY DEF Story
<1>2. Phase(status) \in (Phase(old.status) + 1)..6
  BY PhaseOfWork
<1>3. Seen(story'[s]) = Lifecycle!View("working", Phase(status), old.selected, old.script)
  BY <1>1, SeenAs
<1>4. /\ Seen(old).stage = "working" /\ Seen(old).progress = Phase(old.status)
      /\ Seen(old).selected = old.selected /\ Seen(old).script = old.script
  BY SeenParts, StageOf
<1>5. QED
  BY <1>2, <1>3, <1>4 DEF Rewrites, Lifecycle!Work, Lifecycle!Show

LEMMA ShowsPause ==
  ASSUME NEW s \in Stories, Rewrites(s), NEW old \in Story, NEW new \in Story,
         story[s] = old, story'[s] = new,
         old.status \in {"pending", "researching", "analysing"}, new.status = Awaiting,
         old.selected = 0, old.script = 0, new.selected = 0, new.script = 0
  PROVE  Lifecycle!Pause(s)
<1>1. old.status \in Running /\ Phase(old.status) < 3
  BY PhaseOrder DEF Running
<1>2. Seen(new) = Lifecycle!View("paused", 3, 0, 0)
  BY SeenAs
<1>3. /\ Seen(old).stage = "working" /\ Seen(old).progress < 3
      /\ Seen(old).selected = 0 /\ Seen(old).script = 0
  BY <1>1, SeenParts, StageOf
<1>4. QED
  BY <1>2, <1>3 DEF Rewrites, Lifecycle!Pause, Lifecycle!Show

LEMMA ShowsChoice ==
  ASSUME NEW s \in Stories, Rewrites(s), NEW old \in Story, NEW new \in Story,
         story[s] = old, story'[s] = new, NEW angle \in 1..MaxJobs,
         old.status = Awaiting, old.selected = 0,
         new.status = "writing_storyline", new.selected = angle, new.script = 0
  PROVE  Lifecycle!Choose(s, angle)
<1>1. new.status \in Running /\ Phase(new.status) = 4
  BY PhaseOrder DEF Running
<1>2. Seen(new) = Lifecycle!View("working", 4, angle, 0)
  BY <1>1, SeenAs
<1>3. Seen(old).stage = "paused" /\ Seen(old).selected = 0
  BY SeenParts, StageOf
<1>4. QED
  BY <1>2, <1>3 DEF Rewrites, Lifecycle!Choose, Lifecycle!Show

LEMMA ShowsCompletion ==
  ASSUME NEW s \in Stories, Rewrites(s), NEW old \in Story, NEW new \in Story,
         story[s] = old, story'[s] = new,
         old.status \in Resumed, new.status = "completed", new.selected = old.selected,
         new.script = IF old.selected = 0 THEN Revised ELSE old.selected
  PROVE  Lifecycle!Complete(s)
<1>1. old.status \in Running /\ Phase(old.status) >= 4
  BY PhaseOrder DEF Running, Resumed
<1>2. Seen(new) = Lifecycle!View("completed", 7, old.selected,
                                 IF old.selected = 0 THEN Revised ELSE old.selected)
  BY SeenAs
<1>3. /\ Seen(old).stage = "working" /\ Seen(old).progress >= 4
      /\ Seen(old).selected = old.selected
  BY <1>1, SeenParts, StageOf
<1>4. QED
  BY <1>2, <1>3 DEF Rewrites, Lifecycle!Complete, Lifecycle!Show

LEMMA ShowsEnd ==
  ASSUME NEW s \in Stories, Rewrites(s), NEW old \in Story, NEW new \in Story,
         story[s] = old, story'[s] = new,
         old.status \in Running \cup {Awaiting}, new.status \in {"failed", "angle_selection_expired"},
         new.selected = old.selected, new.script = old.script
  PROVE  Lifecycle!Abandon(s)
<1>1. Seen(new) = Lifecycle!View("ended", 7, old.selected, old.script)
  BY SeenAs
<1>2. /\ Seen(old).stage \in {"working", "paused"}
      /\ Seen(old).selected = old.selected /\ Seen(old).script = old.script
  BY SeenParts, StageOf
<1>3. QED
  BY <1>1, <1>2 DEF Rewrites, Lifecycle!Abandon, Lifecycle!Show

LEMMA ShowsEdit ==
  ASSUME NEW s \in Stories, Rewrites(s), NEW old \in Story, NEW new \in Story,
         story[s] = old, story'[s] = new,
         old.status \in Running \cup {"failed", "angle_selection_expired"}, old.script # 0,
         new.status = "completed", new.selected = old.selected, new.script = old.script
  PROVE  Lifecycle!Edit(s)
<1>1. Seen(new) = Lifecycle!View("completed", 7, old.selected, old.script)
  BY SeenAs
<1>2. /\ Seen(old).stage \in {"working", "ended"}
      /\ Seen(old).selected = old.selected /\ Seen(old).script = old.script
  BY SeenParts, StageOf
<1>3. QED
  BY <1>1, <1>2 DEF Rewrites, Lifecycle!Edit, Lifecycle!Show

LEMMA ShowsRemoval ==
  ASSUME NEW s \in Stories, Rewrites(s), NEW old \in Story, story[s] = old, Exists(s),
         story'[s] = [NoStory EXCEPT !.status = "deleted"]
  PROVE  Lifecycle!Remove(s)
<1>1. old.status \in Statuses \ Absent
  BY DEF Story, Exists
<1>2. Stage(old.status) \notin {"none", "deleted"}
  BY <1>1 DEF Stage, Statuses, Absent, Running, Terminal, Awaiting
<1>3. Seen(story'[s]) = [stage |-> "deleted", progress |-> 0, selected |-> 0, script |-> 0]
  BY StageOf DEF Seen, NoStory, Absent
<1>4. Seen(old).stage = Stage(old.status)
  BY DEF Seen
<1>5. QED
  BY <1>2, <1>3, <1>4 DEF Rewrites, Lifecycle!Remove, Lifecycle!Show, Lifecycle!View, Lifecycle!Blank

LEMMA ShowsRevision ==
  ASSUME NEW s \in Stories, NEW clone \in Stories, Rewrites(clone), story \in [Stories -> Story],
         NEW status \in Phases, NEW carry \in BOOLEAN, status # "evaluating",
         story[s].status \in Terminal, story[clone].status = "none",
         story'[clone] = Clone(story[s], status, carry)
  PROVE  Lifecycle!Revise(s, clone)
<1>1. status \in Running /\ Phase(status) \in {2, 4, 6}
  BY PhaseOrder DEF Phases, Running
<1> DEFINE script == IF carry /\ story[s].script # 0 THEN Revised ELSE 0
<1>2. Clone(story[s], status, carry).status = status /\ Clone(story[s], status, carry).selected = 0
      /\ Clone(story[s], status, carry).script = script
  BY DEF Clone, NoStory
<1>3. Seen(story'[clone])
        = [stage |-> "working", progress |-> Phase(status), selected |-> 0, script |-> script]
  BY <1>1, <1>2, StageOf DEF Seen
<1>4. /\ Shown[s] = Seen(story[s]) /\ Seen(story[s]).stage \in {"completed", "ended"}
      /\ Seen(story[clone]).stage = "none"
  <2>1. Shown[s] = Seen(story[s])
    BY DEF Shown, Seen, Exists
  <2>2. Stage(story[s].status) \in {"completed", "ended"}
    BY StageOf DEF Terminal
  <2>3. QED
    BY <2>1, <2>2, StageOf DEF Seen
<1>5. Seen(story[s]).script = story[s].script
  BY DEF Seen
<1>6. script \in {0, Revised} /\ (script # 0 => story[s].script # 0)
  OBVIOUS
<1> HIDE DEF script
<1>7. QED
  BY <1>1, <1>3, <1>4, <1>5, <1>6
     DEF Rewrites, Lifecycle!Revise, Lifecycle!Show, Lifecycle!View

LEMMA StillSeen ==
  ASSUME NEW s \in Stories, Rewrites(s), Seen(story'[s]) = Seen(story[s])
  PROVE  UNCHANGED Shown
<1>1. Shown' = [Shown EXCEPT ![s] = Shown[s]]
  BY DEF Rewrites
<1>2. Shown = [t \in Stories |-> Shown[t]]
  BY DEF Shown, Exists
<1>3. QED
  BY <1>1, <1>2

\* What a job shows of its story: work, the pause, a completion with the right script, a
\* failure, or nothing.
LEMMA JobLives ==
  ASSUME Typed, Family, Artefacts, Ordered, Choosing, NEW j \in Jobs, JobStarts(j) \/ JobSteps(j),
         calm'
  PROVE  LET s == job[j].story IN
         \/ UNCHANGED Shown
         \/ Lifecycle!Work(s) \/ Lifecycle!Pause(s) \/ Lifecycle!Complete(s) \/ Lifecycle!Abandon(s)
<1> DEFINE s   == job[j].story
           old == story[s]
           new == story'[s]
<1>0. /\ story \in [Stories -> Story] /\ s \in Stories /\ job[j] \in Job /\ Sound(job[j])
      /\ old \in Story /\ new \in Story
  BY JobTyped DEF Typed, TypeOK, JobsSound, Job
<1>1. /\ Live(j) /\ calm /\ \A t \in Stories \ {s} : story'[t] = story[t]
      /\ new = old \/ (Exists(s) /\ Writes(j, old, new))
  BY JobEffect, JobWrites DEF RowLeft
<1>2. /\ Fits(j) /\ SourceKept(j) /\ (job[j].kind \in Revisions <=> s # 1)
      /\ s # 1 \/ old.status \in Early \cup {"pending"} => old.selected = 0
      /\ job[j].kind = "resume" /\ Exists(s) => old.status \in Resumed
      /\ old.status = Awaiting => old.script = 0 /\ s = 1
  BY <1>0, <1>1 DEF Ordered, Family, Choosing
<1>3. Rewrites(s)
  BY <1>0, <1>1, ShownStep
<1>4. CASE new = old
  BY <1>0, <1>3, <1>4, StillSeen
<1>5. ASSUME Exists(s), Writes(j, old, new)
      PROVE  \/ UNCHANGED Shown
             \/ Lifecycle!Work(s) \/ Lifecycle!Pause(s) \/ Lifecycle!Complete(s)
             \/ Lifecycle!Abandon(s)
  <2>1. /\ job[j].kind = "fresh"  => old.status \in Early \cup {"pending"} /\ old.script = 0
                                     /\ old.selected = 0
        /\ job[j].kind = "resume" => /\ old.status \in Resumed /\ old.script = 0
                                     /\ old.selected = job[j].angle
        /\ job[j].kind = "angles" => old.status = Awaiting /\ old.selected = 0
        /\ job[j].kind \in Revisions => /\ old.status \in Phases /\ old.selected = 0
                                        /\ job[j].pc = "working" => old.status = job[j].node
    <3>1. job[j].kind \in Revisions => FirstPhase(job[j].kind) \in Phases
      BY DEF FirstPhase, Revisions, Phases
    <3>2. job[j].pc \in {"scheduled", "working"}
      BY <1>0, <1>1 DEF Live, Job
    <3>3. QED
      BY <1>0, <1>2, <1>5, <3>1, <3>2 DEF Fits, Early, Sound
  <2>2. old.status \in Running \cup {Awaiting}
    <3>1. job[j].kind \in GraphKinds \cup Revisions \cup {"angles"}
      BY <1>0 DEF Job
    <3>2. QED
      BY <2>1, <3>1 DEF GraphKinds, Early, Resumed, Phases, Running
  <2> HIDE DEF s, old, new
  <2>3. CASE Live(j)' /\ Advances(j, old, new)
    <3>1. PICK status \in Running \cup {Awaiting} :
            /\ Phase(old.status) < Phase(status)
            /\ job[j].kind = "fresh"  => status \in Early
            /\ job[j].kind = "resume" => status # Awaiting
            /\ new = [old EXCEPT !.status = status]
      BY <2>3 DEF Advances
    <3>2. CASE status = Awaiting
      <4>1. job[j].kind = "fresh"
        BY <2>3, <3>1, <3>2 DEF Advances, GraphKinds
      <4>2. /\ new.status = Awaiting /\ new.selected = 0 /\ new.script = 0
            /\ old.status \in {"pending", "researching", "analysing"}
        BY <1>0, <2>1, <3>1, <3>2, <4>1, PhaseOrder DEF Early, Story
      <4>3. QED
        BY <1>0, <1>3, <2>1, <4>1, <4>2, ShowsPause DEF old, new
    <3>3. CASE status # Awaiting
      <4>1. old.status \in Running
        <5>1. job[j].kind = "fresh" => Phase(status) <= 2
          BY <3>1, <3>3, PhaseOrder DEF Early
        <5>2. job[j].kind = "resume" => old.status \in Running
          BY <2>1 DEF Resumed, Running
        <5>3. job[j].kind \in {"fresh", "resume"}
          BY <2>3 DEF Advances, GraphKinds
        <5>4. status \in Early /\ old.status = Awaiting => FALSE
          BY <3>1, <3>3, PhaseOrder DEF Early
        <5>5. QED
          BY <2>2, <3>1, <5>2, <5>3, <5>4
      <4>2. QED
        BY <1>0, <1>3, <3>1, <3>3, <4>1, ShowsWork DEF old, new
    <3>4. QED
      BY <3>2, <3>3
  <2>4. CASE Live(j)' /\ MovesPhase(j, old, new)
    <3>1. PICK phase \in Phases : new = [old EXCEPT !.status = phase]
      BY <2>4 DEF MovesPhase
    <3>2. job[j].kind \in Revisions /\ new.status = phase
      BY <1>0, <2>4, <3>1 DEF MovesPhase, Story
    <3>3. Phase(old.status) <= Phase(phase)
      BY <1>2, <1>5, <2>4, <3>2, RevisionFits DEF s, old, new
    <3>4. CASE phase = old.status
      <4>1. new = old
        BY <1>0, <3>1, <3>4 DEF Story
      <4>2. QED
        BY <1>0, <1>3, <4>1, StillSeen DEF old, new
    <3>5. CASE phase # old.status
      <4>1. old.status \in Phases /\ Phase(old.status) < Phase(phase)
        BY <2>1, <3>2, <3>3, <3>5, PhaseOrder DEF Phases
      <4>2. QED
        BY <1>0, <1>3, <3>1, <4>1, ShowsWork DEF Phases, Running, old, new
    <3>6. QED
      BY <3>4, <3>5
  <2>5. CASE new = [old EXCEPT !.status = "failed"]
    <3>1. new.status = "failed" /\ new.selected = old.selected /\ new.script = old.script
      BY <1>0, <2>5 DEF Story
    <3>2. QED
      BY <1>0, <1>3, <2>2, <3>1, ShowsEnd DEF old, new
  <2>6. CASE Pauses(j, old, new)
    <3>1. new.status = Awaiting /\ new.script = 0 /\ new.selected = 0 /\ old.selected = 0
      BY <1>2, <2>1, <2>6 DEF Pauses, old
    <3>2. CASE old.status = Awaiting
      <4>1. Seen(new) = Seen(old)
        BY <1>2, <3>1, <3>2, SeenAs DEF old
      <4>2. QED
        BY <1>0, <1>3, <4>1, StillSeen DEF old, new
    <3>3. CASE old.status # Awaiting
      <4>1. old.status \in {"pending", "researching", "analysing"} /\ old.script = 0
        BY <2>1, <2>6, <3>3 DEF Pauses, Early
      <4>2. QED
        BY <1>0, <1>3, <3>1, <4>1, ShowsPause DEF old, new
    <3>4. QED
      BY <3>2, <3>3
  <2>7. CASE Finishes(j, old, new)
    <3>1. CASE job[j].kind \in GraphKinds /\ new.status = "failed" /\ new.script = 0
      <4>1. new.script = old.script /\ new.selected = old.selected
        BY <2>1, <2>7, <3>1 DEF Finishes, GraphKinds
      <4>2. QED
        BY <1>0, <1>3, <2>2, <3>1, <4>1, ShowsEnd DEF old, new
    <3>2. CASE job[j].kind = "resume" /\ new.status = "completed" /\ new.script = job[j].angle
      <4>1. job[j].angle # 0
        BY <1>0, <3>2 DEF Sound
      <4>2. /\ old.status \in Resumed /\ new.selected = old.selected
            /\ new.script = IF old.selected = 0 THEN Revised ELSE old.selected
        BY <2>1, <2>7, <3>2, <4>1 DEF Finishes
      <4>3. QED
        BY <1>0, <1>3, <3>2, <4>2, ShowsCompletion DEF old, new
    <3>3. CASE /\ job[j].kind \in Revisions /\ new.status = "completed" /\ new.script = Revised
               /\ job[j].pc = "working" /\ job[j].node = "scripting"
      <4>1. /\ old.status \in Resumed /\ new.selected = old.selected /\ old.selected = 0
            /\ new.script = IF old.selected = 0 THEN Revised ELSE old.selected
        BY <2>1, <2>7, <3>3 DEF Finishes, Resumed
      <4>2. QED
        BY <1>0, <1>3, <3>3, <4>1, ShowsCompletion DEF old, new
    <3>4. QED
      BY <2>7, <3>1, <3>2, <3>3 DEF Finishes
  <2>8. QED
    BY <1>5, <2>3, <2>4, <2>5, <2>6, <2>7 DEF Writes, Ends
<1>6. QED
  BY <1>1, <1>4, <1>5

\* Whatever the requests and the watchdog end shows an end, an edit or a removal.
LEMMA RowsShow ==
  ASSUME Typed, Artefacts, Ordered, RowsEnded, calm'
  PROVE  \/ UNCHANGED Shown
         \/ \E s \in Stories : Lifecycle!Abandon(s) \/ Lifecycle!Edit(s) \/ Lifecycle!Remove(s)
<1>1. PICK s \in Stories : (RowLeft(s) \/ RowEnded(s)) /\ \A t \in Stories \ {s} : RowLeft(t)
  BY DEF RowsEnded
<1>2. calm /\ story \in [Stories -> Story] /\ story[s] \in Story
  BY DEF RowsEnded, Typed, TypeOK
<1>3. \A t \in Stories \ {s} : story'[t] = story[t]
  BY <1>1 DEF RowLeft
<1>4. Rewrites(s)
  BY <1>3, ShownStep
<1>5. CASE RowLeft(s)
  BY <1>4, <1>5, StillSeen DEF RowLeft
<1>6. CASE story'[s] = [NoStory EXCEPT !.status = "deleted"] /\ Exists(s)
  BY <1>2, <1>4, <1>6, ShowsRemoval
<1>7. ASSUME NEW status \in Terminal, Exists(s),
             IF status = "completed" THEN story[s].script # 0 /\ story[s].status # "completed"
                                     ELSE story[s].status \in Running \cup {Awaiting},
             story'[s] = [story[s] EXCEPT !.status = status]
      PROVE  Lifecycle!Abandon(s) \/ Lifecycle!Edit(s)
  <2>1. /\ story'[s].status = status /\ story'[s].selected = story[s].selected
        /\ story'[s].script = story[s].script /\ story'[s] \in Story
    BY <1>2, <1>7 DEF Story, Statuses
  <2>2. CASE status = "completed"
    <3>1. story[s].status # Awaiting
      BY <1>2, <1>7, <2>2 DEF Ordered
    <3>2. story[s].status \in Running \cup {"failed", "angle_selection_expired"}
      BY <1>2, <1>7, <2>2, <3>1 DEF Story, Statuses, Exists, Terminal
    <3>3. QED
      BY <1>2, <1>4, <1>7, <2>1, <2>2, <3>2, ShowsEdit
  <2>3. CASE status # "completed"
    <3>1. status \in {"failed", "angle_selection_expired"} /\ story[s].status \in Running \cup {Awaiting}
      BY <1>7, <2>3 DEF Terminal
    <3>2. QED
      BY <1>2, <1>4, <2>1, <3>1, ShowsEnd
  <2>4. QED
    BY <2>2, <2>3
<1>8. QED
  BY <1>1, <1>5, <1>6, <1>7 DEF RowEnded

\* A request that starts a job shows a choice or a revision; new angles stay out of sight.
LEMMA StartsShow ==
  ASSUME Typed, Family, Ordered, Choosing, JobStarted, calm'
  PROVE  \/ UNCHANGED Shown
         \/ \E s \in Stories :
              \/ \E clone \in Stories : Lifecycle!Revise(s, clone)
              \/ \E angle \in 1..MaxJobs : Lifecycle!Choose(s, angle)
<1>0. story \in [Stories -> Story] /\ calm
  BY StartIsCalm DEF Typed, TypeOK
<1>1. ASSUME NEW s \in Stories, story[s].status = Awaiting
      PROVE  story[s].selected = 0 /\ story[s].script = 0
  BY <1>0, <1>1 DEF Choosing, Ordered, Family, Early
<1>2. ASSUME NEW s \in Stories, NEW angle \in 1..MaxJobs, ResumeStarted(s, angle)
      PROVE  Lifecycle!Choose(s, angle)
  <2>1. story'[s] = [story[s] EXCEPT !.selected = angle, !.status = "writing_storyline"]
    BY <1>0, <1>2 DEF ResumeStarted
  <2>2. angle \in 0..MaxJobs /\ "writing_storyline" \in Statuses
    BY PipelineBounds DEF Statuses, Running
  <2>3. /\ story'[s].status = "writing_storyline" /\ story'[s].selected = angle
        /\ story'[s].script = story[s].script
    BY <1>0, <2>1 DEF Story
  <2>4. story'[s] \in Story
    BY <1>0, <2>1, <2>2 DEF Story
  <2>5. story[s].status = Awaiting /\ Rewrites(s)
    <3>1. \A t \in Stories \ {s} : story'[t] = story[t]
      BY <1>0, <1>2 DEF ResumeStarted
    <3>2. QED
      BY <1>2, <3>1, ShownStep DEF ResumeStarted
  <2>6. QED
    BY <1>0, <1>1, <2>3, <2>4, <2>5, ShowsChoice
<1>3. ASSUME NEW s \in Stories, AnglesStarted(s)
      PROVE  UNCHANGED Shown
  <2>1. /\ story'[s].status = story[s].status /\ story'[s].selected = 0
        /\ story'[s].script = story[s].script
    BY <1>0, <1>3 DEF AnglesStarted, Story
  <2>2. \A t \in Stories \ {s} : story'[t] = story[t]
    BY <1>0, <1>3 DEF AnglesStarted
  <2>3. story[s].status = Awaiting
    BY <1>3 DEF AnglesStarted
  <2>4. Seen(story'[s]) = Seen(story[s])
    BY <1>1, <2>1, <2>3, SeenAs
  <2>5. QED
    BY <2>2, <2>4, ShownStep, StillSeen
<1>4. ASSUME NEW s \in Stories, NEW clone \in Stories, NEW kind \in Revisions, NEW status \in Phases,
             NEW carry \in BOOLEAN, RevisionStarted(s, clone, kind, status, carry)
      PROVE  Lifecycle!Revise(s, clone)
  <2>1. /\ story'[clone] = Clone(story[s], status, carry)
        /\ \A t \in Stories \ {clone} : story'[t] = story[t]
    BY <1>0, <1>4 DEF RevisionStarted
  <2>2. /\ status # "evaluating" /\ story[s].status \in Terminal /\ story[clone].status = "none"
    BY <1>4 DEF RevisionStarted, Revisions
  <2>3. QED
    BY <1>0, <2>1, <2>2, ShownStep, ShowsRevision
<1>5. QED
  BY <1>2, <1>3, <1>4 DEF JobStarted

\* A step writes one row.
LEMMA OneRow ==
  ASSUME Typed, [Next]_vars
  PROVE  \E s \in Stories : \A t \in Stories \ {s} : story'[t] = story[t]
<1>0. story \in [Stories -> Story] /\ \A j \in Jobs : job[j].story \in Stories
  BY DEF Typed, TypeOK, Job
<1>1. CASE JobStarted
  BY <1>0, <1>1 DEF JobStarted, ResumeStarted, AnglesStarted, RevisionStarted
<1>2. CASE RowsEnded
  BY <1>2 DEF RowsEnded, RowLeft
<1>3. ASSUME NEW j \in Jobs, JobStarts(j) \/ JobSteps(j)
      PROVE  \E s \in Stories : \A t \in Stories \ {s} : story'[t] = story[t]
  BY <1>0, <1>3, JobEffect DEF RowLeft
<1>4. CASE Restart
  BY <1>4, RestartEffect, FirstStory
<1>5. QED
  BY <1>1, <1>2, <1>3, <1>4, StepEffect

\* No job, request or watchdog pass writes a deleted row.
LEMMA DeletedStays ==
  ASSUME Typed, [Next]_vars, NEW s \in Stories, story[s].status = "deleted"
  PROVE  story'[s] = story[s]
<1>0. story \in [Stories -> Story] /\ ~Exists(s)
  BY DEF Typed, TypeOK, Exists, Absent
<1>1. CASE JobStarted
  <2>1. ASSUME NEW t \in Stories, NEW angle \in 1..MaxJobs, ResumeStarted(t, angle)
        PROVE  story'[s] = story[s]
    BY <1>0, <2>1 DEF ResumeStarted, Awaiting
  <2>2. ASSUME NEW t \in Stories, AnglesStarted(t)
        PROVE  story'[s] = story[s]
    BY <1>0, <2>2 DEF AnglesStarted, Awaiting
  <2>3. ASSUME NEW t \in Stories, NEW clone \in Stories, NEW kind \in Revisions, NEW status \in Phases,
               NEW carry \in BOOLEAN, RevisionStarted(t, clone, kind, status, carry)
        PROVE  story'[s] = story[s]
    BY <1>0, <2>3 DEF RevisionStarted
  <2>4. QED
    BY <1>1, <2>1, <2>2, <2>3 DEF JobStarted
<1>2. CASE RowsEnded
  BY <1>0, <1>2 DEF RowsEnded, RowLeft, RowEnded
<1>3. ASSUME NEW j \in Jobs, JobStarts(j) \/ JobSteps(j)
      PROVE  story'[s] = story[s]
  BY <1>0, <1>3, JobEffect, JobWrites DEF RowLeft
<1>4. CASE Restart
  BY <1>4, RestartEffect
<1>5. QED
  BY <1>1, <1>2, <1>3, <1>4, StepEffect

\* When writers meet, a step still changes what one story shows, a deleted story stays
\* deleted and a completed one has a script.
LEMMA DisorderStep ==
  ASSUME Typed, Family, Artefacts, [Next]_vars, ~calm'
  PROVE  Lifecycle!Disorder
<1>1. PICK s \in Stories : \A t \in Stories \ {s} : story'[t] = story[t]
  BY OneRow
<1>2. Rewrites(s)
  BY <1>1, ShownStep
<1>3. story[s].status \in Statuses /\ story'[s].status \in Statuses
  BY TypedStep DEF Typed, TypeOK, Story
<1>4. Shown \in [Stories -> {Shown[t] : t \in Stories}]
  BY DEF Shown, Exists
<1>5. Shown'[s] = Seen(story'[s])
  BY <1>2, <1>4 DEF Rewrites
<1>6. Lifecycle!Show(s, Shown'[s])
  BY <1>2, <1>5 DEF Rewrites, Lifecycle!Show
<1>7. ASSUME Shown[s].stage = "deleted"
      PROVE  Shown'[s] = Shown[s]
  <2>1. story[s].status = "deleted"
    BY <1>2, <1>3, <1>7, SeenParts, StageOf DEF Rewrites
  <2>2. story'[s] = story[s]
    BY <2>1, DeletedStays
  <2>3. QED
    BY <1>2, <1>5, <2>2 DEF Rewrites
<1>8. ASSUME Shown'[s].stage = "completed"
      PROVE  Shown'[s].script # 0
  <2>1. story'[s].status = "completed"
    <3>1. Seen(story'[s]).stage = Stage(story'[s].status)
      BY SeenParts
    <3>2. QED
      BY <1>3, <1>5, <1>8, <3>1, StageOf
  <2>2. story'[s].script # 0
    BY <2>1, ArtefactsStep DEF Artefacts
  <2>3. QED
    BY <1>5, <2>2, SeenParts
<1>9. QED
  BY <1>6, <1>7, <1>8 DEF Lifecycle!Disorder

LEMMA LifeStep ==
  ASSUME Typed, Family, Artefacts, Ordered, Choosing, [Next]_vars
  PROVE  [Lifecycle!Next]_(Lifecycle!vars)
<1>1. CASE ~calm'
  BY <1>1, DisorderStep DEF Lifecycle!Next
<1>2. CASE calm'
  <2>1. calm /\ calm' = calm
    <3>1. calm \in BOOLEAN /\ calm' \in BOOLEAN
      BY TypedStep DEF Typed, TypeOK
    <3>2. calm
      BY <1>2, StartIsCalm, StepEffect, JobEffect, RestartEffect DEF RowsEnded
    <3>3. QED
      BY <1>2, <3>1, <3>2
  <2>2. CASE UNCHANGED Shown
    BY <2>1, <2>2 DEF Lifecycle!vars
  <2>3. CASE JobStarted
    BY <1>2, <2>1, <2>2, <2>3, StartsShow DEF Lifecycle!Next
  <2>4. CASE RowsEnded
    BY <1>2, <2>1, <2>2, <2>4, RowsShow DEF Lifecycle!Next
  <2>5. ASSUME NEW j \in Jobs, JobStarts(j) \/ JobSteps(j)
        PROVE  [Lifecycle!Next]_(Lifecycle!vars)
    <3>1. job[j].story \in Stories
      BY DEF Typed, TypeOK, Job
    <3>2. QED
      BY <1>2, <2>1, <2>2, <2>5, <3>1, JobLives DEF Lifecycle!Next
  <2>6. CASE Restart
    <3>1. UNCHANGED Shown
      BY <2>6, RestartEffect DEF Shown, Exists
    <3>2. QED
      BY <2>2, <3>1
  <2>7. QED
    BY <2>3, <2>4, <2>5, <2>6, StepEffect
<1>3. QED
  BY <1>1, <1>2

\* Graph, jobs, revisions, watchdog and process stops together look like a story that
\* works, pauses once for one choice, and completes with that angle's script or ends
\* (create_story, select_angle, _drive_pipeline, the revisions and the watchdog).
THEOREM PipelineImplementsLifecycle == Spec => ImplementsStoryLifecycle
<1> DEFINE IInv == Typed /\ Family /\ Artefacts /\ Ordered /\ Choosing
<1>1. Init => IInv
  BY TypedInit, FamilyInit, ArtefactsInit, OrderedInit, ChoosingInit
<1>2. IInv /\ [Next]_vars => IInv'
  BY TypedStep, FamilyStep, ArtefactsStep, OrderedStep, ChoosingStep
<1>3. Init => Lifecycle!Init
  <2> SUFFICES ASSUME Init PROVE Lifecycle!Init
    OBVIOUS
  <2>1. \A s \in Stories : story[s].status = (IF s = 1 THEN "pending" ELSE "none")
                           /\ story[s].selected = 0 /\ story[s].script = 0
    BY DEF Init, NoStory
  <2>2. Phase("pending") = 0 /\ Stage("pending") = "working" /\ Stage("none") = "none"
    BY PhaseOrder, StageOf DEF Running
  <2>3. ASSUME NEW s \in Stories
        PROVE  Seen(story[s]) = Lifecycle!Blank(IF s = 1 THEN "working" ELSE "none")
    BY <2>1, <2>2 DEF Seen, Lifecycle!Blank, Lifecycle!View, Absent
  <2>4. Shown = [s \in Stories |-> Seen(story[s])]
    BY DEF Shown, Seen, Exists
  <2>5. QED
    BY <2>3, <2>4, FirstStory DEF Init, Lifecycle!Init
<1>4. IInv /\ [Next]_vars => [Lifecycle!Next]_(Lifecycle!vars)
  BY LifeStep
<1> HIDE DEF IInv
<1>5. QED
  BY <1>1, <1>2, <1>3, <1>4, PTL DEF Spec, ImplementsStoryLifecycle, Lifecycle!Spec

================================================================================
