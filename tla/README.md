# AI Journalist: TLA+ models and proofs

AI Journalist is a newsroom tool. A FastAPI backend keeps stories, research sessions
and idea-generation runs as rows of one PostgreSQL database and works on them in
background tasks that call language models and search providers for minutes. A web
frontend polls. This directory models the backend: who may write which row when, what a
stopped or late task leaves behind, what the rows promise to the pages that show them,
and what the algorithms between two writes compute. All paths below are relative to
`src/`.

## 1. The system

| Part | State it keeps | Operations | Talks to |
|---|---|---|---|
| Idea Generator runs (`backend/api/routes/idea_generations.py`) | `idea_generation_runs` with status, worker, lease, started_at, attempts; `generated_ideas`; per process a task table | claim, heartbeat, stage updates, persist, mark failed, timeout; recovery poll; delete | several processes through the database only |
| Idea Generator requests (same file, migration 0020) | the same rows; client keys, a unique index per key and one on active runs | create, retry, delete, dismiss or save an idea, hand an idea to a story or a research session | runs, stories, research sessions |
| Idea Generator agent (`backend/agents/idea_generator.py`, `backend/services/cost_ledger.py`) | a ledger, a deadline, evidence, accepted candidates of one run | research, budget gate, synthesis, score, repair, selection | called by the run's task; its result is persisted there |
| vidIQ client (`backend/tools/vidiq.py`) | a counter of billed calls per tool, a cache per process | demand report, trend snapshot | idea agent, research agent, new stories |
| Research agent and enrichment (`backend/agents/research.py`, `_research_enrichment.py`, `backend/tools/`) | a research package that grows | plan, gather from all providers, read pages, detect gaps, enrich | chapter writer, scriptwriter, sessions |
| Writers and chief editor (`chapter_writer.py`, `scriptwriter.py`, `_chief_editor_*`) | storyline, script with sections, sources, dossier | outline, draft, deepen, audit, rewrite | the story's package |
| Research sessions (`backend/api/routes/research_sessions.py`) | one row per session: turns, consolidated report, citations, pending prompt | create, follow-up turn, background job, delete | research agent, watchdog |
| Ideation workspace (`backend/api/routes/stories.py`) | a story's plan (angle, hook, chapters), stage, running operation with heartbeat, chat messages, script and its versions | chat, generate and approve angle/hook/chapters, generate script, PUT script, delete | story pipeline for the script, watchdog |
| Story pipeline (`backend/api/routes/stories.py`, `backend/graph/`) | status, research, analysis, angles, selected angle, script; the LangGraph state of each job | create, select angle, regenerate angles, rewrite, regenerate, implement recommendations, PUT script, delete, event stream | agents, watchdog |
| Watchdog (`backend/services/stale_pipeline_watchdog.py`) | none | four passes every five minutes: running stories, awaited angles, ideation operations, research sessions | rows of the parts above |
| Benchmark corpus (`backend/services/benchmarking.py`, `backend/agents/corpus_builder.py`) | reference documentaries, versioned pattern libraries, a cache file of each | rebuild by request, script or first start; load the active library | YouTube, the chief editor's scoring |
| Prompts, accounts, attachments, trend memory, notifications, frontend | see section 7 | | |

What is hard in it:

- *Interleaving through the database.* Requests, jobs, the heartbeat, the watchdog
  and other processes read a row, compute, and write it back with no lock. Only the
  Idea Generator has a lease. `READ COMMITTED` makes single statements atomic and
  nothing more; `expire_on_commit=False` keeps old values in memory.
- *Late writers.* A task works for minutes on what it read when it started, and then
  updates by primary key, whatever the row has become.
- *Shared objects.* The research agent is one object per process, and so are its vidIQ
  tool and that tool's counter; coroutines switch at every await.
- *Stops.* Background tasks die with their process. What they leave in the rows has
  to be found by the watchdog or by lease recovery; cache files are lost with the machine.
- *Failure halfway.* Agents raise, hang or return half of what was asked; a package is
  gathered into again and again, and a pass may fail after it has changed it.
- *Long sequences of legal requests.* Eleven endpoints change parts of a story that
  depend on each other.

`PROJECT.json` lists the hazards at their lines and the properties that cover each.

## 2. Modules

```
IdeaRun ............ promised lifecycle of a run (abstract)
  ^ refined by
IdeaLease .......... lease protocol between processes     IdeaLeaseProofs, MCIdeaLease
IdeaRequests ....... requests about runs and their ideas  IdeaRequestsProofs, MCIdeaRequests
IdeaScore .......... evidence and score of a candidate
  ^ extended by
IdeaGeneration ..... one generation inside a run          IdeaGenerationProofs, MCIdeaGeneration
VidIQ .............. billed calls, cache and budget       VidIQProofs, MCVidIQ

EpisodePlan ........ durations and the fit of an outline
  ^ extended by
ResearchGather ..... planner's routing, providers, merge
  ^ extended by
StoryEvidence ...... evidence of one story to its script  MCStoryEvidence

ResearchThread ..... promised thread of turns (abstract)
  ^ refined by
ResearchSession .... one session, its jobs, the watchdog  ResearchSessionProofs
IdeationDesk ....... promised desk of a producer (abstract)
  ^ refined by
Ideation ........... one ideation workspace               IdeationProofs, MCIdeation
StoryLifecycle ..... promised lifecycle of stories (abstract)
  ^ refined by
StoryPipeline ...... stories, jobs, revisions, watchdog   StoryPipelineProofs
  v extends
PipelineGraph ...... the agent graph
CorpusRebuild ...... rebuilds, libraries and a reader     CorpusRebuildProofs, MCCorpusRebuild
```

Properties stand at the end of each module. An operator that begins with a comment
"Faulty:" is a plausible bug of a definition after it; it is used by no
specification and serves to show that a property can fail (`mutants` in
`PROJECT.json`).

Some variables are *history*: the code has no such state, a property needs it.
`serial` and `punctual` in `ResearchSession`, `calm` in `StoryPipeline` and
`CorpusRebuild`, `overlapped` in `VidIQ` and `lost` in `StoryEvidence` record whether
something has happened that the code is known not to survive (section 6). A property
that needs its absence says so in its formula, so one run explores everything and
still states what holds when.

### IdeaLease and IdeaRun

A process claims a run with one conditional `UPDATE` (`Claim`), renews its lease on a
heartbeat (`Heartbeat`, `EnterStage`, `SaveStage`), stores the result with a guarded
`SELECT` followed by an unguarded flush (`PersistSelect`, `PersistCommit`) and reports
errors with a guarded `UPDATE` (`Timeout`, `GenerationError`, `MarkFailed`). Each
process polls for queued and abandoned runs (`Recover`) and may stop at any point
(`Stop`, `TaskCrash`) or stall. `DeleteCheck` and `DeleteCommit` are the two halves of
the delete request. `IdeaRun` is what an API reader is promised: queued, running,
completed with one result set or failed, at most `MaxAttempts` starts, an end final.

Abstractions: time is relative (ticks left of the lease, ticks since `started_at`), so
no clock grows; a NULL lease is a lease of 0, as every reader treats the two alike;
progress percentages and stage names are left out; detecting a lost lease and
cancelling the work is one step; a graceful shutdown and a crash look the same in the
database; a worker is one process incarnation and does not come back; a deleted row
keeps a tombstone. `Punctual` names the phases in which a live process is assumed not
to outlive its lease, so each result says what it needs:

- nothing: exclusiveness of attempts, deadline, respect of leases, types;
- `Saving`: single storage, final outcomes and the refinement. The guarded `SELECT`
  and the flush are milliseconds apart under a lease of 45 s, yet nothing enforces it
  (section 6);
- `Working`: at most one process at work (heartbeats every 10 s under a 45 s lease).

### IdeaRequests

Each statement of a handler is an action, because a request is a coroutine that awaits
the database between them: the check of the key, the check for an active run, the load
of the run to retry, the insert with both unique indexes, the load of the run to
answer. Two requests of any users are in flight at once. A create without a key, whose
key the server mints, is not an action of its own: it behaves like a create whose key is
never sent again. Workers appear only as what
they do to a status. Deleted ids are not used again. `accepted` records the answers to
requests with a client's key. The deletion of a run names the run only, its ideas go
by the cascade of their foreign key; that no idea is stored without its completed run
(`IdeasHaveRuns`) is a part of `TypeOK`. The handoff of an idea copies it into a story or a
session (`Develop`): origin ids have no foreign key, so it succeeds for an idea that
is gone by then, which the code intends.

### IdeaScore and IdeaGeneration

One run of `_generate`: research calls that are charged after the fact, the sources and
signals that are kept, the gate that picks the largest evidence digest the rest of the
budget affords, synthesis, the two hard gates and the score of each candidate, at most
one repair call, and the greedy choice (`Greedy`) of ideas by score with a sector and a
subject of their own. A source cited twice counts twice, so what a candidate cites
(`Cited`) is a set of pairs, the place of the id in the candidate and the source. Money and time are small integers, points are tenths; the score counts
the sources, domains and signals a candidate cites and the lengths of its texts. A
candidate's title, sector and subject words are values of its own. Assumed: a call costs no more
than its worst case (input counted by `estimate_tokens`, output capped by
`max_tokens`), and `idea_generator_max_synthesis_attempts` is above 1, its default.
Rounding of a component at exactly half a tenth is upwards. The five-minute timer
around the whole run is in `IdeaLease`.

### VidIQ

A fetch is one coroutine; what runs from one await to the next is one action. The
counter belongs to the tool: fetches of the research agent share one, new stories and
idea runs have their own. The cache is shared by all, bounded, and entries expire. What
the service knows is a constant, whether it answers (with a payload, with an error of the tool, with
an HTTP error, not in time) is not. The keywords related to a seed are a list by
falling volume (`RelatedAssumption` says it is a list); the searches of a report are
those the filter kept, by `Rank` and then in the order of that list. `SpendCapped` states the documented budget of every
report, `CallsBudgeted` that of reports whose tool nobody else used meanwhile.

### EpisodePlan, ResearchGather and StoryEvidence

`EpisodePlan` translates the arithmetic that fits an outline into an episode, in whole
seconds. `ResearchGather` gives for each provider the lists of sources it may return
from what its service holds, for every set of failed requests, and the planner's routing
and choice of queries. `StoryEvidence` drives one story's package through them: the
research agent's gather, the chapter writer's and the scriptwriter's enrichment, the
drafting loop, the list of sources and the dossier, audit and rewrite. A position in
the package stands for a source's id. The sections of a script are written
independently from one lookup, so `cites` follows one of them. `Enrichment` is TRUE in
the run (the setting `enable_writer_research_enrichment`, off by default): without it
the package does not change after its first gather.

### ResearchSession and ResearchThread

Every writer (follow-up request, job, watchdog) is two actions, a load and a flush;
the flush writes the columns whose new value differs from the loaded one, as the ORM
does. (Turns carry no `completed_at`: a list of turns equal to the loaded one counts as
unchanged, where the code would write the later time. At a flush of a serial history the
row is the loaded one, so it makes no difference there.) `Restart` kills jobs and
requests. `serial` is true while no writer has loaded
the row between another's load and flush, `punctual` while no operation has outlived
the watchdog's threshold.

`ResearchThread` is what the page of a session shows, without jobs, watchdog and
loaded rows: `Ask`, `Answer`, `GiveUp`, `Remove`. Its history `orderly` is
`serial /\ punctual`, so it says by itself what is left after the conditions fail
(`Disorder`): anything may be shown, but a deleted session stays deleted.

### Ideation and IdeationDesk

Requests check the row and update it in one step. A background task keeps the row it
read at its start (`snap`) and applies its result to whatever the row holds at its
end. The script task renews its heartbeat in two steps (`TouchLoad`, `TouchWrite`),
because it writes back the operation it has read. Scripts are numbered, so that a lost
one is noticed, and carry the plan they were written for. `EditsWait` says that a
producer saves a script by hand only between operations, `PunctualAgent` that no live
task exceeds the watchdog's threshold.

`IdeationDesk` is the same workspace for somebody who sees no tasks, snapshots,
heartbeats, messages or watchdog: one operation at a time, a plan whose later parts
are cleared when an earlier one changes (`Follows`), and a script that is either beside
the plan or on the shelf of versions. `desk` is computed from the row's status and
operation (`Doing`). Unlike the other abstract specifications it has no `Disorder`:
the promise is for `EditsWait` and `PunctualAgent`, and its run sets both.

### PipelineGraph, StoryPipeline and StoryLifecycle

`PipelineGraph` gives for each node the states it may return, exceptions included, and
the node that follows. `StoryPipeline` runs jobs over it: fresh and resumed pipelines
(one action per node, with the guarded status update of `_advance_story_status`), the
angle regeneration job, and the three revisions, which work on a clone. The two story
passes of the watchdog and stops are actions. Angles are numbers of generations, and a
script is the number of the angle it was written for (`Revised` in a revision).
`calm` is true while no request was made of a story at work and no live job was failed
by the watchdog, as the pages make it. The event stream only reads and is left out.

`StoryLifecycle` is what all stories show together: working with rising progress, paused
for an angle, completed with a script, ended, removed; `Revise` starts another story from
a finished one. Graph, nodes, jobs and watchdog are out of sight. Its `Disorder`, for
what follows once `calm` is lost, still changes one story at a time, never revives a
deleted one and completes none without a script.

### CorpusRebuild

A rebuild is a chain of actions, one per await: the documents known, each video, the
synthesis, the rotation of old documents for new ones, the number of the next version,
the row, the cache file; any of them may raise (`Stop`). Administrators' rebuilds share
a flag that is tested when a request arrives and set when its task starts; scripts do
not know it. The reader asks file, row and again the file's version, then combines the
libraries. A library is known by its version and the videos it was made from. Which new
videos of a listing are fetched keeps the listing's order (`Those`); a listing that names a video
twice makes the rotation fail on the unique index, as it makes the insert of an
expansion fail. `Bound` is how large a corpus may grow: the target and the documents
that had no usable structure at first (`Broken`), or its first size. A rebuild counts usable
documents against the target, so rotating out an unusable one takes the usable ones past it.

## 3. Runs

| Run | Question | Bounds |
|---|---|---|
| `idea_lease` | Is each attempt exclusive, the result stored once, every lease respected, the promise of `IdeaRun` (an outcome is final) implemented, and does every run end? | 3 processes, 1 run, 2 attempts (the setting), lease 2, deadline 3 ticks; stalls anywhere but in `Saving` |
| `idea_requests` | Has a user ever two active runs, is a client key ever served by two runs, does an idea outlive its run or come back after its deletion? | 2 users, one an administrator, 2 runs, 2 keys, 2 formats, 2 requests in flight |
| `idea_generation` | Is the budget kept by the calls it gates; is the result the greedy choice of distinct ideas; is a score at most 100? | 6 candidates, answers of up to 3, 3 packages, 2 research calls |
| `vidiq` | Is a report with a tool of its own within budget, does one that left searches out say so, does every fetch end? | 2 fetches of any kind, budget 3, 2 related keywords |
| `vidiq_overlap` | *violated:* two reports of the research agent overlap and one spends past its budget | same |
| `story_evidence` | Is evidence counted once, do citations resolve, is research bounded, do queries keep every lane and acts fit the episode? | 5 addresses, 2 plans, 1 upload, 3 iterations, 1 rewrite; episodes of 4 to 16 minutes, up to 8 acts |
| `corpus` | Does a corpus ever shrink, is a library made from its corpus, does a reader get the newest? | 2 libraries of 4 and 1 videos, target 2, 2 rebuilds |
| `research` | Is the thread of turns of `ResearchThread` implemented (a prompt asked alone, each turn ended once, with its own answer), nothing an earlier turn brought lost, no session left running? | 3 prompts, threshold 1 tick |
| `research_late_answer` | *violated:* an answer after the threshold drops the citations of a newer turn | same |
| `ideation_workspace` | Does the script always belong to the plan shown, is `IdeationDesk` implemented (parts follow from one another, no script lost), does every operation end? | 2 texts, 6 operations, 1 edit, 2 versions kept |
| `ideation_edit_lost` | *violated:* a script saved by hand during an operation disappears | same, edits at any time |
| `story` | Is the script that of the selected angle, does progress only move forward, is `StoryLifecycle` implemented (an angle chosen once, completed only with a script, one story changed at a time), does every story end? | 3 stories, 4 jobs, 1 rewrite cycle |

Three invariants are parts of a refinement and stand in no passing run of their own:
`AnswersFillTheirTurn` (part of `ImplementsResearchThread`), `CompletedHasScript` (of
`ImplementsStoryLifecycle`) and `NoScriptLost` (of `ImplementsIdeationDesk`; the run
`ideation_edit_lost` refutes it for edits at any time). Each is proved.

Why the bounds suffice. *Lease:* an abandoned attempt, its stalled owner and a third
process are the parties of every takeover scenario, and after two attempts a run
cannot be claimed; runs share no row, and the only statement over several runs, bulk
recovery, is covered by the proofs. *Requests:* every conflict is between two requests
of one user; a third would repeat one of them. *vidIQ:* two fetches share a tool or do
not, and one report has more calls to make than its budget. *Evidence:* three
iterations are the setting and let a draft be written before and after new research; addresses
repeat within and between providers; the list of a script (3) is shorter than the
package, and a page fails or not. *Corpus:* one library starts empty, below or at its
target; two rebuilds overlap, or the second repairs what the first left. *Research:* a
late answer needs two turns and a third that shows what was lost. *Ideation:* three
approvals and a script take five operations, so six allow a revision of a finished
script; two kept versions let the oldest go. *Stories:* selection, regeneration,
resumption and a revision fit in four jobs. *Ideas:* the pool holds equal titles,
sectors, scores, subjects on both sides of the threshold, sources that do not resolve
and a forbidden subject; costs make the gate pick every digest and none, and research
alone pass the budget. Bounds on
requests, jobs and identifiers mean that a model may stop: `CHECK_DEADLOCK FALSE` is
set where it does.

## 4. Fairness

Weak fairness stands for: the event loop runs scheduled tasks, statements return, time
passes, the watchdog and the recovery poll come back (`backend/api/main.py`: every five
minutes, `idea_generator_recovery_poll_seconds`; `fly.backend.toml` keeps one machine
running). Strong fairness is used where a recurring event disables an action for a
moment: claims between other processes' claims, the watchdog's flush between stops, and
the end of an ideation task between its heartbeats. Agents are not fair in
`ResearchSession` and `StoryPipeline`: no client timeout bounds every agent call, and
the watchdog ends what hangs. They are in `Ideation` (`PunctualAgent`). In `IdeaLease`
the agent is not fair either, because `asyncio.wait_for` ends it. A fetch of `VidIQ` is fair:
its requests and models return or time out. Requests, stops and failures are never fair.

## 5. What is proved

A run answers for a small instance. Each theorem below holds for all values of the constants that
satisfy the named assumptions of its module, so for any number of processes, users,
requests, jobs, videos or turns. The assumptions say that a null value is none of the
values it stands beside, that limits and counts are natural numbers (positive where zero
has no meaning), that listings and packages are lists, and that documents respect their
unique index at the start; TLC evaluates them in every run.

| Module | Theorem | States | Needs |
|---|---|---|---|
| `IdeaLeaseProofs` | `TypeCorrect` | `[]TypeOK` | - |
| | `ClaimIsExclusive` | `[]ExclusiveAttempt` | - |
| | `DeadlineIsKept` | `DeadlineSurvivesRecovery` | - |
| | `LeaseIsRespected` | `LeaseRespected` | - |
| | `SingleExecution` | `[]OneLiveWorker` | `Working` punctual |
| | `ResultIsStoredOnce` | `[]ResultMatchesStatus` | `Saving` punctual |
| | `OutcomeIsFinal` | `TerminalIsFinal` | `Saving` punctual |
| | `LeaseImplementsIdeaRun` | `ImplementsIdeaRun` | `Saving` punctual |
| `IdeaRequestsProofs` | `TypeCorrect` | `[]TypeOK`: no idea is stored without its completed run | - |
| | `ActiveRunIsUnique` | `[]OneActiveRun` | - |
| | `KeyIsServedByOneRun` | `[]KeyServesOneRun` | - |
| | `DeletionIsFinal` | `DeletedIdeaStays` | - |
| `IdeaGenerationProofs` | `TypeCorrect` | `[]TypeOK`: scores are at most 100 points | - |
| | `BudgetTheorem` | `[]BudgetKept` | - |
| | `SelectionIsCorrect` | `[]SelectionCorrect` | - |
| `VidIQProofs` | `BudgetHolds` | `[]CallsBudgeted` | no overlap |
| | `SkippingIsReported` | `[]PartialIsHonest` | no overlap |
| | `TypeCorrect` | `[]TypeOK`: search queues too | - |
| `ResearchSessionProofs` | `TypeCorrect` | `[]TypeOK` | - |
| | `AnswersInTheirTurns` | `[]AnswersFillTheirTurn` | `serial`, `punctual` |
| | `ReportIsMerged` | `[]ReportMergesItsTurns` | `serial`, `punctual` |
| | `SessionImplementsThread` | `ImplementsResearchThread` | - (`orderly` inside) |
| `IdeationProofs` | `TypeCorrect` | `[]TypeOK` | - |
| | `ScriptIsForPlan` | `[]ScriptMatchesPlan` | `PunctualAgent` |
| | `ScriptsAreKept` | `[]NoScriptLost` | `PunctualAgent`, `EditsWait` |
| | `WorkspaceImplementsDesk` | `ImplementsIdeationDesk` | `PunctualAgent`, `EditsWait` |
| `StoryPipelineProofs` | `TypeCorrect` | `[]TypeOK` | - |
| | `CompletedMeansScript` | `[]CompletedHasScript` | - |
| | `ScriptIsForSelection` | `[]ScriptMatchesSelection` | `calm` |
| | `ProgressMovesForward` | `StatusMovesForward` | `calm` |
| | `PipelineImplementsLifecycle` | `ImplementsStoryLifecycle` | - (`calm` inside) |
| `CorpusRebuildProofs` | `TypeCorrect` | `[]TypeOK` | - |
| | `NeverShrinks` | `CorpusNeverShrinks` | - |
| | `LibraryFollows` | `LibraryFollowsDocs` | `calm` |
| | `ServedNewest` | `ServedIsNewest` | `calm` |

`PunctualAgent`, `EditsWait` and the punctual phases of the lease are constants, hence
hypotheses of their theorems. The other provisos are history variables (in `VidIQ`, of each report) and stand
inside the property, so those theorems have no hypothesis: they speak of every
behaviour, and of each up to the step that breaks the proviso. Section 6 says what
happens after it. `DeadlineSurvivesRecovery`, `OneLiveWorker` and `TerminalIsFinal` are
proved and in no run: the last is implied by `ImplementsIdeaRun`, which `idea_lease`
checks. `AnswersFillTheirTurn`, `CompletedHasScript` and `NoScriptLost` are proved and
checked through the refinements they are part of (section 3).

Every inductive invariant below was checked by TLC on the instance of its run before it
was proved.

### The lease

Each action is first reduced to what it does to the row and the task it
touches (`NextEffect`: create, claim, renew, commit, fail, delete, bulk recovery, tick,
or a quiet move). `ExclusiveAttempt` is inductive with `TypeOK`: a claim raises
`attempts` in the same statement that changes `worker`, so an older task can never
again hold the newest number. It does not rule out a stale writer, so single storage
needs `PunctualOwner(P)`: a task in a phase of `P` is named as the row's worker, and
the row is deleted, or running under a lease that has not run out. A tick keeps it
because ticks that would outlive a punctual phase are excluded; a claim keeps it
because a running row can be claimed only after its lease. With it `StoredInv` (one
result set if completed and none otherwise, no error before a failure, no attempt
before the first claim) is inductive, because the flush happens in a state where the
row is still the worker's. The refinement adds `DeletingInv`, that a run whose deletion
is under way has a row or had one, so that the second half of the delete request is a
`Remove` or a stutter. Every step then maps to a step of `IdeaRun` or to a stutter.

### Requests about runs

A request acts in a later statement on what it looked up in an earlier one. `Typed` is
therefore `TypeOK` with `Targeted`: a request that stands at a statement about a run has
one. The unique index on active runs is `ActiveAlone`, stated without counting; it is
inductive because the insert tests it in the statement that writes, whatever the check
before it has seen. `OneActiveRun` follows, as a set any two members of which are equal
has at most one. That no idea is left without its run needs no strengthening: only a run
that is not completed moves on its own, and the cascade is part of the deleting
statement. For the keys, `KeyAlone` (the other index) is not enough: the key of a deleted run may be
used again, yet an earlier answer named the old run. `AnsweredToOwner` adds that a run
given as an answer was not another user's. That a deleted idea stays deleted
needs `IdeasOfEndedRuns`: only an ended run has ideas, and only of such runs do requests
in flight hold ideas, so no worker step and no late state change can write one again.

### A generation of ideas

`BudgetKept` alone says nothing of a call about to be charged; `Reserved` adds that only
research was charged before synthesis and that a call under way fits the budget with its
worst case. `Typed` adds to `TypeOK` that the evidence is a pair of lists (`Evident`) and
what was selected is the selection of what was accepted (`Chosen`). Most of the proof is
about data. The score is a sum of capped parts; each cap is a lemma. `Selection` sorts
and then folds: that a step of the fold preserves what `SelectionCorrect` says of a prefix is
carried to the whole list by the least counterexample (`WellFoundedInduction` gives
that a set of naturals has a least member; the least prefix for which the claim fails
is neither the empty one nor longer by one than one for which it holds). `Ranked` is a permutation whose ranks
rise, by counting those that go first.

### vidIQ

`Accounted` says for each fetch what it may rely on while nobody else uses its tool
(`Undisturbed`): the counter is what it was billed, a call under way started below the
budget, and a search was left out only at the budget. `UnderWay` and `Unstarted` pin down
where a fetch may stand. `PartialIsHonest` needs all of it, because the flag is set from a
counter read after another await. A chain of local moves (`SearchState` and its counterpart for trends)
states what a fetch becomes when it runs to its next await.

Types of a search queue (`Typed`) depend on how searches are chosen. A keyword's place
in the queue is the number of those that go before it or are it, by rank and then position. Two
keywords have two places, and no place exceeds their number, so every place up to
that number is taken, and each call of the queue is the search for a keyword that exists.

### Research sessions

Types hold whichever flushes overlap: a flush takes each column from the loaded row or the
new one, and both are rows. While `serial` and `punctual`, whoever has loaded the row
holds it as it is (`Writers`), and a live job answers the prompt of the running operation,
whose turn is the last (`OnTime`); only then is a flush the write of a whole row. `Begun` excludes
requests and jobs before the session exists. `Ledger` is the conjunction of the two
properties, which are inductive together only: the report of the newest turn is merged
into a row whose other turns are accounted for.

The refinement needs in addition that a prompt with a turn has been sent (`AskedOnce`),
so that the flush of a follow-up is an `Ask` of a new prompt. A load maps to a stutter,
a flush while `orderly` to one action of the thread or to a stutter, and a step that
breaks the order, or follows one that did, to `Disorder`.

### Ideation

What protects the row is that only one task is alive and the row says so (`Single`),
which fails as soon as the watchdog ends the operation of a live task; hence
`PunctualAgent`. Then what a task has read is still true when it writes (`Fresh`): the
plan is unchanged, a script exists if it did, and with `EditsWait` the script and its
versions too. `ScriptMatchesPlan` follows. `NoScriptLost` needs what the version list is, not only
what it contains: the last scripts in order without a gap (`Shelf`).

For the desk, `Filed` ties the row to the live task: the row names its kind, and so does what
its heartbeat will write back; the plan is still as its request left it (`Suits`:
an approved angle stands without hook and chapters until its task writes the hook). So
an answer, written column by column over the row, is a `Propose` from the plan
shown: parts it does not write were not changed meanwhile, and parts that
depend on what it writes are empty or cleared with it. The archive's cut of the list is
the desk's `Newest`.

### Stories

`TypeOK` of a story needs to know where a job stands in the graph (`GraphWalk`: a fresh
pipeline pauses before any node that needs an angle, a resumed one keeps the angle it
was given) and that no more angles are offered than jobs were started (`Counted`: each
live job that may still offer some is counted with those that have). `Family` says that
revisions have a story of their own, and `Artefacts` that a completed story has a script
and that a script comes with an analysis, which a rewrite starts from. While `calm`, `Ordered`
adds that one job is at work on a story, that a paused story has no script, that a job stands where the status
says (`Fits`) and that a source is left alone while it is revised (`SourceKept`).

The refinement adds `Choosing`: only the first story selects an angle, after its
pause, and a resumed pipeline works on a story past it. Then a pause is of a story without
angle and script, and a selection is the first. What needs no calm (one story changes at
a time, the deleted stay deleted, completion has a script) is shown for
every step, and becomes `Disorder` when the step ends the calm.

### The corpus

`Typed` needs `Sound` (a library's documents are of different videos of its channel) and
`JobSound`: what a rebuild carries is a snapshot of its documents and usable new ones that the snapshot does not have,
never more than are missing, and only a refresh rotates. That suffices for `NeverShrinks`, in every
behaviour: a rotation deletes at most as many rows as it adds, also when another rebuild has
changed the documents since the snapshot. While `calm`, rebuilds are `Alone`, so the documents follow the
snapshot through each phase (`Following`), a corpus grows from what it was at first
(`Bounded`), and versions rise, with the file's library among the rows (`Shelf`).
The lemmas are about subsequences: the members of `Those` are those asked for, in order, once each.

### Only model-checked

- Liveness: every property with `~>` or `<>`, as fairness and `ENABLED` are out of
  the prover's reach.
- `StoryEvidence`, with `ResearchGather` and `EpisodePlan` below it: a provider's answer, the merge and the
  outline's fit are built from `FlattenSeq`, `SelectSeq` and `SortSeq`, which the provers
  cannot expand, and what they return for every package would need induction over data.
- The three documented claims that the code does not keep (section 6).

## 6. Disagreements found

Recorded in `PROJECT.json` with their lines. Shown by a run: overlapping reports of one
research agent spend past the vidIQ budget; a late research answer drops citations; an
edit during an ideation operation is lost.

Met while modelling, without a run. *Idea Generator:* a late flush overwrites an
outcome when a process stalls between the guarded `SELECT` and the flush; the corpus
write after a commit is cancelled as lease-lost; a run read as queued is deleted at
work; a second request is answered with the first one's run or a 500, never with the
documented 409; keys of requests answered with another run are forgotten; a changed
request under a used key may get the other run; an administrator cannot retry
another user's run; a repair call that fails loses accepted ideas; the hard spend
ceiling does not bound research; several articles of one outlet outrank two
independent ones. *Evidence:* a keyword feed that answers in full leaves no page to be
read; a rewritten script has no dossier; an enrichment pass that fails after its merge reports
nothing new; a lane that opens with a blank query may be left out; a keyword filter
drops a selection that contains "none", and a failed distiller means no report.
*Stories:* an edit during an operation hides the operation from the watchdog; failed
regeneration of angles leaves a story without angles until it expires; selecting an
angle during regeneration is undone by it; a completed story may show the error of its
failed rewrite. *Corpus:* two rebuilds in a row are both accepted; two at once may
save two libraries of one version. *Sessions:* follow-up turns may collect vidIQ demand again.

## 7. Not modelled

`PROJECT.json` gives the reason for every part. In short: prompts and what a model
answers are nondeterministic; plan review, benchmark scoring, community questions, trend
memory and library knowledge only word prompts; accounts, administration, attachments,
exports and notifications are single-request reads and writes; the frontend keeps no
state the server relies on. Within modelled parts: texts, titles, revision numbers,
the statistics of a library, credibility of web sources and notifications. Two ideation requests
within milliseconds of each other are not interleaved (`Ideation` takes a request as
one step).

## 8. Plan

Done, in order of importance: lease protocol with refinement and proofs, research
sessions, ideation workspace, story pipeline, idea generation with its score, requests
about runs, vidIQ accounting, evidence and citations of a story, durations, corpus
rebuilds; abstract specifications of runs, research threads, the ideation desk and
stories, each proved to be implemented.

Next modules: ideation requests split into read and update; the retry and fallback
paths inside one model call, as far as they have state.

Next abstract specifications: what a story's evidence promises its script (a list of
sources that only grows, citations into it), implemented by `StoryEvidence`.

Next theorems: those of `StoryEvidence`, once a provider's answer and the merge are
stated by what they keep (members, order, one entry per address) instead of by the
library's folds.
