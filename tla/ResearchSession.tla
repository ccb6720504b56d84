---------------------------- MODULE ResearchSession ----------------------------
(* One Research workspace session (backend/api/routes/research_sessions.py):    *)
(* follow-up requests, the background jobs that answer them, the stale-pipeline *)
(* watchdog (backend/services/stale_pipeline_watchdog.py), deletion and process *)
(* stops.                                                                       *)
(*                                                                              *)
(* Nobody locks the row. Every writer loads it through the ORM, computes new    *)
(* column values and flushes the columns that differ from what it loaded; other *)
(* writers may commit in between. The request for prompt 1 creates the session, *)
(* the later ones are follow-ups. An answer is named by the prompt it answers,  *)
(* brings one citation of that name and counts one web search.                  *)
EXTENDS Integers, Sequences, FiniteSets

CONSTANTS MaxTurns,       \* bound: prompts a user sends to the session
          StaleTicks      \* STALE_THRESHOLD_MINUTES, in ticks

VARIABLES row,            \* research_sessions
          age,            \* ticks since operation_started_at
          request,        \* POST .../turns, per prompt
          job,            \* the background task of each prompt
          watchdog,       \* the pass of mark_stale_pipelines_failed over the row
          serial,         \* history: no writer loaded the row before another's flush
          punctual        \* history: no operation outlived the threshold

vars == <<row, age, request, job, watchdog, serial, punctual>>

--------------------------------------------------------------------------------
ASSUME TurnsAssumption == MaxTurns \in Nat \ {0}
ASSUME StaleAssumption == StaleTicks \in Nat \ {0}

Prompts  == 1..MaxTurns
NoPrompt == 0             \* NULL or empty pending_prompt
NoAnswer == -1            \* empty report_markdown
Answers  == {NoPrompt} \cup Prompts

Turn == [prompt: Prompts, status: {"running", "completed", "failed"},
         answer: Answers \cup {NoAnswer}]

Row == [status: {"absent", "running", "completed", "failed", "deleted"},
        op: {"none", "initial", "turn"}, prompt: Prompts \cup {NoPrompt},
        error: {"none", "failed", "stale"}, demand: BOOLEAN,
        report: Answers \cup {NoAnswer}, cites: SUBSET Answers, searches: Nat,
        turns: Seq(Turn)]

NoRow == [status |-> "absent", op |-> "none", prompt |-> NoPrompt, error |-> "none",
          demand |-> FALSE, report |-> NoAnswer, cites |-> {}, searches |-> 0,
          turns |-> <<>>]

\* A job carries what it read at its start, and later the row it is about to
\* update and how the agent ended.
Outcome == {"none", "error", "answer", "answer_and_demand"}
Job == [pc: {"none", "scheduled", "agent", "loaded"}, prompt: Answers,
        cites: SUBSET Answers, fetch: BOOLEAN, outcome: Outcome, mem: Row]

NoJob    == [pc |-> "none", prompt |-> NoPrompt, cites |-> {}, fetch |-> FALSE,
             outcome |-> "none", mem |-> NoRow]

\* A request or a watchdog pass between its SELECT and its flush.
Loader == [pc: {"new", "loaded", "sent"}, mem: Row]
Fresh  == [pc |-> "new", mem |-> NoRow]
Loaded == [pc |-> "loaded", mem |-> row]
Sent   == [pc |-> "sent", mem |-> NoRow]

Init ==
  /\ row = NoRow
  /\ age = 0
  /\ request = [p \in Prompts |-> Fresh]
  /\ job = [p \in Prompts |-> NoJob]
  /\ watchdog = Fresh
  /\ serial = TRUE /\ punctual = TRUE

Exists == row.status \notin {"absent", "deleted"}
Live(p) == job[p].pc # "none"

Flushed ==
  /\ watchdog.pc # "loaded"
  /\ \A p \in Prompts : job[p].pc # "loaded" /\ request[p].pc # "loaded"

Loads == serial' = (serial /\ Flushed) /\ UNCHANGED punctual

\* The ORM flush: UPDATE of the columns that differ from the loaded ones, by
\* primary key; on a deleted row it updates nothing and raises. A turn's completed_at
\* is left out: where no writer overlaps another, the row is mem and it cannot matter.
Flush(mem, new) ==
  IF Exists THEN [c \in DOMAIN row |-> IF new[c] # mem[c] THEN new[c] ELSE row[c]]
            ELSE row

\* _mark_latest_turn: the last turn by position, whichever prompt it belongs to.
MarkLatest(turns, status, answer) ==
  IF turns = <<>> THEN turns
  ELSE [turns EXCEPT ![Len(turns)].status = status,
                     ![Len(turns)].answer = IF answer = NoAnswer THEN @ ELSE answer]

\* Faulty: a failed operation goes back to pending, which no code leaves.
EndedPending(mem, status, error, answer) ==
  [mem EXCEPT !.status = IF status = "failed" THEN "pending" ELSE status,
              !.op = "none", !.prompt = NoPrompt, !.error = error,
              !.turns = MarkLatest(@, status, answer)]

Ended(mem, status, error, answer) ==
  [mem EXCEPT !.status = status, !.op = "none", !.prompt = NoPrompt, !.error = error,
              !.turns = MarkLatest(@, status, answer)]

\* Faulty: a follow-up stores only its own citations.
AnsweredUnmerged(p, mem) ==
  [Ended(mem, "completed", "none", job[p].prompt) EXCEPT
     !.demand   = @ \/ job[p].outcome = "answer_and_demand",
     !.report   = job[p].prompt,
     !.cites    = {job[p].prompt},
     !.searches = IF p = 1 THEN 1 ELSE @ + 1]

\* The citations of a follow-up are merged into those read when its job started.
Answered(p, mem) ==
  [Ended(mem, "completed", "none", job[p].prompt) EXCEPT
     !.demand   = @ \/ job[p].outcome = "answer_and_demand",
     !.report   = job[p].prompt,
     !.cites    = IF p = 1 THEN {job[p].prompt} ELSE job[p].cites \cup {job[p].prompt},
     !.searches = IF p = 1 THEN 1 ELSE @ + 1]

--------------------------------------------------------------------------------
CreateSession ==
  /\ row.status = "absent"
  /\ row' = [row EXCEPT !.status = "running", !.op = "initial", !.prompt = 1,
       !.turns = <<[prompt |-> 1, status |-> "running", answer |-> NoAnswer]>>]
  /\ age' = 0
  /\ request' = [request EXCEPT ![1] = Sent]
  /\ job' = [job EXCEPT ![1].pc = "scheduled"]
  /\ UNCHANGED <<watchdog, serial, punctual>>

\* Faulty: a prompt is accepted while the one before it is being answered.
AddTurnLoadAnyTime(p) ==
  /\ Exists
  /\ request[p].pc = "new"
  /\ \A q \in Prompts : q < p => request[q].pc # "new"
  /\ Loads
  /\ request' = [request EXCEPT ![p] = Loaded]
  /\ UNCHANGED <<row, age, job, watchdog>>

\* add_turn up to its check. Prompts are numbered in the order in which their
\* requests pass it; a request that finds a running session gets 409 instead.
AddTurnLoad(p) ==
  /\ Exists /\ row.status # "running"
  /\ request[p].pc = "new"
  /\ \A q \in Prompts : q < p => request[q].pc # "new"
  /\ Loads
  /\ request' = [request EXCEPT ![p] = Loaded]
  /\ UNCHANGED <<row, age, job, watchdog>>

\* The rest of add_turn: the flush, and the background task it leaves behind.
AddTurnFlush(p) ==
  LET mem == request[p].mem IN
  /\ request[p].pc = "loaded"
  /\ request' = [request EXCEPT ![p] = Sent]
  /\ row' = Flush(mem, [mem EXCEPT !.status = "running", !.op = "turn", !.prompt = p,
       !.error = "none",
       !.turns = Append(@, [prompt |-> p, status |-> "running", answer |-> NoAnswer])])
  /\ age' = IF Exists THEN 0 ELSE age
  /\ job' = IF Exists THEN [job EXCEPT ![p].pc = "scheduled"] ELSE job
  /\ UNCHANGED <<watchdog, serial, punctual>>

\* The job reads the session's pending prompt, not the prompt it was created for.
\* Only the initial job refuses an empty one.
JobStart(p) ==
  /\ job[p].pc = "scheduled"
  /\ Loads
  /\ job' = [job EXCEPT ![p] =
       IF ~Exists THEN NoJob
       ELSE IF p = 1 /\ row.prompt = NoPrompt
            THEN [NoJob EXCEPT !.pc = "loaded", !.outcome = "error", !.mem = row]
       ELSE [NoJob EXCEPT !.pc = "agent", !.prompt = row.prompt, !.cites = row.cites,
                          !.fetch = ~row.demand]]
  /\ UNCHANGED <<row, age, request, watchdog>>

\* The agent returns or raises; the job loads the row again.
AgentEnds(p, outcome) ==
  /\ job[p].pc = "agent"
  /\ Loads
  /\ outcome = "answer_and_demand" => job[p].fetch
  /\ job' = [job EXCEPT ![p] =
       IF Exists THEN [@ EXCEPT !.pc = "loaded", !.outcome = outcome, !.mem = row]
                 ELSE NoJob]
  /\ UNCHANGED <<row, age, request, watchdog>>

JobFlush(p) ==
  LET mem == job[p].mem IN
  /\ job[p].pc = "loaded"
  /\ row' = Flush(mem, IF job[p].outcome = "error"
                       THEN Ended(mem, "failed", "failed", NoAnswer)
                       ELSE Answered(p, mem))
  /\ job' = [job EXCEPT ![p] = NoJob]
  /\ UNCHANGED <<age, request, watchdog, serial, punctual>>

\* Faulty: the watchdog only looks for follow-ups.
WatchdogLoadFollowUps ==
  /\ row.status = "running" /\ age = StaleTicks /\ row.op = "turn"
  /\ watchdog.pc = "new" /\ Loads
  /\ watchdog' = Loaded
  /\ UNCHANGED <<row, age, request, job>>

WatchdogLoad ==
  /\ row.status = "running" /\ age = StaleTicks
  /\ watchdog.pc = "new" /\ Loads
  /\ watchdog' = Loaded
  /\ UNCHANGED <<row, age, request, job>>

WatchdogFlush ==
  LET mem == watchdog.mem IN
  /\ watchdog.pc = "loaded"
  /\ row' = Flush(mem, Ended(mem, "failed", "stale", NoAnswer))
  /\ watchdog' = Fresh
  /\ UNCHANGED <<age, request, job, serial, punctual>>

DeleteSession ==
  /\ Exists
  /\ row' = [NoRow EXCEPT !.status = "deleted"]
  /\ UNCHANGED <<age, request, job, watchdog, serial, punctual>>

\* The process stops and another starts: tasks and requests in flight are gone.
Restart ==
  /\ \/ \E p \in Prompts : Live(p) \/ request[p].pc = "loaded"
     \/ watchdog.pc = "loaded"
  /\ job' = [p \in Prompts |-> NoJob]
  /\ request' = [p \in Prompts |-> IF request[p].pc = "loaded" THEN Sent ELSE request[p]]
  /\ watchdog' = Fresh
  /\ UNCHANGED <<row, age, serial, punctual>>

\* The age of an operation, counted up to the threshold. A tick is long: whoever
\* has loaded the row flushes within it.
Tick ==
  /\ row.status = "running" /\ age < StaleTicks
  /\ Flushed
  /\ punctual' = (punctual /\ (age = StaleTicks - 1 => \A p \in Prompts : ~Live(p)))
  /\ age' = age + 1
  /\ UNCHANGED <<row, request, job, watchdog, serial>>

Next ==
  \/ CreateSession
  \/ \E p \in Prompts :
       \/ AddTurnLoad(p) \/ AddTurnFlush(p) \/ JobStart(p) \/ JobFlush(p)
       \/ \E outcome \in Outcome \ {"none"} : AgentEnds(p, outcome)
  \/ WatchdogLoad \/ WatchdogFlush
  \/ DeleteSession \/ Restart \/ Tick

Spec == Init /\ [][Next]_vars

\* Time passes, the database answers and the watchdog's loop runs in whichever
\* process is up; stops do not hit every pass of it. Nothing makes the agent return.
Fairness ==
  /\ WF_vars(Tick) /\ WF_vars(WatchdogLoad) /\ SF_vars(WatchdogFlush)
  /\ \A p \in Prompts : WF_vars(AddTurnFlush(p)) /\ WF_vars(JobFlush(p))

FairSpec == Spec /\ Fairness

--------------------------------------------------------------------------------
\* Every variable stays within the types of the columns and of the tasks.
TypeOK ==
  /\ row \in Row
  /\ age \in 0..StaleTicks
  /\ request \in [Prompts -> Loader]
  /\ job \in [Prompts -> Job]
  /\ watchdog \in Loader

DoneTurns   == {i \in DOMAIN row.turns : row.turns[i].status = "completed"}
DonePrompts == {row.turns[i].prompt : i \in DoneTurns}

\* An answer lands in the turn that asked for it, and that turn is completed, whatever
\* failed, stopped or was ended by the watchdog before: as long as no two writers
\* overlapped and no answer came after the watchdog had given up on it (a part of
\* ImplementsResearchThread).
AnswersFillTheirTurn ==
  serial /\ punctual => \A i \in DOMAIN row.turns :
    IF row.turns[i].status = "completed" THEN row.turns[i].answer = row.turns[i].prompt
                                         ELSE row.turns[i].answer = NoAnswer

\* The consolidated columns are those of the completed turns: the report is the
\* newest one's, no citation of an earlier one is lost and every search counts
\* ("the merged citation list grows accordingly", models/research_session.py:6).
ReportMergesItsTurns ==
  serial /\ punctual /\ Exists =>
    /\ row.cites = DonePrompts
    /\ \A i \in DoneTurns : (\A k \in DoneTurns : k <= i) => row.report = row.turns[i].answer
    /\ DoneTurns = {} => row.report = NoAnswer
    /\ row.searches = Cardinality(DoneTurns)

\* No citation that a completed turn brought leaves the session's merged list, even when
\* an answer is late; overlapping writers are set aside.
CitationsGrow ==
  [][serial' /\ Exists /\ row'.status # "deleted" => row.cites \subseteq row'.cites]_vars

\* What the page of a session sees: overlaps, stops, the watchdog and what the writers
\* carry are hidden. A flush is one step of the thread, whoever loaded the row before it.
Thread == INSTANCE ResearchThread WITH
  Prompts <- Prompts, NoAnswer <- NoAnswer,
  state <- row.status, thread <- row.turns, report <- row.report, cites <- row.cites,
  searches <- row.searches, orderly <- serial /\ punctual

\* A session keeps what its thread promises: one prompt at a time and each once, an ended
\* turn never touched again, its own answer merged into the report and none counted
\* twice; after a deletion nothing, not even a late writer, brings anything back.
ImplementsResearchThread == Thread!Spec

\* A session does not run forever: the watchdog ends what a stopped process or a
\* hanging provider left behind (stale_pipeline_watchdog.py:4-8).
EverySessionSettles == row.status = "running" ~> row.status # "running"
================================================================================
