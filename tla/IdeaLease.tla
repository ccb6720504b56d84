------------------------------- MODULE IdeaLease -------------------------------
(* The database lease under which backend processes execute Idea Generator      *)
(* runs (backend/api/routes/idea_generations.py).                               *)
(*                                                                              *)
(* Several processes share one PostgreSQL database. A process claims a run with *)
(* one conditional UPDATE, renews its lease on a heartbeat, stores the result   *)
(* with a guarded SELECT followed by an unguarded ORM flush, and reports errors *)
(* with a conditional UPDATE. Each process also polls for queued and abandoned  *)
(* runs. A process may stop at any point, and may stall at any point outside    *)
(* the phases listed in Punctual.                                               *)
(*                                                                              *)
(* Time is relative: a row holds the ticks left of its lease and the ticks      *)
(* since started_at, so the state space is finite without a bound on the clock. *)
EXTENDS Naturals

CONSTANTS Workers,      \* incarnations of a backend process: one _WORKER_ID each
          Runs,         \* run identifiers
          None,         \* SQL NULL, for a row's worker_id
          MaxAttempts,  \* idea_generator_max_worker_attempts
          LeaseTicks,   \* idea_generator_worker_lease_seconds, in ticks
          TotalTicks,   \* idea_generator_total_timeout_seconds, in ticks
          Punctual      \* phases in which a live worker does not outlive its lease

VARIABLES row,          \* idea_generation_runs
          ideas,        \* generated_ideas: result sets stored per run
          deleting,     \* runs whose DELETE request has passed its check
          up,           \* "new", "up" or "down", per process
          task          \* the asyncio task of each process for each run

vars == <<row, ideas, deleting, up, task>>

--------------------------------------------------------------------------------
Active   == {"queued", "running"}
Terminal == {"completed", "failed"}
Status   == {"absent", "deleted"} \cup Active \cup Terminal

\* Where a task is. "generating": inside the agent; "selecting": result in hand,
\* stage set to saving_ideas; "flushing": the guarded SELECT has succeeded and
\* the flush has not; "recording": committed, feeding the trend corpus.
Saving   == {"selecting", "flushing"}
Working  == {"claimed", "generating"} \cup Saving
Beating  == {"generating", "recording"} \cup Saving
Failing  == {"generation_timed_out", "generation_failed"}
Phase    == {"idle", "scheduled", "recording", "lost"} \cup Working \cup Failing

\* lease = 0 stands for a NULL lease too: every reader treats the two alike.
Row == [status: Status, worker: Workers \cup {None}, lease: 0..LeaseTicks,
        elapsed: 0..TotalTicks, attempts: 0..MaxAttempts,
        error: {"none", "interrupted"} \cup Failing]

Task == [pc: Phase, attempt: 0..MaxAttempts]

ASSUME NoneAssumption     == None \notin Workers
ASSUME AttemptsAssumption == MaxAttempts \in Nat \ {0}
ASSUME TicksAssumption    == LeaseTicks \in Nat \ {0} /\ TotalTicks \in Nat \ {0}
ASSUME PunctualAssumption == Punctual \subseteq Working

NoRow  == [status |-> "absent", worker |-> None, lease |-> 0, elapsed |-> 0,
           attempts |-> 0, error |-> "none"]
NoTask == [pc |-> "idle", attempt |-> 0]

Init ==
  /\ row = [r \in Runs |-> NoRow]
  /\ ideas = [r \in Runs |-> 0]
  /\ deleting = {}
  /\ up \in [Workers -> {"new", "up"}]
  /\ task = [w \in Workers |-> [r \in Runs |-> NoTask]]

Expired(r) == row[r].lease = 0

\* The WHERE clause of every write a worker makes about its own run.
Owned(w, r) == row[r].status = "running" /\ row[r].worker = w

\* Faulty: the limit on attempts is forgotten.
ClaimableUnbounded(r) ==
  row[r].status = "queued" \/ (row[r].status = "running" /\ Expired(r))

Claimable(r) ==
  /\ row[r].attempts < MaxAttempts
  /\ row[r].status = "queued" \/ (row[r].status = "running" /\ Expired(r))

\* Faulty: recovery does not look at the lease.
ExhaustedUnexpired(r) == row[r].status \in Active /\ row[r].attempts >= MaxAttempts

\* Faulty: recovery only cleans up runs that never started.
ExhaustedQueued(r) == row[r].status = "queued" /\ row[r].attempts >= MaxAttempts

Exhausted(r) ==
  /\ row[r].status \in Active
  /\ row[r].attempts >= MaxAttempts
  /\ row[r].status = "queued" \/ Expired(r)

Put(r, new)      == row'  = [row EXCEPT ![r] = new]
Assign(w, r, t)  == task' = [task EXCEPT ![w][r] = t]
MoveTo(w, r, pc) == Assign(w, r, [task[w][r] EXCEPT !.pc = pc])
Renew(r)         == Put(r, [row[r] EXCEPT !.lease = LeaseTicks])

\* The columns every failure report writes.
Failed(r, code) == [row[r] EXCEPT !.status = "failed", !.worker = None, !.lease = 0,
                                  !.error = code]

\* A write guarded by Owned that renews the lease: on success the task moves to
\* next, on rowcount 0 it raises IdeaGenerationLeaseLost.
RenewOrLose(w, r, next) ==
  \/ Owned(w, r) /\ Renew(r) /\ MoveTo(w, r, next)
  \/ ~Owned(w, r) /\ MoveTo(w, r, "lost") /\ UNCHANGED row

--------------------------------------------------------------------------------
\* POST /idea-generations: the row is inserted and a task is scheduled here.
Create(w, r) ==
  /\ up[w] = "up"
  /\ row[r].status = "absent"
  /\ Put(r, [row[r] EXCEPT !.status = "queued"])
  /\ MoveTo(w, r, "scheduled")
  /\ UNCHANGED <<ideas, deleting, up>>

\* Faulty: a takeover does not count as an attempt.
ClaimUncounted(w, r) ==
  LET attempt == row[r].attempts + (IF row[r].status = "queued" THEN 1 ELSE 0) IN
  /\ task[w][r].pc = "scheduled"
  /\ Claimable(r)
  /\ Put(r, [row[r] EXCEPT !.status = "running", !.worker = w, !.lease = LeaseTicks,
                            !.attempts = attempt, !.error = "none"])
  /\ Assign(w, r, [pc |-> "claimed", attempt |-> attempt])
  /\ UNCHANGED <<ideas, deleting, up>>

\* The conditional UPDATE ... RETURNING that makes w the owner.
Claim(w, r) ==
  /\ task[w][r].pc = "scheduled"
  /\ Claimable(r)
  /\ Put(r, [row[r] EXCEPT !.status = "running", !.worker = w, !.lease = LeaseTicks,
                            !.attempts = @ + 1, !.error = "none"])
  /\ Assign(w, r, [pc |-> "claimed", attempt |-> row[r].attempts + 1])
  /\ UNCHANGED <<ideas, deleting, up>>

ClaimSkipped(w, r) ==
  /\ task[w][r].pc = "scheduled"
  /\ ~Claimable(r)
  /\ MoveTo(w, r, "idle")
  /\ UNCHANGED <<row, ideas, deleting, up>>

\* remaining_seconds is computed once, from the first claim's started_at.
CheckDeadline(w, r) ==
  /\ task[w][r].pc = "claimed"
  /\ MoveTo(w, r, IF row[r].elapsed < TotalTicks THEN "generating"
                                                 ELSE "generation_timed_out")
  /\ UNCHANGED <<row, ideas, deleting, up>>

\* The heartbeat runs beside the generation until that ends, corpus write included.
Heartbeat(w, r) ==
  /\ task[w][r].pc \in Beating
  /\ RenewOrLose(w, r, task[w][r].pc)
  /\ UNCHANGED <<ideas, deleting, up>>

\* on_stage, called by the agent between its phases.
EnterStage(w, r) ==
  /\ task[w][r].pc = "generating"
  /\ RenewOrLose(w, r, "generating")
  /\ UNCHANGED <<ideas, deleting, up>>

\* The agent has returned: the stage becomes saving_ideas.
SaveStage(w, r) ==
  /\ task[w][r].pc = "generating"
  /\ RenewOrLose(w, r, "selecting")
  /\ UNCHANGED <<ideas, deleting, up>>

\* _persist_generation_result, first half: the guard is a plain SELECT.
PersistSelect(w, r) ==
  /\ task[w][r].pc = "selecting"
  /\ MoveTo(w, r, IF Owned(w, r) THEN "flushing" ELSE "lost")
  /\ UNCHANGED <<row, ideas, deleting, up>>

\* Second half: the flush updates the row by primary key alone. It writes the
\* columns whose loaded value changed, so error_code, NULL when selected, keeps
\* whatever the row holds by now. On a deleted row the inserts fail.
PersistCommit(w, r) ==
  /\ task[w][r].pc = "flushing"
  /\ \/ /\ row[r].status # "deleted"
        /\ Put(r, [row[r] EXCEPT !.status = "completed", !.worker = None,
                                  !.lease = 0])
        /\ ideas' = [ideas EXCEPT ![r] = @ + 1]
        /\ MoveTo(w, r, "recording")
     \/ /\ row[r].status = "deleted"
        /\ MoveTo(w, r, "generation_failed")
        /\ UNCHANGED <<row, ideas>>
  /\ UNCHANGED <<deleting, up>>

\* The best-effort corpus write ends, one way or the other, and with it the task.
RecordCorpus(w, r) ==
  /\ task[w][r].pc = "recording"
  /\ MoveTo(w, r, "idle")
  /\ UNCHANGED <<row, ideas, deleting, up>>

\* An exception of the agent, of a database call or of the heartbeat.
GenerationError(w, r) ==
  /\ task[w][r].pc \in Beating
  /\ MoveTo(w, r, "generation_failed")
  /\ UNCHANGED <<row, ideas, deleting, up>>

\* asyncio.wait_for cancels the generation and its heartbeat.
Timeout(w, r) ==
  /\ task[w][r].pc \in Beating
  /\ row[r].elapsed = TotalTicks
  /\ MoveTo(w, r, "generation_timed_out")
  /\ UNCHANGED <<row, ideas, deleting, up>>

\* Faulty: the failure report does not check that the worker still owns the run.
MarkFailedUnguarded(w, r) ==
  /\ task[w][r].pc \in Failing
  /\ IF row[r].status # "deleted" THEN Put(r, Failed(r, task[w][r].pc))
                                  ELSE UNCHANGED row
  /\ MoveTo(w, r, "idle")
  /\ UNCHANGED <<ideas, deleting, up>>

MarkFailed(w, r) ==
  /\ task[w][r].pc \in Failing
  /\ IF Owned(w, r) THEN Put(r, Failed(r, task[w][r].pc)) ELSE UNCHANGED row
  /\ MoveTo(w, r, "idle")
  /\ UNCHANGED <<ideas, deleting, up>>

\* The claim or the failure report itself raises: the task ends, the row stays.
TaskCrash(w, r) ==
  /\ task[w][r].pc \in {"scheduled"} \cup Failing
  /\ MoveTo(w, r, "idle")
  /\ UNCHANGED <<row, ideas, deleting, up>>

\* IdeaGenerationLeaseLost is logged and swallowed.
StopQuietly(w, r) ==
  /\ task[w][r].pc = "lost"
  /\ MoveTo(w, r, "idle")
  /\ UNCHANGED <<row, ideas, deleting, up>>

--------------------------------------------------------------------------------
\* One pass of the recovery loop: exhausted runs fail in bulk, the rest are
\* scheduled unless this process still has a task for them.
Recover(w) ==
  LET toSchedule == {r \in Runs : Claimable(r) /\ task[w][r].pc = "idle"} IN
  /\ up[w] = "up"
  /\ toSchedule # {} \/ \E r \in Runs : Exhausted(r)
  /\ row' = [r \in Runs |->
       IF Exhausted(r) THEN Failed(r, "interrupted") ELSE row[r]]
  /\ task' = [task EXCEPT ![w] = [r \in Runs |->
       IF r \in toSchedule THEN [task[w][r] EXCEPT !.pc = "scheduled"]
                           ELSE task[w][r]]]
  /\ UNCHANGED <<ideas, deleting, up>>

Start(w) ==
  /\ up[w] = "new"
  /\ up' = [up EXCEPT ![w] = "up"]
  /\ UNCHANGED <<row, ideas, deleting, task>>

\* A crash, or a shutdown that cancels the tasks: both leave the rows as they are.
\* Some other incarnation is running or will start (min_machines_running = 1).
Stop(w) ==
  /\ up[w] = "up"
  /\ \E v \in Workers \ {w} : up[v] # "down"
  /\ up' = [up EXCEPT ![w] = "down"]
  /\ task' = [task EXCEPT ![w] = [r \in Runs |-> NoTask]]
  /\ UNCHANGED <<row, ideas, deleting>>

\* DELETE /idea-generations/{id}: a read that decides, then a delete by id.
DeleteCheck(r) ==
  /\ r \notin deleting
  /\ row[r].status \in Active \cup Terminal
  /\ ~(row[r].status \in Active /\ ~Expired(r))
  /\ deleting' = deleting \cup {r}
  /\ UNCHANGED <<row, ideas, up, task>>

\* Faulty: the ideas of a deleted run stay.
DeleteOrphans(r) ==
  /\ r \in deleting
  /\ deleting' = deleting \ {r}
  /\ Put(r, [row[r] EXCEPT !.status = "deleted", !.lease = 0])
  /\ UNCHANGED <<ideas, up, task>>

\* The row and, by cascade, its ideas go; worker_id is kept here as a tombstone.
DeleteCommit(r) ==
  /\ r \in deleting
  /\ deleting' = deleting \ {r}
  /\ Put(r, [row[r] EXCEPT !.status = "deleted", !.lease = 0])
  /\ ideas' = [ideas EXCEPT ![r] = 0]
  /\ UNCHANGED <<up, task>>

\* Time since started_at runs from the first claim on, whatever becomes of the run.
Later(r) == [row[r] EXCEPT
  !.lease   = IF @ > 0 THEN @ - 1 ELSE 0,
  !.elapsed = IF row[r].attempts > 0 /\ @ < TotalTicks THEN @ + 1 ELSE @]

\* A tick of wall-clock time, unless it would end the lease of a punctual worker.
Tick ==
  /\ \A w \in Workers, r \in Runs :
       Owned(w, r) /\ row[r].lease = 1 => task[w][r].pc \notin Punctual
  /\ row' = [r \in Runs |-> Later(r)]
  /\ row' # row
  /\ UNCHANGED <<ideas, deleting, up, task>>

Step(w, r) ==
  \/ Create(w, r) \/ Claim(w, r) \/ ClaimSkipped(w, r) \/ CheckDeadline(w, r)
  \/ Heartbeat(w, r) \/ EnterStage(w, r) \/ SaveStage(w, r)
  \/ PersistSelect(w, r) \/ PersistCommit(w, r) \/ RecordCorpus(w, r)
  \/ GenerationError(w, r) \/ Timeout(w, r) \/ MarkFailed(w, r)
  \/ TaskCrash(w, r) \/ StopQuietly(w, r)

Next ==
  \/ \E w \in Workers, r \in Runs : Step(w, r)
  \/ \E w \in Workers : Recover(w) \/ Start(w) \/ Stop(w)
  \/ \E r \in Runs : DeleteCheck(r) \/ DeleteCommit(r)
  \/ Tick

Spec == Init /\ [][Next]_vars

\* The event loop of a live process keeps scheduling its tasks, the heartbeat,
\* the timer and the recovery loop, the database does not refuse every claim, and
\* time passes. Nothing makes the agent finish, users create or delete runs, or
\* processes stop.
Fairness ==
  /\ WF_vars(Tick)
  /\ \A w \in Workers :
       /\ WF_vars(Start(w))
       /\ WF_vars(Recover(w))
       /\ \A r \in Runs :
            /\ SF_vars(Claim(w, r))
            /\ WF_vars(ClaimSkipped(w, r))
            /\ WF_vars(CheckDeadline(w, r))
            /\ WF_vars(Heartbeat(w, r))
            /\ WF_vars(Timeout(w, r))
            /\ WF_vars(MarkFailed(w, r))
            /\ WF_vars(StopQuietly(w, r))

FairSpec == Spec /\ Fairness

--------------------------------------------------------------------------------
\* Every variable stays within the types of the columns and of the task table.
TypeOK ==
  /\ row \in [Runs -> Row]
  /\ ideas \in [Runs -> Nat]
  /\ deleting \in SUBSET Runs
  /\ up \in [Workers -> {"new", "up", "down"}]
  /\ task \in [Workers -> [Runs -> Task]]

\* The cross-process lock (_claim_generation_run): an attempt number belongs to
\* one worker, and while the run is running the newest attempt that is still
\* being executed is the row's owner.
ExclusiveAttempt ==
  \A r \in Runs, v, w \in Workers :
    /\ task[w][r].pc \in Working =>
         /\ task[w][r].attempt <= row[r].attempts
         /\ task[w][r].attempt = row[r].attempts /\ row[r].status = "running"
              => row[r].worker = w
    /\ v # w /\ task[v][r].pc \in Working /\ task[w][r].pc \in Working
         => task[v][r].attempt # task[w][r].attempt

\* No provider call is made twice at the same time: while heartbeats are
\* punctual, a run is worked on by one process at most.
OneLiveWorker ==
  \A r \in Runs, v, w \in Workers :
    task[v][r].pc \in Working /\ task[w][r].pc \in Working => v = w

\* A run has stored ideas exactly when it is completed, one result set, and then
\* shows no error: nothing half-saved survives a crash, a takeover or a retry.
ResultMatchesStatus ==
  \A r \in Runs :
    /\ ideas[r] = IF row[r].status = "completed" THEN 1 ELSE 0
    /\ row[r].status = "completed" => row[r].error = "none"

\* A run that ended stays as it ended until its owner deletes it: a stale worker
\* stops "without overwriting its status" (idea_generations.py:606-608).
TerminalIsFinal ==
  [][\A r \in Runs : row[r].status \in Terminal =>
       row'[r].status \in {row[r].status, "deleted"}]_vars

\* Recovery never extends the five minutes: started_at survives every takeover,
\* so the time already spent is never given back (config.py:170-174).
DeadlineSurvivesRecovery ==
  [][\A r \in Runs : row'[r].elapsed >= row[r].elapsed]_vars

\* A worker's record is taken from it only by the clock: an owner is replaced, or
\* its run is failed as interrupted, only after its lease ran out.
LeaseRespected ==
  [][\A r \in Runs, w \in Workers :
       Owned(w, r) /\ ~Expired(r) /\ row'[r].status \in Active \cup {"failed"}
         => \/ row'[r].worker = w
            \/ row'[r].error \in Failing /\ task[w][r].pc = row'[r].error]_vars

\* Whatever stops, stalls or fails, a queued or running run ends.
EveryRunEnds ==
  \A r \in Runs : row[r].status \in Active ~> row[r].status \notin Active

\* The lease protocol implements the promised lifecycle.
Promise == INSTANCE IdeaRun WITH
  status   <- [r \in Runs |-> row[r].status],
  attempts <- [r \in Runs |-> row[r].attempts]

ImplementsIdeaRun == Promise!Spec
================================================================================
