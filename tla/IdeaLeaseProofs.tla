---------------------------- MODULE IdeaLeaseProofs ----------------------------
(* Machine-checked proofs of IdeaLease's safety properties, for any number of   *)
(* processes and runs, any lease length and any bound on attempts.              *)
EXTENDS IdeaLease, TLAPS

--------------------------------------------------------------------------------
(* What the two kinds of write do. *)

LEMMA PutRow ==
  ASSUME row \in [Runs -> Row], NEW r \in Runs, NEW new \in Row, Put(r, new)
  PROVE  /\ row' \in [Runs -> Row]
         /\ row'[r] = new
         /\ \A s \in Runs : s # r => row'[s] = row[s]
  BY DEF Put

LEMMA AssignTask ==
  ASSUME task \in [Workers -> [Runs -> Task]], NEW w \in Workers, NEW r \in Runs,
         NEW t \in Task, Assign(w, r, t)
  PROVE  /\ task' \in [Workers -> [Runs -> Task]]
         /\ task'[w][r] = t
         /\ \A v \in Workers, s \in Runs :
              ~(v = w /\ s = r) => task'[v][s] = task[v][s]
  BY DEF Assign

LEMMA MoveTask ==
  ASSUME task \in [Workers -> [Runs -> Task]], NEW w \in Workers, NEW r \in Runs,
         NEW pc \in Phase, MoveTo(w, r, pc)
  PROVE  /\ task' \in [Workers -> [Runs -> Task]]
         /\ task'[w][r].pc = pc
         /\ task'[w][r].attempt = task[w][r].attempt
         /\ \A v \in Workers, s \in Runs :
              ~(v = w /\ s = r) => task'[v][s] = task[v][s]
<1> DEFINE t == [task[w][r] EXCEPT !.pc = pc]
<1>1. t \in Task /\ t.pc = pc /\ t.attempt = task[w][r].attempt
  BY DEF Task
<1>2. Assign(w, r, t)
  BY DEF MoveTo
<1> HIDE DEF t
<1>3. QED
  BY <1>1, <1>2, AssignTask

LEMMA RenewedRow ==
  ASSUME row \in [Runs -> Row], NEW r \in Runs, Renew(r)
  PROVE  /\ row' \in [Runs -> Row]
         /\ row'[r] = [row[r] EXCEPT !.lease = LeaseTicks]
         /\ \A s \in Runs : s # r => row'[s] = row[s]
<1> DEFINE new == [row[r] EXCEPT !.lease = LeaseTicks]
<1>1. new \in Row
  BY TicksAssumption DEF Row
<1>2. Put(r, new)
  BY DEF Renew
<1> HIDE DEF new
<1>3. QED
  BY <1>1, <1>2, PutRow DEF new

--------------------------------------------------------------------------------
(* The effect of each step, field by field: every later proof reads these.     *)

\* A step of worker w on run r leaves the other runs and the other tasks alone.
Frame(w, r) ==
  /\ \A s \in Runs : s # r => row'[s] = row[s] /\ ideas'[s] = ideas[s]
  /\ \A v \in Workers, s \in Runs :
       ~(v = w /\ s = r) => task'[v][s] = task[v][s]

\* The step only moves the task on, to the phase pc.
Moves(w, r, pc) ==
  /\ row' = row /\ ideas' = ideas
  /\ task'[w][r].pc = pc
  /\ task'[w][r].attempt = task[w][r].attempt

\* The phases a step that writes nothing may lead to.
QuietStep(w, r) ==
  \/ task[w][r].pc = "scheduled" /\ ~Claimable(r) /\ Moves(w, r, "idle")
  \/ task[w][r].pc = "claimed" /\ Moves(w, r, "generating")
  \/ task[w][r].pc = "claimed" /\ Moves(w, r, "generation_timed_out")
  \/ task[w][r].pc = "selecting" /\ Owned(w, r) /\ Moves(w, r, "flushing")
  \/ task[w][r].pc \in Beating /\ ~Owned(w, r) /\ Moves(w, r, "lost")
  \/ task[w][r].pc \in Beating /\ Moves(w, r, "generation_failed")
  \/ task[w][r].pc \in Beating /\ Moves(w, r, "generation_timed_out")
  \/ task[w][r].pc \in {"scheduled", "recording", "lost"} \cup Failing
       /\ Moves(w, r, "idle")

CreateStep(w, r) ==
  /\ row[r].status = "absent"
  /\ row'[r] = [row[r] EXCEPT !.status = "queued"]
  /\ task'[w][r].pc = "scheduled"
  /\ ideas' = ideas

ClaimStep(w, r) ==
  /\ task[w][r].pc = "scheduled"
  /\ Claimable(r)
  /\ row'[r] = [row[r] EXCEPT !.status = "running", !.worker = w,
                  !.lease = LeaseTicks, !.attempts = @ + 1, !.error = "none"]
  /\ task'[w][r] = [pc |-> "claimed", attempt |-> row[r].attempts + 1]
  /\ ideas' = ideas

RenewStep(w, r) ==
  /\ task[w][r].pc \in Beating
  /\ Owned(w, r)
  /\ row'[r] = [row[r] EXCEPT !.lease = LeaseTicks]
  /\ task'[w][r].attempt = task[w][r].attempt
  /\ \/ task'[w][r].pc = task[w][r].pc
     \/ task[w][r].pc = "generating" /\ task'[w][r].pc = "selecting"
  /\ ideas' = ideas

CommitStep(w, r) ==
  /\ task[w][r].pc = "flushing"
  /\ row[r].status # "deleted"
  /\ row'[r] = [row[r] EXCEPT !.status = "completed", !.worker = None, !.lease = 0]
  /\ task'[w][r].pc = "recording"
  /\ ideas' = [ideas EXCEPT ![r] = @ + 1]

FailStep(w, r) ==
  /\ task[w][r].pc \in Failing
  /\ Owned(w, r)
  /\ row'[r] = Failed(r, task[w][r].pc)
  /\ task'[w][r].pc = "idle"
  /\ ideas' = ideas

LEMMA CreateEffect ==
  ASSUME TypeOK, NEW w \in Workers, NEW r \in Runs, Create(w, r)
  PROVE  TypeOK' /\ Frame(w, r) /\ CreateStep(w, r)
<1> DEFINE new == [row[r] EXCEPT !.status = "queued"]
<1>1. new \in Row
  BY DEF TypeOK, Row, Status, Active
<1>2. Put(r, new) /\ MoveTo(w, r, "scheduled")
  BY DEF Create
<1> HIDE DEF new
<1>3. /\ row' \in [Runs -> Row] /\ row'[r] = new
      /\ \A s \in Runs : s # r => row'[s] = row[s]
  BY <1>1, <1>2, PutRow DEF TypeOK
<1>4. /\ task' \in [Workers -> [Runs -> Task]] /\ task'[w][r].pc = "scheduled"
      /\ \A v \in Workers, s \in Runs :
           ~(v = w /\ s = r) => task'[v][s] = task[v][s]
  BY <1>2, MoveTask DEF TypeOK, Phase
<1>5. QED
  BY <1>3, <1>4 DEF Create, TypeOK, Frame, CreateStep, new

LEMMA ClaimEffect ==
  ASSUME TypeOK, NEW w \in Workers, NEW r \in Runs, Claim(w, r)
  PROVE  TypeOK' /\ Frame(w, r) /\ ClaimStep(w, r)
<1> DEFINE new == [row[r] EXCEPT !.status = "running", !.worker = w,
                     !.lease = LeaseTicks, !.attempts = @ + 1, !.error = "none"]
           t   == [pc |-> "claimed", attempt |-> row[r].attempts + 1]
<1>1. row[r].attempts + 1 \in 0..MaxAttempts
  BY AttemptsAssumption DEF Claim, Claimable, TypeOK, Row
<1>2. new \in Row
  <2>1. row[r] \in Row
    BY DEF TypeOK
  <2>2. LeaseTicks \in 0..LeaseTicks /\ "running" \in Status
    BY TicksAssumption DEF Status, Active
  <2>3. QED
    BY <1>1, <2>1, <2>2 DEF Row
<1>3. t \in Task
  BY <1>1 DEF Task, Phase, Working
<1>4. Put(r, new) /\ Assign(w, r, t)
  BY DEF Claim
<1> HIDE DEF new, t
<1>5. /\ row' \in [Runs -> Row] /\ row'[r] = new
      /\ \A s \in Runs : s # r => row'[s] = row[s]
  BY <1>2, <1>4, PutRow DEF TypeOK
<1>6. /\ task' \in [Workers -> [Runs -> Task]] /\ task'[w][r] = t
      /\ \A v \in Workers, s \in Runs :
           ~(v = w /\ s = r) => task'[v][s] = task[v][s]
  BY <1>3, <1>4, AssignTask DEF TypeOK
<1>7. QED
  BY <1>5, <1>6 DEF Claim, TypeOK, Frame, ClaimStep, new, t

\* A task that moves on while nothing else changes.
LEMMA QuietMove ==
  ASSUME TypeOK, NEW w \in Workers, NEW r \in Runs, NEW pc \in Phase,
         MoveTo(w, r, pc), UNCHANGED <<row, ideas, deleting, up>>
  PROVE  TypeOK' /\ Frame(w, r) /\ Moves(w, r, pc)
  BY MoveTask DEF TypeOK, Frame, Moves

\* A renewing write keeps the phase, or is the one that begins the saving.
KeepsOrSaves(w, r, next) ==
  /\ next \in Phase
  /\ task[w][r].pc \in Beating
  /\ \/ next = task[w][r].pc
     \/ task[w][r].pc = "generating" /\ next = "selecting"

LEMMA RenewOrLoseEffect ==
  ASSUME TypeOK, NEW w \in Workers, NEW r \in Runs, NEW next,
         KeepsOrSaves(w, r, next),
         RenewOrLose(w, r, next), UNCHANGED <<ideas, deleting, up>>
  PROVE  TypeOK' /\ Frame(w, r) /\ (RenewStep(w, r) \/ QuietStep(w, r))
<1>1. CASE Owned(w, r) /\ Renew(r) /\ MoveTo(w, r, next)
  BY <1>1, RenewedRow, MoveTask DEF TypeOK, Frame, RenewStep, KeepsOrSaves
<1>2. CASE ~Owned(w, r) /\ MoveTo(w, r, "lost") /\ UNCHANGED row
  <2>1. TypeOK' /\ Frame(w, r) /\ Moves(w, r, "lost")
    BY <1>2, QuietMove DEF Phase
  <2>2. QED
    BY <1>2, <2>1 DEF QuietStep, KeepsOrSaves
<1>3. QED
  BY <1>1, <1>2 DEF RenewOrLose

LEMMA CommitEffect ==
  ASSUME TypeOK, NEW w \in Workers, NEW r \in Runs, PersistCommit(w, r)
  PROVE  TypeOK' /\ Frame(w, r) /\ (CommitStep(w, r) \/ QuietStep(w, r))
<1>1. CASE row[r].status # "deleted"
  <2> DEFINE new == [row[r] EXCEPT !.status = "completed", !.worker = None, !.lease = 0]
  <2>1. new \in Row
    <3>1. row[r] \in Row
      BY DEF TypeOK
    <3>2. 0 \in 0..LeaseTicks /\ "completed" \in Status
      BY TicksAssumption DEF Status, Terminal
    <3>3. QED
      BY <3>1, <3>2 DEF Row
  <2>2. Put(r, new) /\ MoveTo(w, r, "recording")
    BY <1>1 DEF PersistCommit
  <2> HIDE DEF new
  <2>3. /\ row' \in [Runs -> Row] /\ row'[r] = new
        /\ \A s \in Runs : s # r => row'[s] = row[s]
    BY <2>1, <2>2, PutRow DEF TypeOK
  <2>4. /\ task' \in [Workers -> [Runs -> Task]] /\ task'[w][r].pc = "recording"
        /\ \A v \in Workers, s \in Runs :
             ~(v = w /\ s = r) => task'[v][s] = task[v][s]
    BY <2>2, MoveTask DEF TypeOK, Phase
  <2>5. ideas' = [ideas EXCEPT ![r] = @ + 1]
    BY <1>1 DEF PersistCommit
  <2>6. QED
    BY <1>1, <2>3, <2>4, <2>5 DEF PersistCommit, TypeOK, Frame, CommitStep, new
<1>2. CASE row[r].status = "deleted"
  <2>1. TypeOK' /\ Frame(w, r) /\ Moves(w, r, "generation_failed")
    BY <1>2, QuietMove DEF PersistCommit, Phase, Failing
  <2>2. QED
    BY <2>1 DEF PersistCommit, QuietStep, Beating, Saving
<1>3. QED
  BY <1>1, <1>2

LEMMA FailedRow ==
  ASSUME TypeOK, NEW r \in Runs, NEW code \in {"interrupted"} \cup Failing
  PROVE  Failed(r, code) \in Row
<1>1. row[r] \in Row
  BY DEF TypeOK
<1>2. 0 \in 0..LeaseTicks /\ "failed" \in Status
  BY TicksAssumption DEF Status, Terminal
<1>3. QED
  BY <1>1, <1>2 DEF Row, Failed

LEMMA FailedFields ==
  ASSUME TypeOK, NEW r \in Runs, NEW code
  PROVE  /\ Failed(r, code).status = "failed" /\ Failed(r, code).worker = None
         /\ Failed(r, code).lease = 0 /\ Failed(r, code).error = code
         /\ Failed(r, code).attempts = row[r].attempts
         /\ Failed(r, code).elapsed = row[r].elapsed
<1>1. row[r] \in Row
  BY DEF TypeOK
<1>2. QED
  BY <1>1 DEF Row, Failed

LEMMA DeletedFields ==
  ASSUME TypeOK, NEW r \in Runs, row'[r] = [row[r] EXCEPT !.status = "deleted", !.lease = 0]
  PROVE  /\ row'[r].status = "deleted" /\ row'[r].worker = row[r].worker
         /\ row'[r].attempts = row[r].attempts /\ row'[r].elapsed = row[r].elapsed
         /\ row'[r].error = row[r].error
<1>1. row[r] \in Row
  BY DEF TypeOK
<1>2. QED
  BY <1>1 DEF Row

LEMMA MarkFailedEffect ==
  ASSUME TypeOK, NEW w \in Workers, NEW r \in Runs, MarkFailed(w, r)
  PROVE  TypeOK' /\ Frame(w, r) /\ (FailStep(w, r) \/ QuietStep(w, r))
<1>1. task[w][r].pc \in Failing /\ MoveTo(w, r, "idle") /\ UNCHANGED <<ideas, deleting, up>>
  BY DEF MarkFailed
<1>2. CASE Owned(w, r)
  <2>1. Put(r, Failed(r, task[w][r].pc))
    BY <1>2 DEF MarkFailed
  <2>2. Failed(r, task[w][r].pc) \in Row
    BY <1>1, FailedRow
  <2>3. /\ row' \in [Runs -> Row] /\ row'[r] = Failed(r, task[w][r].pc)
        /\ \A s \in Runs : s # r => row'[s] = row[s]
    BY <2>1, <2>2, PutRow DEF TypeOK
  <2>4. /\ task' \in [Workers -> [Runs -> Task]] /\ task'[w][r].pc = "idle"
        /\ \A v \in Workers, s \in Runs :
             ~(v = w /\ s = r) => task'[v][s] = task[v][s]
    BY <1>1, MoveTask DEF TypeOK, Phase
  <2>5. QED
    BY <1>1, <1>2, <2>3, <2>4 DEF TypeOK, Frame, FailStep
<1>3. CASE ~Owned(w, r)
  <2>1. TypeOK' /\ Frame(w, r) /\ Moves(w, r, "idle")
    BY <1>1, <1>3, QuietMove DEF MarkFailed, Phase
  <2>2. QED
    BY <1>1, <2>1 DEF QuietStep
<1>4. QED
  BY <1>2, <1>3

LEMMA StepEffect ==
  ASSUME TypeOK, NEW w \in Workers, NEW r \in Runs, Step(w, r)
  PROVE  /\ TypeOK' /\ Frame(w, r)
         /\ \/ QuietStep(w, r) \/ CreateStep(w, r) \/ ClaimStep(w, r)
            \/ RenewStep(w, r) \/ CommitStep(w, r) \/ FailStep(w, r)
<1> USE DEF Phase, Working, Saving, Failing, Beating
<1>1. CASE Create(w, r)
  BY <1>1, CreateEffect
<1>2. CASE Claim(w, r)
  BY <1>2, ClaimEffect
<1>3. CASE ClaimSkipped(w, r)
  BY <1>3, QuietMove DEF ClaimSkipped, QuietStep
<1>4. CASE CheckDeadline(w, r)
  <2>1. CASE row[r].elapsed < TotalTicks
    BY <1>4, <2>1, QuietMove DEF CheckDeadline, QuietStep
  <2>2. CASE ~(row[r].elapsed < TotalTicks)
    BY <1>4, <2>2, QuietMove DEF CheckDeadline, QuietStep
  <2>3. QED
    BY <2>1, <2>2
<1>5. CASE Heartbeat(w, r)
  <2>1. RenewOrLose(w, r, task[w][r].pc) /\ UNCHANGED <<ideas, deleting, up>>
    BY <1>5 DEF Heartbeat
  <2>2. KeepsOrSaves(w, r, task[w][r].pc)
    BY <1>5 DEF Heartbeat, KeepsOrSaves, TypeOK, Task
  <2>3. QED
    BY <2>1, <2>2, RenewOrLoseEffect
<1>6. CASE EnterStage(w, r)
  <2>1. RenewOrLose(w, r, "generating") /\ UNCHANGED <<ideas, deleting, up>>
    BY <1>6 DEF EnterStage
  <2>2. KeepsOrSaves(w, r, "generating")
    BY <1>6 DEF EnterStage, KeepsOrSaves
  <2>3. QED
    BY <2>1, <2>2, RenewOrLoseEffect
<1>7. CASE SaveStage(w, r)
  <2>1. RenewOrLose(w, r, "selecting") /\ UNCHANGED <<ideas, deleting, up>>
    BY <1>7 DEF SaveStage
  <2>2. KeepsOrSaves(w, r, "selecting")
    BY <1>7 DEF SaveStage, KeepsOrSaves
  <2>3. QED
    BY <2>1, <2>2, RenewOrLoseEffect
<1>8. CASE PersistSelect(w, r)
  <2>1. CASE Owned(w, r)
    BY <1>8, <2>1, QuietMove DEF PersistSelect, QuietStep
  <2>2. CASE ~Owned(w, r)
    BY <1>8, <2>2, QuietMove DEF PersistSelect, QuietStep
  <2>3. QED
    BY <2>1, <2>2
<1>9. CASE PersistCommit(w, r)
  BY <1>9, CommitEffect
<1>10. CASE RecordCorpus(w, r)
  BY <1>10, QuietMove DEF RecordCorpus, QuietStep
<1>11. CASE GenerationError(w, r)
  BY <1>11, QuietMove DEF GenerationError, QuietStep
<1>12. CASE Timeout(w, r)
  BY <1>12, QuietMove DEF Timeout, QuietStep
<1>13. CASE MarkFailed(w, r)
  BY <1>13, MarkFailedEffect
<1>14. CASE TaskCrash(w, r)
  BY <1>14, QuietMove DEF TaskCrash, QuietStep
<1>15. CASE StopQuietly(w, r)
  BY <1>15, QuietMove DEF StopQuietly, QuietStep
<1>16. QED
  BY <1>1, <1>2, <1>3, <1>4, <1>5, <1>6, <1>7, <1>8, <1>9, <1>10, <1>11, <1>12,
     <1>13, <1>14, <1>15 DEF Step

--------------------------------------------------------------------------------
(* The steps that are not one task's: recovery, stops, deletion and time.      *)

RecoverStep(w) ==
  /\ ideas' = ideas
  /\ \A r \in Runs :
       /\ row'[r] = IF Exhausted(r) THEN Failed(r, "interrupted") ELSE row[r]
       /\ \A v \in Workers \ {w} : task'[v][r] = task[v][r]
       /\ \/ task'[w][r] = task[w][r]
          \/ task[w][r].pc = "idle" /\ task'[w][r].pc = "scheduled"

\* Start and Stop: a task is kept or gone.
ProcessStep ==
  /\ row' = row /\ ideas' = ideas
  /\ \A v \in Workers, r \in Runs : task'[v][r] \in {task[v][r], NoTask}

DeleteStep(r) ==
  /\ task' = task
  /\ row'[r] = [row[r] EXCEPT !.status = "deleted", !.lease = 0]
  /\ \A s \in Runs : s # r => row'[s] = row[s]
  /\ ideas' = [ideas EXCEPT ![r] = 0]

TickStep ==
  /\ task' = task /\ ideas' = ideas
  /\ \A w \in Workers, r \in Runs :
       Owned(w, r) /\ row[r].lease = 1 => task[w][r].pc \notin Punctual
  /\ \A r \in Runs : row'[r] = Later(r)

IdleStep == row' = row /\ ideas' = ideas /\ task' = task

LEMMA RecoverEffect ==
  ASSUME TypeOK, NEW w \in Workers, Recover(w)
  PROVE  TypeOK' /\ RecoverStep(w)
<1> DEFINE toSchedule == {r \in Runs : Claimable(r) /\ task[w][r].pc = "idle"}
           new(r) == IF Exhausted(r) THEN Failed(r, "interrupted") ELSE row[r]
           t(r)   == IF r \in toSchedule THEN [task[w][r] EXCEPT !.pc = "scheduled"]
                                         ELSE task[w][r]
<1>1. \A r \in Runs : new(r) \in Row
  BY FailedRow DEF TypeOK
<1>2. \A r \in Runs : t(r) \in Task /\ (t(r) = task[w][r]
        \/ (task[w][r].pc = "idle" /\ t(r).pc = "scheduled"))
  <2> SUFFICES ASSUME NEW r \in Runs
               PROVE  t(r) \in Task /\ (t(r) = task[w][r]
                        \/ (task[w][r].pc = "idle" /\ t(r).pc = "scheduled"))
    OBVIOUS
  <2>1. task[w][r] \in Task
    BY DEF TypeOK
  <2>2. QED
    BY <2>1 DEF Task, Phase
<1>3. row' = [r \in Runs |-> new(r)] /\ task' = [task EXCEPT ![w] = [r \in Runs |-> t(r)]]
      /\ UNCHANGED <<ideas, deleting, up>>
  BY DEF Recover
<1> HIDE DEF new, t
<1>4. row' \in [Runs -> Row] /\ task' \in [Workers -> [Runs -> Task]]
  BY <1>1, <1>2, <1>3 DEF TypeOK
<1>5. \A r \in Runs : row'[r] = new(r) /\ task'[w][r] = t(r)
        /\ \A v \in Workers \ {w} : task'[v][r] = task[v][r]
  BY <1>3 DEF TypeOK
<1>6. QED
  BY <1>2, <1>3, <1>4, <1>5 DEF TypeOK, RecoverStep, new

LEMMA ProcessEffect ==
  ASSUME TypeOK, NEW w \in Workers, Start(w) \/ Stop(w)
  PROVE  TypeOK' /\ ProcessStep
<1>1. NoTask \in Task
  BY AttemptsAssumption DEF NoTask, Task, Phase
<1>2. CASE Start(w)
  BY <1>2 DEF Start, TypeOK, ProcessStep
<1>3. CASE Stop(w)
  BY <1>1, <1>3 DEF Stop, TypeOK, ProcessStep
<1>4. QED
  BY <1>2, <1>3

LEMMA DeleteEffect ==
  ASSUME TypeOK, NEW r \in Runs, DeleteCommit(r)
  PROVE  TypeOK' /\ DeleteStep(r)
<1> DEFINE new == [row[r] EXCEPT !.status = "deleted", !.lease = 0]
<1>1. row[r] \in Row
  BY DEF TypeOK
<1>2. 0 \in 0..LeaseTicks /\ "deleted" \in Status
  BY TicksAssumption DEF Status
<1>3. new \in Row
  BY <1>1, <1>2 DEF Row
<1>4. Put(r, new)
  BY DEF DeleteCommit
<1> HIDE DEF new
<1>5. /\ row' \in [Runs -> Row] /\ row'[r] = new
      /\ \A s \in Runs : s # r => row'[s] = row[s]
  BY <1>3, <1>4, PutRow DEF TypeOK
<1>6. QED
  BY <1>5 DEF DeleteCommit, TypeOK, DeleteStep, new

LEMMA LaterRow ==
  ASSUME TypeOK, NEW r \in Runs
  PROVE  /\ Later(r) \in Row
         /\ Later(r).status = row[r].status /\ Later(r).worker = row[r].worker
         /\ Later(r).attempts = row[r].attempts /\ Later(r).error = row[r].error
         /\ Later(r).elapsed >= row[r].elapsed
         /\ row[r].lease > 1 => Later(r).lease > 0
<1> DEFINE lease   == IF row[r].lease > 0 THEN row[r].lease - 1 ELSE 0
           elapsed == IF row[r].attempts > 0 /\ row[r].elapsed < TotalTicks
                      THEN row[r].elapsed + 1 ELSE row[r].elapsed
<1>1. row[r] \in Row
  BY DEF TypeOK
<1>2. lease \in 0..LeaseTicks /\ (row[r].lease > 1 => lease > 0)
  BY <1>1, TicksAssumption DEF Row
<1>3. elapsed \in 0..TotalTicks /\ elapsed >= row[r].elapsed
  BY <1>1, TicksAssumption DEF Row
<1>4. Later(r) = [row[r] EXCEPT !.lease = lease, !.elapsed = elapsed]
  BY DEF Later
<1> HIDE DEF lease, elapsed
<1>5. QED
  BY <1>1, <1>2, <1>3, <1>4 DEF Row

LEMMA TickEffect ==
  ASSUME TypeOK, Tick
  PROVE  TypeOK' /\ TickStep
  BY LaterRow DEF Tick, TypeOK, TickStep

\* Every step of the specification is one of the classes above.
LEMMA NextEffect ==
  ASSUME TypeOK, [Next]_vars
  PROVE  /\ TypeOK'
         /\ \/ \E w \in Workers, r \in Runs :
                 /\ Frame(w, r)
                 /\ \/ QuietStep(w, r) \/ CreateStep(w, r) \/ ClaimStep(w, r)
                    \/ RenewStep(w, r) \/ CommitStep(w, r) \/ FailStep(w, r)
            \/ \E w \in Workers : RecoverStep(w)
            \/ ProcessStep
            \/ \E r \in Runs : DeleteStep(r)
            \/ TickStep
            \/ IdleStep
<1>1. CASE \E w \in Workers, r \in Runs : Step(w, r)
  BY <1>1, StepEffect
<1>2. CASE \E w \in Workers : Recover(w)
  BY <1>2, RecoverEffect
<1>3. CASE \E w \in Workers : Start(w) \/ Stop(w)
  BY <1>3, ProcessEffect
<1>4. CASE \E r \in Runs : DeleteCheck(r)
  BY <1>4 DEF DeleteCheck, TypeOK, IdleStep
<1>5. CASE \E r \in Runs : DeleteCommit(r)
  BY <1>5, DeleteEffect
<1>6. CASE Tick
  BY <1>6, TickEffect
<1>7. CASE UNCHANGED vars
  BY <1>7 DEF vars, TypeOK, IdleStep
<1>8. QED
  BY <1>1, <1>2, <1>3, <1>4, <1>5, <1>6, <1>7 DEF Next

--------------------------------------------------------------------------------
(* Type correctness. *)

LEMMA InitType == Init => TypeOK
<1> SUFFICES ASSUME Init PROVE TypeOK
  OBVIOUS
<1>1. NoRow \in Row
  BY AttemptsAssumption, TicksAssumption DEF NoRow, Row, Status
<1>2. NoTask \in Task
  BY AttemptsAssumption DEF NoTask, Task, Phase
<1>3. QED
  BY <1>1, <1>2 DEF Init, TypeOK

\* Every reachable state keeps to the types of the columns and the task table; in
\* particular no run is ever claimed more than MaxAttempts times.
THEOREM TypeCorrect == Spec => []TypeOK
<1>1. TypeOK /\ [Next]_vars => TypeOK'
  BY NextEffect
<1>2. QED
  BY InitType, <1>1, PTL DEF Spec

--------------------------------------------------------------------------------
(* The cross-process lock. *)

\* Per task: it never outruns the row's count, and owns the row if it is newest.
TaskInOrder(w, r) ==
  task[w][r].pc \in Working =>
    /\ task[w][r].attempt <= row[r].attempts
    /\ task[w][r].attempt = row[r].attempts /\ row[r].status = "running"
         => row[r].worker = w

LEMMA ExclusiveStep ==
  ASSUME TypeOK, ExclusiveAttempt, [Next]_vars
  PROVE  ExclusiveAttempt'
<1> USE DEF Working, Saving, Beating, Failing
<1>1. CASE \E w \in Workers, r \in Runs : Frame(w, r) /\ ClaimStep(w, r)
  <2>1. PICK w \in Workers, r \in Runs : Frame(w, r) /\ ClaimStep(w, r)
    BY <1>1
  <2>2. /\ row'[r].attempts = row[r].attempts + 1 /\ row'[r].worker = w
        /\ task'[w][r].attempt = row[r].attempts + 1
        /\ row[r].attempts \in Nat
    BY <2>1 DEF ClaimStep, TypeOK, Row
  <2>3. \A v \in Workers : v # w /\ task'[v][r].pc \in Working
          => task'[v][r].attempt \in Nat /\ task'[v][r].attempt < row'[r].attempts
    BY <2>1, <2>2 DEF Frame, ExclusiveAttempt, TypeOK, Task
  <2>4. \A s \in Runs : s # r => row'[s] = row[s]
          /\ \A v \in Workers : task'[v][s] = task[v][s]
    BY <2>1 DEF Frame
  <2>5. SUFFICES ASSUME NEW s \in Runs, NEW u \in Workers, NEW v \in Workers
                 PROVE  /\ TaskInOrder(u, s)'
                        /\ u # v /\ task'[u][s].pc \in Working /\ task'[v][s].pc \in Working
                             => task'[u][s].attempt # task'[v][s].attempt
    BY DEF ExclusiveAttempt, TaskInOrder
  <2>6. CASE s # r
    BY <2>4, <2>6 DEF ExclusiveAttempt, TaskInOrder
  <2>7. CASE s = r /\ u = w
    BY <2>2, <2>3, <2>7 DEF TaskInOrder
  <2>8. CASE s = r /\ u # w
    <3>1. TaskInOrder(u, s)'
      BY <2>2, <2>3, <2>8 DEF TaskInOrder
    <3>2. CASE v = w
      BY <2>2, <2>3, <2>8, <3>1, <3>2
    <3>3. CASE v # w
      <4>1. task'[u][s] = task[u][s] /\ task'[v][s] = task[v][s]
        BY <2>1, <2>8, <3>3 DEF Frame
      <4>2. QED
        BY <3>1, <4>1 DEF ExclusiveAttempt
    <3>4. QED
      BY <3>2, <3>3
  <2>9. QED
    BY <2>6, <2>7, <2>8
<1>2. CASE \E w \in Workers, r \in Runs : Frame(w, r)
        /\ (QuietStep(w, r) \/ RenewStep(w, r) \/ CommitStep(w, r) \/ FailStep(w, r))
  <2>1. PICK w \in Workers, r \in Runs : Frame(w, r)
          /\ (QuietStep(w, r) \/ RenewStep(w, r) \/ CommitStep(w, r) \/ FailStep(w, r))
    BY <1>2
  <2>2. /\ row'[r].attempts = row[r].attempts
        /\ row'[r].status = "running" =>
             row[r].status = "running" /\ row'[r].worker = row[r].worker
    BY <2>1 DEF QuietStep, Moves, RenewStep, CommitStep, FailStep, Failed, TypeOK, Row
  <2>3. task'[w][r].pc \in Working =>
          task[w][r].pc \in Working /\ task'[w][r].attempt = task[w][r].attempt
    BY <2>1 DEF QuietStep, Moves, RenewStep, CommitStep, FailStep
  <2>4. \A v \in Workers, s \in Runs : ~(v = w /\ s = r) => task'[v][s] = task[v][s]
    BY <2>1 DEF Frame
  <2>5. \A s \in Runs : s # r => row'[s] = row[s]
    BY <2>1 DEF Frame
  <2>6. QED
    BY <2>2, <2>3, <2>4, <2>5 DEF ExclusiveAttempt
<1>3. CASE \E w \in Workers, r \in Runs : Frame(w, r) /\ CreateStep(w, r)
  <2>1. PICK w \in Workers, r \in Runs : Frame(w, r) /\ CreateStep(w, r)
    BY <1>3
  <2>2. row'[r].status # "running" /\ row'[r].attempts = row[r].attempts
    BY <2>1 DEF CreateStep, TypeOK, Row
  <2>3. task'[w][r].pc \notin Working
    BY <2>1 DEF CreateStep
  <2>4. QED
    BY <2>1, <2>2, <2>3 DEF Frame, ExclusiveAttempt
<1>4. CASE \E w \in Workers : RecoverStep(w)
  <2>1. \A r \in Runs : row'[r].attempts = row[r].attempts
          /\ (row'[r].status = "running" => row'[r] = row[r])
    BY <1>4, FailedFields DEF RecoverStep
  <2>2. \A v \in Workers, r \in Runs : task'[v][r].pc \in Working => task'[v][r] = task[v][r]
    BY <1>4 DEF RecoverStep
  <2>3. QED
    BY <2>1, <2>2 DEF ExclusiveAttempt
<1>5. CASE ProcessStep
  BY <1>5 DEF ProcessStep, NoTask, ExclusiveAttempt
<1>6. CASE \E r \in Runs : DeleteStep(r)
  <2>1. \A r \in Runs : row'[r].attempts = row[r].attempts
          /\ (row'[r].status = "running" => row'[r] = row[r])
    BY <1>6, DeletedFields DEF DeleteStep
  <2>2. QED
    BY <1>6, <2>1 DEF DeleteStep, ExclusiveAttempt
<1>7. CASE TickStep
  <2>1. \A r \in Runs : row'[r].attempts = row[r].attempts
          /\ row'[r].status = row[r].status /\ row'[r].worker = row[r].worker
    BY <1>7, LaterRow DEF TickStep
  <2>2. QED
    BY <1>7, <2>1 DEF TickStep, ExclusiveAttempt
<1>8. CASE IdleStep
  BY <1>8 DEF IdleStep, ExclusiveAttempt
<1>9. QED
  BY <1>1, <1>2, <1>3, <1>4, <1>5, <1>6, <1>7, <1>8, NextEffect

\* The conditional UPDATE is a lock across processes: whatever stalls, stops or is
\* late, two tasks at work on one run hold different attempts, and only the
\* newest of them can be the row's owner.
THEOREM ClaimIsExclusive == Spec => []ExclusiveAttempt
<1>1. Init => ExclusiveAttempt
  <2>1. Init => \A w \in Workers, r \in Runs : task[w][r].pc = "idle"
    BY DEF Init, NoTask
  <2>2. "idle" \notin Working
    BY DEF Working, Saving
  <2>3. QED
    BY <2>1, <2>2 DEF ExclusiveAttempt
<1>2. TypeOK /\ ExclusiveAttempt /\ [Next]_vars => ExclusiveAttempt'
  BY ExclusiveStep
<1>3. QED
  BY <1>1, <1>2, TypeCorrect, PTL DEF Spec

--------------------------------------------------------------------------------
(* What punctuality buys. P is a set of phases no live worker lingers in past   *)
(* its lease: the saving phases, or all the phases in which a worker works.     *)

\* A task in such a phase owns its row, under a running lease, unless the row has
\* been deleted under it. This is the strengthening the next theorems rest on.
PunctualOwner(P) ==
  \A w \in Workers, r \in Runs : task[w][r].pc \in P =>
    /\ row[r].worker = w
    /\ row[r].status = "deleted" \/ (row[r].status = "running" /\ row[r].lease > 0)

LEMMA PunctualStep ==
  ASSUME NEW P \in {Saving, Working}, P \subseteq Punctual,
         TypeOK, PunctualOwner(P), [Next]_vars
  PROVE  PunctualOwner(P)'
<1> USE DEF Working, Saving, Beating, Failing
<1>0. /\ P \in {{"selecting", "flushing"},
                {"claimed", "generating", "selecting", "flushing"}}
      /\ "flushing" \in P /\ {"idle", "scheduled", "recording", "lost"} \cap P = {}
      /\ {"generation_timed_out", "generation_failed"} \cap P = {}
  OBVIOUS
<1>1. ASSUME NEW w \in Workers, NEW r \in Runs, Frame(w, r), ClaimStep(w, r)
      PROVE  PunctualOwner(P)'
  <2>1. \A v \in Workers : task[v][r].pc \notin P
    BY <1>1 DEF ClaimStep, Claimable, Expired, PunctualOwner, TypeOK, Row
  <2>2. /\ row'[r].worker = w /\ row'[r].status = "running" /\ row'[r].lease > 0
    BY <1>1, TicksAssumption DEF ClaimStep, TypeOK, Row
  <2>3. QED
    BY <1>1, <2>1, <2>2 DEF Frame, PunctualOwner
<1>2. ASSUME NEW w \in Workers, NEW r \in Runs, Frame(w, r), QuietStep(w, r)
      PROVE  PunctualOwner(P)'
  <2>1. row' = row
    BY <1>2 DEF QuietStep, Moves
  <2>2. task'[w][r].pc \in P => task[w][r].pc \in P
    BY <1>0, <1>2 DEF QuietStep, Moves
  <2>3. QED
    BY <1>2, <2>1, <2>2 DEF Frame, PunctualOwner
<1>3. ASSUME NEW w \in Workers, NEW r \in Runs, Frame(w, r), RenewStep(w, r)
      PROVE  PunctualOwner(P)'
  <2>1. /\ row'[r].worker = w /\ row'[r].status = "running" /\ row'[r].lease > 0
    BY <1>3, TicksAssumption DEF RenewStep, Owned, TypeOK, Row
  <2>2. \A v \in Workers : v # w => task'[v][r].pc \notin P
    BY <1>3 DEF Frame, RenewStep, Owned, PunctualOwner
  <2>3. QED
    BY <1>3, <2>1, <2>2 DEF Frame, PunctualOwner
<1>4. ASSUME NEW w \in Workers, NEW r \in Runs, Frame(w, r),
             CommitStep(w, r) \/ FailStep(w, r)
      PROVE  PunctualOwner(P)'
  <2>1. task'[w][r].pc \notin P
    BY <1>0, <1>4 DEF CommitStep, FailStep
  <2>2. row[r].worker = w
    BY <1>0, <1>4 DEF CommitStep, FailStep, Owned, PunctualOwner
  <2>3. \A v \in Workers : v # w => task'[v][r].pc \notin P
    BY <1>4, <2>2 DEF Frame, PunctualOwner
  <2>4. QED
    BY <1>4, <2>1, <2>3 DEF Frame, PunctualOwner
<1>5. ASSUME NEW w \in Workers, NEW r \in Runs, Frame(w, r), CreateStep(w, r)
      PROVE  PunctualOwner(P)'
  <2>1. \A v \in Workers : task'[v][r].pc \notin P
    BY <1>0, <1>5 DEF Frame, CreateStep, PunctualOwner
  <2>2. QED
    BY <1>5, <2>1 DEF Frame, PunctualOwner
<1>6. ASSUME NEW w \in Workers, RecoverStep(w)
      PROVE  PunctualOwner(P)'
  <2>1. \A v \in Workers, r \in Runs : task'[v][r].pc \in P => task[v][r].pc \in P
    BY <1>0, <1>6 DEF RecoverStep
  <2>2. \A v \in Workers, r \in Runs : task[v][r].pc \in P => row'[r] = row[r]
    BY <1>6 DEF RecoverStep, Exhausted, Expired, Active, PunctualOwner, TypeOK, Row
  <2>3. QED
    BY <2>1, <2>2 DEF PunctualOwner
<1>7. CASE ProcessStep
  BY <1>0, <1>7 DEF ProcessStep, NoTask, PunctualOwner
<1>8. ASSUME NEW r \in Runs, DeleteStep(r)
      PROVE  PunctualOwner(P)'
  <2>1. row'[r].status = "deleted" /\ row'[r].worker = row[r].worker
    BY <1>8, DeletedFields DEF DeleteStep
  <2>2. task' = task /\ \A s \in Runs : s # r => row'[s] = row[s]
    BY <1>8 DEF DeleteStep
  <2>3. QED
    BY <2>1, <2>2 DEF PunctualOwner
<1>9. CASE TickStep
  <2>1. \A r \in Runs : row'[r].status = row[r].status /\ row'[r].worker = row[r].worker
          /\ (row[r].lease > 1 => row'[r].lease > 0)
    BY <1>9, LaterRow DEF TickStep
  <2>2. \A w \in Workers, r \in Runs :
          task[w][r].pc \in P /\ row[r].status = "running" => row[r].lease > 1
    <3>1. \A r \in Runs : row[r].lease \in Nat
      BY TicksAssumption DEF TypeOK, Row
    <3>2. SUFFICES ASSUME NEW w \in Workers, NEW r \in Runs,
                          task[w][r].pc \in P, row[r].status = "running"
                   PROVE  row[r].lease > 1
      OBVIOUS
    <3>3. row[r].worker = w /\ row[r].lease > 0
      BY <3>2 DEF PunctualOwner
    <3>4. row[r].lease # 1
      BY <1>9, <3>2, <3>3 DEF TickStep, Owned
    <3>5. QED
      BY <3>1, <3>3, <3>4
  <2>3. QED
    BY <1>9, <2>1, <2>2 DEF TickStep, PunctualOwner
<1>10. CASE IdleStep
  BY <1>10 DEF IdleStep, PunctualOwner
<1>11. QED
  BY <1>1, <1>2, <1>3, <1>4, <1>5, <1>6, <1>7, <1>8, <1>9, <1>10, NextEffect

LEMMA PunctualInit ==
  ASSUME NEW P \in {Saving, Working}, Init
  PROVE  PunctualOwner(P)
<1>1. \A w \in Workers, r \in Runs : task[w][r].pc = "idle"
  BY DEF Init, NoTask
<1>2. "idle" \notin P
  BY DEF Working, Saving
<1>3. QED
  BY <1>1, <1>2 DEF PunctualOwner

\* With punctual heartbeats a run is worked on by one process at most, so its
\* provider calls are never made twice at the same time.
THEOREM SingleExecution ==
  ASSUME Working \subseteq Punctual
  PROVE  Spec => []OneLiveWorker
<1>1. Init => PunctualOwner(Working)
  BY PunctualInit
<1>2. TypeOK /\ PunctualOwner(Working) /\ [Next]_vars => PunctualOwner(Working)'
  BY PunctualStep
<1>3. PunctualOwner(Working) => OneLiveWorker
  BY DEF PunctualOwner, OneLiveWorker
<1>4. QED
  BY <1>1, <1>2, <1>3, TypeCorrect, PTL DEF Spec

--------------------------------------------------------------------------------
(* What is stored, and what an outcome means.                                   *)

\* A run that has not ended shows no error, one that never started counts no
\* attempt, and ideas are stored with, and only with, a clean completion.
StoredInv ==
  \A r \in Runs :
    /\ row[r].status \in {"absent", "queued"} => row[r].attempts = 0
    /\ row[r].status \in {"absent", "queued", "running", "completed"}
         => row[r].error = "none"
    /\ ideas[r] = IF row[r].status = "completed" THEN 1 ELSE 0

LEMMA StoredStep ==
  ASSUME TypeOK, PunctualOwner(Saving), StoredInv, [Next]_vars
  PROVE  StoredInv'
<1> USE DEF Failing
<1>0. \A r \in Runs : row[r] \in Row /\ ideas[r] \in Nat /\ row[r].attempts \in Nat
  BY DEF TypeOK, Row
<1>1. ASSUME NEW w \in Workers, NEW r \in Runs, Frame(w, r), ClaimStep(w, r)
      PROVE  StoredInv'
  <2>1. row'[r].status = "running" /\ row'[r].error = "none"
    BY <1>0, <1>1 DEF ClaimStep, Row
  <2>2. ideas'[r] = 0 /\ row[r].status # "completed"
    BY <1>1 DEF ClaimStep, Claimable, StoredInv
  <2>3. QED
    BY <1>1, <2>1, <2>2 DEF Frame, StoredInv
<1>2. ASSUME NEW w \in Workers, NEW r \in Runs, Frame(w, r), QuietStep(w, r)
      PROVE  StoredInv'
  BY <1>2 DEF QuietStep, Moves, StoredInv
<1>3. ASSUME NEW w \in Workers, NEW r \in Runs, Frame(w, r), RenewStep(w, r)
      PROVE  StoredInv'
  <2>1. row'[r].status = "running" /\ row'[r].error = row[r].error
        /\ row[r].status = "running"
    BY <1>0, <1>3 DEF RenewStep, Owned, Row
  <2>2. QED
    BY <1>3, <2>1 DEF RenewStep, Frame, StoredInv
<1>4. ASSUME NEW w \in Workers, NEW r \in Runs, Frame(w, r), CommitStep(w, r)
      PROVE  StoredInv'
  <2>1. row[r].status = "running"
    BY <1>4 DEF CommitStep, PunctualOwner, Saving
  <2>2. row'[r].status = "completed" /\ row'[r].error = row[r].error
    BY <1>0, <1>4 DEF CommitStep, Row
  <2>3. ideas'[r] = 1
    BY <1>0, <1>4, <2>1 DEF CommitStep, StoredInv, TypeOK
  <2>4. QED
    BY <1>4, <2>1, <2>2, <2>3 DEF Frame, StoredInv
<1>5. ASSUME NEW w \in Workers, NEW r \in Runs, Frame(w, r), FailStep(w, r)
      PROVE  StoredInv'
  <2>1. row'[r].status = "failed" /\ row[r].status = "running"
    BY <1>5, FailedFields DEF FailStep, Owned
  <2>2. QED
    BY <1>5, <2>1 DEF FailStep, Frame, StoredInv
<1>6. ASSUME NEW w \in Workers, NEW r \in Runs, Frame(w, r), CreateStep(w, r)
      PROVE  StoredInv'
  <2>1. row'[r].status = "queued" /\ row'[r].error = row[r].error
        /\ row'[r].attempts = row[r].attempts
    BY <1>0, <1>6 DEF CreateStep, Row
  <2>2. QED
    BY <1>6, <2>1 DEF CreateStep, Frame, StoredInv
<1>7. ASSUME NEW w \in Workers, RecoverStep(w)
      PROVE  StoredInv'
  <2>1. \A r \in Runs : row'[r] = row[r]
          \/ (row'[r].status = "failed" /\ row[r].status \in {"queued", "running"})
    BY <1>7, FailedFields DEF RecoverStep, Exhausted, Active
  <2>2. QED
    BY <1>7, <2>1 DEF RecoverStep, StoredInv
<1>8. CASE ProcessStep
  BY <1>8 DEF ProcessStep, StoredInv
<1>9. ASSUME NEW r \in Runs, DeleteStep(r)
      PROVE  StoredInv'
  <2>1. row'[r].status = "deleted"
    BY <1>9, DeletedFields DEF DeleteStep
  <2>2. QED
    BY <1>9, <2>1 DEF DeleteStep, StoredInv, TypeOK
<1>10. CASE TickStep
  BY <1>10, LaterRow DEF TickStep, StoredInv
<1>11. CASE IdleStep
  BY <1>11 DEF IdleStep, StoredInv
<1>12. QED
  BY <1>1, <1>2, <1>3, <1>4, <1>5, <1>6, <1>7, <1>8, <1>9, <1>10, <1>11, NextEffect

\* When the guarded SELECT and the flush behind it fit in the lease, a run has
\* stored ideas exactly when it is completed, once, and then shows no error.
THEOREM ResultIsStoredOnce ==
  ASSUME Saving \subseteq Punctual
  PROVE  Spec => []ResultMatchesStatus
<1>1. Init => PunctualOwner(Saving) /\ StoredInv
  BY PunctualInit DEF Init, NoRow, StoredInv
<1>2. /\ TypeOK /\ PunctualOwner(Saving) /\ [Next]_vars => PunctualOwner(Saving)'
      /\ TypeOK /\ PunctualOwner(Saving) /\ StoredInv /\ [Next]_vars => StoredInv'
  BY PunctualStep, StoredStep
<1>3. StoredInv => ResultMatchesStatus
  BY DEF StoredInv, ResultMatchesStatus
<1>4. QED
  BY <1>1, <1>2, <1>3, TypeCorrect, PTL DEF Spec

\* Under the same assumption a run that ended stays as it ended until it is
\* deleted: no late worker, recovery pass or retry rewrites an outcome.
THEOREM OutcomeIsFinal ==
  ASSUME Saving \subseteq Punctual
  PROVE  Spec => TerminalIsFinal
<1> DEFINE Kept == \A r \in Runs : row[r].status \in Terminal =>
                     row'[r].status \in {row[r].status, "deleted"}
<1>1. ASSUME TypeOK, PunctualOwner(Saving), [Next]_vars
      PROVE  Kept
  <2> USE DEF Terminal, Saving
  <2>0. \A r \in Runs : row[r] \in Row
    BY <1>1 DEF TypeOK
  <2>1. ASSUME NEW w \in Workers, NEW r \in Runs, Frame(w, r),
               QuietStep(w, r) \/ CreateStep(w, r) \/ ClaimStep(w, r)
                 \/ RenewStep(w, r) \/ FailStep(w, r)
        PROVE  Kept
    BY <2>1 DEF Frame, QuietStep, Moves, CreateStep, ClaimStep, Claimable, RenewStep,
                FailStep, Owned
  <2>2. ASSUME NEW w \in Workers, NEW r \in Runs, Frame(w, r), CommitStep(w, r)
        PROVE  Kept
    <3>1. row[r].status = "running"
      BY <1>1, <2>2 DEF CommitStep, PunctualOwner
    <3>2. QED
      BY <2>2, <3>1 DEF Frame
  <2>3. ASSUME NEW w \in Workers, RecoverStep(w)
        PROVE  Kept
    BY <2>3 DEF RecoverStep, Exhausted, Active
  <2>4. CASE ProcessStep \/ IdleStep
    BY <2>4 DEF ProcessStep, IdleStep
  <2>5. ASSUME NEW r \in Runs, DeleteStep(r)
        PROVE  Kept
    BY <1>1, <2>5, DeletedFields DEF DeleteStep
  <2>6. CASE TickStep
    BY <1>1, <2>6, LaterRow DEF TickStep
  <2>7. QED
    BY <1>1, <2>1, <2>2, <2>3, <2>4, <2>5, <2>6, NextEffect
<1>2. TypeOK /\ PunctualOwner(Saving) /\ [Next]_vars => [Kept]_vars
  BY <1>1
<1>3. Init => PunctualOwner(Saving)
  BY PunctualInit
<1>4. TypeOK /\ PunctualOwner(Saving) /\ [Next]_vars => PunctualOwner(Saving)'
  BY PunctualStep
<1>5. QED
  BY <1>2, <1>3, <1>4, TypeCorrect, PTL DEF Spec, TerminalIsFinal

\* The five minutes are counted from the first claim, however often the run is
\* taken over: no step gives time back.
THEOREM DeadlineIsKept == Spec => DeadlineSurvivesRecovery
<1> DEFINE Kept == \A r \in Runs : row'[r].elapsed >= row[r].elapsed
<1>1. ASSUME TypeOK, [Next]_vars
      PROVE  Kept
  <2>0. \A r \in Runs : row[r] \in Row /\ row[r].elapsed \in Nat
    BY <1>1 DEF TypeOK, Row
  <2>1. ASSUME NEW w \in Workers, NEW r \in Runs, Frame(w, r),
               \/ QuietStep(w, r) \/ CreateStep(w, r) \/ ClaimStep(w, r)
               \/ RenewStep(w, r) \/ CommitStep(w, r) \/ FailStep(w, r)
        PROVE  Kept
    <3>1. row'[r].elapsed = row[r].elapsed
      <4>1. CASE QuietStep(w, r)
        BY <4>1 DEF QuietStep, Moves
      <4>2. CASE FailStep(w, r)
        BY <1>1, <4>2, FailedFields DEF FailStep
      <4>3. CASE CreateStep(w, r) \/ ClaimStep(w, r)
        BY <2>0, <4>3 DEF CreateStep, ClaimStep, Row
      <4>4. CASE RenewStep(w, r) \/ CommitStep(w, r)
        BY <2>0, <4>4 DEF RenewStep, CommitStep, Row
      <4>5. QED
        BY <2>1, <4>1, <4>2, <4>3, <4>4
    <3>2. QED
      BY <2>0, <2>1, <3>1 DEF Frame
  <2>2. ASSUME NEW w \in Workers, RecoverStep(w)
        PROVE  Kept
    BY <1>1, <2>0, <2>2, FailedFields DEF RecoverStep
  <2>3. CASE ProcessStep \/ IdleStep
    BY <2>0, <2>3 DEF ProcessStep, IdleStep
  <2>4. ASSUME NEW r \in Runs, DeleteStep(r)
        PROVE  Kept
    <3>1. row'[r].elapsed = row[r].elapsed
      BY <1>1, <2>4, DeletedFields DEF DeleteStep
    <3>2. \A s \in Runs : s # r => row'[s] = row[s]
      BY <2>4 DEF DeleteStep
    <3>3. QED
      BY <2>0, <3>1, <3>2
  <2>5. CASE TickStep
    BY <1>1, <2>5, LaterRow DEF TickStep
  <2>6. QED
    BY <1>1, <2>1, <2>2, <2>3, <2>4, <2>5, NextEffect
<1>2. TypeOK /\ [Next]_vars => [Kept]_vars
  BY <1>1
<1>3. QED
  BY <1>2, TypeCorrect, PTL DEF Spec, DeadlineSurvivesRecovery

\* A worker's run is taken from it only after its lease ran out: until then only
\* its own failure report fails the run, and no other process claims it.
THEOREM LeaseIsRespected == Spec => LeaseRespected
<1> DEFINE Held(r, w) ==
      Owned(w, r) /\ ~Expired(r) /\ row'[r].status \in Active \cup {"failed"}
        => \/ row'[r].worker = w
           \/ row'[r].error \in Failing /\ task[w][r].pc = row'[r].error
<1>1. ASSUME TypeOK, [Next]_vars, NEW s \in Runs, NEW u \in Workers
      PROVE  Held(s, u)
  <2>0. \A r \in Runs : row[r] \in Row
    BY <1>1 DEF TypeOK
  <2>1. ASSUME NEW w \in Workers, NEW r \in Runs, Frame(w, r),
               \/ QuietStep(w, r) \/ CreateStep(w, r) \/ ClaimStep(w, r)
               \/ RenewStep(w, r) \/ CommitStep(w, r) \/ FailStep(w, r)
        PROVE  Held(s, u)
    <3>1. CASE s # r
      BY <2>1, <3>1 DEF Frame, Owned
    <3>2. CASE s = r
      <4>1. CASE QuietStep(w, r)
        BY <3>2, <4>1 DEF QuietStep, Moves, Owned
      <4>2. CASE FailStep(w, r)
        BY <1>1, <3>2, <4>2, FailedFields DEF FailStep, Owned
      <4>3. CASE CreateStep(w, r) \/ ClaimStep(w, r)
        BY <3>2, <4>3 DEF CreateStep, ClaimStep, Claimable, Owned
      <4>4. CASE RenewStep(w, r)
        BY <2>0, <3>2, <4>4 DEF RenewStep, Owned, Row
      <4>5. CASE CommitStep(w, r)
        BY <2>0, <3>2, <4>5 DEF CommitStep, Row, Active
      <4>6. QED
        BY <2>1, <4>1, <4>2, <4>3, <4>4, <4>5
    <3>3. QED
      BY <3>1, <3>2
  <2>2. ASSUME NEW w \in Workers, RecoverStep(w)
        PROVE  Held(s, u)
    BY <2>2 DEF RecoverStep, Exhausted, Owned
  <2>3. CASE ProcessStep \/ IdleStep
    BY <2>3 DEF ProcessStep, IdleStep, Owned
  <2>4. ASSUME NEW r \in Runs, DeleteStep(r)
        PROVE  Held(s, u)
    <3>1. row'[r].worker = row[r].worker
      BY <1>1, <2>4, DeletedFields DEF DeleteStep
    <3>2. QED
      BY <2>4, <3>1 DEF DeleteStep, Owned
  <2>5. CASE TickStep
    BY <1>1, <2>5, LaterRow DEF TickStep, Owned
  <2>6. QED
    BY <1>1, <2>1, <2>2, <2>3, <2>4, <2>5, NextEffect
<1> HIDE DEF Held
<1>2. TypeOK /\ [Next]_vars => [\A r \in Runs, w \in Workers : Held(r, w)]_vars
  BY <1>1
<1>3. [][\A r \in Runs, w \in Workers : Held(r, w)]_vars => LeaseRespected
  BY PTL DEF LeaseRespected, Held
<1>4. QED
  BY <1>2, <1>3, TypeCorrect, PTL DEF Spec

--------------------------------------------------------------------------------
(* The protocol implements the lifecycle that IdeaRun promises.                 *)

\* A DELETE in progress has read a row, and rows do not return to "absent".
DeletingInv == \A r \in deleting : row[r].status # "absent"

LEMMA DeletingStep ==
  ASSUME TypeOK, DeletingInv, [Next]_vars
  PROVE  DeletingInv'
<1>1. \A r \in deleting' : row[r].status # "absent"
  <2>1. CASE \E w \in Workers, r \in Runs : Step(w, r)
    <3>1. deleting' = deleting
      BY <2>1 DEF Step, Create, Claim, ClaimSkipped, CheckDeadline, Heartbeat,
         EnterStage, SaveStage, PersistSelect, PersistCommit, RecordCorpus,
         GenerationError, Timeout, MarkFailed, TaskCrash, StopQuietly
    <3>2. QED
      BY <3>1 DEF DeletingInv
  <2>2. CASE \E r \in Runs : DeleteCheck(r) \/ DeleteCommit(r)
    BY <2>2 DEF DeleteCheck, DeleteCommit, DeletingInv, Active, Terminal
  <2>3. CASE (\E w \in Workers : Recover(w) \/ Start(w) \/ Stop(w)) \/ Tick \/ UNCHANGED vars
    BY <2>3 DEF Recover, Start, Stop, Tick, vars, DeletingInv
  <2>4. QED
    BY <2>1, <2>2, <2>3 DEF Next
<1>2. \A r \in Runs : row[r].status # "absent" => row'[r].status # "absent"
  <2>0. \A r \in Runs : row[r] \in Row
    BY DEF TypeOK
  <2>1. ASSUME NEW w \in Workers, NEW r \in Runs, Frame(w, r),
               \/ QuietStep(w, r) \/ CreateStep(w, r) \/ ClaimStep(w, r)
               \/ RenewStep(w, r) \/ CommitStep(w, r) \/ FailStep(w, r)
        PROVE  row[r].status # "absent" => row'[r].status # "absent"
    <3>1. CASE QuietStep(w, r) \/ CreateStep(w, r)
      BY <3>1 DEF QuietStep, Moves, CreateStep
    <3>2. CASE FailStep(w, r)
      BY <3>2, FailedFields DEF FailStep
    <3>3. CASE ClaimStep(w, r) \/ RenewStep(w, r) \/ CommitStep(w, r)
      BY <2>0, <3>3 DEF ClaimStep, RenewStep, CommitStep, Row
    <3>4. QED
      BY <2>1, <3>1, <3>2, <3>3
  <2>2. ASSUME NEW w \in Workers, RecoverStep(w)
        PROVE  \A r \in Runs : row[r].status # "absent" => row'[r].status # "absent"
    BY <2>2, FailedFields DEF RecoverStep
  <2>3. ASSUME NEW r \in Runs, DeleteStep(r)
        PROVE  \A s \in Runs : row[s].status # "absent" => row'[s].status # "absent"
    <3>1. row'[r].status = "deleted"
      BY <2>3, DeletedFields DEF DeleteStep
    <3>2. QED
      BY <2>3, <3>1 DEF DeleteStep
  <2>4. CASE ProcessStep \/ IdleStep \/ TickStep
    BY <2>4, LaterRow DEF ProcessStep, IdleStep, TickStep
  <2>5. QED
    BY <2>1, <2>2, <2>3, <2>4, NextEffect DEF Frame
<1>3. deleting' \in SUBSET Runs
  BY NextEffect DEF TypeOK
<1>4. QED
  BY <1>1, <1>2, <1>3 DEF DeletingInv

LEMMA RefinementInit ==
  ASSUME Init
  PROVE  Promise!Init
<1>1. \A r \in Runs : row[r].status = "absent" /\ row[r].attempts = 0
  BY DEF Init, NoRow
<1>2. QED
  BY <1>1 DEF Init, Promise!Init

LEMMA RefinementStep ==
  ASSUME TypeOK, PunctualOwner(Saving), StoredInv, DeletingInv, [Next]_vars
  PROVE  [Promise!Next]_Promise!vars
<1> USE DEF Active, Terminal, Promise!Active, Promise!Terminal
<1> DEFINE status   == [r \in Runs |-> row[r].status]
           attempts == [r \in Runs |-> row[r].attempts]
<1>0. \A r \in Runs : row[r] \in Row
  BY DEF TypeOK
\* A step that leaves every status, attempt count and result alone is a stutter.
<1>1. ASSUME \A r \in Runs : row'[r].status = row[r].status
                          /\ row'[r].attempts = row[r].attempts,
             ideas' = ideas
      PROVE  UNCHANGED Promise!vars
  BY <1>1 DEF Promise!vars
<1>2. ASSUME NEW w \in Workers, NEW r \in Runs, Frame(w, r), QuietStep(w, r)
      PROVE  UNCHANGED Promise!vars
  BY <1>1, <1>2 DEF QuietStep, Moves
<1>3. ASSUME NEW w \in Workers, NEW r \in Runs, Frame(w, r), RenewStep(w, r)
      PROVE  UNCHANGED Promise!vars
  <2>1. row'[r].status = row[r].status /\ row'[r].attempts = row[r].attempts
    BY <1>0, <1>3 DEF RenewStep, Row
  <2>2. QED
    BY <1>1, <1>3, <2>1 DEF Frame, RenewStep
<1>4. ASSUME NEW w \in Workers, NEW r \in Runs, Frame(w, r), CreateStep(w, r)
      PROVE  Promise!Submit(r)
  <2>1. row'[r].status = "queued" /\ row'[r].attempts = row[r].attempts
    BY <1>0, <1>4 DEF CreateStep, Row
  <2>2. QED
    BY <1>4, <2>1 DEF Frame, CreateStep, Promise!Submit
<1>5. ASSUME NEW w \in Workers, NEW r \in Runs, Frame(w, r), ClaimStep(w, r)
      PROVE  Promise!Begin(r)
  <2>1. row'[r].status = "running" /\ row'[r].attempts = row[r].attempts + 1
    BY <1>0, <1>5 DEF ClaimStep, Row
  <2>2. row[r].status \in Active /\ row[r].attempts < MaxAttempts
    BY <1>5 DEF ClaimStep, Claimable
  <2>3. QED
    BY <1>5, <2>1, <2>2 DEF Frame, ClaimStep, Promise!Begin
<1>6. ASSUME NEW w \in Workers, NEW r \in Runs, Frame(w, r), CommitStep(w, r)
      PROVE  Promise!Complete(r)
  <2>1. row[r].status = "running"
    BY <1>6 DEF CommitStep, PunctualOwner, Saving
  <2>2. row'[r].status = "completed" /\ row'[r].attempts = row[r].attempts
    BY <1>0, <1>6 DEF CommitStep, Row
  <2>3. QED
    BY <1>6, <2>1, <2>2 DEF Frame, CommitStep, Promise!Complete
<1>7. ASSUME NEW w \in Workers, NEW r \in Runs, Frame(w, r), FailStep(w, r)
      PROVE  Promise!Fail({r})
  <2>1. row'[r].status = "failed" /\ row'[r].attempts = row[r].attempts
    BY <1>7, FailedFields DEF FailStep
  <2>2. QED
    BY <1>7, <2>1 DEF Frame, FailStep, Owned, Promise!Fail
<1>8. ASSUME NEW w \in Workers, RecoverStep(w)
      PROVE  [Promise!Next]_Promise!vars
  <2> DEFINE S == {r \in Runs : Exhausted(r)}
  <2>1. \A r \in S : row[r].status = "running"
    BY AttemptsAssumption DEF Exhausted, StoredInv
  <2>2. \A r \in Runs : /\ row'[r].attempts = row[r].attempts
                        /\ row'[r].status = IF r \in S THEN "failed" ELSE row[r].status
    BY <1>8, FailedFields DEF RecoverStep
  <2>3. CASE S = {}
    BY <1>1, <1>8, <2>2, <2>3 DEF RecoverStep
  <2>4. CASE S # {}
    <3>1. Promise!Fail(S)
      BY <1>8, <2>1, <2>2, <2>4 DEF RecoverStep, Promise!Fail
    <3>2. S \in SUBSET Runs
      OBVIOUS
    <3> HIDE DEF S
    <3>3. \E T \in SUBSET Runs : Promise!Fail(T)
      BY <3>1, <3>2 DEF Promise!Fail
    <3>4. QED
      BY <3>3 DEF Promise!Next
  <2>5. QED
    BY <2>3, <2>4
<1>9. CASE ProcessStep \/ IdleStep
  BY <1>1, <1>9 DEF ProcessStep, IdleStep
<1>10. CASE TickStep
  BY <1>1, <1>10, LaterRow DEF TickStep
<1>11. ASSUME NEW r \in deleting, DeleteStep(r)
       PROVE  [Promise!Next]_Promise!vars
  <2>1. r \in Runs /\ row[r].status # "absent" /\ row[r].status \in Status
    BY <1>0 DEF TypeOK, DeletingInv, Row
  <2>2. row'[r].status = "deleted" /\ row'[r].attempts = row[r].attempts
    BY <1>11, <2>1, DeletedFields DEF DeleteStep
  <2>3. CASE row[r].status = "deleted"
    <3>1. ideas' = ideas
      BY <1>11, <2>1, <2>3 DEF DeleteStep, StoredInv, TypeOK
    <3>2. QED
      BY <1>1, <1>11, <2>1, <2>2, <2>3, <3>1 DEF DeleteStep
  <2>4. CASE row[r].status # "deleted"
    <3>1. Promise!Remove(r)
      BY <1>11, <2>1, <2>2, <2>4 DEF DeleteStep, Promise!Remove, Status
    <3>2. QED
      BY <2>1, <3>1 DEF Promise!Next
  <2>5. QED
    BY <2>3, <2>4
<1>12. CASE \E r \in Runs : DeleteCommit(r)
  BY <1>11, <1>12, DeleteEffect DEF DeleteCommit
<1>13. CASE \E w \in Workers, r \in Runs : Step(w, r)
  BY <1>2, <1>3, <1>4, <1>5, <1>6, <1>7, <1>13, StepEffect DEF Promise!Next
<1>14. CASE \E w \in Workers : Recover(w)
  BY <1>8, <1>14, RecoverEffect
<1>15. CASE (\E w \in Workers : Start(w) \/ Stop(w)) \/ (\E r \in Runs : DeleteCheck(r))
              \/ UNCHANGED vars
  BY <1>9, <1>15, ProcessEffect DEF DeleteCheck, vars, IdleStep
<1>16. CASE Tick
  BY <1>10, <1>16, TickEffect
<1>17. QED
  BY <1>12, <1>13, <1>14, <1>15, <1>16 DEF Next

\* The lease protocol, with its processes, stalls, crashes, recoveries and late
\* requests, implements the lifecycle of IdeaRun when the save fits in the lease.
THEOREM LeaseImplementsIdeaRun ==
  ASSUME Saving \subseteq Punctual
  PROVE  Spec => ImplementsIdeaRun
<1>1. Init => PunctualOwner(Saving) /\ StoredInv /\ DeletingInv
  BY PunctualInit DEF Init, NoRow, StoredInv, DeletingInv
<1>2. /\ TypeOK /\ PunctualOwner(Saving) /\ [Next]_vars => PunctualOwner(Saving)'
      /\ TypeOK /\ PunctualOwner(Saving) /\ StoredInv /\ [Next]_vars => StoredInv'
      /\ TypeOK /\ DeletingInv /\ [Next]_vars => DeletingInv'
  BY PunctualStep, StoredStep, DeletingStep
<1>3. TypeOK /\ PunctualOwner(Saving) /\ StoredInv /\ DeletingInv /\ [Next]_vars
        => [Promise!Next]_Promise!vars
  BY RefinementStep
<1>4. QED
  BY <1>1, <1>2, <1>3, RefinementInit, TypeCorrect, PTL
     DEF Spec, ImplementsIdeaRun, Promise!Spec
================================================================================
