--------------------------- MODULE IdeaRequestsProofs --------------------------
(* Machine-checked proofs of IdeaRequests' safety properties, for any number of  *)
(* users, keys, runs and requests in flight at once.                             *)
EXTENDS IdeaRequests, FiniteSetTheorems, TLAPS

--------------------------------------------------------------------------------
(* Types, with what a handler has read by the time it reaches a statement.       *)

IdeaSteps == {"state", "delete_idea"} \cup Targets

\* A statement about a run or an idea has one, and every request has a user.
Targeted ==
  \A q \in Requests :
    /\ request[q].pc # "idle" => request[q].user \in Users
    /\ request[q].pc \in {"prior", "load"} \cup IdeaSteps => request[q].target \in RunIds
    /\ request[q].pc = "previous" => request[q].payload.previous \in RunIds
    /\ request[q].pc = "state" => request[q].to \in IdeaState

Typed == TypeOK /\ Targeted

LEMMA TypedInit == Init => Typed
  BY FormatsAssumption
  DEF Init, Typed, TypeOK, Targeted, IdeasHaveRuns, HasIdea, IdeaState, NoRow, Row, Status, Active, Terminal, Payload, NoPayload,
      Idle, Call, Steps, IdeaSteps, Targets

\* A request that moves on takes the others' place in nothing.
LEMMA CallStep ==
  ASSUME Typed, NEW q \in Requests, NEW new \in Call, request' = [request EXCEPT ![q] = new],
         new.pc # "idle" => new.user \in Users,
         new.pc \in {"prior", "load"} \cup IdeaSteps => new.target \in RunIds,
         new.pc = "previous" => new.payload.previous \in RunIds,
         new.pc = "state" => new.to \in IdeaState
  PROVE  request' \in [Requests -> Call] /\ Targeted'
  BY DEF Typed, TypeOK, Targeted

LEMMA AnswerStep ==
  ASSUME Typed, NEW q \in Requests, Answer(q)
  PROVE  request' \in [Requests -> Call] /\ Targeted'
<1>1. Idle \in Call /\ Idle.pc = "idle"
  BY FormatsAssumption DEF Idle, Call, Steps, Payload, NoPayload
<1>2. QED
  BY <1>1, CallStep DEF Answer, IdeaSteps, Targets

\* The steps a handler may proceed to that need nothing but its user.
LEMMA ProceedStep ==
  ASSUME Typed, NEW q \in Requests, request[q].pc # "idle", Proceed(q, "active") \/ Proceed(q, "insert")
  PROVE  request' \in [Requests -> Call] /\ Targeted'
<1>1. PICK pc \in {"active", "insert"} : request' = [request EXCEPT ![q].pc = pc]
  BY DEF Proceed
<1> DEFINE new == [request[q] EXCEPT !.pc = pc]
<1>2. new \in Call /\ new.pc = pc /\ new.user \in Users
  BY DEF Typed, TypeOK, Targeted, Call, Steps
<1>3. request' = [request EXCEPT ![q] = new]
  BY <1>1 DEF Typed, TypeOK
<1> HIDE DEF new
<1>4. QED
  BY <1>2, <1>3, CallStep DEF IdeaSteps, Targets

LEMMA LoadNextStep ==
  ASSUME Typed, NEW q \in Requests, request[q].pc # "idle", NEW r \in RunIds, LoadNext(q, r)
  PROVE  request' \in [Requests -> Call] /\ Targeted'
<1> DEFINE new == [request[q] EXCEPT !.pc = "load", !.target = r]
<1>1. new \in Call /\ new.pc = "load" /\ new.user \in Users /\ new.target = r
  BY DEF Typed, TypeOK, Targeted, Call, Steps
<1>2. request' = [request EXCEPT ![q] = new]
  BY DEF Typed, TypeOK, LoadNext
<1> HIDE DEF new
<1>3. QED
  BY <1>1, <1>2, CallStep DEF IdeaSteps, Targets

\* Where no run and no idea changes, every idea keeps its run.
LEMMA IdeasUntouched ==
  ASSUME Typed, UNCHANGED <<run, idea>>
  PROVE  IdeasHaveRuns'
  BY DEF Typed, TypeOK, IdeasHaveRuns, HasIdea

LEMMA TypedStep ==
  ASSUME Typed, [Next]_vars
  PROVE  Typed'
<1> USE DEF Typed
<1>1. ASSUME NEW q \in Requests, NEW u \in Users, NEW k \in Keys, NEW p \in Payload, SubmitCreate(q, u, k, p)
      PROVE  Typed'
  <2> DEFINE new == [Idle EXCEPT !.pc = "key", !.user = u, !.key = k, !.payload = p]
  <2>1. new \in Call /\ new.pc = "key" /\ new.user = u
    BY DEF Idle, Call, Steps
  <2>2. request' = [request EXCEPT ![q] = new]
    BY <1>1 DEF SubmitCreate
  <2> HIDE DEF new
  <2>3. request' \in [Requests -> Call] /\ Targeted'
    BY <2>1, <2>2, CallStep DEF IdeaSteps, Targets
  <2>4. QED
    BY <1>1, <2>3, IdeasUntouched DEF SubmitCreate, TypeOK
<1>2. ASSUME NEW q \in Requests, NEW u \in Users, NEW r \in RunIds, SubmitRetry(q, u, r)
      PROVE  Typed'
  <2> DEFINE new == [Idle EXCEPT !.pc = "prior", !.user = u, !.target = r]
  <2>1. new \in Call /\ new.pc = "prior" /\ new.user = u /\ new.target = r
    BY FormatsAssumption DEF Idle, Call, Steps, Payload, NoPayload
  <2>2. request' = [request EXCEPT ![q] = new]
    BY <1>2 DEF SubmitRetry
  <2> HIDE DEF new
  <2>3. request' \in [Requests -> Call] /\ Targeted'
    BY <2>1, <2>2, CallStep DEF IdeaSteps, Targets
  <2>4. QED
    BY <1>2, <2>3, IdeasUntouched DEF SubmitRetry, TypeOK
<1>3. ASSUME NEW q \in Requests, LoadPrior(q)
      PROVE  Typed'
  <2> DEFINE r   == request[q].target
             new == [request[q] EXCEPT !.pc = "key",
                       !.payload = [format |-> run[r].payload.format, previous |-> r]]
  <2>1. r \in RunIds /\ request[q].user \in Users /\ request[q] \in Call
    BY <1>3 DEF LoadPrior, TypeOK, Targeted
  <2>2. [format |-> run[r].payload.format, previous |-> r] \in Payload
    BY <2>1 DEF TypeOK, Row, Payload
  <2>3. new \in Call /\ new.pc = "key" /\ new.user = request[q].user
    BY <2>1, <2>2 DEF Call, Steps
  <2>4. Answer(q) \/ request' = [request EXCEPT ![q] = new]
    BY <1>3, IdeasUntouched DEF LoadPrior, TypeOK
  <2> HIDE DEF new, r
  <2>5. request' \in [Requests -> Call] /\ Targeted'
    BY <2>1, <2>3, <2>4, CallStep, AnswerStep DEF IdeaSteps, Targets
  <2>6. QED
    BY <1>3, <2>5, IdeasUntouched DEF LoadPrior, TypeOK
<1>4. ASSUME NEW q \in Requests, CheckKey(q)
      PROVE  Typed'
  <2>1. Proceed(q, "active") \/ Answer(q) \/ \E r \in RunIds : LoadNext(q, r)
    BY <1>4 DEF CheckKey, HoldingKey
  <2>2. request' \in [Requests -> Call] /\ Targeted'
    BY <1>4, <2>1, ProceedStep, AnswerStep, LoadNextStep DEF CheckKey
  <2>3. QED
    BY <1>4, <2>2, IdeasUntouched DEF CheckKey, TypeOK
<1>5. ASSUME NEW q \in Requests, CheckActive(q)
      PROVE  Typed'
  <2>1. CASE \E r \in RunIds : LoadNext(q, r)
    <3>1. request' \in [Requests -> Call] /\ Targeted'
      BY <1>5, <2>1, LoadNextStep DEF CheckActive
    <3>2. QED
      BY <1>5, <3>1, IdeasUntouched DEF CheckActive, TypeOK
  <2>2. CASE Proceed(q, "insert")
    <3>1. request' \in [Requests -> Call] /\ Targeted'
      BY <1>5, <2>2, ProceedStep DEF CheckActive
    <3>2. QED
      BY <1>5, <3>1, IdeasUntouched DEF CheckActive, TypeOK
  <2>3. CASE request[q].payload.previous # None /\ Proceed(q, "previous")
    <3> DEFINE new == [request[q] EXCEPT !.pc = "previous"]
    <3>1. /\ new \in Call /\ new.pc = "previous" /\ new.user \in Users
          /\ new.payload.previous \in RunIds
      BY <1>5, <2>3 DEF CheckActive, TypeOK, Targeted, Call, Steps, Payload
    <3>2. request' = [request EXCEPT ![q] = new]
      BY <2>3 DEF Proceed, TypeOK
    <3> HIDE DEF new
    <3>3. request' \in [Requests -> Call] /\ Targeted'
      BY <3>1, <3>2, CallStep DEF IdeaSteps, Targets
    <3>4. QED
      BY <1>5, <3>3, IdeasUntouched DEF CheckActive, TypeOK
  <2>4. QED
    BY <1>5, <2>1, <2>2, <2>3 DEF CheckActive, ActiveOf
<1>6. ASSUME NEW q \in Requests, CheckPrevious(q)
      PROVE  Typed'
  <2>1. request' \in [Requests -> Call] /\ Targeted'
    BY <1>6, ProceedStep, AnswerStep DEF CheckPrevious
  <2>2. QED
    BY <1>6, <2>1, IdeasUntouched DEF CheckPrevious, TypeOK
<1>7. ASSUME NEW q \in Requests, Insert(q)
      PROVE  Typed'
  <2>1. Inserted(q) \in Row
    BY <1>7 DEF Insert, Inserted, Row, Status, Active, TypeOK, Targeted, Call
  <2>2. run' \in [RunIds -> Row]
    BY <1>7, <2>1 DEF Insert, TypeOK
  <2>3. Answer(q) \/ \E r \in RunIds : LoadNext(q, r)
    BY <1>7 DEF Insert
  <2>4. request' \in [Requests -> Call] /\ Targeted'
    BY <1>7, <2>3, LoadNextStep, AnswerStep DEF Insert
  \* A run that is absent has no idea.
  <2>5. IdeasHaveRuns'
    BY <1>7 DEF Insert, TypeOK, IdeasHaveRuns, HasIdea
  <2>6. QED
    BY <1>7, <2>2, <2>4, <2>5 DEF Insert, TypeOK
<1>8. ASSUME NEW q \in Requests, LoadRun(q)
      PROVE  Typed'
  <2>1. request' \in [Requests -> Call] /\ Targeted'
    BY <1>8, AnswerStep DEF LoadRun
  <2>2. request[q].user \in Users /\ request[q].target \in RunIds /\ request[q].key \in Keys \cup {None}
    BY <1>8 DEF LoadRun, TypeOK, Targeted, Call
  <2> DEFINE answer == [user |-> request[q].user, key |-> request[q].key, run |-> request[q].target]
  <2>3. request[q].key # None => answer \in [user: Users, key: Keys, run: RunIds]
    BY <2>2
  <2>4. accepted' = accepted \/ (request[q].key # None /\ accepted' = accepted \cup {answer})
    BY <1>8 DEF LoadRun
  <2> HIDE DEF answer
  <2>5. accepted' \subseteq [user: Users, key: Keys, run: RunIds]
    BY <2>3, <2>4 DEF TypeOK
  <2>6. QED
    BY <1>8, <2>1, <2>5, IdeasUntouched DEF LoadRun, TypeOK
<1>9. ASSUME NEW q \in Requests, SetState(q) \/ DeleteIdea(q)
      PROVE  Typed'
  <2>1. request' \in [Requests -> Call] /\ Targeted'
    BY <1>9, AnswerStep DEF SetState, DeleteIdea
  <2>2. request[q].pc = "state" => request[q].to \in IdeaState
    BY DEF Targeted
  <2>3. idea' \in [RunIds -> IdeaState \cup {"none", "deleted"}]
    BY <1>9, <2>2 DEF SetState, DeleteIdea, TypeOK
  \* The update of a row that is gone stores nothing.
  <2>4. IdeasHaveRuns'
    BY <1>9 DEF SetState, DeleteIdea, TypeOK, IdeasHaveRuns, HasIdea, IdeaState
  <2>5. QED
    BY <1>9, <2>1, <2>3, <2>4 DEF SetState, DeleteIdea, TypeOK
<1>10. ASSUME NEW q \in Requests, CreateStory(q) \/ CreateSession(q)
       PROVE  Typed'
  <2>1. PICK target \in Targets : Develop(q, target)
    BY <1>10 DEF CreateStory, CreateSession, Targets
  <2>2. request' \in [Requests -> Call] /\ Targeted'
    BY <2>1, AnswerStep DEF Develop
  <2>3. request[q].target \in RunIds
    BY <2>1 DEF Develop, Targeted, IdeaSteps
  <2>4. QED
    BY <2>1, <2>2, <2>3, IdeasUntouched DEF Develop, TypeOK
<1>11. ASSUME NEW q \in Requests, NEW u \in Users, NEW r \in RunIds, NEW to \in IdeaState \cup {None},
              NEW pc \in IdeaSteps, LoadIdea(q, u, r, pc, to)
       PROVE  Typed'
  <2> DEFINE new == [Idle EXCEPT !.pc = pc, !.user = u, !.target = r, !.to = to]
  <2>1. /\ new \in Call /\ new.pc = pc /\ new.user = u /\ new.target = r /\ new.to = to
    BY FormatsAssumption DEF Idle, Call, Steps, Payload, NoPayload, IdeaSteps, Targets
  <2>2. request' = [request EXCEPT ![q] = new]
    BY <1>11 DEF LoadIdea
  <2>3. pc = "state" => to \in IdeaState
    BY <1>11 DEF LoadIdea
  <2> HIDE DEF new
  <2>4. request' \in [Requests -> Call] /\ Targeted'
    BY <2>1, <2>2, <2>3, CallStep DEF IdeaSteps, Targets
  <2>5. QED
    BY <1>11, <2>4, IdeasUntouched DEF LoadIdea, TypeOK
<1>12. ASSUME NEW r \in RunIds, WorkerStep(r)
       PROVE  Typed'
  <2>1. run' \in [RunIds -> Row] /\ idea' \in [RunIds -> IdeaState \cup {"none", "deleted"}]
    BY <1>12 DEF WorkerStep, TypeOK, Row, Status, Active, Terminal, IdeaState
  \* Only a run that is not completed yet moves, and its ideas come with completion.
  <2>2. IdeasHaveRuns'
    BY <1>12 DEF WorkerStep, TypeOK, Row, IdeasHaveRuns, HasIdea, Active
  <2>3. QED
    BY <1>12, <2>1, <2>2 DEF WorkerStep, TypeOK, Targeted
<1>13. ASSUME NEW r \in RunIds, NEW u \in Users, DeleteRun(u, r)
       PROVE  Typed'
  <2>1. run' \in [RunIds -> Row] /\ idea' \in [RunIds -> IdeaState \cup {"none", "deleted"}]
    BY <1>13 DEF DeleteRun, TypeOK, Row, Status
  \* The foreign key takes the idea of the run along.
  <2>2. IdeasHaveRuns'
    BY <1>13 DEF DeleteRun, TypeOK, Row, IdeasHaveRuns, HasIdea, IdeaState
  <2>3. QED
    BY <1>13, <2>1, <2>2 DEF DeleteRun, TypeOK, Targeted
<1>14. CASE UNCHANGED vars
  BY <1>14, IdeasUntouched DEF vars, TypeOK, Targeted
<1>15. QED
  BY <1>1, <1>2, <1>3, <1>4, <1>5, <1>6, <1>7, <1>8, <1>9, <1>10, <1>11, <1>12, <1>13, <1>14
  DEF Next, IdeaSteps

\* Every variable stays within its type and every stored idea has its completed run,
\* whatever requests overlap (the foreign key of models/idea_generation.py:125-127).
THEOREM TypeCorrect == Spec => []TypeOK
<1>1. Init => Typed
  BY TypedInit
<1>2. Typed /\ [Next]_vars => Typed'
  BY TypedStep
<1>3. Typed => TypeOK
  BY DEF Typed
<1>4. QED
  BY <1>1, <1>2, <1>3, PTL DEF Spec

--------------------------------------------------------------------------------
(* What a step may do to the rows.                                               *)

\* The two unique indexes let a row in where it agrees with no other one.
InsertEffect ==
  \E q \in Requests, r \in RunIds :
    run[r].status = "absent" /\ ~Collides(q) /\ run' = [run EXCEPT ![r] = Inserted(q)]

\* A worker or a deletion moves a run on; no run becomes active again.
StatusEffect ==
  \E r \in RunIds, status \in Status \ {"absent"} :
    /\ Present(r)
    /\ status \in Active => run[r].status \in Active
    /\ run' = [run EXCEPT ![r].status = status]

RunEffect == run' = run \/ InsertEffect \/ StatusEffect

LEMMA RunEffects ==
  ASSUME Typed, [Next]_vars
  PROVE  RunEffect
<1>1. ASSUME NEW q \in Requests, Insert(q)
      PROVE  RunEffect
  BY <1>1 DEF Insert, RunEffect, InsertEffect
<1>2. ASSUME NEW r \in RunIds, WorkerStep(r)
      PROVE  StatusEffect
  <2>1. PICK status \in {"running", "completed", "failed"} : run' = [run EXCEPT ![r].status = status]
    BY <1>2 DEF WorkerStep
  <2>2. run[r].status \in Active
    BY <1>2 DEF WorkerStep, Active
  <2>3. status \in Status \ {"absent"}
    BY DEF Status, Active, Terminal
  <2>4. QED
    BY <2>1, <2>2, <2>3 DEF StatusEffect, Present, Active
<1>3. ASSUME NEW r \in RunIds, NEW u \in Users, DeleteRun(u, r)
      PROVE  StatusEffect
  <2>1. Present(r) /\ run' = [run EXCEPT ![r].status = "deleted"]
    BY <1>3 DEF DeleteRun, Visible
  <2>2. "deleted" \in Status \ {"absent"} /\ "deleted" \notin Active
    BY DEF Status, Active
  <2>3. QED
    BY <2>1, <2>2 DEF StatusEffect
<1>4. CASE UNCHANGED vars
  BY <1>4 DEF vars, RunEffect
<1>5. QED
  BY <1>1, <1>2, <1>3, <1>4
  DEF Next, RunEffect, SubmitCreate, SubmitRetry, LoadPrior, CheckKey, CheckActive, CheckPrevious,
      LoadRun, SetState, DeleteIdea, CreateStory, CreateSession, Develop, LoadIdea

\* A run keeps its user and its key for as long as its row or its tombstone exists.
LEMMA OwnersKept ==
  ASSUME Typed, RunEffect, NEW r \in RunIds, run[r].status # "absent"
  PROVE  /\ run'[r].status # "absent"
         /\ run'[r].user = run[r].user /\ run'[r].key = run[r].key
         /\ Present(r)' => Present(r)
         /\ run'[r].status \in Active => run[r].status \in Active
<1>1. CASE run' = run
  BY <1>1 DEF Present
<1>2. CASE InsertEffect
  BY <1>2 DEF InsertEffect, Present, Typed, TypeOK
<1>3. CASE StatusEffect
  BY <1>3 DEF StatusEffect, Present, Typed, TypeOK, Row, Status, Active
<1>4. QED
  BY <1>1, <1>2, <1>3 DEF RunEffect

\* A run that was absent is the one a request has inserted.
LEMMA NewRow ==
  ASSUME Typed, RunEffect, NEW r \in RunIds, run[r].status = "absent", run'[r].status # "absent"
  PROVE  \E q \in Requests : /\ ~Collides(q)
                             /\ run' = [run EXCEPT ![r] = Inserted(q)]
<1>1. ~StatusEffect
  BY DEF StatusEffect, Present, Typed, TypeOK
<1>2. InsertEffect
  BY <1>1 DEF RunEffect
<1>3. QED
  BY <1>2 DEF InsertEffect, Typed, TypeOK

--------------------------------------------------------------------------------
(* One active run for each user.                                                  *)

\* The partial index, stated without counting.
ActiveAlone ==
  \A r, s \in RunIds : /\ run[r].status \in Active /\ run[s].status \in Active
                       /\ run[r].user = run[s].user
                       => r = s

LEMMA ActiveAloneStep ==
  ASSUME Typed, ActiveAlone, [Next]_vars
  PROVE  ActiveAlone'
<1>1. RunEffect
  BY RunEffects
<1> SUFFICES ASSUME NEW r \in RunIds, NEW s \in RunIds,
                    run'[r].status \in Active, run'[s].status \in Active,
                    run'[r].user = run'[s].user, r # s
             PROVE  FALSE
  BY DEF ActiveAlone
\* The rows of two runs that both were there agree now only if they did before.
<1>2. CASE run[r].status # "absent" /\ run[s].status # "absent"
  BY <1>1, <1>2, OwnersKept DEF ActiveAlone
\* A new row meets no active run of its user.
<1>3. ASSUME NEW a \in RunIds, NEW b \in RunIds, a # b, run[a].status = "absent",
             run'[a].status \in Active, run'[b].status \in Active, run'[a].user = run'[b].user
      PROVE  FALSE
  <2>1. run'[a].status # "absent"
    BY <1>3 DEF Active
  <2>2. PICK q \in Requests : ~Collides(q) /\ run' = [run EXCEPT ![a] = Inserted(q)]
    BY <1>1, <1>3, <2>1, NewRow
  <2>3. run'[b] = run[b] /\ run'[a].user = request[q].user
    BY <1>3, <2>2 DEF Typed, TypeOK, Inserted
  <2>4. b \in ActiveOf(request[q].user)
    BY <1>3, <2>3 DEF ActiveOf
  <2>5. QED
    BY <2>2, <2>4 DEF Collides
<1>4. QED
  BY <1>2, <1>3

\* Requests that overlap never leave a user with two active runs, whatever they had
\* found before they inserted (idea_generations.py:772, 809, migration 0020).
THEOREM ActiveRunIsUnique == Spec => []OneActiveRun
<1>1. Init => Typed /\ ActiveAlone
  BY TypedInit DEF Init, ActiveAlone, NoRow, Active
<1>2. Typed /\ ActiveAlone /\ [Next]_vars => Typed' /\ ActiveAlone'
  BY TypedStep, ActiveAloneStep
<1>3. ActiveAlone => OneActiveRun
  <2> SUFFICES ASSUME ActiveAlone, NEW u \in Users
               PROVE  Cardinality(ActiveOf(u)) <= 1
    BY DEF OneActiveRun
  <2>1. CASE ActiveOf(u) = {}
    BY <2>1, FS_EmptySet
  <2>2. CASE ActiveOf(u) # {}
    <3>1. PICK r \in ActiveOf(u) : TRUE
      BY <2>2
    <3>2. ActiveOf(u) = {r}
      BY <3>1 DEF ActiveOf, ActiveAlone
    <3>3. Cardinality({r}) = 1
      BY FS_Singleton
    <3>4. QED
      BY <3>2, <3>3
  <2>3. QED
    BY <2>1, <2>2
<1>4. QED
  BY <1>1, <1>2, <1>3, PTL DEF Spec

--------------------------------------------------------------------------------
(* One run for each key.                                                          *)

\* uq_idea_runs_user_idempotency.
KeyAlone ==
  \A r, s \in RunIds : /\ Present(r) /\ Present(s) /\ run[r].user = run[s].user
                       /\ run[r].key = run[s].key /\ run[r].key # None
                       => r = s

LEMMA KeyAloneStep ==
  ASSUME Typed, KeyAlone, [Next]_vars
  PROVE  KeyAlone'
<1>1. RunEffect
  BY RunEffects
<1> SUFFICES ASSUME NEW r \in RunIds, NEW s \in RunIds, Present(r)', Present(s)',
                    run'[r].user = run'[s].user, run'[r].key = run'[s].key,
                    run'[r].key # None, r # s
             PROVE  FALSE
  BY DEF KeyAlone
<1>2. CASE run[r].status # "absent" /\ run[s].status # "absent"
  BY <1>1, <1>2, OwnersKept DEF KeyAlone
<1>3. ASSUME NEW a \in RunIds, NEW b \in RunIds, a # b, run[a].status = "absent",
             Present(a)', Present(b)', run'[a].user = run'[b].user,
             run'[a].key = run'[b].key, run'[a].key # None
      PROVE  FALSE
  <2>1. run'[a].status # "absent"
    BY <1>3 DEF Present
  <2>2. PICK q \in Requests : ~Collides(q) /\ run' = [run EXCEPT ![a] = Inserted(q)]
    BY <1>1, <1>3, <2>1, NewRow
  <2>3. run'[b] = run[b] /\ run'[a].user = request[q].user /\ run'[a].key = request[q].key
    BY <1>3, <2>2 DEF Typed, TypeOK, Inserted
  <2>4. b \in HoldingKey(request[q].user, request[q].key)
    BY <1>3, <2>3 DEF HoldingKey, Present
  <2>5. QED
    BY <2>2, <2>4 DEF Collides
<1>4. QED
  BY <1>2, <1>3

\* Who got a run as an answer owns it: no run changes hands.
AnsweredToOwner ==
  \A a \in accepted : run[a.run].status # "absent" /\ run[a.run].user = a.user

LEMMA AnsweredToOwnerStep ==
  ASSUME Typed, AnsweredToOwner, [Next]_vars
  PROVE  AnsweredToOwner'
<1> SUFFICES ASSUME NEW a \in accepted'
             PROVE  run'[a.run].status # "absent" /\ run'[a.run].user = a.user
  BY DEF AnsweredToOwner
<1>1. accepted \subseteq [user: Users, key: Keys, run: RunIds]
  BY DEF Typed, TypeOK
<1>2. a \in accepted \/ \E q \in Requests : LoadRun(q)
  BY DEF Next, vars, SubmitCreate, SubmitRetry, LoadPrior, CheckKey, CheckActive, CheckPrevious,
         Insert, SetState, DeleteIdea, CreateStory, CreateSession, Develop, LoadIdea,
         WorkerStep, DeleteRun
<1>3. CASE a \in accepted
  BY <1>1, <1>3, RunEffects, OwnersKept DEF AnsweredToOwner
<1>4. ASSUME NEW q \in Requests, LoadRun(q), a \notin accepted
      PROVE  run'[a.run].status # "absent" /\ run'[a.run].user = a.user
  <2> DEFINE answer == [user |-> request[q].user, key |-> request[q].key, run |-> request[q].target]
  <2>1. a = answer /\ Visible(request[q].user, request[q].target, FALSE) /\ run' = run
    BY <1>4 DEF LoadRun
  <2>2. a.run = request[q].target /\ a.user = request[q].user
    BY <2>1
  <2>3. QED
    BY <2>1, <2>2 DEF Visible, Present
<1>5. QED
  BY <1>2, <1>3, <1>4

\* Repeats of a request with one key are served by one run of that key, whatever
\* overlaps (idea_generations.py:762-770, uq_idea_runs_user_idempotency).
THEOREM KeyIsServedByOneRun == Spec => []KeyServesOneRun
<1>1. Init => Typed /\ KeyAlone /\ AnsweredToOwner
  BY TypedInit DEF Init, KeyAlone, AnsweredToOwner, NoRow, Present
<1>2. Typed /\ KeyAlone /\ AnsweredToOwner /\ [Next]_vars => Typed' /\ KeyAlone' /\ AnsweredToOwner'
  BY TypedStep, KeyAloneStep, AnsweredToOwnerStep
<1>3. Typed /\ KeyAlone /\ AnsweredToOwner => KeyServesOneRun
  <2> SUFFICES ASSUME Typed, KeyAlone, AnsweredToOwner, NEW a \in accepted, NEW b \in accepted,
                      Present(a.run), Present(b.run), run[a.run].key = a.key, run[b.run].key = b.key,
                      a.user = b.user, a.key = b.key
               PROVE  a.run = b.run
    BY DEF KeyServesOneRun
  <2>1. a \in [user: Users, key: Keys, run: RunIds] /\ b \in [user: Users, key: Keys, run: RunIds]
    BY DEF Typed, TypeOK
  <2>2. a.run \in RunIds /\ b.run \in RunIds /\ a.key # None
    BY <2>1, NoneAssumption
  <2>3. run[a.run].user = run[b.run].user
    BY DEF AnsweredToOwner
  <2>4. QED
    BY <2>2, <2>3 DEF KeyAlone
<1>4. QED
  BY <1>1, <1>2, <1>3, PTL DEF Spec

--------------------------------------------------------------------------------
(* Deleted ideas.                                                                *)

Unfinished == {"absent"} \cup Active

\* Only a run that has ended has ideas, and a request holds ideas of such runs only.
IdeasOfEndedRuns ==
  /\ \A r \in RunIds : run[r].status \in Unfinished => idea[r] = "none"
  /\ \A q \in Requests : request[q].pc \in IdeaSteps => run[request[q].target].status \notin Unfinished

LEMMA IdeasOfEndedRunsStep ==
  ASSUME Typed, IdeasOfEndedRuns, [Next]_vars
  PROVE  IdeasOfEndedRuns'
<1>1. \A r \in RunIds : run[r].status \notin Unfinished => run'[r].status \notin Unfinished
  BY RunEffects, OwnersKept DEF Unfinished
<1>2. \A r \in RunIds : run'[r].status \in Unfinished => idea'[r] = "none"
  <2> SUFFICES ASSUME NEW r \in RunIds, run'[r].status \in Unfinished
               PROVE  idea'[r] = "none"
    OBVIOUS
  <2>1. run[r].status \in Unfinished /\ idea[r] = "none"
    BY <1>1 DEF IdeasOfEndedRuns
  <2>2. ASSUME NEW q \in Requests, SetState(q) \/ DeleteIdea(q)
        PROVE  idea'[r] = "none"
    <3>1. request[q].pc \in IdeaSteps /\ request[q].target # r
      BY <2>1, <2>2 DEF SetState, DeleteIdea, IdeaSteps, IdeasOfEndedRuns
    <3>2. QED
      BY <2>1, <2>2, <3>1 DEF SetState, DeleteIdea, Typed, TypeOK
  <2>3. ASSUME NEW s \in RunIds, WorkerStep(s)
        PROVE  idea'[r] = "none"
    BY <2>1, <2>3 DEF WorkerStep, Typed, TypeOK, Unfinished, Active, Row
  <2>4. ASSUME NEW s \in RunIds, NEW u \in Users, DeleteRun(u, s)
        PROVE  idea'[r] = "none"
    BY <2>1, <2>4 DEF DeleteRun, HasIdea, IdeaState, Typed, TypeOK
  <2>5. idea' = idea \/ (\E q \in Requests : SetState(q) \/ DeleteIdea(q))
          \/ (\E s \in RunIds : WorkerStep(s) \/ \E u \in Users : DeleteRun(u, s))
    BY DEF Next, vars, SubmitCreate, SubmitRetry, LoadPrior, CheckKey, CheckActive, CheckPrevious,
           Insert, LoadRun, CreateStory, CreateSession, Develop, LoadIdea
  <2>6. QED
    BY <2>1, <2>2, <2>3, <2>4, <2>5
<1>3. \A q \in Requests : request'[q].pc \in IdeaSteps
                            => run'[request'[q].target].status \notin Unfinished
  <2> SUFFICES ASSUME NEW q \in Requests, request'[q].pc \in IdeaSteps
               PROVE  run'[request'[q].target].status \notin Unfinished
    OBVIOUS
  \* Only LoadIdea brings a request to one of these statements.
  <2>1. CASE request'[q] = request[q]
    BY <1>1, <2>1 DEF IdeasOfEndedRuns, Typed, Targeted
  <2>2. ASSUME NEW u \in Users, NEW r \in RunIds, NEW to \in IdeaState \cup {None},
               NEW pc \in IdeaSteps, LoadIdea(q, u, r, pc, to)
        PROVE  run'[request'[q].target].status \notin Unfinished
    <3>1. request'[q].target = r
      BY <2>2 DEF LoadIdea, Typed, TypeOK, Idle
    <3>2. idea[r] # "none"
      BY <2>2 DEF LoadIdea, IdeaVisible, HasIdea, IdeaState
    <3>3. QED
      BY <1>1, <3>1, <3>2 DEF IdeasOfEndedRuns
  <2>3. ASSUME request'[q] # request[q]
        PROVE  \E u \in Users, r \in RunIds, to \in IdeaState \cup {None}, pc \in IdeaSteps :
                 LoadIdea(q, u, r, pc, to)
    <3>1. ~(request'[q].pc \in {"idle", "prior", "key", "active", "previous", "insert", "load"})
      BY DEF IdeaSteps, Targets
    <3>2. ASSUME NEW p \in Requests,
                 Answer(p) \/ (\E r \in RunIds : LoadNext(p, r))
                   \/ (\E pc \in {"active", "previous", "insert"} : Proceed(p, pc))
          PROVE  FALSE
      BY <2>3, <3>1, <3>2 DEF Answer, LoadNext, Proceed, Idle, Typed, TypeOK, Call
    <3>3. ASSUME NEW p \in Requests, LoadPrior(p)
          PROVE  FALSE
      BY <2>3, <3>1, <3>2, <3>3 DEF LoadPrior, Typed, TypeOK, Call
    <3>4. ASSUME NEW p \in Requests,
                 (\E u \in Users, k \in Keys, pl \in Payload : SubmitCreate(p, u, k, pl))
                   \/ (\E u \in Users, r \in RunIds : SubmitRetry(p, u, r))
          PROVE  FALSE
      BY <2>3, <3>1, <3>4 DEF SubmitCreate, SubmitRetry, Typed, TypeOK, Idle
    <3>5. ASSUME NEW p \in Requests,
                 CheckKey(p) \/ CheckActive(p) \/ CheckPrevious(p) \/ Insert(p) \/ LoadRun(p)
                   \/ SetState(p) \/ DeleteIdea(p) \/ CreateStory(p) \/ CreateSession(p)
          PROVE  FALSE
      BY <3>2, <3>5 DEF CheckKey, CheckActive, CheckPrevious, Insert, LoadRun, SetState, DeleteIdea,
                        CreateStory, CreateSession, Develop, HoldingKey, ActiveOf
    <3>6. ASSUME NEW p \in Requests, p # q, NEW u \in Users, NEW r \in RunIds,
                 NEW to \in IdeaState \cup {None}, NEW pc \in IdeaSteps, LoadIdea(p, u, r, pc, to)
          PROVE  FALSE
      BY <2>3, <3>6 DEF LoadIdea, Typed, TypeOK
    <3>7. request' # request
      BY <2>3
    <3>8. QED
      BY <3>3, <3>4, <3>5, <3>6, <3>7 DEF Next, vars, WorkerStep, DeleteRun, IdeaSteps
  <2>4. QED
    BY <2>1, <2>2, <2>3
<1>4. QED
  BY <1>2, <1>3 DEF IdeasOfEndedRuns

\* A deleted idea never comes back, neither through a request that had loaded it nor
\* through a worker (idea_generations.py:1016-1020).
THEOREM DeletionIsFinal == Spec => DeletedIdeaStays
<1>1. Init => Typed /\ IdeasOfEndedRuns
  BY TypedInit DEF Init, IdeasOfEndedRuns, Idle, IdeaSteps, Targets
<1>2. Typed /\ IdeasOfEndedRuns /\ [Next]_vars => Typed' /\ IdeasOfEndedRuns'
  BY TypedStep, IdeasOfEndedRunsStep
<1>3. Typed /\ IdeasOfEndedRuns /\ [Next]_vars
        => [\A r \in RunIds : idea[r] = "deleted" => idea'[r] = "deleted"]_vars
  <2> SUFFICES ASSUME Typed, IdeasOfEndedRuns, [Next]_vars, NEW r \in RunIds, idea[r] = "deleted"
               PROVE  idea'[r] = "deleted"
    OBVIOUS
  <2>1. run[r].status \notin Unfinished
    BY DEF IdeasOfEndedRuns
  <2>2. ASSUME NEW s \in RunIds, WorkerStep(s)
        PROVE  idea'[r] = "deleted"
    BY <2>1, <2>2 DEF WorkerStep, Unfinished, Active, Typed, TypeOK
  <2>3. ASSUME NEW s \in RunIds, NEW u \in Users, DeleteRun(u, s)
        PROVE  idea'[r] = "deleted"
    BY <2>3 DEF DeleteRun, Typed, TypeOK
  <2>4. ASSUME NEW q \in Requests, SetState(q) \/ DeleteIdea(q)
        PROVE  idea'[r] = "deleted"
    BY <2>4 DEF SetState, DeleteIdea, HasIdea, IdeaState, Typed, TypeOK
  <2>5. idea' = idea \/ (\E q \in Requests : SetState(q) \/ DeleteIdea(q))
          \/ (\E s \in RunIds : WorkerStep(s) \/ \E u \in Users : DeleteRun(u, s))
    BY DEF Next, vars, SubmitCreate, SubmitRetry, LoadPrior, CheckKey, CheckActive, CheckPrevious,
           Insert, LoadRun, CreateStory, CreateSession, Develop, LoadIdea
  <2>6. QED
    BY <2>2, <2>3, <2>4, <2>5
<1>4. QED
  BY <1>1, <1>2, <1>3, PTL DEF Spec, DeletedIdeaStays
================================================================================
