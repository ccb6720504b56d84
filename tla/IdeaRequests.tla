----------------------------- MODULE IdeaRequests -----------------------------
(* The HTTP requests about Idea Generator runs and their ideas                  *)
(* (backend/api/routes/idea_generations.py): create and retry with idempotency  *)
(* keys, deletion, dismissal, and the handoff of an idea to a story or a        *)
(* research session.                                                            *)
(*                                                                              *)
(* A request is a coroutine that awaits the database between its statements, so *)
(* each statement is an action and every other request, of the same user or of  *)
(* another, may run between two of them. The database holds what the handlers   *)
(* do not: uq_idea_runs_user_idempotency and the partial index                  *)
(* uq_idea_generation_runs_one_active_user of migration 0020. Workers appear    *)
(* only as what they do to a run's status; IdeaLease has them in full.          *)
EXTENDS Naturals, FiniteSets

CONSTANTS Users,     \* users.id
          Admins,    \* those with is_admin
          Keys,      \* Idempotency-Key headers clients send
          RunIds,    \* ids of runs; a deleted run's id is not used again
          Formats,   \* IdeaFormat; a new story takes "documentary" only
          Requests,  \* requests in progress at the same time
          None       \* SQL NULL; also a key minted by the server (uuid4)

ASSUME AdminsAssumption  == Admins \subseteq Users
ASSUME NoneAssumption    == None \notin RunIds \cup Keys
ASSUME FormatsAssumption == "documentary" \in Formats

VARIABLES run,       \* idea_generation_runs
          idea,      \* generated_ideas: the state of a run's idea
          request,   \* what each coroutine is about to do, and its parameters
          accepted,  \* history: the 202 answers to requests with a client's key
          developed  \* the ideas stories and sessions have been created from

vars == <<run, idea, request, accepted, developed>>

--------------------------------------------------------------------------------
Active   == {"queued", "running"}
Terminal == {"completed", "failed"}
Status   == {"absent", "deleted"} \cup Active \cup Terminal
IdeaState == {"active", "saved", "dismissed"}
Targets  == {"story", "research"}

\* What request_hash covers: the format and the run that is retried.
Payload == [format: Formats, previous: RunIds \cup {None}]
NoPayload == [format |-> "documentary", previous |-> None]

Row == [status: Status, user: Users \cup {None}, key: Keys \cup {None}, payload: Payload]
NoRow == [status |-> "absent", user |-> None, key |-> None, payload |-> NoPayload]

\* pc names the next statement of the handler; target is the run it is about.
Steps == {"idle", "prior", "key", "active", "previous", "insert", "load",
          "state", "delete_idea", "story", "research"}
Call == [pc: Steps, user: Users \cup {None}, key: Keys \cup {None}, payload: Payload,
         target: RunIds \cup {None}, to: IdeaState \cup {None}]
Idle == [pc |-> "idle", user |-> None, key |-> None, payload |-> NoPayload,
         target |-> None, to |-> None]

Present(r) == run[r].status \notin {"absent", "deleted"}
HasIdea(r) == idea[r] \in IdeaState

\* The WHERE clauses of _load_run and _load_idea.
Visible(u, r, anyOwner) == Present(r) /\ (anyOwner \/ run[r].user = u)
IdeaVisible(u, r, anyOwner) == Visible(u, r, anyOwner) /\ HasIdea(r)

HoldingKey(u, k) == {r \in RunIds : k # None /\ Present(r) /\ run[r].user = u /\ run[r].key = k}
ActiveOf(u)      == {r \in RunIds : run[r].user = u /\ run[r].status \in Active}

Init ==
  /\ run = [r \in RunIds |-> NoRow]
  /\ idea = [r \in RunIds |-> "none"]
  /\ request = [q \in Requests |-> Idle]
  /\ accepted = {}
  /\ developed = {}

Proceed(q, pc) == request' = [request EXCEPT ![q].pc = pc]
LoadNext(q, r) == request' = [request EXCEPT ![q].pc = "load", ![q].target = r]
Answer(q)      == request' = [request EXCEPT ![q] = Idle]

--------------------------------------------------------------------------------
\* Each create in progress may need an id; the pool is a bound of the model.
RoomForRun ==
  Cardinality({q \in Requests : request[q].pc \in {"prior", "key", "active", "previous", "insert"}})
    < Cardinality({r \in RunIds : run[r].status = "absent"})

\* POST "": a client may send a key again, with the same payload or another one,
\* while its first request is still being served or after its answer was lost.
SubmitCreate(q, u, k, p) ==
  /\ request[q].pc = "idle"
  /\ RoomForRun
  /\ p.previous # None => run[p.previous].status # "absent"
  /\ request' = [request EXCEPT ![q] = [Idle EXCEPT !.pc = "key", !.user = u, !.key = k, !.payload = p]]
  /\ UNCHANGED <<run, idea, accepted, developed>>

\* POST /{run_id}/retry: _create_run follows with a key of its own.
SubmitRetry(q, u, r) ==
  /\ request[q].pc = "idle"
  /\ RoomForRun
  /\ run[r].status # "absent"
  /\ request' = [request EXCEPT ![q] = [Idle EXCEPT !.pc = "prior", !.user = u, !.target = r]]
  /\ UNCHANGED <<run, idea, accepted, developed>>

LoadPrior(q) ==
  LET r == request[q].target
      u == request[q].user
  IN
  /\ request[q].pc = "prior"
  /\ IF Visible(u, r, u \in Admins) /\ run[r].status \in Terminal
     THEN request' = [request EXCEPT ![q].pc = "key",
                        ![q].payload = [format |-> run[r].payload.format, previous |-> r]]
     ELSE Answer(q)                                            \* 404, or 409 still active
  /\ UNCHANGED <<run, idea, accepted, developed>>

\* The key's own run answers a repeat; another payload under the key is refused (409).
CheckKey(q) ==
  LET found == HoldingKey(request[q].user, request[q].key) IN
  /\ request[q].pc = "key"
  /\ IF found = {}
     THEN Proceed(q, "active")
     ELSE \E r \in found :
            IF run[r].payload = request[q].payload THEN LoadNext(q, r) ELSE Answer(q)
  /\ UNCHANGED <<run, idea, accepted, developed>>

\* A user with an active run gets that run, whatever was asked for.
CheckActive(q) ==
  LET found == ActiveOf(request[q].user) IN
  /\ request[q].pc = "active"
  /\ IF found = {}
     THEN Proceed(q, IF request[q].payload.previous = None THEN "insert" ELSE "previous")
     ELSE \E r \in found : LoadNext(q, r)
  /\ UNCHANGED <<run, idea, accepted, developed>>

CheckPrevious(q) ==
  /\ request[q].pc = "previous"
  /\ IF Visible(request[q].user, request[q].payload.previous, FALSE)
     THEN Proceed(q, "insert")
     ELSE Answer(q)                                            \* 404
  /\ UNCHANGED <<run, idea, accepted, developed>>

\* What the two unique indexes refuse.
Collides(q) ==
  HoldingKey(request[q].user, request[q].key) \cup ActiveOf(request[q].user) # {}

Inserted(q) == [status |-> "queued", user |-> request[q].user, key |-> request[q].key,
                payload |-> request[q].payload]

\* Faulty: the partial unique index is missing.
InsertUnindexed(q) ==
  /\ request[q].pc = "insert"
  /\ \E r \in RunIds :
       /\ run[r].status = "absent"
       /\ IF HoldingKey(request[q].user, request[q].key) = {}
          THEN run' = [run EXCEPT ![r] = Inserted(q)] /\ LoadNext(q, r)
          ELSE UNCHANGED run /\ Answer(q)
  /\ UNCHANGED <<idea, accepted, developed>>

\* Faulty: the unique constraint on (user_id, idempotency_key) is missing.
InsertAnyKey(q) ==
  /\ request[q].pc = "insert"
  /\ \E r \in RunIds :
       /\ run[r].status = "absent"
       /\ IF ActiveOf(request[q].user) = {}
          THEN run' = [run EXCEPT ![r] = Inserted(q)] /\ LoadNext(q, r)
          ELSE UNCHANGED run /\ Answer(q)
  /\ UNCHANGED <<idea, accepted, developed>>

\* The INSERT and its two unique indexes. A violation is an IntegrityError nothing
\* catches: get_db rolls back and the client gets 500.
Insert(q) ==
  /\ request[q].pc = "insert"
  /\ \E r \in RunIds :
       /\ run[r].status = "absent"
       /\ IF Collides(q)
          THEN UNCHANGED run /\ Answer(q)
          ELSE run' = [run EXCEPT ![r] = Inserted(q)] /\ LoadNext(q, r)
  /\ UNCHANGED <<idea, accepted, developed>>

\* The run is read again for the answer: 202, or 404 when it was deleted meanwhile.
LoadRun(q) ==
  LET r == request[q].target
      k == request[q].key
  IN
  /\ request[q].pc = "load"
  /\ accepted' = IF k # None /\ Visible(request[q].user, r, FALSE)
                 THEN accepted \cup {[user |-> request[q].user, key |-> k, run |-> r]}
                 ELSE accepted
  /\ Answer(q)
  /\ UNCHANGED <<run, idea, developed>>

--------------------------------------------------------------------------------
\* What the workers of IdeaLease do to a run: claim it, complete it with ideas, fail it.
WorkerStep(r) ==
  /\ \/ run[r].status = "queued" /\ run' = [run EXCEPT ![r].status = "running"] /\ UNCHANGED idea
     \/ /\ run[r].status = "running"
        /\ run' = [run EXCEPT ![r].status = "completed"]
        /\ idea' = [idea EXCEPT ![r] = "active"]
     \/ run[r].status \in Active /\ run' = [run EXCEPT ![r].status = "failed"] /\ UNCHANGED idea
  /\ UNCHANGED <<request, accepted, developed>>

\* Faulty: the foreign key does not cascade, and the ideas stay behind.
DeleteRunAlone(u, r) ==
  /\ Visible(u, r, u \in Admins)
  /\ run' = [run EXCEPT ![r].status = "deleted"]
  /\ UNCHANGED <<idea, request, accepted, developed>>

\* DELETE /{run_id}: allowed in every status once no lease is live (IdeaLease has the
\* check and the race behind it). The statement names the run only; its ideas go with
\* it because their foreign key says ON DELETE CASCADE.
DeleteRun(u, r) ==
  /\ Visible(u, r, u \in Admins)
  /\ run' = [run EXCEPT ![r].status = "deleted"]
  /\ idea' = [idea EXCEPT ![r] = IF HasIdea(r) THEN "deleted" ELSE @]
  /\ UNCHANGED <<request, accepted, developed>>

\* The first statement of the four requests about one idea loads it; the second
\* writes. Only the owner dismisses, an administrator may also delete, and anybody
\* may develop; a story takes documentary ideas only.
LoadIdea(q, u, r, pc, to) ==
  /\ request[q].pc = "idle"
  /\ IdeaVisible(u, r, \/ pc \in Targets
                       \/ pc = "delete_idea" /\ u \in Admins)
  /\ pc = "story" => run[r].payload.format = "documentary"
  /\ (pc = "state") = (to # None)
  /\ request' = [request EXCEPT ![q] = [Idle EXCEPT !.pc = pc, !.user = u, !.target = r, !.to = to]]
  /\ UNCHANGED <<run, idea, accepted, developed>>

\* Faulty: the write inserts the row when it is gone.
SetStateAlways(q) ==
  /\ request[q].pc = "state"
  /\ idea' = [idea EXCEPT ![request[q].target] = request[q].to]
  /\ Answer(q)
  /\ UNCHANGED <<run, accepted, developed>>

\* UPDATE generated_ideas by primary key; of a row that is gone it is a
\* StaleDataError (500). The last of two states wins.
SetState(q) ==
  LET r == request[q].target IN
  /\ request[q].pc = "state"
  /\ idea' = [idea EXCEPT ![r] = IF HasIdea(r) THEN request[q].to ELSE @]
  /\ Answer(q)
  /\ UNCHANGED <<run, accepted, developed>>

DeleteIdea(q) ==
  /\ request[q].pc = "delete_idea"
  /\ idea' = [idea EXCEPT ![request[q].target] = "deleted"]
  /\ Answer(q)
  /\ UNCHANGED <<run, accepted, developed>>

\* The workspace keeps a copy of the idea with its sources and signals; origin_idea_id
\* has no foreign key, so the insert succeeds even when the idea is gone by now.
Develop(q, target) ==
  /\ request[q].pc = target
  /\ developed' = developed \cup {request[q].target}
  /\ Answer(q)
  /\ UNCHANGED <<run, idea, accepted>>

CreateStory(q)   == Develop(q, "story")      \* stories.py, POST /stories/ideation
CreateSession(q) == Develop(q, "research")   \* research_sessions.py, POST /sessions

Next ==
  \/ \E q \in Requests, u \in Users, k \in Keys, p \in Payload : SubmitCreate(q, u, k, p)
  \/ \E q \in Requests, u \in Users, r \in RunIds : SubmitRetry(q, u, r)
  \/ \E q \in Requests :
       \/ LoadPrior(q) \/ CheckKey(q) \/ CheckActive(q) \/ CheckPrevious(q) \/ Insert(q)
       \/ LoadRun(q) \/ SetState(q) \/ DeleteIdea(q) \/ CreateStory(q) \/ CreateSession(q)
  \/ \E q \in Requests, u \in Users, r \in RunIds, to \in IdeaState \cup {None},
        pc \in {"state", "delete_idea"} \cup Targets : LoadIdea(q, u, r, pc, to)
  \/ \E r \in RunIds : WorkerStep(r) \/ \E u \in Users : DeleteRun(u, r)

Spec == Init /\ [][Next]_vars

--------------------------------------------------------------------------------
\* An idea that is stored belongs to a run that is stored and completed: workers write
\* both at once, and the foreign key of the idea deletes it with its run
\* (models/idea_generation.py:125-127).
IdeasHaveRuns == \A r \in RunIds : HasIdea(r) => run[r].status = "completed"

\* Every variable stays within its type, and no idea is stored without its run.
TypeOK ==
  /\ run \in [RunIds -> Row]
  /\ idea \in [RunIds -> IdeaState \cup {"none", "deleted"}]
  /\ request \in [Requests -> Call]
  /\ accepted \subseteq [user: Users, key: Keys, run: RunIds]
  /\ developed \subseteq RunIds
  /\ IdeasHaveRuns

\* A user never has two active runs, although the check for one and the insert are
\* separate statements of requests that overlap (idea_generations.py:772, 809).
OneActiveRun == \A u \in Users : Cardinality(ActiveOf(u)) <= 1

\* Repeats of a request with one key are never served by two runs of that key, even
\* when both are in flight and the first run ends before the second inserts
\* (idea_generations.py:762-770). A repeat may still get another key's active run, and
\* a key is free again once its run is deleted.
KeyServesOneRun ==
  \A a, b \in accepted :
    LET own(x) == Present(x.run) /\ run[x.run].key = x.key IN
    own(a) /\ own(b) /\ a.user = b.user /\ a.key = b.key => a.run = b.run

\* An idea that was deleted, or whose run was, never comes back through a request that
\* had loaded it before (idea_generations.py:1016-1020).
DeletedIdeaStays == [][\A r \in RunIds : idea[r] = "deleted" => idea'[r] = "deleted"]_vars
================================================================================
