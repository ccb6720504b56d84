-------------------------- MODULE ResearchSessionProofs --------------------------
(* Machine-checked proofs of ResearchSession's safety properties, for any number of *)
(* prompts and any threshold of the watchdog.                                       *)
EXTENDS ResearchSession, FiniteSetTheorems, TLAPS

--------------------------------------------------------------------------------
(* Types, and what the ORM's flush makes of a row.                                *)

Statuses == {"running", "completed", "failed"}

LEMMA NoRowTyped == NoRow \in Row /\ NoJob \in Job /\ Fresh \in Loader /\ Sent \in Loader
<1>1. NoRow \in Row
  BY DEF NoRow, Row, NoPrompt, NoAnswer, Answers
<1>2. NoJob \in Job
  BY <1>1 DEF NoJob, Job, Outcome, Answers, NoPrompt
<1>3. QED
  BY <1>1, <1>2 DEF Fresh, Sent, Loader

\* _mark_latest_turn changes the status of the last turn, and its answer when it has one.
LEMMA MarkLatestTyped ==
  ASSUME NEW turns \in Seq(Turn), NEW status \in Statuses, NEW answer \in Answers \cup {NoAnswer}
  PROVE  MarkLatest(turns, status, answer) \in Seq(Turn)
<1>1. CASE turns = <<>>
  BY <1>1 DEF MarkLatest
<1>2. CASE turns # <<>>
  <2> DEFINE n == Len(turns)
             t == [turns[n] EXCEPT !.status = status,
                                   !.answer = IF answer = NoAnswer THEN @ ELSE answer]
  <2>1. n \in 1..Len(turns) /\ turns[n] \in Turn
    BY <1>2
  <2>2. t \in Turn
    BY <2>1 DEF Turn, Statuses
  <2>3. MarkLatest(turns, status, answer) = [turns EXCEPT ![n] = t]
    BY <1>2, <2>1 DEF MarkLatest
  <2> HIDE DEF t
  <2>4. QED
    BY <2>1, <2>2, <2>3
<1>3. QED
  BY <1>1, <1>2

LEMMA MarkLatestEffect ==
  ASSUME NEW turns \in Seq(Turn), turns # <<>>, NEW status \in Statuses,
         NEW answer \in Answers \cup {NoAnswer}
  PROVE  LET m == MarkLatest(turns, status, answer)
             n == Len(turns)
         IN
         /\ n \in DOMAIN turns /\ Len(m) = n /\ DOMAIN m = DOMAIN turns
         /\ \A i \in DOMAIN turns : i # n => m[i] = turns[i]
         /\ m[n].prompt = turns[n].prompt /\ m[n].status = status
         /\ m[n].answer = IF answer = NoAnswer THEN turns[n].answer ELSE answer
<1> DEFINE n == Len(turns)
           m == MarkLatest(turns, status, answer)
           t == [turns[n] EXCEPT !.status = status,
                                 !.answer = IF answer = NoAnswer THEN @ ELSE answer]
<1>1. n \in 1..Len(turns) /\ turns[n] \in Turn /\ DOMAIN turns = 1..n
  OBVIOUS
<1>2. /\ t.prompt = turns[n].prompt /\ t.status = status
      /\ t.answer = IF answer = NoAnswer THEN turns[n].answer ELSE answer
  BY <1>1 DEF Turn
<1>3. m = [turns EXCEPT ![n] = t]
  BY <1>1 DEF MarkLatest
<1> HIDE DEF t, m
<1>4. m[n] = t /\ DOMAIN m = DOMAIN turns /\ \A i \in DOMAIN turns : i # n => m[i] = turns[i]
  BY <1>1, <1>3
<1>5. Len(m) = n
  BY <1>1, <1>3
<1>6. QED
  BY <1>1, <1>2, <1>4, <1>5 DEF m

LEMMA EndedTyped ==
  ASSUME NEW mem \in Row, NEW status \in {"completed", "failed"}, NEW error \in {"none", "failed", "stale"},
         NEW answer \in Answers \cup {NoAnswer}
  PROVE  LET e == Ended(mem, status, error, answer) IN
         /\ e \in Row /\ e.status = status /\ e.prompt = NoPrompt
         /\ e.turns = MarkLatest(mem.turns, status, answer)
         /\ e.report = mem.report /\ e.cites = mem.cites /\ e.searches = mem.searches
         /\ e.demand = mem.demand
<1>1. MarkLatest(mem.turns, status, answer) \in Seq(Turn)
  BY MarkLatestTyped DEF Row, Statuses
<1>2. QED
  BY <1>1 DEF Ended, Row, NoPrompt

\* The columns a flush leaves in the row are typed, whatever was loaded before.
LEMMA FlushTyped ==
  ASSUME row \in Row, NEW mem \in Row, NEW new \in Row
  PROVE  Flush(mem, new) \in Row
  BY DEF Flush, Row

\* Without another writer in between, a flush stores the row as computed.
LEMMA FlushStores ==
  ASSUME row \in Row, NEW new \in Row, Exists
  PROVE  Flush(row, new) = new
<1>1. DOMAIN new = DOMAIN row
  BY DEF Row
<1>2. Flush(row, new) = [c \in DOMAIN row |-> new[c]]
  BY DEF Flush
<1>3. new = [c \in DOMAIN new |-> new[c]]
  BY DEF Row
<1>4. QED
  BY <1>1, <1>2, <1>3

LEMMA AnsweredTyped ==
  ASSUME TypeOK, NEW p \in Prompts, NEW mem \in Row
  PROVE  LET a == Answered(p, mem) IN
         /\ a \in Row /\ a.status = "completed" /\ a.prompt = NoPrompt
         /\ a.turns = MarkLatest(mem.turns, "completed", job[p].prompt)
         /\ a.report = job[p].prompt
         /\ a.cites = IF p = 1 THEN {job[p].prompt} ELSE job[p].cites \cup {job[p].prompt}
         /\ a.searches = IF p = 1 THEN 1 ELSE mem.searches + 1
<1>1. job[p].prompt \in Answers /\ job[p].cites \subseteq Answers /\ mem.searches \in Nat
  BY DEF TypeOK, Job, Row
<1> DEFINE answer == job[p].prompt
           e      == Ended(mem, "completed", "none", answer)
<1>2. /\ e \in Row /\ e.status = "completed" /\ e.prompt = NoPrompt
      /\ e.turns = MarkLatest(mem.turns, "completed", answer)
      /\ e.searches = mem.searches
  <2>1. answer \in Answers \cup {NoAnswer}
    BY <1>1
  <2> HIDE DEF answer
  <2>2. QED
    BY <2>1, EndedTyped
<1> DEFINE demand   == e.demand \/ job[p].outcome = "answer_and_demand"
           report   == job[p].prompt
           cites    == IF p = 1 THEN {job[p].prompt} ELSE job[p].cites \cup {job[p].prompt}
           searches == IF p = 1 THEN 1 ELSE e.searches + 1
           a        == [e EXCEPT !.demand = demand, !.report = report, !.cites = cites,
                                 !.searches = searches]
<1>3. demand \in BOOLEAN /\ report \in Answers \cup {NoAnswer} /\ cites \subseteq Answers
  BY <1>1
<1>4. searches \in Nat
  BY <1>1, <1>2
<1>5. Answered(p, mem) = a
  BY <1>2 DEF Answered, Row
<1> HIDE DEF e, demand, report, cites, searches
<1>6. /\ a \in Row /\ a.status = e.status /\ a.prompt = e.prompt /\ a.turns = e.turns
      /\ a.report = report /\ a.cites = cites /\ a.searches = searches
  BY <1>2, <1>3, <1>4 DEF Row
<1> HIDE DEF a
<1>7. QED
  BY <1>2, <1>5, <1>6 DEF report, cites, searches

\* The row of the request that creates the session, and of one that adds a turn.
Asked(mem, op, p) ==
  [mem EXCEPT !.status = "running", !.op = op, !.prompt = p, !.error = "none",
     !.turns = Append(@, [prompt |-> p, status |-> "running", answer |-> NoAnswer])]

LEMMA AskedTyped ==
  ASSUME NEW mem \in Row, NEW op \in {"initial", "turn"}, NEW p \in Prompts
  PROVE  LET a == Asked(mem, op, p)
             n == Len(mem.turns) + 1
         IN
         /\ a \in Row /\ a.status = "running" /\ a.prompt = p
         /\ a.report = mem.report /\ a.cites = mem.cites /\ a.searches = mem.searches
         /\ mem.turns \in Seq(Turn) /\ n \notin DOMAIN mem.turns
         /\ a.turns # <<>> /\ Len(a.turns) = n /\ DOMAIN a.turns = DOMAIN mem.turns \cup {n}
         /\ \A i \in DOMAIN mem.turns : a.turns[i] = mem.turns[i]
         /\ a.turns[n].prompt = p /\ a.turns[n].status = "running" /\ a.turns[n].answer = NoAnswer
<1> DEFINE t     == [prompt |-> p, status |-> "running", answer |-> NoAnswer]
           turns == Append(mem.turns, t)
<1>1. t \in Turn /\ t.prompt = p /\ t.status = "running" /\ t.answer = NoAnswer
  BY DEF Turn
<1> HIDE DEF t
<1>2. mem.turns \in Seq(Turn) /\ Len(mem.turns) \in Nat /\ DOMAIN mem.turns = 1..Len(mem.turns)
  BY DEF Row
<1>3. /\ turns \in Seq(Turn) /\ Len(turns) = Len(mem.turns) + 1 /\ turns # <<>>
      /\ DOMAIN turns = 1..(Len(mem.turns) + 1)
      /\ \A i \in DOMAIN mem.turns : turns[i] = mem.turns[i]
      /\ turns[Len(mem.turns) + 1] = t
  BY <1>1, <1>2
<1> DEFINE a == Asked(mem, op, p)
<1> HIDE DEF turns
<1>4. /\ a \in Row /\ a.status = "running" /\ a.prompt = p /\ a.turns = turns
      /\ a.report = mem.report /\ a.cites = mem.cites /\ a.searches = mem.searches
  BY <1>3 DEF Asked, Row, turns, t
<1> HIDE DEF a
<1>5. QED
  BY <1>1, <1>2, <1>3, <1>4 DEF a

LEMMA TypedStep ==
  ASSUME TypeOK, [Next]_vars
  PROVE  TypeOK'
<1>0. /\ row \in Row /\ age \in 0..StaleTicks /\ request \in [Prompts -> Loader]
      /\ job \in [Prompts -> Job] /\ watchdog \in Loader /\ 0 \in 0..StaleTicks
      /\ Loaded \in Loader
  BY StaleAssumption DEF TypeOK, Loaded, Loader
<1>1. CASE CreateSession
  <2>1. 1 \in Prompts
    BY TurnsAssumption DEF Prompts
  <2>2. row' \in Row
    <3> DEFINE turns == <<[prompt |-> 1, status |-> "running", answer |-> NoAnswer]>>
    <3>1. turns \in Seq(Turn)
      BY <2>1 DEF Turn
    <3>2. row' = [row EXCEPT !.status = "running", !.op = "initial", !.prompt = 1, !.turns = turns]
      BY <1>1 DEF CreateSession
    <3> HIDE DEF turns
    <3>3. QED
      BY <1>0, <2>1, <3>1, <3>2 DEF Row
  <2>3. job' \in [Prompts -> Job]
    BY <1>0, <1>1 DEF CreateSession, Job
  <2>4. QED
    BY <1>0, <1>1, <2>2, <2>3, NoRowTyped DEF CreateSession, TypeOK
<1>2. ASSUME NEW p \in Prompts, AddTurnLoad(p)
      PROVE  TypeOK'
  BY <1>0, <1>2 DEF AddTurnLoad, TypeOK
<1>3. ASSUME NEW p \in Prompts, AddTurnFlush(p)
      PROVE  TypeOK'
  <2> DEFINE mem == request[p].mem
  <2>1. mem \in Row /\ Asked(mem, "turn", p) \in Row
    BY <1>0, AskedTyped DEF Loader
  <2>2. row' = Flush(mem, Asked(mem, "turn", p))
    BY <1>3 DEF AddTurnFlush, Asked
  <2>3. row' \in Row
    BY <1>0, <2>1, <2>2, FlushTyped
  <2>4. job' \in [Prompts -> Job]
    BY <1>0, <1>3 DEF AddTurnFlush, Job
  <2>5. QED
    BY <1>0, <1>3, <2>3, <2>4, NoRowTyped DEF AddTurnFlush, TypeOK
<1>4. ASSUME NEW p \in Prompts, JobStart(p)
      PROVE  TypeOK'
  <2> DEFINE a == [NoJob EXCEPT !.pc = "loaded", !.outcome = "error", !.mem = row]
             b == [NoJob EXCEPT !.pc = "agent", !.prompt = row.prompt, !.cites = row.cites,
                                !.fetch = ~row.demand]
  <2>1. a \in Job
    BY <1>0, NoRowTyped DEF Job, Outcome
  <2>2. b \in Job
    BY <1>0, NoRowTyped DEF Job, Row, Answers
  <2>3. \E j \in Job : job' = [job EXCEPT ![p] = j]
    BY <1>4, <2>1, <2>2, NoRowTyped DEF JobStart
  <2>4. QED
    BY <1>0, <1>4, <2>3 DEF JobStart, TypeOK
<1>5. ASSUME NEW p \in Prompts, NEW outcome \in Outcome \ {"none"}, AgentEnds(p, outcome)
      PROVE  TypeOK'
  <2>1. [job[p] EXCEPT !.pc = "loaded", !.outcome = outcome, !.mem = row] \in Job
    BY <1>0 DEF Job
  <2>2. \E j \in Job : job' = [job EXCEPT ![p] = j]
    BY <1>0, <1>5, <2>1, NoRowTyped DEF AgentEnds
  <2>3. QED
    BY <1>0, <1>5, <2>2 DEF AgentEnds, TypeOK
<1>6. ASSUME NEW p \in Prompts, JobFlush(p)
      PROVE  TypeOK'
  <2>1. job[p].mem \in Row
    BY <1>0 DEF Job
  <2>2. Ended(job[p].mem, "failed", "failed", NoAnswer) \in Row /\ Answered(p, job[p].mem) \in Row
    BY <2>1, EndedTyped, AnsweredTyped
  <2>3. row' \in Row
    BY <1>0, <1>6, <2>1, <2>2, FlushTyped DEF JobFlush
  <2>4. QED
    BY <1>0, <1>6, <2>3, NoRowTyped DEF JobFlush, TypeOK
<1>7. CASE WatchdogLoad
  BY <1>0, <1>7 DEF WatchdogLoad, TypeOK
<1>8. CASE WatchdogFlush
  <2>1. watchdog.mem \in Row
    BY <1>0 DEF Loader
  <2>2. Ended(watchdog.mem, "failed", "stale", NoAnswer) \in Row
    BY <2>1, EndedTyped
  <2>3. row' \in Row
    BY <1>0, <1>8, <2>1, <2>2, FlushTyped DEF WatchdogFlush
  <2>4. QED
    BY <1>0, <1>8, <2>3, NoRowTyped DEF WatchdogFlush, TypeOK
<1>9. CASE DeleteSession
  <2>1. row' \in Row
    BY <1>9, NoRowTyped DEF DeleteSession, Row
  <2>2. QED
    BY <1>0, <1>9, <2>1 DEF DeleteSession, TypeOK
<1>10. CASE Restart
  <2>1. request' \in [Prompts -> Loader] /\ job' \in [Prompts -> Job]
    BY <1>0, <1>10, NoRowTyped DEF Restart
  <2>2. QED
    BY <1>0, <1>10, <2>1, NoRowTyped DEF Restart, TypeOK
<1>11. CASE Tick
  <2>1. age' \in 0..StaleTicks
    BY <1>0, <1>11, StaleAssumption DEF Tick
  <2>2. QED
    BY <1>0, <1>11, <2>1 DEF Tick, TypeOK
<1>12. CASE UNCHANGED vars
  BY <1>0, <1>12 DEF vars, TypeOK
<1>13. QED
  BY <1>1, <1>2, <1>3, <1>4, <1>5, <1>6, <1>7, <1>8, <1>9, <1>10, <1>11, <1>12 DEF Next

LEMMA TypedInit == Init => TypeOK
  BY NoRowTyped, StaleAssumption DEF Init, TypeOK

\* Every column and every task stays within its type, whichever writers overlap: a flush
\* mixes columns computed from a row read before with those of the row as it is now.
THEOREM TypeCorrect == Spec => []TypeOK
  BY TypedInit, TypedStep, PTL DEF Spec

--------------------------------------------------------------------------------
(* In order: no writer loads the row while another is about to flush, and no       *)
(* operation outlives the watchdog's threshold. Then a row that is loaded is the   *)
(* row that is flushed, and one operation runs at a time.                          *)

\* Before the session is created nobody works on it; once it is, its first prompt was sent.
Begun ==
  /\ row.status = "absent" => /\ row = NoRow /\ watchdog.pc # "loaded"
                              /\ \A p \in Prompts : ~Live(p) /\ request[p].pc = "new"
  /\ Exists => request[1].pc = "sent"
  /\ ~Exists => row.turns = <<>>

\* Whoever has loaded the row holds it as it is.
Writers ==
  Exists =>
    /\ watchdog.pc = "loaded" => watchdog.mem = row /\ row.status = "running" /\ age = StaleTicks
    /\ \A p \in Prompts : request[p].pc = "loaded" => request[p].mem = row /\ row.status # "running"
    /\ \A p \in Prompts : job[p].pc = "loaded" => job[p].mem = row
    /\ \A p, q \in Prompts : request[p].pc = "loaded" /\ request[q].pc = "loaded" => p = q

\* A live job answers the prompt of the running operation, whose turn is the last one.
OnTime ==
  Exists =>
    /\ \A p \in Prompts : Live(p) => row.status = "running" /\ row.prompt = p /\ age # StaleTicks
    /\ \A p \in Prompts : job[p].pc \in {"agent", "loaded"} =>
         job[p].prompt = p /\ job[p].cites = row.cites
    /\ row.status = "running" => /\ row.turns # <<>>
                                 /\ row.turns[Len(row.turns)].prompt = row.prompt
                                 /\ row.turns[Len(row.turns)].status = "running"
    /\ \A i \in DOMAIN row.turns : row.turns[i].prompt = 1 => i = 1

InOrder == serial /\ punctual => Writers /\ OnTime

\* A flush neither creates a session nor brings a deleted one back.
LEMMA FlushExists ==
  ASSUME row \in Row, NEW mem \in Row, NEW new \in Row, new.status \in Statuses,
         row' = Flush(mem, new)
  PROVE  IF Exists THEN Exists' ELSE row' = row
<1>1. CASE Exists
  <2>1. row'.status \in {new.status, row.status}
    BY <1>1 DEF Flush, Row
  <2>2. QED
    BY <1>1, <2>1 DEF Exists, Statuses
<1>2. CASE ~Exists
  BY <1>2 DEF Flush
<1>3. QED
  BY <1>1, <1>2

\* Every flush of the code stores one of the three terminal or running statuses.
LEMMA FlushesExist ==
  ASSUME TypeOK,
         (\E p \in Prompts : AddTurnFlush(p) \/ JobFlush(p)) \/ WatchdogFlush
  PROVE  IF Exists THEN Exists' ELSE row' = row
<1>1. ASSUME NEW p \in Prompts, AddTurnFlush(p)
      PROVE  IF Exists THEN Exists' ELSE row' = row
  <2> DEFINE mem == request[p].mem
             new == Asked(mem, "turn", p)
  <2>1. mem \in Row
    BY DEF TypeOK, Loader
  <2>2. new \in Row /\ new.status = "running"
    BY <2>1, AskedTyped
  <2>3. row' = Flush(mem, new)
    BY <1>1 DEF AddTurnFlush, Asked
  <2> HIDE DEF new, mem
  <2>4. QED
    BY <2>1, <2>2, <2>3, FlushExists DEF TypeOK, Statuses
<1>2. ASSUME NEW p \in Prompts, JobFlush(p)
      PROVE  IF Exists THEN Exists' ELSE row' = row
  <2> DEFINE mem == job[p].mem
             e   == Ended(mem, "failed", "failed", NoAnswer)
             a   == Answered(p, mem)
  <2>1. mem \in Row
    BY DEF TypeOK, Job
  <2> HIDE DEF mem
  <2>2. e \in Row /\ e.status = "failed" /\ a \in Row /\ a.status = "completed"
    <3>1. e \in Row /\ e.status = "failed"
      BY <2>1, EndedTyped
    <3>2. a \in Row /\ a.status = "completed"
      BY <2>1, AnsweredTyped
    <3>3. QED
      BY <3>1, <3>2
  <2>3. row' = Flush(mem, e) \/ row' = Flush(mem, a)
    BY <1>2 DEF JobFlush, mem
  <2> HIDE DEF e, a
  <2>4. QED
    BY <2>1, <2>2, <2>3, FlushExists DEF TypeOK, Statuses
<1>3. CASE WatchdogFlush
  <2> DEFINE mem == watchdog.mem
             e   == Ended(mem, "failed", "stale", NoAnswer)
  <2>1. mem \in Row
    BY DEF TypeOK, Loader
  <2>2. e \in Row /\ e.status = "failed"
    BY <2>1, EndedTyped
  <2>3. row' = Flush(mem, e)
    BY <1>3 DEF WatchdogFlush
  <2> HIDE DEF e, mem
  <2>4. QED
    BY <2>1, <2>2, <2>3, FlushExists DEF TypeOK, Statuses
<1>4. QED
  BY <1>1, <1>2, <1>3

LEMMA BegunStep ==
  ASSUME TypeOK, Begun, [Next]_vars
  PROVE  Begun'
<1>0. /\ row \in Row /\ request \in [Prompts -> Loader] /\ job \in [Prompts -> Job]
      /\ 1 \in Prompts
  BY TurnsAssumption DEF TypeOK, Prompts
<1>1. CASE CreateSession
  <2>1. row'.status = "running" /\ request'[1] = Sent
    BY <1>0, <1>1 DEF CreateSession, Row
  <2>2. QED
    BY <2>1 DEF Begun, Exists, Sent
<1>2. ASSUME NEW p \in Prompts, AddTurnLoad(p)
      PROVE  Begun'
  <2>1. Exists /\ p # 1
    BY <1>2 DEF AddTurnLoad, Begun
  <2>2. row' = row /\ request'[1] = request[1]
    BY <1>0, <1>2, <2>1 DEF AddTurnLoad
  <2>3. QED
    BY <2>1, <2>2 DEF Begun, Exists
<1>3. ASSUME NEW p \in Prompts, AddTurnFlush(p)
      PROVE  Begun'
  <2>1. row.status # "absent"
    BY <1>3 DEF AddTurnFlush, Begun
  <2>2. IF Exists THEN Exists' ELSE row' = row
    BY <1>3, FlushesExist
  <2>3. Exists => request'[1].pc = "sent"
    BY <1>0, <1>3 DEF AddTurnFlush, Begun, Sent
  <2>4. QED
    BY <2>1, <2>2, <2>3 DEF Begun, Exists
<1>4. ASSUME NEW p \in Prompts, JobFlush(p)
      PROVE  Begun'
  <2>1. row.status # "absent" /\ request' = request
    BY <1>4 DEF JobFlush, Begun, Live
  <2>2. IF Exists THEN Exists' ELSE row' = row
    BY <1>4, FlushesExist
  <2>3. QED
    BY <2>1, <2>2 DEF Begun, Exists
<1>5. CASE WatchdogFlush
  <2>1. row.status # "absent" /\ request' = request
    BY <1>5 DEF WatchdogFlush, Begun
  <2>2. IF Exists THEN Exists' ELSE row' = row
    BY <1>5, FlushesExist
  <2>3. QED
    BY <2>1, <2>2 DEF Begun, Exists
<1>6. ASSUME NEW p \in Prompts, JobStart(p) \/ \E outcome \in Outcome \ {"none"} : AgentEnds(p, outcome)
      PROVE  Begun'
  <2>1. row.status # "absent" /\ request' = request /\ row' = row
    BY <1>6 DEF JobStart, AgentEnds, Begun, Live
  <2>2. QED
    BY <2>1 DEF Begun, Exists
<1>7. CASE WatchdogLoad
  BY <1>7 DEF WatchdogLoad, Begun, Exists, Live
<1>8. CASE DeleteSession
  BY <1>8 DEF DeleteSession, Begun, Exists, NoRow
<1>9. CASE Restart
  <2>1. row' = row /\ row.status # "absent"
    BY <1>9 DEF Restart, Begun
  <2>2. request[1].pc = "sent" => request'[1].pc = "sent"
    BY <1>0, <1>9 DEF Restart
  <2>3. QED
    BY <2>1, <2>2 DEF Begun, Exists
<1>10. CASE Tick
  BY <1>10 DEF Tick, Begun, Exists
<1>11. CASE UNCHANGED vars
  BY <1>11 DEF vars, Begun, Exists, Live
<1>12. QED
  BY <1>1, <1>2, <1>3, <1>4, <1>5, <1>6, <1>7, <1>8, <1>9, <1>10, <1>11 DEF Next

LEMMA AddTurnStores ==
  ASSUME TypeOK, Begun, Writers, NEW p \in Prompts, AddTurnFlush(p), Exists
  PROVE  p # 1 /\ row.status # "running" /\ row' = Asked(row, "turn", p)
<1>1. request[p].pc = "loaded" /\ request[p].mem = row /\ row.status # "running"
  BY DEF AddTurnFlush, Writers
<1>2. p # 1
  BY <1>1 DEF Begun
<1>3. row \in Row /\ Asked(row, "turn", p) \in Row
  BY AskedTyped DEF TypeOK
<1>4. row' = Flush(row, Asked(row, "turn", p))
  BY <1>1 DEF AddTurnFlush, Asked
<1>5. QED
  BY <1>1, <1>2, <1>3, <1>4, FlushStores

LEMMA WatchdogStores ==
  ASSUME TypeOK, Writers, WatchdogFlush, Exists
  PROVE  /\ row.status = "running" /\ age = StaleTicks
         /\ row' = Ended(row, "failed", "stale", NoAnswer)
<1>1. watchdog.mem = row /\ row.status = "running" /\ age = StaleTicks
  BY DEF WatchdogFlush, Writers
<1>2. row \in Row /\ Ended(row, "failed", "stale", NoAnswer) \in Row
  BY EndedTyped DEF TypeOK
<1>3. row' = Flush(row, Ended(row, "failed", "stale", NoAnswer))
  BY <1>1 DEF WatchdogFlush
<1>4. QED
  BY <1>1, <1>2, <1>3, FlushStores

LEMMA JobStores ==
  ASSUME TypeOK, Writers, OnTime, NEW p \in Prompts, JobFlush(p), Exists
  PROVE  /\ row.status = "running" /\ row.prompt = p /\ age # StaleTicks
         /\ job[p].prompt = p /\ job[p].cites = row.cites
         /\ row' = Ended(row, "failed", "failed", NoAnswer) \/ row' = Answered(p, row)
<1>1. job[p].pc = "loaded" /\ job[p].mem = row
  BY DEF JobFlush, Writers
<1>2. /\ row.status = "running" /\ row.prompt = p /\ age # StaleTicks
      /\ job[p].prompt = p /\ job[p].cites = row.cites
  BY <1>1 DEF OnTime, Live
<1>3. row \in Row /\ Ended(row, "failed", "failed", NoAnswer) \in Row
  BY EndedTyped DEF TypeOK
<1>4. Answered(p, row) \in Row
  BY <1>3, AnsweredTyped
<1>5. \/ row' = Flush(row, Ended(row, "failed", "failed", NoAnswer))
      \/ row' = Flush(row, Answered(p, row))
  BY <1>1 DEF JobFlush
<1>6. QED
  BY <1>2, <1>3, <1>4, <1>5, FlushStores

\* An operation that ends leaves the prompts of the turns as they are.
Ends(status, answer) ==
  /\ row' \in Row /\ row'.status = status /\ row.turns # <<>>
  /\ row.turns \in Seq(Turn) /\ answer \in Answers \cup {NoAnswer} /\ status \in Statuses \ {"running"}
  /\ row'.turns = MarkLatest(row.turns, status, answer)

LEMMA EndsEffect ==
  ASSUME NEW status, NEW answer, Ends(status, answer)
  PROVE  LET n == Len(row.turns) IN
         /\ n \in DOMAIN row.turns /\ DOMAIN row'.turns = DOMAIN row.turns
         /\ \A i \in DOMAIN row.turns : i # n => row'.turns[i] = row.turns[i]
         /\ \A i \in DOMAIN row.turns : row'.turns[i].prompt = row.turns[i].prompt
         /\ row'.turns[n].status = status
         /\ row'.turns[n].answer = IF answer = NoAnswer THEN row.turns[n].answer ELSE answer
<1>1. /\ row.turns \in Seq(Turn) /\ row.turns # <<>> /\ status \in Statuses
      /\ answer \in Answers \cup {NoAnswer}
  BY DEF Ends
<1> DEFINE turns == row.turns
           m == MarkLatest(turns, status, answer)
           n == Len(turns)
<1> HIDE DEF turns
<1>2. /\ n \in DOMAIN turns /\ DOMAIN m = DOMAIN turns
      /\ \A i \in DOMAIN turns : i # n => m[i] = turns[i]
      /\ m[n].prompt = turns[n].prompt /\ m[n].status = status
      /\ m[n].answer = IF answer = NoAnswer THEN turns[n].answer ELSE answer
  BY <1>1, MarkLatestEffect DEF turns
<1>3. row'.turns = m
  BY DEF Ends, turns
<1> HIDE DEF m
<1>4. QED
  BY <1>2, <1>3 DEF turns

LEMMA JobEnds ==
  ASSUME TypeOK, Writers, OnTime, NEW p \in Prompts, JobFlush(p), Exists
  PROVE  \/ /\ Ends("failed", NoAnswer)
            /\ row'.report = row.report /\ row'.cites = row.cites /\ row'.searches = row.searches
         \/ /\ Ends("completed", p)
            /\ row'.report = p /\ row'.cites = IF p = 1 THEN {p} ELSE row.cites \cup {p}
            /\ row'.searches = IF p = 1 THEN 1 ELSE row.searches + 1
<1>1. /\ row \in Row /\ row.turns # <<>> /\ row.turns \in Seq(Turn)
      /\ job[p].prompt = p /\ job[p].cites = row.cites
      /\ p \in Answers \cup {NoAnswer} /\ NoAnswer \in Answers \cup {NoAnswer}
  BY JobStores DEF TypeOK, OnTime, Row, Answers
<1>2. CASE row' = Ended(row, "failed", "failed", NoAnswer)
  <2> DEFINE e == Ended(row, "failed", "failed", NoAnswer)
  <2>1. /\ e \in Row /\ e.status = "failed" /\ e.turns = MarkLatest(row.turns, "failed", NoAnswer)
        /\ e.report = row.report /\ e.cites = row.cites /\ e.searches = row.searches
    <3>1. row \in Row /\ NoAnswer \in Answers \cup {NoAnswer}
      BY <1>1
    <3>2. QED
      BY <3>1, EndedTyped
  <2> HIDE DEF e
  <2>2. row' = e
    BY <1>2 DEF e
  <2>3. QED
    BY <1>1, <2>1, <2>2 DEF Ends, Statuses
<1>3. CASE row' = Answered(p, row)
  <2> DEFINE a == Answered(p, row)
  <2>1. /\ a \in Row /\ a.status = "completed" /\ a.turns = MarkLatest(row.turns, "completed", job[p].prompt)
        /\ a.report = job[p].prompt
        /\ a.cites = IF p = 1 THEN {job[p].prompt} ELSE job[p].cites \cup {job[p].prompt}
        /\ a.searches = IF p = 1 THEN 1 ELSE row.searches + 1
    BY <1>1, AnsweredTyped
  <2> HIDE DEF a
  <2>2. row' = a
    BY <1>3 DEF a
  <2>3. QED
    BY <1>1, <2>1, <2>2 DEF Ends, Statuses
<1>4. QED
  BY <1>2, <1>3, JobStores

LEMMA WatchdogEnds ==
  ASSUME TypeOK, Writers, OnTime, WatchdogFlush, Exists
  PROVE  /\ Ends("failed", NoAnswer)
         /\ row'.report = row.report /\ row'.cites = row.cites /\ row'.searches = row.searches
<1>1. /\ row \in Row /\ row.turns # <<>> /\ row.turns \in Seq(Turn)
      /\ NoAnswer \in Answers \cup {NoAnswer}
  BY WatchdogStores DEF TypeOK, OnTime, Row
<1> DEFINE e == Ended(row, "failed", "stale", NoAnswer)
<1>2. /\ e \in Row /\ e.status = "failed" /\ e.turns = MarkLatest(row.turns, "failed", NoAnswer)
      /\ e.report = row.report /\ e.cites = row.cites /\ e.searches = row.searches
  BY <1>1, EndedTyped
<1> HIDE DEF e
<1>3. row' = e
  BY WatchdogStores DEF e
<1>4. QED
  BY <1>1, <1>2, <1>3 DEF Ends, Statuses

LEMMA InOrderStep ==
  ASSUME TypeOK, Begun, InOrder, [Next]_vars
  PROVE  InOrder'
<1> SUFFICES ASSUME serial', punctual'
             PROVE  Writers' /\ OnTime'
  BY DEF InOrder
<1>0. /\ row \in Row /\ request \in [Prompts -> Loader] /\ job \in [Prompts -> Job]
      /\ 1 \in Prompts /\ 0 \notin Prompts /\ StaleTicks # 0 /\ row.turns \in Seq(Turn)
  BY TurnsAssumption, StaleAssumption DEF TypeOK, Prompts, Row
<1>a. serial /\ punctual
  <2>1. [Next]_vars => (serial' => serial) /\ (punctual' => punctual)
    BY DEF Next, vars, Loads, CreateSession, AddTurnLoad, AddTurnFlush, JobStart, JobFlush,
           AgentEnds, WatchdogLoad, WatchdogFlush, DeleteSession, Restart, Tick
  <2>2. QED
    BY <2>1
<1>b. Writers /\ OnTime
  BY <1>a DEF InOrder
<1>1. CASE CreateSession
  <2>1. row = NoRow /\ watchdog.pc # "loaded" /\ \A p \in Prompts : ~Live(p) /\ request[p].pc = "new"
    BY <1>1 DEF CreateSession, Begun
  <2> DEFINE turns == <<[prompt |-> 1, status |-> "running", answer |-> NoAnswer]>>
  <2>2. /\ DOMAIN turns = 1..1 /\ Len(turns) = 1 /\ turns # <<>>
        /\ turns[1].prompt = 1 /\ turns[1].status = "running"
    OBVIOUS
  <2> HIDE DEF turns
  <2>3. row'.turns = turns /\ row'.status = "running" /\ row'.prompt = 1
    BY <1>0, <1>1 DEF CreateSession, Row, turns
  <2>4. age' = 0 /\ watchdog' = watchdog
    BY <1>1 DEF CreateSession
  <2>5. \A p \in Prompts : request'[p].pc # "loaded"
    BY <1>0, <1>1, <2>1 DEF CreateSession, Sent
  <2>6. \A p \in Prompts : job'[p].pc \in {"none", "scheduled"} /\ (job'[p].pc # "none" => p = 1)
    BY <1>0, <1>1, <2>1 DEF CreateSession, Live, Job
  <2>7. Writers'
    BY <2>1, <2>4, <2>5, <2>6 DEF Writers
  <2>8. \A p \in Prompts : Live(p)' => p = 1
    BY <2>6 DEF Live
  <2>9. \A i \in DOMAIN row'.turns : i = 1
    BY <2>2, <2>3
  <2>10. /\ row'.turns # <<>> /\ row'.turns[Len(row'.turns)].prompt = row'.prompt
         /\ row'.turns[Len(row'.turns)].status = "running"
    BY <2>2, <2>3
  <2>11. \A p \in Prompts : job'[p].pc \notin {"agent", "loaded"}
    BY <2>6
  <2>12. OnTime'
    BY <1>0, <2>3, <2>4, <2>8, <2>9, <2>10, <2>11 DEF OnTime
  <2>13. QED
    BY <2>7, <2>12
<1>2. ASSUME NEW p \in Prompts, AddTurnLoad(p)
      PROVE  Writers' /\ OnTime'
  <2>1. Flushed /\ row' = row /\ age' = age /\ job' = job /\ watchdog' = watchdog
    BY <1>2 DEF AddTurnLoad, Loads
  <2>2. /\ row.status # "running" /\ request'[p].mem = row
        /\ \A q \in Prompts : q # p => request'[q].pc # "loaded"
    BY <1>0, <1>2, <2>1 DEF AddTurnLoad, Loaded, Flushed
  <2>3. Writers'
    BY <1>b, <2>1, <2>2 DEF Writers, Exists, Flushed
  <2>4. OnTime'
    BY <1>b, <2>1 DEF OnTime, Exists, Live
  <2>5. QED
    BY <2>3, <2>4
<1>3. ASSUME NEW p \in Prompts, AddTurnFlush(p)
      PROVE  Writers' /\ OnTime'
  <2>1. CASE ~Exists
    <3>1. ~Exists'
      BY <1>3, <2>1, FlushesExist DEF Exists
    <3>2. QED
      BY <3>1 DEF Writers, OnTime
  <2>2. CASE Exists
    <3>1. p # 1 /\ row.status # "running" /\ row' = Asked(row, "turn", p)
      BY <1>3, <1>b, <2>2, AddTurnStores
    <3> DEFINE n == Len(row.turns) + 1
    <3>2. /\ row'.status = "running" /\ row'.prompt = p
          /\ row'.turns # <<>> /\ Len(row'.turns) = n /\ DOMAIN row'.turns = DOMAIN row.turns \cup {n}
          /\ \A i \in DOMAIN row.turns : row'.turns[i] = row.turns[i]
          /\ row'.turns[n].prompt = p /\ row'.turns[n].status = "running"
      <4> DEFINE a == Asked(row, "turn", p)
      <4>1. /\ a.status = "running" /\ a.prompt = p
            /\ a.turns # <<>> /\ Len(a.turns) = n /\ DOMAIN a.turns = DOMAIN row.turns \cup {n}
            /\ \A i \in DOMAIN row.turns : a.turns[i] = row.turns[i]
            /\ a.turns[n].prompt = p /\ a.turns[n].status = "running"
        BY <1>0, AskedTyped
      <4> HIDE DEF a
      <4>2. row' = a
        BY <3>1 DEF a
      <4>3. QED
        BY <4>1, <4>2
    <3> HIDE DEF n
    <3>3. \A q \in Prompts : ~Live(q) /\ (q # p => request[q].pc # "loaded")
      BY <1>3, <1>b, <2>2, <3>1 DEF AddTurnFlush, OnTime, Writers
    <3>4. watchdog.pc # "loaded" /\ watchdog' = watchdog /\ age' = 0
      BY <1>3, <1>b, <2>2, <3>1 DEF AddTurnFlush, Writers
    <3>5. \A q \in Prompts : request'[q].pc # "loaded"
      BY <1>0, <1>3, <3>3 DEF AddTurnFlush, Sent
    <3>6. \A q \in Prompts : job'[q].pc \in {"none", "scheduled"} /\ (job'[q].pc # "none" => q = p)
      BY <1>0, <1>3, <2>2, <3>3 DEF AddTurnFlush, Live, Job
    <3>7. Writers'
      BY <3>4, <3>5, <3>6 DEF Writers
    <3>8. \A q \in Prompts : Live(q)' => q = p
      BY <3>6 DEF Live
    <3>9. \A i \in DOMAIN row'.turns : row'.turns[i].prompt = 1 => i = 1
      BY <1>b, <2>2, <3>1, <3>2 DEF OnTime
    <3>10. OnTime'
      BY <1>0, <3>2, <3>4, <3>6, <3>8, <3>9 DEF OnTime
    <3>11. QED
      BY <3>7, <3>10
  <2>3. QED
    BY <2>1, <2>2
<1>4. ASSUME NEW p \in Prompts, JobStart(p)
      PROVE  Writers' /\ OnTime'
  <2>1. Flushed /\ row' = row /\ age' = age /\ request' = request /\ watchdog' = watchdog
    BY <1>4 DEF JobStart, Loads
  <2>2. CASE ~Exists
    BY <2>1, <2>2 DEF Writers, OnTime, Exists
  <2>3. CASE Exists
    <3>1. row.status = "running" /\ row.prompt = p /\ age # StaleTicks
      BY <1>4, <1>b, <2>3 DEF JobStart, OnTime, Live
    <3> DEFINE a == [NoJob EXCEPT !.pc = "agent", !.prompt = row.prompt, !.cites = row.cites,
                                  !.fetch = ~row.demand]
    <3>2. a.pc = "agent" /\ a.prompt = p /\ a.cites = row.cites
      BY <3>1 DEF NoJob
    <3>3. p # NoPrompt
      BY <1>0 DEF NoPrompt
    <3>4. job' = [job EXCEPT ![p] = a]
      BY <1>4, <2>3, <3>1, <3>3 DEF JobStart
    <3> HIDE DEF a
    <3>5. \A q \in Prompts : q # p => job'[q] = job[q]
      BY <1>0, <3>4
    <3>6. job'[p] = a
      BY <1>0, <3>4
    <3>7. Writers'
      BY <1>b, <2>1, <3>2, <3>5, <3>6 DEF Writers, Exists, Flushed
    <3>8. \A q \in Prompts : Live(q)' => row.prompt = q
      BY <1>b, <2>3, <3>1, <3>5 DEF OnTime, Live
    <3>9. \A q \in Prompts : job'[q].pc \in {"agent", "loaded"} =>
            job'[q].prompt = q /\ job'[q].cites = row.cites
      BY <1>b, <2>3, <3>2, <3>5, <3>6 DEF OnTime
    <3>10. OnTime'
      BY <1>b, <2>1, <2>3, <3>1, <3>8, <3>9 DEF OnTime, Exists
    <3>11. QED
      BY <3>7, <3>10
  <2>4. QED
    BY <2>2, <2>3
<1>5. ASSUME NEW p \in Prompts, NEW outcome \in Outcome \ {"none"}, AgentEnds(p, outcome)
      PROVE  Writers' /\ OnTime'
  <2>1. Flushed /\ row' = row /\ age' = age /\ request' = request /\ watchdog' = watchdog
    BY <1>5 DEF AgentEnds, Loads
  <2>2. CASE ~Exists
    BY <2>1, <2>2 DEF Writers, OnTime, Exists
  <2>3. CASE Exists
    <3> DEFINE a == [job[p] EXCEPT !.pc = "loaded", !.outcome = outcome, !.mem = row]
    <3>1. a.pc = "loaded" /\ a.mem = row /\ a.prompt = job[p].prompt /\ a.cites = job[p].cites
      BY <1>0 DEF Job
    <3>2. job' = [job EXCEPT ![p] = a] /\ job[p].pc = "agent"
      BY <1>5, <2>3 DEF AgentEnds
    <3> HIDE DEF a
    <3>3. job'[p] = a /\ \A q \in Prompts : q # p => job'[q] = job[q]
      BY <1>0, <3>2
    <3>4. Writers'
      BY <1>b, <2>1, <3>1, <3>3 DEF Writers, Exists, Flushed
    <3>5. \A q \in Prompts : Live(q)' => Live(q)
      BY <3>2, <3>3 DEF Live
    <3>6. OnTime'
      BY <1>b, <2>1, <2>3, <3>1, <3>2, <3>3, <3>5 DEF OnTime, Exists
    <3>7. QED
      BY <3>4, <3>6
  <2>4. QED
    BY <2>2, <2>3
<1>6. ASSUME NEW p \in Prompts, JobFlush(p)
      PROVE  Writers' /\ OnTime'
  <2>1. CASE ~Exists
    <3>1. ~Exists'
      BY <1>6, <2>1, FlushesExist DEF Exists
    <3>2. QED
      BY <3>1 DEF Writers, OnTime
  <2>2. CASE Exists
    <3>1. row.status = "running" /\ row.prompt = p /\ age # StaleTicks
      BY <1>6, <1>b, <2>2, JobStores
    <3>2. \E status \in {"completed", "failed"}, answer \in Answers \cup {NoAnswer} : Ends(status, answer)
      BY <1>6, <1>b, <2>2, JobEnds DEF Ends
    <3>3. row'.status # "running"
      BY <3>2 DEF Ends
    <3>4. watchdog' = watchdog /\ request' = request /\ age' = age
      BY <1>6 DEF JobFlush
    <3>5. \A q \in Prompts : job'[q].pc = "none"
      <4>1. \A q \in Prompts : q # p => ~Live(q)
        BY <1>b, <2>2, <3>1 DEF OnTime
      <4>2. QED
        BY <1>0, <1>6, <4>1 DEF JobFlush, NoJob, Live
    <3>6. Writers'
      BY <1>b, <2>2, <3>1, <3>4, <3>5 DEF Writers
    <3>7. \A i \in DOMAIN row'.turns : row'.turns[i].prompt = 1 => i = 1
      BY <1>b, <2>2, <3>2, EndsEffect DEF OnTime
    <3>8. OnTime'
      BY <3>3, <3>5, <3>7 DEF OnTime, Live
    <3>9. QED
      BY <3>6, <3>8
  <2>3. QED
    BY <2>1, <2>2
<1>7. CASE WatchdogLoad
  <2>1. /\ Flushed /\ row' = row /\ age' = age /\ request' = request /\ job' = job
        /\ row.status = "running" /\ age = StaleTicks /\ watchdog'.mem = row
    BY <1>7 DEF WatchdogLoad, Loads, Loaded
  <2>2. Writers'
    BY <1>b, <2>1 DEF Writers, Exists, Flushed
  <2>3. OnTime'
    BY <1>b, <2>1 DEF OnTime, Exists, Live
  <2>4. QED
    BY <2>2, <2>3
<1>8. CASE WatchdogFlush
  <2>1. CASE ~Exists
    <3>1. ~Exists'
      BY <1>8, <2>1, FlushesExist DEF Exists
    <3>2. QED
      BY <3>1 DEF Writers, OnTime
  <2>2. CASE Exists
    <3>1. row.status = "running" /\ age = StaleTicks
      BY <1>8, <1>b, <2>2, WatchdogStores
    <3>2. Ends("failed", NoAnswer)
      BY <1>8, <1>b, <2>2, WatchdogEnds
    <3>3. row'.status # "running"
      BY <3>2 DEF Ends
    <3>4. watchdog'.pc # "loaded" /\ request' = request /\ job' = job
      BY <1>8 DEF WatchdogFlush, Fresh
    <3>5. \A q \in Prompts : job[q].pc = "none" /\ request[q].pc # "loaded"
      BY <1>b, <2>2, <3>1 DEF OnTime, Writers, Live
    <3>6. Writers'
      BY <3>4, <3>5 DEF Writers
    <3>7. \A i \in DOMAIN row'.turns : row'.turns[i].prompt = 1 => i = 1
      BY <1>b, <2>2, <3>2, EndsEffect DEF OnTime
    <3>8. OnTime'
      BY <3>3, <3>4, <3>5, <3>7 DEF OnTime, Live
    <3>9. QED
      BY <3>6, <3>8
  <2>3. QED
    BY <2>1, <2>2
<1>9. CASE DeleteSession
  <2>1. ~Exists'
    BY <1>9 DEF DeleteSession, Exists, NoRow
  <2>2. QED
    BY <2>1 DEF Writers, OnTime
<1>10. CASE Restart
  <2>1. row' = row /\ age' = age /\ watchdog'.pc # "loaded"
    BY <1>10 DEF Restart, Fresh
  <2>2. \A p \in Prompts : job'[p].pc = "none" /\ request'[p].pc # "loaded"
    BY <1>0, <1>10 DEF Restart, NoJob, Sent
  <2>3. Writers'
    BY <2>1, <2>2 DEF Writers
  <2>4. OnTime'
    BY <1>b, <2>1, <2>2 DEF OnTime, Exists, Live
  <2>5. QED
    BY <2>3, <2>4
<1>11. CASE Tick
  <2>1. /\ Flushed /\ row' = row /\ request' = request /\ job' = job /\ watchdog' = watchdog
        /\ age' = age + 1 /\ age \in 0..StaleTicks
        /\ age = StaleTicks - 1 => \A p \in Prompts : ~Live(p)
    BY <1>11 DEF Tick, TypeOK
  <2>2. \A p \in Prompts : Live(p) => age' # StaleTicks
    BY <2>1, StaleAssumption
  <2>3. Writers'
    BY <2>1 DEF Writers, Flushed
  <2>4. OnTime'
    BY <1>b, <2>1, <2>2 DEF OnTime, Exists, Live
  <2>5. QED
    BY <2>3, <2>4
<1>12. CASE UNCHANGED vars
  <2>1. Writers'
    BY <1>12, <1>b DEF vars, Writers, Exists
  <2>2. OnTime'
    BY <1>12, <1>b DEF vars, OnTime, Exists, Live
  <2>3. QED
    BY <2>1, <2>2
<1>13. QED
  BY <1>1, <1>2, <1>3, <1>4, <1>5, <1>6, <1>7, <1>8, <1>9, <1>10, <1>11, <1>12 DEF Next

--------------------------------------------------------------------------------
(* The ledger: what the turns hold, and what the consolidated columns hold of them. *)

\* AnswersFillTheirTurn and ReportMergesItsTurns once their histories are set aside.
Filled ==
  \A i \in DOMAIN row.turns :
    IF row.turns[i].status = "completed" THEN row.turns[i].answer = row.turns[i].prompt
                                         ELSE row.turns[i].answer = NoAnswer

Merged ==
  /\ row.cites = DonePrompts
  /\ \A i \in DoneTurns : (\A k \in DoneTurns : k <= i) => row.report = row.turns[i].answer
  /\ DoneTurns = {} => row.report = NoAnswer
  /\ row.searches = Cardinality(DoneTurns)

Ledger == serial /\ punctual => Filled /\ (Exists => Merged)

LEMMA LedgerIsBoth == Ledger <=> AnswersFillTheirTurn /\ ReportMergesItsTurns
  BY DEF Ledger, Filled, Merged, AnswersFillTheirTurn, ReportMergesItsTurns

LEMMA NothingDone ==
  ASSUME row.turns = <<>>, row.cites = {}, row.report = NoAnswer, row.searches = 0
  PROVE  Filled /\ Merged
<1>1. DoneTurns = {} /\ DOMAIN row.turns = {}
  BY DEF DoneTurns
<1>2. DonePrompts = {}
  BY <1>1 DEF DonePrompts
<1>3. QED
  BY <1>1, <1>2, FS_EmptySet DEF Filled, Merged

LEMMA SameTurnsDone ==
  ASSUME Merged, DoneTurns' = DoneTurns, \A i \in DoneTurns : row'.turns[i] = row.turns[i],
         row'.report = row.report, row'.cites = row.cites, row'.searches = row.searches
  PROVE  Merged'
<1>1. DonePrompts' = DonePrompts
  BY DEF DonePrompts
<1>2. QED
  BY <1>1 DEF Merged

LEMMA DoneTurnsFinite ==
  ASSUME TypeOK
  PROVE  IsFiniteSet(DoneTurns) /\ \A i \in DoneTurns : i \in 1..Len(row.turns)
<1>1. row.turns \in Seq(Turn)
  BY DEF TypeOK, Row
<1>2. IsFiniteSet(1..Len(row.turns)) /\ DoneTurns \subseteq 1..Len(row.turns)
  BY <1>1, FS_Interval DEF DoneTurns
<1>3. QED
  BY <1>2, FS_Subset

\* An operation that fails leaves the completed turns, one that succeeds adds the last turn.
LEMMA FailureMerges ==
  ASSUME TypeOK, Filled, Merged, Ends("failed", NoAnswer),
         row.turns[Len(row.turns)].status = "running",
         row'.report = row.report, row'.cites = row.cites, row'.searches = row.searches
  PROVE  Filled' /\ Merged'
<1> DEFINE n == Len(row.turns)
<1>1. /\ n \in DOMAIN row.turns /\ DOMAIN row'.turns = DOMAIN row.turns
      /\ \A i \in DOMAIN row.turns : i # n => row'.turns[i] = row.turns[i]
      /\ row'.turns[n].status = "failed" /\ row'.turns[n].answer = row.turns[n].answer
  BY EndsEffect
<1> HIDE DEF n
<1>2. row.turns[n].status = "running"
  BY DEF n
<1>3. DoneTurns' = DoneTurns /\ n \notin DoneTurns
  BY <1>1, <1>2 DEF DoneTurns
<1>4. \A i \in DoneTurns : row'.turns[i] = row.turns[i]
  BY <1>1, <1>3 DEF DoneTurns
<1>5. Filled'
  BY <1>1, <1>2 DEF Filled
<1>6. QED
  BY <1>3, <1>4, <1>5, SameTurnsDone

LEMMA SuccessMerges ==
  ASSUME TypeOK, Filled, Merged, NEW p \in Prompts, Ends("completed", p),
         row.turns[Len(row.turns)].status = "running", row.turns[Len(row.turns)].prompt = p,
         \A i \in DOMAIN row.turns : row.turns[i].prompt = 1 => i = 1,
         row'.report = p, row'.cites = IF p = 1 THEN {p} ELSE row.cites \cup {p},
         row'.searches = IF p = 1 THEN 1 ELSE row.searches + 1
  PROVE  Filled' /\ Merged'
<1> DEFINE n == Len(row.turns)
<1>0. p # NoAnswer /\ n \in Nat
  BY DEF Prompts, NoAnswer, TypeOK, Row
<1>1. /\ n \in DOMAIN row.turns /\ DOMAIN row'.turns = DOMAIN row.turns
      /\ \A i \in DOMAIN row.turns : i # n => row'.turns[i] = row.turns[i]
      /\ \A i \in DOMAIN row.turns : row'.turns[i].prompt = row.turns[i].prompt
      /\ row'.turns[n].status = "completed" /\ row'.turns[n].answer = p
  BY <1>0, EndsEffect
<1>2. IsFiniteSet(DoneTurns) /\ \A i \in DOMAIN row.turns : i \in 1..n
  BY DoneTurnsFinite DEF TypeOK, Row
<1>3. row.turns[n].status = "running" /\ row'.turns[n].prompt = p
  BY <1>1
<1>4. p = 1 => n = 1
  BY <1>1
<1> HIDE DEF n
<1>5. DoneTurns' = DoneTurns \cup {n} /\ n \notin DoneTurns
  BY <1>1, <1>3 DEF DoneTurns
<1>6. p = 1 => DoneTurns = {}
  BY <1>2, <1>4, <1>5 DEF DoneTurns
<1>7. Filled'
  BY <1>1, <1>3 DEF Filled
<1>8. DonePrompts' = DonePrompts \cup {p}
  BY <1>1, <1>3, <1>5 DEF DonePrompts, DoneTurns
<1>9. row'.cites = DonePrompts'
  <2>1. DoneTurns = {} => DonePrompts = {}
    BY DEF DonePrompts
  <2>2. QED
    BY <1>6, <1>8, <2>1 DEF Merged
<1>10. row'.searches = Cardinality(DoneTurns')
  <2>1. Cardinality(DoneTurns') = Cardinality(DoneTurns) + 1
    BY <1>2, <1>5, FS_AddElement
  <2>2. DoneTurns = {} => Cardinality(DoneTurns) = 0
    BY FS_EmptySet
  <2>3. QED
    BY <1>6, <2>1, <2>2 DEF Merged
<1>11. \A i \in DoneTurns' : (\A k \in DoneTurns' : k <= i) => i = n
  BY <1>0, <1>2, <1>5 DEF DoneTurns
<1>12. QED
  BY <1>1, <1>5, <1>7, <1>9, <1>10, <1>11 DEF Merged

\* What a step does to the row: nothing, or one of the writers writes it.
LEMMA RowWriters ==
  ASSUME TypeOK, [Next]_vars
  PROVE  \/ row' = row \/ CreateSession \/ DeleteSession
         \/ WatchdogFlush /\ Exists
         \/ \E p \in Prompts : (AddTurnFlush(p) \/ JobFlush(p)) /\ Exists
<1>1. CASE (\E p \in Prompts : AddTurnFlush(p) \/ JobFlush(p)) \/ WatchdogFlush
  BY <1>1, FlushesExist
<1>2. CASE ~((\E p \in Prompts : AddTurnFlush(p) \/ JobFlush(p)) \/ WatchdogFlush)
  BY <1>2 DEF Next, vars, AddTurnLoad, JobStart, AgentEnds, WatchdogLoad, Restart, Tick
<1>3. QED
  BY <1>1, <1>2

\* The histories only ever fall.
LEMMA OrderFalls ==
  ASSUME TypeOK, [Next]_vars, serial', punctual'
  PROVE  serial /\ punctual
  BY DEF Next, vars, Loads, CreateSession, AddTurnLoad, AddTurnFlush, JobStart, JobFlush,
         AgentEnds, WatchdogLoad, WatchdogFlush, DeleteSession, Restart, Tick

LEMMA LedgerStep ==
  ASSUME TypeOK, Begun, InOrder, Ledger, [Next]_vars
  PROVE  Ledger'
<1> SUFFICES ASSUME serial', punctual'
             PROVE  Filled' /\ (Exists' => Merged')
  BY DEF Ledger
<1>0. serial /\ punctual /\ row \in Row
  BY OrderFalls DEF TypeOK
<1>a. Writers /\ OnTime /\ Filled /\ (Exists => Merged)
  BY <1>0 DEF InOrder, Ledger
<1>1. CASE row' = row
  <2>1. Filled' /\ Exists' = Exists
    BY <1>1, <1>a DEF Filled, Exists
  <2>2. DoneTurns' = DoneTurns
    BY <1>1 DEF DoneTurns
  <2>3. QED
    BY <1>1, <1>a, <2>1, <2>2, SameTurnsDone
<1>2. CASE CreateSession
  <2>1. row = NoRow
    BY <1>2 DEF CreateSession, Begun
  <2> DEFINE turns == <<[prompt |-> 1, status |-> "running", answer |-> NoAnswer]>>
  <2>2. DOMAIN turns = {1} /\ turns[1].status = "running" /\ turns[1].answer = NoAnswer
    OBVIOUS
  <2> HIDE DEF turns
  <2>3. row'.turns = turns /\ row'.cites = {} /\ row'.report = NoAnswer /\ row'.searches = 0
    BY <1>0, <1>2, <2>1 DEF CreateSession, Row, NoRow, turns
  <2>4. DoneTurns' = {}
    BY <2>2, <2>3 DEF DoneTurns
  <2>5. DonePrompts' = {}
    BY <2>4 DEF DonePrompts
  <2>6. Filled'
    BY <2>2, <2>3 DEF Filled
  <2>7. QED
    BY <2>3, <2>4, <2>5, <2>6, FS_EmptySet DEF Merged
<1>3. ASSUME NEW p \in Prompts, AddTurnFlush(p), Exists
      PROVE  Filled' /\ (Exists' => Merged')
  <2>1. row' = Asked(row, "turn", p)
    BY <1>3, <1>a, AddTurnStores
  <2> DEFINE a == Asked(row, "turn", p)
             n == Len(row.turns) + 1
  <2>2. /\ a.report = row.report /\ a.cites = row.cites /\ a.searches = row.searches
        /\ n \notin DOMAIN row.turns /\ DOMAIN a.turns = DOMAIN row.turns \cup {n}
        /\ \A i \in DOMAIN row.turns : a.turns[i] = row.turns[i]
        /\ a.turns[n].status = "running" /\ a.turns[n].answer = NoAnswer
    BY <1>0, AskedTyped
  <2> HIDE DEF a, n
  <2>3. row' = a
    BY <2>1 DEF a
  <2>4. DoneTurns' = DoneTurns
    BY <2>2, <2>3 DEF DoneTurns
  <2>5. \A i \in DoneTurns : row'.turns[i] = row.turns[i]
    BY <2>2, <2>3 DEF DoneTurns
  <2>6. Filled'
    BY <1>a, <2>2, <2>3 DEF Filled
  <2>7. QED
    BY <1>3, <1>a, <2>2, <2>3, <2>4, <2>5, <2>6, SameTurnsDone
<1>4. ASSUME NEW p \in Prompts, JobFlush(p), Exists
      PROVE  Filled' /\ (Exists' => Merged')
  <2>1. row.status = "running" /\ row.prompt = p
    BY <1>3, <1>4, <1>a, JobStores
  <2>2. /\ row.turns[Len(row.turns)].status = "running" /\ row.turns[Len(row.turns)].prompt = p
        /\ \A i \in DOMAIN row.turns : row.turns[i].prompt = 1 => i = 1
    BY <1>4, <1>a, <2>1 DEF OnTime
  <2>3. \/ /\ Ends("failed", NoAnswer)
           /\ row'.report = row.report /\ row'.cites = row.cites /\ row'.searches = row.searches
        \/ /\ Ends("completed", p)
           /\ row'.report = p /\ row'.cites = IF p = 1 THEN {p} ELSE row.cites \cup {p}
           /\ row'.searches = IF p = 1 THEN 1 ELSE row.searches + 1
    BY <1>4, <1>a, JobEnds
  <2>4. QED
    BY <1>4, <1>a, <2>2, <2>3, FailureMerges, SuccessMerges
<1>5. CASE WatchdogFlush /\ Exists
  <2>1. row.status = "running"
    BY <1>5, <1>a, WatchdogStores
  <2>2. row.turns[Len(row.turns)].status = "running"
    BY <1>5, <1>a, <2>1 DEF OnTime
  <2>3. /\ Ends("failed", NoAnswer)
        /\ row'.report = row.report /\ row'.cites = row.cites /\ row'.searches = row.searches
    BY <1>5, <1>a, WatchdogEnds
  <2>4. QED
    BY <1>5, <1>a, <2>2, <2>3, FailureMerges
<1>6. CASE DeleteSession
  <2>1. ~Exists' /\ row'.turns = <<>>
    BY <1>6 DEF DeleteSession, Exists, NoRow
  <2>2. QED
    BY <2>1 DEF Filled
<1>7. QED
  BY <1>1, <1>2, <1>3, <1>4, <1>5, <1>6, RowWriters

LEMMA InOrderInit == Init => Begun /\ InOrder /\ Ledger
<1> SUFFICES ASSUME Init
             PROVE  Begun /\ InOrder /\ Ledger
  OBVIOUS
<1>1. ~Exists /\ row = NoRow /\ row.turns = <<>>
  BY DEF Init, Exists, NoRow
<1>2. Begun
  BY <1>1 DEF Init, Begun, Live, NoJob, Fresh
<1>3. InOrder
  BY <1>1 DEF InOrder, Writers, OnTime
<1>4. Ledger
  BY <1>1 DEF Ledger, Filled
<1>5. QED
  BY <1>2, <1>3, <1>4

LEMMA LedgerKept == Spec => []Ledger
<1>1. Init => TypeOK /\ Begun /\ InOrder /\ Ledger
  BY TypedInit, InOrderInit
<1>2. TypeOK /\ Begun /\ InOrder /\ Ledger /\ [Next]_vars => (TypeOK /\ Begun /\ InOrder /\ Ledger)'
  BY TypedStep, BegunStep, InOrderStep, LedgerStep
<1>3. QED
  BY <1>1, <1>2, PTL DEF Spec

\* An answer lands in the turn that asked for it, and that turn is completed, for any
\* number of prompts, failures, stops and passes of the watchdog.
THEOREM AnswersInTheirTurns == Spec => []AnswersFillTheirTurn
  BY LedgerKept, LedgerIsBoth, PTL

\* The consolidated report is the newest completed turn's, the citations are those of all
\* completed turns, and every completed turn's search is counted once.
THEOREM ReportIsMerged == Spec => []ReportMergesItsTurns
  BY LedgerKept, LedgerIsBoth, PTL

--------------------------------------------------------------------------------
(* The session implements the thread that ResearchThread promises.                *)

\* A prompt that has a turn has been sent, so it is not asked a second time.
AskedOnce ==
  serial /\ punctual => \A i \in DOMAIN row.turns : request[row.turns[i].prompt].pc = "sent"

LEMMA SentStays ==
  ASSUME TypeOK, [Next]_vars
  PROVE  \A q \in Prompts : request[q].pc = "sent" => request'[q].pc = "sent"
<1> SUFFICES ASSUME NEW q \in Prompts, request[q].pc = "sent"
             PROVE  request'[q].pc = "sent"
  OBVIOUS
<1>0. request \in [Prompts -> Loader]
  BY DEF TypeOK
<1>1. CASE CreateSession
  BY <1>0, <1>1 DEF CreateSession, Sent
<1>2. ASSUME NEW p \in Prompts, AddTurnLoad(p)
      PROVE  request'[q].pc = "sent"
  BY <1>0, <1>2 DEF AddTurnLoad
<1>3. ASSUME NEW p \in Prompts, AddTurnFlush(p)
      PROVE  request'[q].pc = "sent"
  BY <1>0, <1>3 DEF AddTurnFlush
<1>4. CASE Restart
  BY <1>0, <1>4 DEF Restart
<1>5. CASE request' = request
  BY <1>5
<1>6. QED
  BY <1>1, <1>2, <1>3, <1>4, <1>5
     DEF Next, vars, JobStart, JobFlush, AgentEnds, WatchdogLoad, WatchdogFlush,
         DeleteSession, Tick

LEMMA AskedOnceStep ==
  ASSUME TypeOK, Begun, InOrder, AskedOnce, [Next]_vars
  PROVE  AskedOnce'
<1> SUFFICES ASSUME serial', punctual'
             PROVE  \A i \in DOMAIN row'.turns : request'[row'.turns[i].prompt].pc = "sent"
  BY DEF AskedOnce
<1>0. /\ row \in Row /\ request \in [Prompts -> Loader] /\ 1 \in Prompts
      /\ row.turns \in Seq(Turn) /\ \A i \in DOMAIN row.turns : row.turns[i].prompt \in Prompts
  <2>1. /\ row \in Row /\ request \in [Prompts -> Loader] /\ 1 \in Prompts
        /\ row.turns \in Seq(Turn)
    BY TurnsAssumption DEF TypeOK, Prompts, Row
  <2>2. \A t \in Turn : t.prompt \in Prompts
    BY DEF Turn
  <2>3. \A i \in DOMAIN row.turns : row.turns[i] \in Turn
    BY <2>1
  <2>4. QED
    BY <2>1, <2>2, <2>3
<1>a. Writers /\ OnTime /\ \A i \in DOMAIN row.turns : request[row.turns[i].prompt].pc = "sent"
  BY OrderFalls DEF InOrder, AskedOnce
<1>b. \A i \in DOMAIN row.turns : request'[row.turns[i].prompt].pc = "sent"
  BY <1>0, <1>a, SentStays
<1>1. CASE row' = row
  BY <1>1, <1>b
<1>2. CASE CreateSession
  <2> DEFINE turns == <<[prompt |-> 1, status |-> "running", answer |-> NoAnswer]>>
  <2>1. DOMAIN turns = {1} /\ turns[1].prompt = 1
    OBVIOUS
  <2> HIDE DEF turns
  <2>2. row'.turns = turns /\ request'[1].pc = "sent"
    BY <1>0, <1>2 DEF CreateSession, Row, Sent, turns
  <2>3. QED
    BY <2>1, <2>2
<1>3. ASSUME NEW p \in Prompts, AddTurnFlush(p), Exists
      PROVE  \A i \in DOMAIN row'.turns : request'[row'.turns[i].prompt].pc = "sent"
  <2>1. row' = Asked(row, "turn", p)
    BY <1>3, <1>a, AddTurnStores
  <2> DEFINE a == Asked(row, "turn", p)
             n == Len(row.turns) + 1
  <2>2. /\ DOMAIN a.turns = DOMAIN row.turns \cup {n}
        /\ \A i \in DOMAIN row.turns : a.turns[i] = row.turns[i]
        /\ a.turns[n].prompt = p
    BY <1>0, AskedTyped
  <2> HIDE DEF a, n
  <2>3. row' = a
    BY <2>1 DEF a
  <2>4. request'[p].pc = "sent"
    BY <1>0, <1>3 DEF AddTurnFlush, Sent
  <2>5. QED
    BY <1>b, <2>2, <2>3, <2>4
<1>4. ASSUME NEW status, NEW answer, Ends(status, answer)
      PROVE  \A i \in DOMAIN row'.turns : request'[row'.turns[i].prompt].pc = "sent"
  <2>1. /\ DOMAIN row'.turns = DOMAIN row.turns
        /\ \A i \in DOMAIN row.turns : row'.turns[i].prompt = row.turns[i].prompt
    BY <1>4, EndsEffect
  <2>2. QED
    BY <1>b, <2>1
<1>5. ASSUME NEW p \in Prompts, JobFlush(p), Exists
      PROVE  \A i \in DOMAIN row'.turns : request'[row'.turns[i].prompt].pc = "sent"
  <2>1. Ends("failed", NoAnswer) \/ Ends("completed", p)
    BY <1>5, <1>a, JobEnds
  <2>2. QED
    BY <2>1, <1>4
<1>6. CASE WatchdogFlush /\ Exists
  <2>1. Ends("failed", NoAnswer)
    BY <1>6, <1>a, WatchdogEnds
  <2>2. QED
    BY <2>1, <1>4
<1>7. CASE DeleteSession
  <2>1. row'.turns = <<>>
    BY <1>7 DEF DeleteSession, NoRow
  <2>2. QED
    BY <2>1
<1>8. QED
  BY <1>1, <1>2, <1>3, <1>5, <1>6, <1>7, RowWriters

\* A turn without an answer that an operation ends has the answer it is given.
LEMMA EndsTheTurn ==
  ASSUME NEW status, NEW answer, Ends(status, answer), row.status = "running",
         row'.status = status, row.turns[Len(row.turns)].answer = NoAnswer
  PROVE  Thread!EndTurn(status, answer)
<1> DEFINE turns == row.turns
           n == Len(turns)
           t == [turns[n] EXCEPT !.status = status,
                                 !.answer = IF answer = NoAnswer THEN @ ELSE answer]
           u == [turns[n] EXCEPT !.status = status, !.answer = answer]
<1>1. n \in 1..Len(turns) /\ turns[n] \in Turn /\ turns \in Seq(Turn) /\ turns # <<>>
  BY DEF Ends
<1>2. row'.turns = [turns EXCEPT ![n] = t]
  BY <1>1 DEF Ends, MarkLatest
<1>3. turns[n].answer = NoAnswer
  OBVIOUS
<1>4. t = u
  BY <1>1, <1>3 DEF Turn
<1>5. [turns EXCEPT ![n] = u] = [turns EXCEPT ![n].status = status, ![n].answer = answer]
  BY <1>1
<1> HIDE DEF t, u
<1>6. QED
  BY <1>2, <1>4, <1>5 DEF Thread!EndTurn

LEMMA JobAnswersOrGivesUp ==
  ASSUME TypeOK, Writers, OnTime, Filled, Exists => Merged, NEW p \in Prompts, JobFlush(p), Exists
  PROVE  Thread!Answer(p) \/ Thread!GiveUp
<1> DEFINE n == Len(row.turns)
<1>1. row.status = "running" /\ row.prompt = p /\ row.turns \in Seq(Turn) /\ row.turns # <<>>
  BY JobStores DEF OnTime, TypeOK, Row
<1>2. /\ row.turns[n].status = "running" /\ row.turns[n].prompt = p
      /\ \A i \in DOMAIN row.turns : row.turns[i].prompt = 1 => i = 1
      /\ n \in DOMAIN row.turns
  BY <1>1 DEF OnTime
<1>3. row.turns[n].answer = NoAnswer
  BY <1>2 DEF Filled
<1>4. p = 1 => row.cites = {} /\ row.searches = 0
  <2> SUFFICES ASSUME p = 1
               PROVE  row.cites = {} /\ row.searches = 0
    OBVIOUS
  <2>1. n = 1 /\ DOMAIN row.turns = {1}
    <3>1. n = 1
      BY <1>2
    <3>2. DOMAIN row.turns = 1..1
      BY <1>1, <3>1
    <3>3. QED
      BY <3>1, <3>2
  <2>2. DoneTurns = {}
    BY <1>2, <2>1 DEF DoneTurns
  <2>3. DonePrompts = {}
    BY <2>2 DEF DonePrompts
  <2>4. QED
    BY <2>2, <2>3, FS_EmptySet DEF Merged
<1>5. CASE /\ Ends("failed", NoAnswer)
           /\ row'.report = row.report /\ row'.cites = row.cites /\ row'.searches = row.searches
  <2>1. row'.status = "failed"
    BY <1>5 DEF Ends
  <2>2. Thread!EndTurn("failed", NoAnswer)
    BY <1>1, <1>3, <1>5, <2>1, EndsTheTurn
  <2>3. QED
    BY <1>5, <2>2 DEF Thread!GiveUp
<1>6. CASE /\ Ends("completed", p)
           /\ row'.report = p /\ row'.cites = IF p = 1 THEN {p} ELSE row.cites \cup {p}
           /\ row'.searches = IF p = 1 THEN 1 ELSE row.searches + 1
  <2>1. row'.status = "completed"
    BY <1>6 DEF Ends
  <2>2. Thread!EndTurn("completed", p)
    BY <1>1, <1>3, <1>6, <2>1, EndsTheTurn
  <2>3. row'.cites = row.cites \cup {p} /\ row'.searches = row.searches + 1
    BY <1>4, <1>6
  <2>4. QED
    BY <1>2, <1>6, <2>2, <2>3 DEF Thread!Answer
<1>7. QED
  BY <1>5, <1>6, JobEnds

\* Every step of the session is a step of its thread, or leaves the page as it is.
LEMMA ThreadStep ==
  ASSUME TypeOK, Begun, InOrder, Ledger, AskedOnce, [Next]_vars
  PROVE  [Thread!Next]_(Thread!vars)
<1>0. row \in Row /\ row.turns \in Seq(Turn) /\ 1 \in Prompts
  BY TurnsAssumption DEF TypeOK, Row, Prompts
<1>1. CASE ~(serial' /\ punctual')
  <2>1. row.status = "deleted" => row' = row
    BY RowWriters DEF CreateSession, DeleteSession, Exists
  <2>2. Thread!Disorder
    BY <1>1, <2>1 DEF Thread!Disorder, Thread!page
  <2>3. QED
    BY <2>2 DEF Thread!Next
<1>2. CASE serial' /\ punctual'
  <2>0. serial /\ punctual
    BY <1>2, OrderFalls
  <2>a. /\ Writers /\ OnTime /\ Filled /\ (Exists => Merged)
        /\ \A i \in DOMAIN row.turns : request[row.turns[i].prompt].pc = "sent"
    BY <2>0 DEF InOrder, Ledger, AskedOnce
  <2>1. CASE row' = row
    BY <1>2, <2>0, <2>1 DEF Thread!vars, Thread!page
  <2>2. CASE CreateSession
    <3>1. row = NoRow /\ row.turns = <<>> /\ row.status = "absent"
      BY <2>2 DEF CreateSession, Begun, NoRow
    <3> DEFINE t == [prompt |-> 1, status |-> "running", answer |-> NoAnswer]
    <3> HIDE DEF t
    <3>2. /\ row'.turns = <<t>> /\ row'.status = "running" /\ row'.report = row.report
          /\ row'.cites = row.cites /\ row'.searches = row.searches
      BY <1>0, <2>2 DEF CreateSession, Row, t
    <3>3. row'.turns = Append(row.turns, t)
      BY <3>1, <3>2
    <3>4. Thread!Ask(1)
      BY <3>1, <3>2, <3>3 DEF Thread!Ask, t
    <3>5. QED
      BY <1>0, <1>2, <2>0, <3>4 DEF Thread!Next
  <2>3. ASSUME NEW p \in Prompts, AddTurnFlush(p), Exists
        PROVE  Thread!Next
    <3>1. row.status # "running" /\ row' = Asked(row, "turn", p) /\ request[p].pc = "loaded"
      BY <2>3, <2>a, AddTurnStores DEF AddTurnFlush
    <3>2. /\ row'.status = "running" /\ row'.report = row.report /\ row'.cites = row.cites
          /\ row'.searches = row.searches
          /\ row'.turns = Append(row.turns, [prompt |-> p, status |-> "running", answer |-> NoAnswer])
      BY <1>0, <3>1 DEF Asked, Row
    <3>3. \A i \in DOMAIN row.turns : row.turns[i].prompt # p
      BY <2>a, <3>1
    <3>4. Thread!Ask(p)
      BY <2>3, <3>1, <3>2, <3>3 DEF Thread!Ask, Exists
    <3>5. QED
      BY <1>2, <2>0, <3>4 DEF Thread!Next
  <2>4. ASSUME NEW p \in Prompts, JobFlush(p), Exists
        PROVE  Thread!Next
    BY <1>2, <2>0, <2>4, <2>a, JobAnswersOrGivesUp DEF Thread!Next
  <2>5. CASE WatchdogFlush /\ Exists
    <3>1. row.status = "running" /\ row.turns # <<>>
      BY <2>5, <2>a, WatchdogStores DEF OnTime
    <3>2. /\ row.turns[Len(row.turns)].status = "running"
          /\ Len(row.turns) \in DOMAIN row.turns
      BY <1>0, <2>5, <2>a, <3>1 DEF OnTime
    <3>3. row.turns[Len(row.turns)].answer = NoAnswer
      BY <2>a, <3>2 DEF Filled
    <3>4. /\ Ends("failed", NoAnswer) /\ row'.status = "failed"
          /\ row'.report = row.report /\ row'.cites = row.cites /\ row'.searches = row.searches
      BY <2>5, <2>a, WatchdogEnds DEF Ends
    <3>5. Thread!EndTurn("failed", NoAnswer)
      BY <3>1, <3>3, <3>4, EndsTheTurn
    <3>6. QED
      BY <1>2, <2>0, <3>4, <3>5 DEF Thread!Next, Thread!GiveUp
  <2>6. CASE DeleteSession
    <3>1. /\ row'.status = "deleted" /\ row'.turns = <<>> /\ row'.report = NoAnswer
          /\ row'.cites = {} /\ row'.searches = 0 /\ row.status \notin {"absent", "deleted"}
      BY <2>6 DEF DeleteSession, NoRow, Exists
    <3>2. Thread!Remove
      BY <3>1 DEF Thread!Remove, Thread!Open, Thread!Blank
    <3>3. QED
      BY <1>2, <2>0, <3>2 DEF Thread!Next
  <2>7. QED
    BY <2>1, <2>2, <2>3, <2>4, <2>5, <2>6, RowWriters
<1>3. QED
  BY <1>1, <1>2

\* However requests, jobs, failures, stops and watchdog passes interleave, and for any
\* number of prompts and any threshold: the page sees one prompt worked on at a time, each
\* ended once with its own answer, until writers overlap or an answer is late.
THEOREM SessionImplementsThread == Spec => ImplementsResearchThread
<1>1. Init => Thread!Init
  BY DEF Init, NoRow, Thread!Init, Thread!Blank
<1>2. Init => TypeOK /\ Begun /\ InOrder /\ Ledger /\ AskedOnce
  <2>1. Init => AskedOnce
    BY DEF Init, NoRow, AskedOnce
  <2>2. QED
    BY <2>1, TypedInit, InOrderInit
<1>3. TypeOK /\ Begun /\ InOrder /\ Ledger /\ AskedOnce /\ [Next]_vars
      => (TypeOK /\ Begun /\ InOrder /\ Ledger /\ AskedOnce)'
  BY TypedStep, BegunStep, InOrderStep, LedgerStep, AskedOnceStep
<1>4. TypeOK /\ Begun /\ InOrder /\ Ledger /\ AskedOnce /\ [Next]_vars
      => [Thread!Next]_(Thread!vars)
  BY ThreadStep
<1>5. QED
  BY <1>1, <1>2, <1>3, <1>4, PTL DEF Spec, ImplementsResearchThread, Thread!Spec

================================================================================
