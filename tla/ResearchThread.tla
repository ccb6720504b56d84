----------------------------- MODULE ResearchThread -----------------------------
(* What a Research workspace session promises the page that shows it: a thread  *)
(* of turns asked one at a time, each ended once and for good, and a report     *)
(* consolidated from the completed ones. Jobs, the watchdog, process stops and  *)
(* the loading and flushing of rows are out of sight. The promise lasts while   *)
(* no two writers overlap and no operation outlives the watchdog's threshold;   *)
(* afterwards only a deletion is final.                                         *)
EXTENDS Integers, Sequences

CONSTANTS Prompts,        \* the prompts a user may send
          NoAnswer        \* an answer or report that is not there

VARIABLES state,          \* what the session's status shows
          thread,         \* the turns
          report,         \* the prompt whose answer is the report
          cites,          \* the prompts whose citations are listed
          searches,       \* web searches counted
          orderly         \* history: the conditions of the promise held so far

page == <<thread, report, cites, searches>>
vars == <<state, page, orderly>>

--------------------------------------------------------------------------------
Blank == thread = <<>> /\ report = NoAnswer /\ cites = {} /\ searches = 0

Init == state = "absent" /\ Blank /\ orderly = TRUE

Open == state \notin {"absent", "deleted"}

\* A prompt is asked once, and only when no other is being worked on.
Ask(p) ==
  /\ state \notin {"running", "deleted"}
  /\ \A i \in DOMAIN thread : thread[i].prompt # p
  /\ state' = "running"
  /\ thread' = Append(thread, [prompt |-> p, status |-> "running", answer |-> NoAnswer])
  /\ UNCHANGED <<report, cites, searches>>

\* The turn that is being worked on ends; the earlier turns stay as they are.
EndTurn(status, answer) ==
  /\ state = "running"
  /\ state' = status
  /\ thread' = [thread EXCEPT ![Len(thread)].status = status, ![Len(thread)].answer = answer]

\* It gets its own answer, which becomes the report and adds its citations and search.
Answer(p) ==
  /\ EndTurn("completed", p)
  /\ thread[Len(thread)].prompt = p
  /\ report' = p
  /\ cites' = cites \cup {p}
  /\ searches' = searches + 1

\* The agent failed, or the watchdog gave up on an operation nobody works on.
GiveUp == EndTurn("failed", NoAnswer) /\ UNCHANGED <<report, cites, searches>>

Remove == Open /\ state' = "deleted" /\ Blank'

\* Writers overlap or an operation is late: the page may show anything from now on, but
\* a deleted session does not come back.
Disorder ==
  /\ ~orderly'
  /\ state = "deleted" => UNCHANGED <<state, page>>

Next ==
  \/ /\ orderly /\ orderly'
     /\ \/ \E p \in Prompts : Ask(p) \/ Answer(p)
        \/ GiveUp \/ Remove
  \/ Disorder

Spec == Init /\ [][Next]_vars
================================================================================
