-------------------------------- MODULE IdeaRun --------------------------------
(* What the Idea Generator promises about one generation run, whoever executes  *)
(* it: the lifecycle of a row of idea_generation_runs as the API shows it.      *)
(* Processes, leases, heartbeats and clocks are absent; IdeaLease shows that    *)
(* the code's protocol keeps this promise.                                      *)
EXTENDS Naturals

CONSTANTS Runs,         \* identifiers a row may get
          MaxAttempts   \* idea_generator_max_worker_attempts

VARIABLES status,       \* the row's status, "absent" before, "deleted" after
          attempts,     \* how many workers have started the run
          ideas         \* result sets stored for the run

vars == <<status, attempts, ideas>>

Active   == {"queued", "running"}
Terminal == {"completed", "failed"}
Status   == {"absent", "deleted"} \cup Active \cup Terminal

Init ==
  /\ status   = [r \in Runs |-> "absent"]
  /\ attempts = [r \in Runs |-> 0]
  /\ ideas    = [r \in Runs |-> 0]

Submit(r) ==
  /\ status[r] = "absent"
  /\ status' = [status EXCEPT ![r] = "queued"]
  /\ UNCHANGED <<attempts, ideas>>

\* A worker starts the run, for the first time or in place of another one.
Begin(r) ==
  /\ status[r] \in Active
  /\ attempts[r] < MaxAttempts
  /\ status'   = [status EXCEPT ![r] = "running"]
  /\ attempts' = [attempts EXCEPT ![r] = @ + 1]
  /\ UNCHANGED ideas

\* The one step that stores ideas is the step that completes the run.
Complete(r) ==
  /\ status[r] = "running"
  /\ status' = [status EXCEPT ![r] = "completed"]
  /\ ideas'  = [ideas EXCEPT ![r] = @ + 1]
  /\ UNCHANGED attempts

\* Several runs may fail in one step: recovery is one bulk UPDATE.
Fail(S) ==
  /\ S # {}
  /\ \A r \in S : status[r] = "running"
  /\ status' = [r \in Runs |-> IF r \in S THEN "failed" ELSE status[r]]
  /\ UNCHANGED <<attempts, ideas>>

Remove(r) ==
  /\ status[r] \in Active \cup Terminal
  /\ status' = [status EXCEPT ![r] = "deleted"]
  /\ ideas'  = [ideas EXCEPT ![r] = 0]
  /\ UNCHANGED attempts

Next ==
  \/ \E r \in Runs : Submit(r) \/ Begin(r) \/ Complete(r) \/ Remove(r)
  \/ \E S \in SUBSET Runs : Fail(S)

Spec == Init /\ [][Next]_vars
================================================================================
