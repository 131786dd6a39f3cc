--------------------------- MODULE RestInvariant ---------------------------
(***************************************************************************)
(* The inductive invariant behind the safety theorems of RestLifecycle: at *)
(* every await, what the handler of a task may rely on.                    *)
(***************************************************************************)
EXTENDS RestLifecycle

\* The awaits before the task's command was submitted.
BeforeSubmit ==
  { "queued_task", "setup_job", "initialize_task", "setup_data", "run_task",
    "early_check", "start_log_read", "start_log_write", "run_job" }

\* The awaits at which job_status_complete has returned.
HasCode ==
  { "exec_log_read", "exec_log_write", "late_check",
    "set_error", "error_cancel", "error_delete",
    "set_complete", "done_cancel", "done_delete" }

\* The awaits at which the executor log is written.
HasLog == {"late_check", "set_error", "set_complete"}

\* The awaits at which a log helper holds the logs it is going to write.
HoldsLogs == {"start_log_write", "exec_log_write"}

\* The state tells which states the document was in before.
VisitedInv(t) ==
  /\ state[t] = "ABSENT" => visited[t] = {} /\ pc[t] = "idle"
  /\ state[t] = "QUEUED" => visited[t] = {"QUEUED"}
  /\ state[t] = "INITIALIZING" => visited[t] = {"QUEUED", "INITIALIZING"}
  /\ state[t] = "RUNNING" => visited[t] = {"QUEUED", "INITIALIZING", "RUNNING"}
  /\ state[t] \in {"COMPLETE", "EXECUTOR_ERROR", "CANCELED"} =>
       visited[t] \subseteq {"QUEUED", "INITIALIZING", "RUNNING", state[t]}
  /\ \A a, b \in visited[t] \cap {"COMPLETE", "EXECUTOR_ERROR", "CANCELED"} : a = b

\* The handler's position tells the state, up to a cancellation.
StageInv(t) ==
  /\ state[t] \in StageStates(pc[t]) \cup {"CANCELED"}
  /\ pc[t] \in TryBody => "RUNNING" \in visited[t]
  /\ state[t] = "SYSTEM_ERROR" => pc[t] = "idle"

\* Only a submitted job runs and has a result, and a job with a result was set up.
SubmitInv(t) ==
  /\ "RUNNING" \notin visited[t] => submits[t] = 0
  /\ pc[t] \in BeforeSubmit => submits[t] = 0
  /\ submits[t] = 0 => result[t] = "none" /\ jobs[t] # "running"
  /\ result[t] # "none" => jobs[t] # "none"
  /\ submits[t] <= 1

\* The return code the handler holds is the one of the job.
CodeInv(t) ==
  /\ pc[t] = "poll" => polls[t] < MaxPolls
  /\ pc[t] \in HasCode => rc[t] = result[t] /\ rc[t] # "none"
  /\ pc[t] = "set_complete" => rc[t] = "zero"
  /\ pc[t] = "set_error" => rc[t] = "nonzero"

\* The executor log is written once, between the polling and the outcome.
ExecLogInv(t) ==
  /\ state[t] = "ABSENT" \/ pc[t] \in BeforeSubmit \cup {"poll", "exec_log_read", "exec_log_write"}
       => logs[t].exec = <<>>
  /\ pc[t] \in HoldsLogs => snapshot[t].exec = <<>>
  /\ pc[t] \in HasLog => logs[t].exec = <<rc[t]>>
  /\ "COMPLETE" \in visited[t] => result[t] = "zero" /\ logs[t].exec = <<"zero">>
  /\ "EXECUTOR_ERROR" \in visited[t] => result[t] = "nonzero" /\ logs[t].exec = <<"nonzero">>

\* No log helper holds logs older than a system log.
SystemLogInv(t) ==
  /\ "SYSTEM_ERROR" \in visited[t] <=> logs[t].system > 0
  /\ pc[t] \in HoldsLogs => snapshot[t].system = 0

\* The error handler erases the job first, except after a connection error.
EraseInv(t) ==
  /\ pc[t] = "handle_update" => err[t] = "Connection" \/ "delete" \in sent[t]
  /\ state[t] = "SYSTEM_ERROR" => err[t] = "Connection" \/ "delete" \in sent[t]

TaskInv(t) ==
  /\ VisitedInv(t)
  /\ StageInv(t)
  /\ SubmitInv(t)
  /\ CodeInv(t)
  /\ ExecLogInv(t)
  /\ SystemLogInv(t)
  /\ EraseInv(t)

\* Every handler finds its task, its job and its logs as its position says, in
\* every reachable state and whatever failed before.
IInv == TypeOK /\ \A t \in Task : TaskInv(t)

-----------------------------------------------------------------------------
(***************************************************************************)
(* What more is true while some kinds of fault do not happen.              *)
(***************************************************************************)
\* A handler whose filter did not find the document lost it to a cancellation.
NotFoundInv(t) ==
  pc[t] = "except_check" /\ err[t] = "TaskNotFound" => state[t] = "CANCELED"

\* While MongoDB and the workers are up, no handler is cut off and none gives the
\* document up for a failed call.
UpInv(t) ==
  /\ NotFoundInv(t)
  /\ pc[t] # "shutdown_update"
  /\ err[t] # "DataLayer"
  /\ pc[t] = "idle" => state[t] \in Terminal \cup {"ABSENT"}
  /\ pc[t] = "idle" /\ state[t] \in {"COMPLETE", "EXECUTOR_ERROR"} =>
       jobs[t] = "deleted" \/ "delete" \in refused[t]

\* While neither MongoDB nor Pulsar fails, only two things raise in a handler: a
\* cancellation and the end of the polling.
CauseInv(t) ==
  /\ NotFoundInv(t)
  /\ pc[t] = "except_check" => err[t] = "TaskNotFound" \/ polls[t] = MaxPolls
  /\ pc[t] \in {"handle_cancel", "handle_delete", "handle_update"} => polls[t] = MaxPolls
  /\ state[t] = "SYSTEM_ERROR" => polls[t] = MaxPolls

\* Every task is where it should be while only Pulsar fails ...
AllUp == \A t \in Task : UpInv(t)

\* ... and while workers stop and nothing else fails.
AllCaused == \A t \in Task : CauseInv(t)

=============================================================================
