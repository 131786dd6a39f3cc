--------------------------- MODULE EventHandlers ---------------------------
(***************************************************************************)
(* The event handlers of event_actions.py and pulsar_event_handle_error,   *)
(* one action per stretch between two awaits.  A task has at most one      *)
(* event of its chain queued_task -> ... -> run_task outstanding, so one   *)
(* program counter per task says which handler runs it and where.          *)
(*                                                                         *)
(* Left out here: the calls that REST and AMQP make differently            *)
(* (setup_job, run_job, erase_job), which RestLifecycle and AmqpLifecycle  *)
(* supply.                                                                 *)
(***************************************************************************)
EXTENDS TaskRepository, Pulsar

CONSTANTS
  Worker,      \* the gunicorn workers, each with its own event loop
  MaxPolls,    \* pulsar.status.max_polls
  InputLists   \* the input lists of tasks, see InputKind

\* setup_data uploads an input with content and only computes the path of the
\* others (files with a url, directories) from the payload's task_config.
InputKind == {"content", "reference"}

ASSUME MaxPollsAssumption == MaxPolls \in Nat \ {0}

ASSUME InputListsAssumption == InputLists \subseteq Seq(InputKind) /\ <<>> \in InputLists

VARIABLES
  pc,        \* the next await of the task's handler
  err,       \* the exception the handler is dealing with
  rc,        \* command_status['returncode']
  polls,     \* iterations of job_status_complete so far
  input,     \* the index of setup_data's loop
  snapshot,  \* the logs a log helper read and is about to write back
  owner,     \* the worker whose event loop runs the handlers of the task
  inputs     \* the input list of the task's document

handlerVars == <<pc, err, rc, polls, input, snapshot, owner, inputs>>

localVars == <<rc, polls, input, snapshot, owner, inputs>>

\* The awaits inside the try block of handle_run_task.
TryBody ==
  { "early_check", "start_log_read", "start_log_write", "run_job", "poll",
    "exec_log_read", "exec_log_write", "late_check",
    "set_error", "error_cancel", "error_delete",
    "set_complete", "done_cancel", "done_delete" }

\* Awaits that may be inside it: before the first answer arrives, and in the
\* error handler, which line 286 calls inside and line 306 outside of it.
MaybeInTry == {"run_task", "handle_cancel", "handle_delete", "handle_update"}

Outside ==
  { "idle", "queued_task", "setup_job", "initialize_task", "setup_data",
    "except_check", "shutdown_update" }

Label == TryBody \cup MaybeInTry \cup Outside

Exception == {"TaskNotFound", "DataLayer", "Connection", "Operations", "Unknown"}

NoWorker == "none"

HandlersTypeOK ==
  /\ pc \in [Task -> Label]
  /\ err \in [Task -> Exception \cup {"none"}]
  /\ rc \in [Task -> JobResult]
  /\ polls \in [Task -> 0..MaxPolls]
  /\ input \in [Task -> Nat]
  /\ snapshot \in [Task -> TesTaskLog]
  /\ owner \in [Task -> Worker \cup {NoWorker}]
  /\ inputs \in [Task -> InputLists]

InitHandlers ==
  /\ pc = [t \in Task |-> "idle"]
  /\ err = [t \in Task |-> "none"]
  /\ rc = [t \in Task |-> "none"]
  /\ polls = [t \in Task |-> 0]
  /\ input = [t \in Task |-> 1]
  /\ snapshot = [t \in Task |-> EmptyLog]
  /\ owner = [t \in Task |-> NoWorker]
  /\ inputs = [t \in Task |-> <<>>]

-----------------------------------------------------------------------------
(***************************************************************************)
(* Where control goes after an await.                                      *)
(***************************************************************************)
Goto(t, label) == pc' = [pc EXCEPT ![t] = label] /\ UNCHANGED err

\* Mutant: only a data layer error erases the job.
ErrorEntryNoErase(e) ==
  CASE e = "TaskNotFound" -> "idle"
    [] e = "DataLayer"    -> "handle_cancel"
    [] OTHER              -> "handle_update"

\* Mutant: an exception of no known class is not handled.
ErrorEntryKnownOnly(e) ==
  CASE e \in {"TaskNotFound", "Unknown"} -> "idle"
    [] e = "Connection"                  -> "handle_update"
    [] OTHER                             -> "handle_cancel"

\* Mutant: a connection error is taken to be over by itself.
ErrorEntryNoConnection(e) ==
  IF e \in {"TaskNotFound", "Connection"} THEN "idle" ELSE "handle_cancel"

\* pulsar_event_handle_error: nothing for a task that was taken away, the state
\* at once for a connection error, Pulsar's job first for every other one.
ErrorEntry(e) ==
  CASE e = "TaskNotFound" -> "idle"
    [] e = "Connection"   -> "handle_update"
    [] OTHER              -> "handle_cancel"

\* ... and after the job: a data layer error leaves the document alone.
AfterErase(e) == IF e = "DataLayer" THEN "idle" ELSE "handle_update"

\* A promise chain that ends in .catch(pulsar_event_handle_error).
ThenOrHandle(t, e, label) ==
  /\ err' = [err EXCEPT ![t] = e]
  /\ pc' = [pc EXCEPT ![t] = IF e = "none" THEN label ELSE ErrorEntry(e)]

\* An await inside the try block: its exceptions go to `except Exception`.
ThenOrExcept(t, e, label) ==
  /\ err' = [err EXCEPT ![t] = e]
  /\ pc' = [pc EXCEPT ![t] = IF e = "none" THEN label ELSE "except_check"]

\* Mutant: a failed call passes for one that found the task.
GetElseThrowNoError(answer) == IF answer = "nothing" THEN "TaskNotFound" ELSE "none"

\* get_else_throw(..., TaskNotFoundError) on the answer of the repository.
GetElseThrow(answer) ==
  CASE answer = "just"    -> "none"
    [] answer = "nothing" -> "TaskNotFound"
    [] answer = "error"   -> "DataLayer"

\* job_status_complete is entered and its loop begins.
StartPolling(t) ==
  /\ polls' = [polls EXCEPT ![t] = 0]
  /\ UNCHANGED <<rc, input, snapshot, owner, inputs>>

-----------------------------------------------------------------------------
(***************************************************************************)
(* The endpoints.                                                          *)
(***************************************************************************)
\* POST /tasks: the document is inserted and the event dispatched.  The event
\* lives in the memory of the worker; an error answers 500 and dispatches none.
CreateTask(t, w, list, reply) ==
  /\ InsertTask(t, reply)
  /\ pc' = IF reply = "ok" THEN [pc EXCEPT ![t] = "queued_task"] ELSE pc
  /\ owner' = [owner EXCEPT ![t] = w]
  /\ inputs' = [inputs EXCEPT ![t] = list]
  /\ UNCHANGED <<err, rc, polls, input, snapshot>>
  /\ UNCHANGED pulsarVars

\* POST /tasks/{id}:cancel, by any worker: only the document changes.
CancelTask(t, reply) ==
  /\ state[t] # "ABSENT"
  /\ UpdateTaskState(t, Cancelable, "CANCELED", reply)
  /\ UNCHANGED <<handlerVars, pulsarVars>>

-----------------------------------------------------------------------------
(***************************************************************************)
(* queued_task and initialize_task.                                        *)
(***************************************************************************)
HandleQueuedTask(t) ==
  /\ pc[t] = "queued_task"
  /\ Goto(t, "setup_job")
  /\ UNCHANGED <<localVars, dbVars, pulsarVars>>

HandleInitializingTask(t, reply) ==
  /\ pc[t] = "initialize_task"
  /\ UpdateTaskState(t, {"QUEUED"}, "INITIALIZING", reply)
  /\ ThenOrHandle(t, GetElseThrow(UpdateResult(t, {"QUEUED"}, reply)), "setup_data")
  /\ input' = [input EXCEPT ![t] = 1]
  /\ UNCHANGED <<rc, polls, snapshot, owner, inputs, pulsarVars>>

\* One turn of setup_data's loop: an upload, which ends in e, or the path of a
\* reference, which comes from the task_config that setup_job may have failed to
\* provide.
SetupInput(t, taskConfig, e) ==
  /\ pc[t] = "setup_data"
  /\ input[t] <= Len(inputs[t])
  /\ \/ inputs[t][input[t]] = "content" /\ ThenOrHandle(t, e, "setup_data")
     \/ /\ inputs[t][input[t]] = "reference"
        /\ ThenOrHandle(t, IF taskConfig THEN "none" ELSE "Unknown", "setup_data")
  /\ input' = [input EXCEPT ![t] = @ + 1]
  /\ UNCHANGED <<rc, polls, snapshot, owner, inputs, dbVars, pulsarVars>>

\* The end of setup_data: run_task is dispatched.
DispatchRunTask(t) ==
  /\ pc[t] = "setup_data"
  /\ input[t] > Len(inputs[t])
  /\ Goto(t, "run_task")
  /\ UNCHANGED <<localVars, dbVars, pulsarVars>>

-----------------------------------------------------------------------------
(***************************************************************************)
(* run_task, up to the submission.                                         *)
(***************************************************************************)
HandleRunTask(t, reply) ==
  /\ pc[t] = "run_task"
  /\ UpdateTaskState(t, {"INITIALIZING"}, "RUNNING", reply)
  /\ ThenOrExcept(t, GetElseThrow(UpdateResult(t, {"INITIALIZING"}, reply)), "early_check")
  /\ UNCHANGED <<localVars, pulsarVars>>

\* get_task and a return when it is CANCELED: early, and again after polling.
CheckCanceled(t, from, to, reply) ==
  /\ pc[t] = from
  /\ IF reply # "ok" THEN ThenOrExcept(t, "DataLayer", to)
     ELSE Goto(t, IF state[t] = "CANCELED" THEN "idle" ELSE to)
  /\ UNCHANGED <<localVars, dbVars, pulsarVars>>

EarlyCheck(t, reply) == CheckCanceled(t, "early_check", "start_log_read", reply)

\* Mutant: the branches are swapped.
OutcomeLabelSwapped(code) == IF code = "zero" THEN "set_error" ELSE "set_complete"

\* if command_status.get('returncode', -1) != 0
OutcomeLabel(code) == IF code = "zero" THEN "set_complete" ELSE "set_error"

LateCheck(t, reply) == CheckCanceled(t, "late_check", OutcomeLabel(rc[t]), reply)

\* The first half of both log helpers: the logs of the RUNNING document are read.
ReadLogs(t, from, to, reply) ==
  /\ pc[t] = from
  /\ ThenOrExcept(t, GetElseThrow(UpdateResult(t, {"RUNNING"}, reply)), to)
  /\ snapshot' = [snapshot EXCEPT ![t] = logs[t]]
  /\ UNCHANGED <<rc, polls, input, owner, inputs, dbVars, pulsarVars>>

\* The second half of update_last_task_log_time, and then the command line is
\* put together, which needs task_config when the task has inputs.
WriteStartTime(t, taskConfig, reply) ==
  /\ pc[t] = "start_log_write"
  /\ UpdateTaskLogs(t, {"RUNNING"}, [snapshot[t] EXCEPT !.start = TRUE], reply)
  /\ LET e == GetElseThrow(UpdateResult(t, {"RUNNING"}, reply)) IN
       ThenOrExcept(t, IF e = "none" /\ ~taskConfig /\ inputs[t] # <<>> THEN "Unknown" ELSE e,
                    "run_job")
  /\ UNCHANGED <<localVars, pulsarVars>>

ReadStartLog(t, reply) == ReadLogs(t, "start_log_read", "start_log_write", reply)

-----------------------------------------------------------------------------
(***************************************************************************)
(* run_task, from the submission on.                                       *)
(***************************************************************************)
\* Mutant: one turn too many.
PollsExhaustedLate(n) == n > MaxPolls

\* Mutant: range(1, status_max_polls).
PollsExhaustedEarly(n) == n + 1 >= MaxPolls

\* range(0, status_max_polls) is used up after n turns.
PollsExhausted(n) == n = MaxPolls

\* Mutant: a status request that failed is made again and not counted.
PollStatusPatiently(t, e) ==
  /\ pc[t] = "poll"
  /\ rc' = [rc EXCEPT ![t] = result[t]]
  /\ Goto(t, IF e # "none" \/ result[t] = "none" THEN "poll" ELSE "exec_log_read")
  /\ UNCHANGED <<polls, input, snapshot, owner, inputs, dbVars, pulsarVars>>

\* One turn of job_status_complete, whose request ends in e.  The turn that
\* reaches max_polls with the job still incomplete raises LookupError.
PollStatus(t, e) ==
  /\ pc[t] = "poll"
  /\ \/ e # "none" /\ ThenOrExcept(t, e, "poll") /\ UNCHANGED <<rc, polls>>
     \/ /\ e = "none" /\ result[t] # "none"
        /\ rc' = [rc EXCEPT ![t] = result[t]]
        /\ Goto(t, "exec_log_read")
        /\ UNCHANGED polls
     \/ /\ e = "none" /\ result[t] = "none"
        /\ polls' = [polls EXCEPT ![t] = @ + 1]
        /\ ThenOrExcept(t, IF PollsExhausted(polls[t] + 1) THEN "Unknown" ELSE "none", "poll")
        /\ UNCHANGED rc
  /\ UNCHANGED <<input, snapshot, owner, inputs, dbVars, pulsarVars>>

ReadExecutorLog(t, reply) == ReadLogs(t, "exec_log_read", "exec_log_write", reply)

\* The second half of append_task_executor_logs.
WriteExecutorLog(t, reply) ==
  /\ pc[t] = "exec_log_write"
  /\ UpdateTaskLogs(t, {"RUNNING"}, [snapshot[t] EXCEPT !.exec = Append(@, rc[t])], reply)
  /\ ThenOrExcept(t, GetElseThrow(UpdateResult(t, {"RUNNING"}, reply)), "late_check")
  /\ UNCHANGED <<localVars, pulsarVars>>

\* Mutant: the handler returns before erase_job.
SetExecutorErrorAndReturn(t, reply) ==
  /\ pc[t] = "set_error"
  /\ UpdateTaskState(t, {"RUNNING"}, "EXECUTOR_ERROR", reply)
  /\ ThenOrExcept(t, IF reply = "ok" THEN "none" ELSE "DataLayer", "idle")
  /\ UNCHANGED <<localVars, pulsarVars>>

\* The result of this update is ignored: only an exception stops the handler.
SetExecutorError(t, reply) ==
  /\ pc[t] = "set_error"
  /\ UpdateTaskState(t, {"RUNNING"}, "EXECUTOR_ERROR", reply)
  /\ ThenOrExcept(t, IF reply = "ok" THEN "none" ELSE "DataLayer", "error_cancel")
  /\ UNCHANGED <<localVars, pulsarVars>>

SetComplete(t, reply) ==
  /\ pc[t] = "set_complete"
  /\ UpdateTaskState(t, {"RUNNING"}, "COMPLETE", reply)
  /\ ThenOrHandle(t, GetElseThrow(UpdateResult(t, {"RUNNING"}, reply)), "done_cancel")
  /\ UNCHANGED <<localVars, pulsarVars>>

-----------------------------------------------------------------------------
(***************************************************************************)
(* Error handling.                                                         *)
(***************************************************************************)
\* `except Exception`: a task found CANCELED is left alone, and an exception
\* of get_task itself leaves the handler.
ExceptCheck(t, reply) ==
  /\ pc[t] = "except_check"
  /\ Goto(t, IF reply # "ok" \/ state[t] = "CANCELED" THEN "idle" ELSE ErrorEntry(err[t]))
  /\ UNCHANGED <<localVars, dbVars, pulsarVars>>

\* repo_update_error_task_promise; its own exception is logged and dropped.
HandleUpdate(t, reply) ==
  /\ pc[t] = "handle_update"
  /\ UpdateErrorTask(t, "SYSTEM_ERROR", reply)
  /\ Goto(t, "idle")
  /\ UNCHANGED <<localVars, pulsarVars>>

\* asyncio cancels the coroutine when its event loop shuts down; only the try
\* block of handle_run_task catches CancelledError.
HandlerCancelled(t) ==
  /\ "shutdown" \in Faults
  /\ pc[t] \notin {"idle", "shutdown_update"}
  /\ \/ pc[t] \in TryBody \cup MaybeInTry /\ Goto(t, "shutdown_update")
     \/ pc[t] \notin TryBody /\ Goto(t, "idle")
  /\ UNCHANGED <<localVars, dbVars, pulsarVars>>

\* `except CancelledError`: no document has the state None, so the update finds
\* nothing; then kill_job, which no operations class has, raises AttributeError.
ShutdownUpdate(t, reply) ==
  /\ pc[t] = "shutdown_update"
  /\ UpdateTaskState(t, {}, "CANCELED", reply)
  /\ Goto(t, "idle")
  /\ UNCHANGED <<localVars, pulsarVars>>

\* A worker dies: the handlers in its memory are gone, and so are their events.
\* Nothing at startup looks for documents that were left half way.
Crash(w) ==
  /\ "crash" \in Faults
  /\ pc' = [t \in Task |-> IF owner[t] = w THEN "idle" ELSE pc[t]]
  /\ UNCHANGED <<err, localVars, dbVars, pulsarVars>>

=============================================================================
