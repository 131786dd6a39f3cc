--------------------------- MODULE RestLifecycle ---------------------------
(***************************************************************************)
(* The life of TES tasks when Pulsar is reached over REST, the default:    *)
(* clients create and cancel tasks, the event handlers drive them, Pulsar  *)
(* runs their jobs, and workers may stop at any moment.                    *)
(***************************************************************************)
EXTENDS TaskProperties

vars == <<handlerVars, dbVars, pulsarVars>>

Init == InitRepository /\ InitPulsar /\ InitHandlers

-----------------------------------------------------------------------------
(***************************************************************************)
(* PulsarRestOperations, at the awaits that call it.                       *)
(***************************************************************************)
\* setup_job in handle_queued_task_rest; then initialize_task is dispatched.
SetupJob(t, reply) ==
  /\ pc[t] = "setup_job"
  /\ Request(t, "setup", reply)
  /\ \E e \in RequestErrors("JSON", reply) :
       ThenOrHandle(t, ReraiseCustom(e), "initialize_task")
  /\ UNCHANGED <<localVars, dbVars>>

\* Mutant: a lost answer is tried again.
RunJobRetried(t, reply) ==
  /\ pc[t] = "run_job"
  /\ Request(t, "submit", reply)
  /\ \E e \in RequestErrors("BYTES", reply) :
       Goto(t, IF e = "Connection" THEN "run_job" ELSE "poll")
  /\ StartPolling(t)
  /\ UNCHANGED dbVars

\* run_job in handle_run_task; then job_status_complete starts to poll.
RunJob(t, reply) ==
  /\ pc[t] = "run_job"
  /\ Request(t, "submit", reply)
  /\ \E e \in RequestErrors("BYTES", reply) : ThenOrExcept(t, ReraiseCustom(e), "poll")
  /\ StartPolling(t)
  /\ UNCHANGED dbVars

(***************************************************************************)
(* erase_job: a PUT of cancel whose outcome does not matter and then a     *)
(* DELETE whose exception does.  It is called after EXECUTOR_ERROR, after  *)
(* COMPLETE and from the error handler, and each caller meets the          *)
(* exception in its own way.                                               *)
(***************************************************************************)
EraseCancel(t, reply) ==
  /\ \/ pc[t] = "error_cancel" /\ Goto(t, "error_delete")
     \/ pc[t] = "done_cancel" /\ Goto(t, "done_delete")
     \/ pc[t] = "handle_cancel" /\ Goto(t, "handle_delete")
  /\ Request(t, "cancel", reply)
  /\ UNCHANGED <<localVars, dbVars>>

\* Mutant: the exception of the DELETE matters no more than that of the PUT.
EraseDeleteCarelessly(t, reply) ==
  /\ \/ pc[t] \in {"error_delete", "done_delete"} /\ Goto(t, "idle")
     \/ pc[t] = "handle_delete" /\ Goto(t, AfterErase(err[t]))
  /\ Request(t, "delete", reply)
  /\ UNCHANGED <<localVars, dbVars>>

EraseDelete(t, reply) ==
  /\ \E e \in RequestErrors("BYTES", reply) :
       \/ pc[t] = "error_delete" /\ ThenOrExcept(t, ReraiseCustom(e), "idle")
       \/ pc[t] = "done_delete" /\ ThenOrHandle(t, ReraiseCustom(e), "idle")
       \/ pc[t] = "handle_delete" /\ Goto(t, AfterErase(err[t]))
  /\ Request(t, "delete", reply)
  /\ UNCHANGED <<localVars, dbVars>>

-----------------------------------------------------------------------------
DbStep(t, reply) ==
  \/ HandleInitializingTask(t, reply)
  \/ HandleRunTask(t, reply)
  \/ EarlyCheck(t, reply)
  \/ ReadStartLog(t, reply)
  \/ WriteStartTime(t, TRUE, reply)
  \/ ReadExecutorLog(t, reply)
  \/ WriteExecutorLog(t, reply)
  \/ LateCheck(t, reply)
  \/ SetExecutorError(t, reply)
  \/ SetComplete(t, reply)
  \/ ExceptCheck(t, reply)
  \/ HandleUpdate(t, reply)
  \/ ShutdownUpdate(t, reply)

PulsarStep(t, reply) ==
  \/ SetupJob(t, reply)
  \/ RunJob(t, reply)
  \/ EraseCancel(t, reply)
  \/ EraseDelete(t, reply)
  \/ \E e \in RequestErrors("JSON", reply) : SetupInput(t, TRUE, e) \/ PollStatus(t, e)

\* What the event loop does for one task.
HandlerStep(t) ==
  \/ HandleQueuedTask(t)
  \/ DispatchRunTask(t)
  \/ \E reply \in DbReply : DbStep(t, reply)
  \/ \E reply \in PulsarReply : PulsarStep(t, reply)

\* What clients, Pulsar and the operator of the workers do.
EnvironmentStep ==
  \/ \E t \in Task, reply \in DbReply : CancelTask(t, reply)
  \/ \E t \in Task, w \in Worker, list \in InputLists, reply \in DbReply :
       CreateTask(t, w, list, reply)
  \/ \E t \in Task, code \in ReturnCode : JobFinishes(t, code) /\ UNCHANGED <<handlerVars, dbVars>>
  \/ \E t \in Task : HandlerCancelled(t)
  \/ \E w \in Worker : Crash(w)

Next == EnvironmentStep \/ \E t \in Task : HandlerStep(t)

\* An event loop keeps running its coroutines, and every request to MongoDB or
\* Pulsar ends, with a timeout if need be.  Nobody is obliged to create or
\* cancel a task, nor a job to end.
Fairness == \A t \in Task : WF_vars(HandlerStep(t))

Safety == Init /\ [][Next]_vars

Spec == Safety /\ Fairness

-----------------------------------------------------------------------------
(***************************************************************************)
(* Properties.                                                             *)
(***************************************************************************)
\* The values every variable takes.
TypeOK == RepositoryTypeOK /\ PulsarTypeOK /\ HandlersTypeOK

\* Only its client takes a task away from the handler that drives it: at every
\* await the document is in the state the handler's last update gave it, or
\* CANCELED.  (After a failed call the handler may not know the state.)
StageStates(label) ==
  CASE label \in {"queued_task", "setup_job", "initialize_task"} -> {"QUEUED"}
    [] label \in {"setup_data", "run_task"} -> {"INITIALIZING"}
    [] label \in {"early_check", "start_log_read", "start_log_write", "run_job", "poll",
                  "exec_log_read", "exec_log_write", "late_check",
                  "set_error", "set_complete"} -> {"RUNNING"}
    [] label \in {"error_cancel", "error_delete"} -> {"EXECUTOR_ERROR"}
    [] label \in {"done_cancel", "done_delete"} -> {"COMPLETE"}
    [] OTHER -> DocState

OnlyClientInterferes ==
  \A t \in Task : state[t] \in StageStates(pc[t]) \cup {"CANCELED"}

\* Every failure but a lost connection is reported only after Pulsar was asked
\* to delete the job: pulsar_event_handle_error erases it first.
ErasedBeforeReport ==
  \A t \in Task : state[t] = "SYSTEM_ERROR" /\ err[t] # "Connection" => "delete" \in sent[t]

\* While MongoDB and the workers are up, a task without a handler is final:
\* there is no exception on any path that forgets the document.
NoTaskAbandoned ==
  \A t \in Task : pc[t] = "idle" => state[t] \in Terminal \cup {"ABSENT"}

\* While MongoDB and the workers are up, a task that its handler left COMPLETE or
\* EXECUTOR_ERROR has no job in Pulsar any more, except where Pulsar refused the
\* DELETE, whose status nobody looks at: an erase_job that fails in any other way
\* turns the outcome into SYSTEM_ERROR.
FinishedTasksAreErased ==
  \A t \in Task :
    pc[t] = "idle" /\ state[t] \in {"COMPLETE", "EXECUTOR_ERROR"} =>
      jobs[t] = "deleted" \/ "delete" \in refused[t]

\* Whatever fails or stops, a handler comes to its end: no error path goes round,
\* and polling is bounded.  (What it leaves in the document is another matter.)
HandlersEnd == \A t \in Task : pc[t] # "idle" ~> pc[t] = "idle"

\* How many awaits are left on the longest way from one to the end, not counting
\* the turns of the two loops.  The branches that end alike are level.
AwaitsLeft(label) ==
  CASE label = "idle" -> 0
    [] label = "shutdown_update" -> 1
    [] label = "handle_update" -> 2
    [] label = "handle_delete" -> 3
    [] label = "handle_cancel" -> 4
    [] label = "except_check" -> 5
    [] label \in {"error_delete", "done_delete"} -> 6
    [] label \in {"error_cancel", "done_cancel"} -> 7
    [] label \in {"set_error", "set_complete"} -> 8
    [] label = "late_check" -> 9
    [] label = "exec_log_write" -> 10
    [] label = "exec_log_read" -> 11
    [] label = "poll" -> 12
    [] label = "run_job" -> 13
    [] label = "start_log_write" -> 14
    [] label = "start_log_read" -> 15
    [] label = "early_check" -> 16
    [] label = "run_task" -> 17
    [] label = "setup_data" -> 18
    [] label = "initialize_task" -> 19
    [] label = "setup_job" -> 20
    [] label = "queued_task" -> 21

\* The turns of setup_data's loop that are still to come.
InputsLeft(t) ==
  CASE pc[t] \in {"queued_task", "setup_job", "initialize_task"} -> Len(inputs[t])
    [] pc[t] = "setup_data" /\ input[t] <= Len(inputs[t]) -> Len(inputs[t]) + 1 - input[t]
    [] OTHER -> 0

\* The turns of job_status_complete's.
PollsLeft(t) ==
  CASE pc[t] = "poll" -> MaxPolls - polls[t]
    [] AwaitsLeft(pc[t]) > AwaitsLeft("poll") -> MaxPolls
    [] OTHER -> 0

Remaining(t) == AwaitsLeft(pc[t]) + InputsLeft(t) + PollsLeft(t)

\* Why handlers end: nothing is ever tried again without being counted.  Each
\* step of a handler leaves it fewer, and no client, failure or shutdown leaves
\* it more, so a task costs at most 21 awaits, its inputs and max_polls polls.
HandlersCountDown ==
  [][\A t \in Task :
       /\ HandlerStep(t) => Remaining(t)' < Remaining(t)
       /\ pc[t] # "idle" => Remaining(t)' \in 0..Remaining(t)]_vars

\* While MongoDB and the workers are up, every task ends, whatever becomes of
\* the requests to Pulsar: max_polls bounds the wait for the job.
EveryTaskEnds == \A t \in Task : state[t] = "QUEUED" ~> state[t] \in Terminal

-----------------------------------------------------------------------------
(***************************************************************************)
(* What the repository says of itself and the code does not do.            *)
(***************************************************************************)
\* A canceled task is left to its cancellation: "already CANCELED ... No further
\* error processing by handler" (event_actions.py:302).  The handler looks at
\* the state, and then awaits Pulsar before it overwrites it.
CanceledTasksStayCanceled ==
  [][\A t \in Task : state[t] = "CANCELED" => state'[t] = "CANCELED"]_state

\* "Canceling a TES task calls Pulsar's cancel endpoint" (README.md:291).  By the
\* time the handler of a canceled task is done, it has not.
CancelReachesPulsar ==
  \A t \in Task :
    state[t] = "CANCELED" /\ pc[t] = "idle" /\ submits[t] > 0 => "cancel" \in sent[t]

\* handle_run_task "handles cancellations ... during its lifecycle"
\* (event_actions.py:169): its CancelledError branch leaves no RUNNING document
\* behind.  The update there looks for a document whose state is None.
ShutdownLeavesNoRunningTask ==
  [][\A t \in Task :
       pc[t] = "shutdown_update" /\ pc'[t] = "idle" => state'[t] # "RUNNING"]_<<pc, state>>

=============================================================================
