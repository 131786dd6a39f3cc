--------------------------- MODULE TaskProperties ---------------------------
(***************************************************************************)
(* What is required of the handlers whichever interface to Pulsar they     *)
(* use.  RestLifecycle and AmqpLifecycle are both checked against it.      *)
(***************************************************************************)
EXTENDS EventHandlers

\* The contract with the client, read off the documents and the history.
Contract ==
  INSTANCE TaskContract WITH ran <- {t \in Task : "RUNNING" \in visited[t]}

\* A task document goes through its states, and its job is submitted and
\* judged, as TaskContract says: the filters of update_task_state, cancel_task
\* and the unconditional update of repo_update_error_task_promise together.
ImplementsContract == Contract!Spec

\* COMPLETE is only ever shown for a job that returned zero, EXECUTOR_ERROR for
\* one that did not, and by then the task's log holds exactly that one executor
\* log: append_task_executor_logs precedes the state and nothing undoes it, not
\* even a failure that turns the state into SYSTEM_ERROR later.
OutcomeMatchesJob ==
  \A t \in Task :
    /\ "COMPLETE" \in visited[t] => result[t] = "zero" /\ logs[t].exec = <<"zero">>
    /\ "EXECUTOR_ERROR" \in visited[t] =>
         result[t] = "nonzero" /\ logs[t].exec = <<"nonzero">>

\* The three ways a task can end on its own or by its client exclude each
\* other: cancel_task racing the final update_task_state has one winner.
OneOutcome ==
  \A t \in Task : \A a, b \in visited[t] \cap {"COMPLETE", "EXECUTOR_ERROR", "CANCELED"} : a = b

\* A task that was canceled before it was RUNNING is never submitted to Pulsar,
\* and none is submitted twice, however far its handlers were when it happened.
SubmittedOnlyWhenRun ==
  \A t \in Task :
    /\ "RUNNING" \notin visited[t] => submits[t] = 0 /\ result[t] = "none"
    /\ submits[t] <= 1

\* A SYSTEM_ERROR leaves its system log in the document, for good: no log
\* helper that read the logs before writes them back without it.
SystemErrorLogged ==
  \A t \in Task : "SYSTEM_ERROR" \in visited[t] <=> logs[t].system > 0

\* Once a task is final, what its logs say of the execution stays as it is: a
\* log helper that read them before the cancellation does not write them after.
LogsFrozenAtEnd ==
  [][\A t \in Task : state[t] \in Terminal =>
       /\ logs'[t].start = logs[t].start
       /\ logs'[t].exec = logs[t].exec]_<<state, logs>>

\* When nothing fails, the one system error is that of a job which is not done
\* after max_polls polls: LookupError in job_status_complete.
SystemErrorHasCause ==
  \A t \in Task : state[t] = "SYSTEM_ERROR" => polls[t] = MaxPolls

=============================================================================
