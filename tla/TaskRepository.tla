--------------------------- MODULE TaskRepository ---------------------------
(***************************************************************************)
(* The MongoDB collection of task documents and the operations of          *)
(* TaskRepository on it.  MongoDB makes one find_one_and_update atomic;    *)
(* everything that takes two calls is not.                                 *)
(***************************************************************************)
EXTENDS TesTask, Naturals, Sequences

VARIABLES
  state,    \* the document's state, ABSENT before it is inserted
  logs,     \* the document's one TesTaskLog
  visited   \* history: the states the document has been in

dbVars == <<state, logs, visited>>

\* The return code Pulsar reports, as far as handle_run_task looks at it.
ReturnCode == {"zero", "nonzero"}

\* A TesTaskLog: whether start_time is set, the exit codes of the executor
\* logs, and how many system_logs were pushed.
TesTaskLog == [start : BOOLEAN, exec : Seq(ReturnCode), system : Nat]

EmptyLog == [start |-> FALSE, exec |-> <<>>, system |-> 0]

(***************************************************************************)
(* A call is answered, fails before it reached the server, or takes effect *)
(* and then loses its answer (or the answer does not parse as a            *)
(* RegisteredTesTask): handle_data_layer_error turns the last two into the *)
(* same CustomDataLayerError.                                              *)
(***************************************************************************)
DbReply == {"ok"} \cup IF "db" \in Faults THEN {"unsent", "lost"} ELSE {}

\* Mutant: the state is missing from the filter.
MatchesIdOnly(t, old) == state[t] # "ABSENT"

\* A filter {'_id': ..., 'state': ...}; none is ever on the state of a document
\* that is not there.
Matches(t, old) == state[t] \in old

\* What the caller of update_task gets: Just(task), Nothing or the error.
UpdateResult(t, old, reply) ==
  IF reply # "ok" THEN "error" ELSE IF Matches(t, old) THEN "just" ELSE "nothing"

\* Whether the call finds its document and changes it.
Updates(t, old, reply) == reply # "unsent" /\ Matches(t, old)

\* TaskRepository.update_task_state, for a filter that matches the states in old.
UpdateTaskState(t, old, new, reply) ==
  /\ state' = IF Updates(t, old, reply) THEN [state EXCEPT ![t] = new] ELSE state
  /\ visited' = IF Updates(t, old, reply)
                  THEN [visited EXCEPT ![t] = @ \cup {new}]
                  ELSE visited
  /\ UNCHANGED logs

\* TaskRepository.update_task as the log helpers use it: $set of the whole logs.
UpdateTaskLogs(t, old, new, reply) ==
  /\ logs' = IF Updates(t, old, reply) THEN [logs EXCEPT ![t] = new] ELSE logs
  /\ UNCHANGED <<state, visited>>

\* Mutant: the state is set without the system log.
UpdateErrorTaskSilently(t, new, reply) == UpdateTaskState(t, TesTaskState, new, reply)

\* repo_update_error_task_promise: the state is set and the system log pushed
\* in one update, whatever state the document is in.
UpdateErrorTask(t, new, reply) ==
  /\ state' = IF Updates(t, TesTaskState, reply) THEN [state EXCEPT ![t] = new] ELSE state
  /\ visited' = IF Updates(t, TesTaskState, reply)
                  THEN [visited EXCEPT ![t] = @ \cup {new}]
                  ELSE visited
  /\ logs' = IF Updates(t, TesTaskState, reply)
               THEN [logs EXCEPT ![t].system = @ + 1]
               ELSE logs

\* TaskRepository.create_task: the document the endpoint built is inserted.
InsertTask(t, reply) ==
  /\ state[t] = "ABSENT"
  /\ state' = IF reply # "unsent" THEN [state EXCEPT ![t] = "QUEUED"] ELSE state
  /\ visited' = IF reply # "unsent" THEN [visited EXCEPT ![t] = {"QUEUED"}] ELSE visited
  /\ UNCHANGED logs

InitRepository ==
  /\ state = [t \in Task |-> "ABSENT"]
  /\ logs = [t \in Task |-> EmptyLog]
  /\ visited = [t \in Task |-> {}]

RepositoryTypeOK ==
  /\ state \in [Task -> DocState]
  /\ logs \in [Task -> TesTaskLog]
  /\ visited \in [Task -> SUBSET TesTaskState]

=============================================================================
