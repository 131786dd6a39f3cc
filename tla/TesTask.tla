------------------------------ MODULE TesTask ------------------------------
(***************************************************************************)
(* The vocabulary every module shares: the tasks, the states a task        *)
(* document goes through (model/task.py) and the kinds of fault the        *)
(* environment may show.                                                   *)
(***************************************************************************)
CONSTANTS
  Task,     \* the documents clients may create
  Faults    \* which of the fault kinds below may happen

FaultKind ==
  { "db",        \* a MongoDB call fails, before or after it took effect
    "pulsar",    \* a request to Pulsar is refused, garbled or lost
    "crash",     \* a gunicorn worker dies and is started again
    "shutdown" } \* a worker is stopped: asyncio cancels every handler

ASSUME FaultsAssumption == Faults \subseteq FaultKind

\* TesTaskState without UNKNOWN and PAUSED, which no code assigns: the endpoint
\* gives every new document the state QUEUED.
TesTaskState ==
  { "QUEUED", "INITIALIZING", "RUNNING",
    "COMPLETE", "EXECUTOR_ERROR", "SYSTEM_ERROR", "CANCELED" }

\* The states from which the cancel endpoint takes a task.
Cancelable == {"QUEUED", "INITIALIZING", "RUNNING"}

\* The states a client waits for.
Terminal == TesTaskState \ Cancelable

\* What find_one_and_update sees: a document in one of the states, or none.
DocState == TesTaskState \cup {"ABSENT"}

=============================================================================
