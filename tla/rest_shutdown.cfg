\* A worker that is stopped while its handler runs.
CONSTANTS
  Task = {t1}
  Worker = {w1}
  MaxPolls = 2
  InputLists <- MCFewInputLists
  Faults = {"shutdown"}

SPECIFICATION Spec

PROPERTIES
  ShutdownLeavesNoRunningTask

\* Clients need not create another task.
CHECK_DEADLOCK FALSE
