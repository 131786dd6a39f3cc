\* A task canceled while its job runs.
CONSTANTS
  Task = {t1}
  Worker = {w1}
  MaxPolls = 2
  InputLists <- MCFewInputLists
  Faults = {}

SPECIFICATION Spec

INVARIANTS
  CancelReachesPulsar

\* Clients need not create another task.
CHECK_DEADLOCK FALSE
