\* One task and nothing that fails.
CONSTANTS
  Task = {t1}
  Worker = {w1}
  MaxPolls = 2
  InputLists <- MCInputLists
  Faults = {}

SPECIFICATION Spec

INVARIANTS
  SystemErrorHasCause

\* Clients need not create another task.
CHECK_DEADLOCK FALSE
