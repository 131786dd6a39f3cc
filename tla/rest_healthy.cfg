\* Two tasks and nothing that fails.
CONSTANTS
  Task = {t1, t2}
  Worker = {w1}
  MaxPolls = 2
  InputLists <- MCFewInputLists
  Faults = {}

SPECIFICATION Spec

INVARIANTS
  SystemErrorHasCause

\* Clients need not create another task.
CHECK_DEADLOCK FALSE
