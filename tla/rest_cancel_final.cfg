\* A CANCELED task whose handler is on its way to SYSTEM_ERROR.
CONSTANTS
  Task = {t1}
  Worker = {w1}
  MaxPolls = 2
  InputLists <- MCFewInputLists
  Faults = {}

SPECIFICATION Spec

PROPERTIES
  CanceledTasksStayCanceled

\* Clients need not create another task.
CHECK_DEADLOCK FALSE
