\* One task while Pulsar fails and MongoDB and the workers do not.
CONSTANTS
  Task = {t1}
  Worker = {w1}
  MaxPolls = 3
  InputLists <- MCInputLists
  Faults = {"pulsar"}

SPECIFICATION Spec

INVARIANTS
  NoTaskAbandoned
  FinishedTasksAreErased

PROPERTIES
  EveryTaskEnds

\* Clients need not create another task.
CHECK_DEADLOCK FALSE
