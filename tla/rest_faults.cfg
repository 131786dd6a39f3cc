\* One task under every fault there is.
CONSTANTS
  Task = {t1}
  Worker = {w1}
  MaxPolls = 2
  InputLists <- MCInputLists
  Faults = {"db", "pulsar", "crash", "shutdown"}

SPECIFICATION Spec

INVARIANTS
  TypeOK
  OutcomeMatchesJob
  OneOutcome
  SubmittedOnlyWhenRun
  SystemErrorLogged
  OnlyClientInterferes
  ErasedBeforeReport
  IInv

PROPERTIES
  ImplementsContract
  LogsFrozenAtEnd
  HandlersEnd
  HandlersCountDown

\* Clients need not create another task.
CHECK_DEADLOCK FALSE
