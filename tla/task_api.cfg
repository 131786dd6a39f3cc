\* Clients with and without credentials, two of whom have one name from two issuers
\* and one of whom lists its tasks; tasks are stored in any order of their ids.
CONSTANTS
  MaxId = 3
  PageSize = 2
  Alice = Alice
  Bob = Bob
  Home = Home
  Elsewhere = Elsewhere
  Subject <- Subjects
  Issuer <- Issuers
  Username = Username
  Nobody = Nobody
  Requests <- Sent
  Lister <- Alices

SPECIFICATION Spec

INVARIANTS
  TypeOK
  OnlyTasksOfOwnSubject
  OwnTasksAreReached
  NothingListedTwice
  NothingSkipped

\* The listing ends and no client need ask for anything else.
CHECK_DEADLOCK FALSE
