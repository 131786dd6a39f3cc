\* Redirected streams of plain commands, with docker.
CONSTANT Jobs <- PlainStreamJobs

SPECIFICATION Spec

INVARIANTS
  StreamsRedirected

\* The command line ends.
CHECK_DEADLOCK FALSE
