\* An output that is a directory.
CONSTANT Jobs <- DirectoryJobs

SPECIFICATION Spec

INVARIANTS
  ZeroMeansUploaded

\* The command line ends.
CHECK_DEADLOCK FALSE
