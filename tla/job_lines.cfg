\* Files in and out, mounts, redirected streams and every kind of command.
CONSTANT Jobs <- LineJobs

SPECIFICATION Spec

INVARIANTS
  InputsBeforePrograms
  InputsVisible
  ProgramsAsGiven
  EnvironmentAsGiven
  StreamsRedirected
  ZeroMeansUploaded
  UploadIsTheOutput

\* The command line ends.
CHECK_DEADLOCK FALSE
