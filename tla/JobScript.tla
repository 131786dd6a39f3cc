----------------------------- MODULE JobScript -----------------------------
(***************************************************************************)
(* The one shell command line that handle_run_task submits to Pulsar for a *)
(* task - stage in, every executor, stage out, joined by && - as it is put *)
(* together in utils/container.py, and what it does when Pulsar's shell    *)
(* runs it: the return code RestLifecycle and AmqpLifecycle start from.    *)
(* curl, wget, find, docker and the programs are external.                 *)
(***************************************************************************)
EXTENDS ContainerMounts

CONSTANT Jobs   \* the jobs to run, see Job

(***************************************************************************)
(* An argument, or the value of a variable of the environment, is one of   *)
(* the texts below: a word, one with a blank, one with a shell character,  *)
(* one that is no path in its shortest form, the empty one, or one of the  *)
(* words of a shell that is already there.                                 *)
(***************************************************************************)
Argument ==
  {"word", "a blank", "$meta", "./word", "word/", "http://x", "http:/x", "", ".",
   "sh", "-c", "<", ">", "2>", "/path"}

\* SHELL_PATTERN, and the larger set of texts shlex.quote puts in quotes.
ShellPattern == {"$meta", "<", ">", "2>"}
Unsafe == ShellPattern \cup {"a blank", ""}

Stream == {"stdin", "stdout", "stderr"}

\* What the command line is made from: CONTAINER_TYPE and the task.
Job ==
  [ container : {"docker", "singularity"},
    inputs    : Seq([source : {"content", "url", "neither"}, path : Path, type : {"FILE", "DIRECTORY"}]),
    outputs   : Seq([path : Path, type : {"FILE", "DIRECTORY"}]),
    volumes   : Seq(Path),
    executors : Seq([command : Seq(Argument), streams : SUBSET Stream, env : Seq(Argument)]) ]

ASSUME JobsAssumption == Jobs \subseteq Job

VARIABLES
  job,        \* the task
  staged,     \* the inputs that are in Pulsar's inputs directory
  at,         \* how many downloads, executors and uploads are done
  file,       \* the path that whoever wrote a file outside the images wrote it as
  uploaded,   \* the path whose file each output's URL got
  runs,       \* history: what ran in the containers
  code        \* the return code of the command line

vars == <<job, staged, at, file, uploaded, runs, code>>

Nowhere == <<>>

-----------------------------------------------------------------------------
(***************************************************************************)
(* Commands.                                                               *)
(***************************************************************************)
\* executor.command is a List[Path]: pydantic makes a Path of every argument, and
\* the text of a Path has no ./ in it, no doubled and no last slash, and is a dot
\* where it would be empty.
PathText(arg) ==
  CASE arg \in {"./word", "word/"} -> "word"
    [] arg = "http://x"            -> "http:/x"
    [] arg = ""                    -> "."
    [] OTHER                       -> arg

\* Mutant: only what the pattern finds is put in quotes.
QuoteShellPattern(arg) == [text |-> arg, quoted |-> arg \in ShellPattern]

\* shlex.quote
Quote(arg) == [text |-> arg, quoted |-> arg \in Unsafe]

\* A shell takes a quoted text as it is and makes something else of an unsafe one.
ShellReads(token) ==
  IF token.quoted \/ token.text \notin Unsafe THEN token.text ELSE "expanded"

Requoted(args) == [i \in DOMAIN args |-> ShellReads(Quote(args[i]))]

\* Mutant: any script is taken for a shell of its own.
IsShellWrappedAnyScript(command) == command # <<>> /\ command[1] = "sh"

IsShellWrapped(command) == Len(command) >= 2 /\ command[1] = "sh" /\ command[2] = "-c"

RequiresShell(command) == \E i \in DOMAIN command : command[i] \in ShellPattern

\* _add_redirections: the operators become arguments of the program.
RedirectionWords(streams) ==
     (IF "stdin" \in streams THEN <<"<", "/path">> ELSE <<>>)
  \o (IF "stdout" \in streams THEN <<">", "/path">> ELSE <<>>)
  \o (IF "stderr" \in streams THEN <<"2>", "/path">> ELSE <<>>)

\* with_command and then get_run_command, which quotes every word for Pulsar's
\* shell: the program that runs in the container and its redirected streams.
\* A command put into a shell of its own is quoted for that one as well.
RunCommand(container, executor) ==
  LET command == [i \in DOMAIN executor.command |-> PathText(executor.command[i])] IN
    IF command = <<>> \/ IsShellWrapped(command)
      THEN [argv |-> Requoted(command), streams |-> {}]
    ELSE IF RequiresShell(command) \/ container = "singularity"
      THEN [argv |-> Requoted(Requoted(command)), streams |-> executor.streams]
    ELSE [argv |-> Requoted(command \o RedirectionWords(executor.streams)), streams |-> {}]

\* Mutant: the value is not quoted for the shell.
EnvFlagBare(container, value) == [text |-> value, quoted |-> FALSE]

\* -e k='v' for docker, and --env k="v" for singularity: between double quotes a
\* shell still expands a $.
EnvFlag(container, value) ==
  IF container = "docker" THEN Quote(value)
  ELSE [text |-> value, quoted |-> value # "$meta"]

Environment(container, env) ==
  [v \in DOMAIN env |-> ShellReads(EnvFlag(container, env[v]))]

\* Whether a container starts: singularity exec wants a command, and docker run
\* takes the image's.
Starts(container, mounts, command) ==
  ~Refused(container, mounts) /\ (container = "singularity" => command)

-----------------------------------------------------------------------------
\* Where an executor's program writes an output, and where stage-out looks for it.
WrittenTo(path) == Place(job.container, ExecutorMounts(job), path)

ReadFrom(path) == Place(job.container, StageOutMounts(job), path)

\* curl -F 'file=@{shlex.quote(path)}': the quotes of shlex.quote end the outer ones,
\* and the shell splits the path at its first blank.
CurlPath(path) ==
  LET Blanks(name) == {l \in DOMAIN name : name[l] = " "}
      names == {d \in DOMAIN path : Blanks(path[d]) # {}}
      first == Min(names)
  IN IF names = {} THEN path
     ELSE Append(SubSeq(path, 1, first - 1), SubSeq(path[first], 1, Min(Blanks(path[first])) - 1))

\* The path an output's part of the line reads; that of a directory goes to find.
Source(output) == IF output.type = "FILE" THEN CurlPath(output.path) ELSE output.path

\* Paths programs write that matter to stage-out.
FilePath ==
  UNION {{job.outputs[o].path, Source(job.outputs[o])} : o \in DOMAIN job.outputs}

Init ==
  /\ job \in Jobs
  /\ staged = {i \in DOMAIN job.inputs :
                 job.inputs[i].source = "content" /\ job.inputs[i].type = "FILE"}
  /\ at = [inputs |-> 0, executors |-> 0, outputs |-> 0]
  /\ file = [f \in {ReadFrom(Source(job.outputs[o])) : o \in DOMAIN job.outputs} |-> Nowhere]
  /\ uploaded = [o \in DOMAIN job.outputs |-> Nowhere]
  /\ runs = <<>>
  /\ code = "none"

\* The next part of the line is one of the list, and it ends in zero or, after
\* which && skips the rest, nonzero.
Part(list) ==
  /\ code = "none" /\ at[list] < Len(job[list])
  /\ list = "executors" => at.inputs = Len(job.inputs)
  /\ list = "outputs" => at.executors = Len(job.executors)
  /\ at' = [at EXCEPT ![list] = @ + 1]

Status(ok) == code' = IF ok THEN code ELSE "nonzero"

\* Mutant: a directory is left to the container.
DownloadedFilesOnly(input) == input.source = "url" /\ input.type = "FILE"

\* stage_in_command skips the inputs setup_data has uploaded, and any without url.
Downloaded(input) == input.source = "url"

\* One curl -f or wget of stage_in_command, in a container that mounts the
\* inputs directory.  Both fail when the URL does.
StageIn ==
  LET i == at.inputs + 1
      commands == \E j \in DOMAIN job.inputs : Downloaded(job.inputs[j])
  IN
    /\ Part("inputs")
    /\ \E ok \in BOOLEAN :
         /\ staged' = IF ok /\ Downloaded(job.inputs[i]) THEN staged \cup {i} ELSE staged
         /\ Status(Starts(job.container, InputsDirectory, commands)
                     /\ (Downloaded(job.inputs[i]) => ok))
    /\ UNCHANGED <<job, file, uploaded, runs>>

\* What the programs leave in the files that are uploaded: each is as it was, or
\* was written as some path.
Written ==
  { after \in [DOMAIN file -> {Nowhere} \cup FilePath] :
      \A f \in DOMAIN file :
        after[f] = file[f] \/ (after[f] # Nowhere /\ WrittenTo(after[f]) = f) }

\* An executor's container: its program finds the inputs that are mounted and
\* staged, writes the paths of some outputs, and ends well or not.
Run ==
  LET executor == job.executors[at.executors + 1]
      mounts == ExecutorMounts(job)
      run == RunCommand(job.container, executor)
      found == Visible(job.container, mounts, job.inputs) \cap staged
  IN
    /\ Part("executors")
    /\ IF Starts(job.container, mounts, executor.command # <<>>)
         THEN /\ runs' = Append(runs,
                    [argv |-> run.argv, streams |-> run.streams, inputs |-> found,
                     env |-> Environment(job.container, executor.env)])
              /\ file' \in Written
              /\ \E ok \in BOOLEAN : Status(ok)
         ELSE Status(FALSE) /\ UNCHANGED <<runs, file>>
    /\ UNCHANGED <<job, staged, uploaded>>

\* Mutant: curl without -f, and no status of find either.
UploadStatusAlwaysZero(type, found, ok) == TRUE

\* curl -f tells whether it found the file and the server took it; find -exec
\* only whether it found the directory, whatever becomes of its curls.
UploadStatus(type, found, ok) == found /\ (type = "DIRECTORY" \/ ok)

\* One part of stage_out_command.
StageOut ==
  LET o == at.outputs + 1
      content == file[ReadFrom(Source(job.outputs[o]))]
      found == content # Nowhere /\ Starts(job.container, StageOutMounts(job), TRUE)
  IN
    /\ Part("outputs")
    /\ \E ok \in BOOLEAN :
         /\ uploaded' = IF found /\ ok THEN [uploaded EXCEPT ![o] = content] ELSE uploaded
         /\ Status(UploadStatus(job.outputs[o].type, found, ok))
    /\ UNCHANGED <<job, staged, file, runs>>

\* The line is done.
Exit ==
  /\ code = "none"
  /\ \A list \in DOMAIN at : at[list] = Len(job[list])
  /\ code' = "zero"
  /\ UNCHANGED <<job, staged, at, file, uploaded, runs>>

Next == StageIn \/ Run \/ StageOut \/ Exit

Spec == Init /\ [][Next]_vars

-----------------------------------------------------------------------------
(***************************************************************************)
(* Conditions on a task, under which the properties below are proved.      *)
(***************************************************************************)
\* Every input has a url, or is a file given by content.
InputsHaveSource(task) ==
  \A i \in DOMAIN task.inputs :
    \/ task.inputs[i].source = "url"
    \/ task.inputs[i].source = "content" /\ task.inputs[i].type = "FILE"

\* No directory is uploaded.
OutputsAreFiles(task) == \A o \in DOMAIN task.outputs : task.outputs[o].type = "FILE"

\* No output's path is split on its way to curl.
OutputsUnsplit(task) == \A o \in DOMAIN task.outputs : Source(task.outputs[o]) = task.outputs[o].path

\* Every argument is what it becomes as a Path, and streams are redirected only
\* where the command gets a shell.
RunnableAsGiven(container, executor) ==
  /\ \A i \in DOMAIN executor.command : PathText(executor.command[i]) = executor.command[i]
  /\ executor.streams # {} =>
       /\ executor.command # <<>> /\ ~IsShellWrapped(executor.command)
       /\ container = "singularity" \/ RequiresShell(executor.command)

\* No value of a variable has a $ for singularity.
QuotableValues(container, env) ==
  container = "docker" \/ \A v \in DOMAIN env : env[v] # "$meta"

\* Both for every executor.
Runnable(task) ==
  \A x \in DOMAIN task.executors :
    /\ RunnableAsGiven(task.container, task.executors[x])
    /\ QuotableValues(task.container, task.executors[x].env)

\* No two inputs have one path, and with singularity no volume and no later input
\* is mounted over the path of an input.
InputsApart(task) ==
  /\ \A i, j \in DOMAIN task.inputs : task.inputs[i].path = task.inputs[j].path => i = j
  /\ task.container = "singularity" =>
       \A i \in DOMAIN task.inputs :
         LET path == task.inputs[i].path
             dirs == VolumeDirs(task.outputs, task.volumes)
         IN  /\ \A j \in DOMAIN task.inputs : j > i => ~IsPrefix(task.inputs[j].path, path)
             /\ \A d \in DOMAIN dirs : ~IsPrefix(dirs[d], path)

\* No two directories that become volumes differ only in their slashes.
VolumesApart(task) ==
  LET dirs == VolumeDirs(task.outputs, task.volumes) IN
    \A d, e \in DOMAIN dirs : FlattenSeq(dirs[d]) = FlattenSeq(dirs[e]) => dirs[d] = dirs[e]

-----------------------------------------------------------------------------
(***************************************************************************)
(* Properties.                                                             *)
(***************************************************************************)
\* A program only runs when every input of the task is there: "Inputs will be
\* downloaded and mounted into the executor container" (task.py:191).
InputsBeforePrograms == runs # <<>> => staged = DOMAIN job.inputs

\* A program finds every input that is there at its path, and not the volume of
\* an output that is mounted over it (task.py:191).
InputsVisible == \A x \in DOMAIN runs : staged \subseteq runs[x].inputs

\* Every program runs with the arguments the client gave: they become paths, pass
\* through two shells and are quoted for each ("i.e. argv", task.py:109).
ProgramsAsGiven ==
  \A x \in DOMAIN runs : runs[x].argv = job.executors[x].command

\* Every program finds in its environment the values the client gave:
\* "Enviromental variables to set within the container" (task.py:133).
EnvironmentAsGiven ==
  \A x \in DOMAIN runs : runs[x].env = job.executors[x].env

\* Every stream the client named a file for is redirected to it: "a file where
\* the executor's stdout will be written to" (task.py:122).
StreamsRedirected ==
  \A x \in DOMAIN runs : runs[x].streams = job.executors[x].streams

\* A return code of zero, from which the task becomes COMPLETE, means that
\* every output, and no other file in its place, got to its URL: "Once the task completes you can check your ...
\* storage ... where you should find" the output (README.md:277).
ZeroMeansUploaded ==
  code = "zero" => \A o \in DOMAIN job.outputs : uploaded[o] = job.outputs[o].path

\* What an URL gets is what the programs wrote to the path of that output, in
\* the volume stage-out mounts there, and not another output's file.
UploadIsTheOutput ==
  \A o \in DOMAIN job.outputs : uploaded[o] \in {Nowhere, job.outputs[o].path}

=============================================================================
