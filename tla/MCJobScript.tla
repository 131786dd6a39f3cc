---------------------------- MODULE MCJobScript ----------------------------
(***************************************************************************)
(* Jobs for the runs of JobScript.                                         *)
(***************************************************************************)
EXTENDS JobScript

\* Directories /, /ab, /c and /c/ab, and paths in them.
AB == <<<<"a", "b">>>>
C == <<<<"c">>>>
InAB == AB \o <<<<"x">>>>
InOther == C \o InAB
Named(dir, letter) == Append(dir, <<letter>>)

Input(source, type, path) == [source |-> source, type |-> type, path |-> path]
Output(path, type) == [path |-> path, type |-> type]
Executor(command, streams) == [command |-> command, streams |-> streams, env |-> <<>>]

\* Two executors with one of the given commands each.
Workload(container, inputs, outputs, commands, streams) ==
  { [ container |-> container, inputs |-> inputs, outputs |-> outputs, volumes |-> <<>>,
      executors |-> <<Executor(c, s), Executor(d, s)>> ] :
      c \in commands, d \in commands, s \in streams }

Plain == {<<"word">>, <<"word", "a blank">>}

Shell == {<<"word", "$meta">>, <<"$meta", "a blank">>}

\* Files in and out, and every kind of command that stays what it is as paths.
FileJobs ==
  Workload("docker",
           <<Input("url", "DIRECTORY", Named(C, "i")), Input("content", "FILE", Named(C, "j")),
             Input("url", "FILE", Named(C, "k"))>>,
           <<Output(InAB, "FILE"), Output(InOther, "FILE")>>,
           Plain \cup Shell \cup {<<>>, <<"sh", "-c", "$meta">>}, {{}})

\* Redirected streams, where every command gets a shell.
StreamJobs ==
  Workload("docker", <<>>, <<Output(InAB, "FILE")>>, Shell, SUBSET Stream)
    \cup Workload("singularity", <<>>, <<Output(InAB, "FILE")>>,
                  Plain \cup Shell \cup {<<"sh", "word">>}, SUBSET Stream)

\* One executor, with inputs, volumes and an environment.
Mounting(container, inputs, outputs, volumes, env) ==
  [ container |-> container, inputs |-> inputs, outputs |-> outputs, volumes |-> volumes,
    executors |-> <<[command |-> <<"word">>, streams |-> {}, env |-> env]>> ]

ContentAndUrl(dir) ==
  <<Input("content", "FILE", Named(dir, "i")), Input("url", "DIRECTORY", Named(dir, "j"))>>

MountJobs ==
  { \* inputs below the volumes of outputs and of the task, one volume below another
    Mounting("docker", ContentAndUrl(AB) \o <<Input("url", "FILE", Named(C, "i"))>>,
             <<Output(InAB, "FILE"), Output(InOther, "FILE")>>, <<C, AB>>,
             <<"word", "a blank", "$meta">>),
    \* an input where the volume of an output is
    Mounting("docker", <<Input("url", "DIRECTORY", AB)>>, <<Output(InAB, "FILE")>>, <<>>, <<>>),
    \* an output in /
    Mounting("docker", ContentAndUrl(C), <<Output(<<<<"x">>>>, "FILE")>>, <<>>, <<>>),
    \* inputs and volumes side by side
    Mounting("singularity", ContentAndUrl(C), <<Output(InAB, "FILE")>>, <<AB>>,
             <<"word", "a blank">>),
    \* an input below one listed before it
    Mounting("singularity", <<Input("url", "DIRECTORY", C), Input("url", "FILE", Named(C, "i"))>>,
             <<Output(InAB, "FILE")>>, <<>>, <<>>),
    \* nothing for stage-in to download
    Mounting("singularity", <<Input("content", "FILE", Named(C, "i"))>>,
             <<Output(InAB, "FILE")>>, <<>>, <<>>) }

LineJobs == FileJobs \cup StreamJobs \cup MountJobs

\* The theorems about inputs and uploads are about these jobs, among others.
ASSUME LineJobsAssumption ==
  \A task \in LineJobs :
    /\ InputsHaveSource(task) /\ InputsApart(task)
    /\ OutputsAreFiles(task) /\ OutputsUnsplit(task) /\ VolumesApart(task)

PlainStreamJobs == Workload("docker", <<>>, <<Output(InAB, "FILE")>>, Plain, SUBSET Stream)

\* Outputs /ab/x and "/ab/x y", and a program with arguments that are no paths: not in
\* LineJobs, for the code gets them wrong.
BlankJobs ==
  Workload("docker", <<>>, <<Output(InAB, "FILE"), Output(AB \o <<<<"x", " ", "y">>>>, "FILE")>>,
           Plain, {{}})

NoPathJobs ==
  Workload("docker", <<>>, <<>>, {<<"word", arg>> : arg \in {"./word", "word/", "http://x", ""}}, {{}})

DirectoryJobs == Workload("docker", <<>>, <<Output(InAB, "DIRECTORY")>>, {<<"word">>}, {{}})

\* The task of README.md:247, with singularity.
ReadmeJobs ==
  { Mounting("singularity", <<Input("url", "FILE", Named(AB, "i"))>>,
             <<Output(InAB, "FILE")>>, <<>>, <<>>) }

=============================================================================
