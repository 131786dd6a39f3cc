-------------------------- MODULE JobScriptProofs --------------------------
(***************************************************************************)
(* What a command line promises, for tasks of any size: as many inputs,    *)
(* outputs, volumes, executors and arguments as a client likes.            *)
(***************************************************************************)
EXTENDS JobScript, TLAPS, FiniteSetTheorems

-----------------------------------------------------------------------------
(***************************************************************************)
(* Commands: what a shell makes of quoted words.                           *)
(***************************************************************************)
ExecutorRecord == [command : Seq(Argument), streams : SUBSET Stream, env : Seq(Argument)]

\* A quoted text is read as it was, whatever it is.
LEMMA QuoteIsRead ==
  ASSUME NEW arg
  PROVE  ShellReads(Quote(arg)) = arg
  BY DEF ShellReads, Quote

\* So are quoted arguments, by one shell or by two.
LEMMA RequotedIsSame ==
  ASSUME NEW args \in Seq(Argument)
  PROVE  Requoted(args) = args
  <1>1. Requoted(args) = [i \in DOMAIN args |-> args[i]]
    BY QuoteIsRead, Zenon DEF Requoted
  <1> QED
    BY <1>1

\* A command whose words are what they become as paths stays what it is.
LEMMA PathsStay ==
  ASSUME NEW command \in Seq(Argument),
         \A i \in DOMAIN command : PathText(command[i]) = command[i]
  PROVE  [i \in DOMAIN command |-> PathText(command[i])] = command
  OBVIOUS

\* The program of an executor that names streams only where its command gets a
\* shell runs as the client wrote it.
LEMMA RunsAsGiven ==
  ASSUME NEW container, NEW executor \in ExecutorRecord,
         RunnableAsGiven(container, executor)
  PROVE  RunCommand(container, executor)
           = [argv |-> executor.command, streams |-> executor.streams]
  <1> DEFINE command == executor.command
  <1>1. command \in Seq(Argument) /\ executor.streams \subseteq Stream
    BY DEF ExecutorRecord
  <1>2. [i \in DOMAIN command |-> PathText(command[i])] = command
    BY <1>1, PathsStay DEF RunnableAsGiven
  <1>3. Requoted(command) = command
    BY <1>1, RequotedIsSame
  <1>4. CASE command = <<>> \/ IsShellWrapped(command)
    <2>1. executor.streams = {}
      BY <1>4 DEF RunnableAsGiven
    <2> QED
      BY <1>2, <1>3, <1>4, <2>1 DEF RunCommand
  <1>5. CASE /\ ~(command = <<>> \/ IsShellWrapped(command))
             /\ RequiresShell(command) \/ container = "singularity"
    BY <1>2, <1>3, <1>5 DEF RunCommand
  <1>6. CASE /\ ~(command = <<>> \/ IsShellWrapped(command))
             /\ ~(RequiresShell(command) \/ container = "singularity")
    <2>1. executor.streams = {}
      BY <1>6 DEF RunnableAsGiven
    <2>2. RedirectionWords({}) = <<>>
      BY DEF RedirectionWords
    <2>3. command \o RedirectionWords(executor.streams) = command
      BY <1>1, <2>1, <2>2
    <2> QED
      BY <1>2, <1>3, <1>6, <2>1, <2>3 DEF RunCommand
  <1> QED
    BY <1>4, <1>5, <1>6

\* The values of an environment without a $ for singularity arrive as they are.
LEMMA EnvironmentIsSame ==
  ASSUME NEW container, NEW env \in Seq(Argument),
         QuotableValues(container, env)
  PROVE  Environment(container, env) = env
  <1>1. \A v \in DOMAIN env : ShellReads(EnvFlag(container, env[v])) = env[v]
    BY QuoteIsRead DEF EnvFlag, ShellReads, QuotableValues
  <1> QED
    BY <1>1 DEF Environment

-----------------------------------------------------------------------------
(***************************************************************************)
(* How far the line is.                                                    *)
(***************************************************************************)
List == {"inputs", "executors", "outputs"}

Code == {"none", "zero", "nonzero"}

\* A return code other than "nonzero" means that nothing failed so far, and zero
\* that nothing is left to do.
ProgressInv ==
  /\ job \in Jobs
  /\ at \in [List -> Nat]
  /\ at["inputs"] <= Len(job.inputs)
  /\ at["executors"] <= Len(job.executors)
  /\ at["outputs"] <= Len(job.outputs)
  /\ code \in Code
  /\ code = "zero" => at["outputs"] = Len(job.outputs)

\* The elements of a sequence.
LEMMA ElementsOf ==
  ASSUME NEW S, NEW list \in Seq(S)
  PROVE  Len(list) \in Nat /\ DOMAIN list = 1..Len(list) /\ \A i \in 1..Len(list) : list[i] \in S
  OBVIOUS

\* What a task consists of.
LEMMA JobParts ==
  ASSUME job \in Jobs
  PROVE  /\ Len(job.inputs) \in Nat /\ DOMAIN job.inputs = 1..Len(job.inputs)
         /\ Len(job.outputs) \in Nat /\ DOMAIN job.outputs = 1..Len(job.outputs)
         /\ Len(job.executors) \in Nat /\ DOMAIN job.executors = 1..Len(job.executors)
         /\ \A x \in DOMAIN job.executors : job.executors[x] \in ExecutorRecord
  <1> DEFINE InputRecord ==
               [source : {"content", "url", "neither"}, path : Path, type : {"FILE", "DIRECTORY"}]
             OutputRecord == [path : Path, type : {"FILE", "DIRECTORY"}]
  <1>1. /\ job.inputs \in Seq(InputRecord)
        /\ job.outputs \in Seq(OutputRecord)
        /\ job.executors \in Seq(ExecutorRecord)
    BY JobsAssumption DEF Job, ExecutorRecord
  <1> HIDE DEF InputRecord, OutputRecord
  <1> QED
    BY <1>1, ElementsOf

\* What a step of one of the lists does to the progress.
LEMMA PartOf ==
  ASSUME ProgressInv, NEW list \in List, Part(list)
  PROVE  /\ code = "none"
         /\ at' \in [List -> Nat]
         /\ at'[list] = at[list] + 1
         /\ \A other \in List \ {list} : at'[other] = at[other]
         /\ at[list] < Len(job[list])
         /\ list = "executors" => at["inputs"] = Len(job.inputs)
         /\ list = "outputs" => at["executors"] = Len(job.executors)
  <1>1. at' = [at EXCEPT ![list] = at[list] + 1] /\ at \in [List -> Nat]
    BY DEF Part, ProgressInv
  <1>2. /\ at' \in [List -> Nat]
        /\ at'[list] = at[list] + 1
        /\ \A other \in List \ {list} : at'[other] = at[other]
    BY <1>1
  <1> QED
    BY <1>2 DEF Part

LEMMA InitProgress == Init => ProgressInv
  <1> SUFFICES ASSUME Init PROVE ProgressInv
    OBVIOUS
  <1>1. job \in Jobs /\ code = "none"
    BY DEF Init
  <1>2. at = [inputs |-> 0, executors |-> 0, outputs |-> 0]
    BY DEF Init
  <1>3. at \in [List -> Nat] /\ at["inputs"] = 0 /\ at["executors"] = 0 /\ at["outputs"] = 0
    BY <1>2 DEF List
  <1> QED
    BY <1>1, <1>3, JobParts DEF ProgressInv, Code

\* Every step keeps what is said of the progress.
LEMMA ProgressStep == ProgressInv /\ [Next]_vars => ProgressInv'
  <1> SUFFICES ASSUME ProgressInv, [Next]_vars PROVE ProgressInv'
    OBVIOUS
  <1>1. /\ Len(job.inputs) \in Nat /\ Len(job.outputs) \in Nat /\ Len(job.executors) \in Nat
    BY JobParts DEF ProgressInv
  <1>2. ASSUME NEW list \in List, Part(list), NEW ok, Status(ok), UNCHANGED job
        PROVE  ProgressInv'
    <2>1. code' \in {"none", "nonzero"}
      BY <1>2, PartOf DEF Status
    <2>2. CASE list = "inputs"
      BY <1>1, <1>2, <2>1, <2>2, PartOf DEF ProgressInv, List, Code
    <2>3. CASE list = "executors"
      BY <1>1, <1>2, <2>1, <2>3, PartOf DEF ProgressInv, List, Code
    <2>4. CASE list = "outputs"
      BY <1>1, <1>2, <2>1, <2>4, PartOf DEF ProgressInv, List, Code
    <2> QED
      BY <1>2, <2>2, <2>3, <2>4 DEF List
  <1>3. CASE StageIn
    <2>1. Part("inputs") /\ UNCHANGED job /\ \E ok : Status(ok)
      BY <1>3 DEF StageIn
    <2> QED
      BY <1>2, <2>1 DEF List
  <1>4. CASE Run
    <2>1. Part("executors") /\ UNCHANGED job /\ \E ok : Status(ok)
      BY <1>4 DEF Run
    <2> QED
      BY <1>2, <2>1 DEF List
  <1>5. CASE StageOut
    <2>1. Part("outputs") /\ UNCHANGED job /\ \E ok : Status(ok)
      BY <1>5 DEF StageOut
    <2> QED
      BY <1>2, <2>1 DEF List
  <1>6. CASE Exit
    <2>1. DOMAIN at = List
      BY DEF ProgressInv
    <2>2. at["outputs"] = Len(job["outputs"])
      BY <1>6, <2>1 DEF Exit, List
    <2> QED
      BY <1>6, <2>2 DEF Exit, ProgressInv, Code
  <1>7. CASE UNCHANGED vars
    BY <1>7 DEF vars, ProgressInv
  <1> QED
    BY <1>3, <1>4, <1>5, <1>6, <1>7 DEF Next

-----------------------------------------------------------------------------
(***************************************************************************)
(* Stage-in.  && keeps every program from running before every input is    *)
(* there, if each has a url or is a file given by content.                 *)
(***************************************************************************)
StagedInv ==
  /\ staged \subseteq DOMAIN job.inputs
  /\ \A i \in DOMAIN job.inputs : job.inputs[i].source # "url" => i \in staged
  /\ code # "nonzero" => 1..at["inputs"] \subseteq staged
  /\ InputsBeforePrograms

LEMMA InitStaged ==
  ASSUME \A task \in Jobs : InputsHaveSource(task)
  PROVE  Init => StagedInv
  <1> SUFFICES ASSUME Init PROVE StagedInv
    OBVIOUS
  <1>1. ProgressInv
    BY InitProgress
  <1>2. at["inputs"] = 0 /\ runs = <<>>
    <2>1. at = [inputs |-> 0, executors |-> 0, outputs |-> 0]
      BY DEF Init
    <2> QED
      BY <2>1 DEF Init
  <1>3. \A i \in DOMAIN job.inputs : job.inputs[i].source # "url" => i \in staged
    BY DEF Init, InputsHaveSource
  <1>4. staged \subseteq DOMAIN job.inputs
    BY DEF Init
  <1> QED
    BY <1>2, <1>3, <1>4 DEF StagedInv, InputsBeforePrograms

\* Every step keeps what is said of the inputs.
LEMMA StagedStep == ProgressInv /\ StagedInv /\ [Next]_vars => StagedInv'
  <1> SUFFICES ASSUME ProgressInv, StagedInv, [Next]_vars PROVE StagedInv'
    OBVIOUS
  <1>1. /\ Len(job.inputs) \in Nat /\ DOMAIN job.inputs = 1..Len(job.inputs)
    BY JobParts DEF ProgressInv
  <1>2. CASE StageIn
    <2> DEFINE i == at.inputs + 1
    <2>1. /\ Part("inputs") /\ UNCHANGED <<job, runs>>
          /\ staged \subseteq staged' /\ staged' \subseteq staged \cup {i}
      BY <1>2 DEF StageIn
    <2>2. code = "none" /\ at'["inputs"] = i /\ at["inputs"] \in Nat /\ i \in DOMAIN job.inputs
      BY <1>1, <2>1, PartOf DEF ProgressInv, List
    <2>3. code' # "nonzero" => i \in staged'
      <3> DEFINE started == Starts(job.container, InputsDirectory,
                                   \E j \in DOMAIN job.inputs : Downloaded(job.inputs[j]))
      <3>1. PICK ok \in BOOLEAN :
              /\ staged' = IF ok /\ Downloaded(job.inputs[i]) THEN staged \cup {i} ELSE staged
              /\ Status(started /\ (Downloaded(job.inputs[i]) => ok))
        BY <1>2, Zenon DEF StageIn
      <3>2. CASE ~Downloaded(job.inputs[i])
        <4>1. i \in staged
          BY <2>2, <3>2 DEF StagedInv, Downloaded
        <4> QED
          BY <2>1, <4>1
      <3>3. CASE Downloaded(job.inputs[i]) /\ ok
        BY <3>1, <3>3
      <3>4. CASE Downloaded(job.inputs[i]) /\ ~ok
        BY <2>2, <3>1, <3>4 DEF Status
      <3> QED
        BY <3>2, <3>3, <3>4
    <2>4. code' # "nonzero" => 1..at'["inputs"] \subseteq staged'
      <3>1. 1..at["inputs"] \subseteq staged
        BY <2>2 DEF StagedInv
      <3>2. 1..i = 1..at["inputs"] \cup {i}
        BY <2>2
      <3> QED
        BY <2>1, <2>2, <2>3, <3>1, <3>2
    <2>5. InputsBeforePrograms'
      BY <2>1, <2>2 DEF StagedInv, InputsBeforePrograms
    <2> QED
      BY <2>1, <2>2, <2>4, <2>5 DEF StagedInv
  <1>3. CASE Run
    <2>1. /\ Part("executors") /\ UNCHANGED <<job, staged>>
      BY <1>3 DEF Run
    <2>2. code = "none" /\ at["inputs"] = Len(job.inputs) /\ at'["inputs"] = at["inputs"]
      BY <2>1, PartOf DEF List
    <2>3. staged = DOMAIN job.inputs
      BY <1>1, <2>2 DEF StagedInv
    <2> QED
      BY <1>1, <2>1, <2>2, <2>3 DEF StagedInv, InputsBeforePrograms
  <1>4. CASE StageOut
    <2>1. Part("outputs") /\ UNCHANGED <<job, staged, runs>>
      BY <1>4 DEF StageOut
    <2>2. code = "none" /\ at'["inputs"] = at["inputs"]
      BY <2>1, PartOf DEF List
    <2> QED
      BY <2>1, <2>2 DEF StagedInv, InputsBeforePrograms
  <1>5. CASE Exit
    BY <1>5 DEF Exit, StagedInv, InputsBeforePrograms
  <1>6. CASE UNCHANGED vars
    BY <1>6 DEF vars, StagedInv, InputsBeforePrograms
  <1> QED
    BY <1>2, <1>3, <1>4, <1>5, <1>6 DEF Next

-----------------------------------------------------------------------------
(***************************************************************************)
(* Programs: each is the next executor's, and runs as it was given.        *)
(***************************************************************************)
RunRecord ==
  [argv : Seq(Argument), streams : SUBSET Stream, inputs : SUBSET Nat, env : Seq(Argument)]

RunsInv ==
  /\ runs \in Seq(RunRecord)
  /\ Len(runs) <= Len(job.executors)
  /\ code # "nonzero" => Len(runs) = at["executors"]
  /\ \A x \in 1..Len(runs) :
       /\ runs[x].argv = job.executors[x].command
       /\ runs[x].streams = job.executors[x].streams
       /\ runs[x].env = job.executors[x].env

LEMMA InitRuns == Init => RunsInv
  <1> SUFFICES ASSUME Init PROVE RunsInv
    OBVIOUS
  <1>1. runs = <<>> /\ Len(runs) = 0 /\ runs \in Seq(RunRecord)
    BY DEF Init
  <1>2. at["executors"] = 0
    <2>1. at = [inputs |-> 0, executors |-> 0, outputs |-> 0]
      BY DEF Init
    <2> QED
      BY <2>1
  <1>3. Len(job.executors) \in Nat
    BY InitProgress, JobParts DEF ProgressInv
  <1> QED
    BY <1>1, <1>2, <1>3 DEF RunsInv

\* A run of the next executor, or a container that does not start.
LEMMA RunRuns ==
  ASSUME ProgressInv, RunsInv, Runnable(job), Run
  PROVE  RunsInv'
  <1> DEFINE x == at["executors"] + 1
             executor == job.executors[x]
             found == Visible(job.container, ExecutorMounts(job), job.inputs) \cap staged
             record == [argv |-> RunCommand(job.container, executor).argv,
                        streams |-> RunCommand(job.container, executor).streams,
                        inputs |-> found,
                        env |-> Environment(job.container, executor.env)]
  <1>1. Part("executors") /\ UNCHANGED job
    BY DEF Run
  <1>2. /\ Len(job.executors) \in Nat /\ DOMAIN job.executors = 1..Len(job.executors)
        /\ \A y \in DOMAIN job.executors : job.executors[y] \in ExecutorRecord
        /\ Len(job.inputs) \in Nat /\ DOMAIN job.inputs = 1..Len(job.inputs)
    BY JobParts DEF ProgressInv
  <1>3. /\ code = "none" /\ at["executors"] \in Nat /\ at["executors"] < Len(job.executors)
        /\ at'["executors"] = x /\ Len(runs) = at["executors"]
    BY <1>1, PartOf DEF List, ProgressInv, RunsInv
  <1>4. x \in 1..Len(job.executors)
    BY <1>2, <1>3
  <1>5. CASE runs' = Append(runs, record)
    <2>1. executor \in ExecutorRecord /\ executor.command \in Seq(Argument)
          /\ executor.env \in Seq(Argument) /\ executor.streams \subseteq Stream
      BY <1>2, <1>4 DEF ExecutorRecord
    <2>2. /\ RunnableAsGiven(job.container, executor)
          /\ QuotableValues(job.container, executor.env)
      BY <1>2, <1>4 DEF Runnable
    <2>3. RunCommand(job.container, executor)
            = [argv |-> executor.command, streams |-> executor.streams]
      BY <2>1, <2>2, RunsAsGiven
    <2>4. Environment(job.container, executor.env) = executor.env
      BY <2>1, <2>2, EnvironmentIsSame
    <2>5. found \subseteq Nat
      BY <1>2 DEF Visible
    <2>6. /\ record.argv = executor.command /\ record.streams = executor.streams
          /\ record.env = executor.env /\ record \in RunRecord
      <3> HIDE DEF executor, found
      <3> QED
        BY <2>1, <2>3, <2>4, <2>5 DEF RunRecord
    <2> HIDE DEF record
    <2>7. /\ runs' \in Seq(RunRecord) /\ Len(runs') = x /\ runs'[x] = record
          /\ \A y \in 1..Len(runs) : runs'[y] = runs[y]
      BY <1>3, <1>5, <2>6 DEF RunsInv
    <2>8. ASSUME NEW y \in 1..Len(runs')
          PROVE  /\ runs'[y].argv = job.executors[y].command
                 /\ runs'[y].streams = job.executors[y].streams
                 /\ runs'[y].env = job.executors[y].env
      <3>1. CASE y = x
        BY <2>6, <2>7, <3>1
      <3>2. CASE y \in 1..Len(runs)
        BY <2>7, <3>2 DEF RunsInv
      <3> QED
        BY <1>3, <2>7, <2>8, <3>1, <3>2
    <2> QED
      BY <1>1, <1>2, <1>3, <2>7, <2>8 DEF RunsInv
  <1>6. CASE runs' = runs /\ Status(FALSE)
    <2>1. code' = "nonzero"
      BY <1>6 DEF Status
    <2> QED
      BY <1>1, <1>6, <2>1 DEF RunsInv
  <1> QED
    BY <1>5, <1>6 DEF Run

\* Every step keeps what is said of the programs.
LEMMA RunsStep ==
  ASSUME \A task \in Jobs : Runnable(task)
  PROVE  ProgressInv /\ RunsInv /\ [Next]_vars => RunsInv'
  <1> SUFFICES ASSUME ProgressInv, RunsInv, [Next]_vars PROVE RunsInv'
    OBVIOUS
  <1>1. CASE Run
    BY <1>1, RunRuns DEF ProgressInv
  <1>2. CASE StageIn
    <2>1. Part("inputs") /\ UNCHANGED <<job, runs>>
      BY <1>2 DEF StageIn
    <2>2. code = "none" /\ at'["executors"] = at["executors"]
      BY <2>1, PartOf DEF List
    <2> QED
      BY <2>1, <2>2 DEF RunsInv
  <1>3. CASE StageOut
    <2>1. Part("outputs") /\ UNCHANGED <<job, runs>>
      BY <1>3 DEF StageOut
    <2>2. code = "none" /\ at'["executors"] = at["executors"]
      BY <2>1, PartOf DEF List
    <2> QED
      BY <2>1, <2>2 DEF RunsInv
  <1>4. CASE Exit
    BY <1>4 DEF Exit, RunsInv
  <1>5. CASE UNCHANGED vars
    BY <1>5 DEF vars, RunsInv
  <1> QED
    BY <1>1, <1>2, <1>3, <1>4, <1>5 DEF Next

-----------------------------------------------------------------------------
(***************************************************************************)
(* Stage-out.  A line that got past an upload of a file uploaded it.       *)
(***************************************************************************)
UploadedInv ==
  /\ DOMAIN uploaded = DOMAIN job.outputs
  /\ code # "nonzero" => \A o \in 1..at["outputs"] : uploaded[o] # Nowhere

LEMMA InitUploaded == Init => UploadedInv
  <1> SUFFICES ASSUME Init PROVE UploadedInv
    OBVIOUS
  <1>1. at["outputs"] = 0
    <2>1. at = [inputs |-> 0, executors |-> 0, outputs |-> 0]
      BY DEF Init
    <2> QED
      BY <2>1
  <1>2. DOMAIN uploaded = DOMAIN job.outputs
    BY DEF Init
  <1> QED
    BY <1>1, <1>2 DEF UploadedInv

\* Every step keeps what is said of the uploads.
LEMMA UploadedStep ==
  ASSUME \A task \in Jobs : OutputsAreFiles(task)
  PROVE  ProgressInv /\ UploadedInv /\ [Next]_vars => UploadedInv'
  <1> SUFFICES ASSUME ProgressInv, UploadedInv, [Next]_vars PROVE UploadedInv'
    OBVIOUS
  <1>1. Len(job.outputs) \in Nat /\ DOMAIN job.outputs = 1..Len(job.outputs)
    BY JobParts DEF ProgressInv
  <1>2. CASE StageOut
    <2> DEFINE o == at.outputs + 1
    <2>1. Part("outputs") /\ UNCHANGED job
      BY <1>2 DEF StageOut
    <2>2. /\ code = "none" /\ at["outputs"] \in Nat /\ at'["outputs"] = o
          /\ o \in DOMAIN job.outputs
      BY <1>1, <2>1, PartOf DEF List, ProgressInv
    <2>3. job.outputs[o].type = "FILE"
      BY <2>2 DEF OutputsAreFiles, ProgressInv
    <2> DEFINE content == file[ReadFrom(Source(job.outputs[o]))]
               started == Starts(job.container, StageOutMounts(job), TRUE)
    <2>4. PICK ok \in BOOLEAN :
            /\ uploaded' = IF (content # Nowhere /\ started) /\ ok
                             THEN [uploaded EXCEPT ![o] = content] ELSE uploaded
            /\ Status(UploadStatus(job.outputs[o].type, content # Nowhere /\ started, ok))
      BY <1>2, Zenon DEF StageOut
    <2>5. DOMAIN uploaded' = DOMAIN uploaded
      BY <2>4
    <2>6. CASE content # Nowhere /\ started /\ ok
      <3>1. uploaded' = [uploaded EXCEPT ![o] = content]
        BY <2>4, <2>6
      <3>2. uploaded'[o] # Nowhere /\ \A p \in 1..at["outputs"] : uploaded'[p] = uploaded[p]
        BY <1>1, <2>2, <2>6, <3>1 DEF UploadedInv
      <3>3. \A p \in 1..o : p = o \/ p \in 1..at["outputs"]
        BY <2>2
      <3> QED
        BY <2>1, <2>2, <2>5, <3>2, <3>3 DEF UploadedInv
    <2>7. CASE ~(content # Nowhere /\ started /\ ok)
      <3>1. code' = "nonzero"
        BY <2>3, <2>4, <2>7 DEF Status, UploadStatus
      <3> QED
        BY <2>1, <2>5, <3>1 DEF UploadedInv
    <2> QED
      BY <2>6, <2>7
  <1>3. CASE StageIn
    <2>1. Part("inputs") /\ UNCHANGED <<job, uploaded>>
      BY <1>3 DEF StageIn
    <2>2. code = "none" /\ at'["outputs"] = at["outputs"]
      BY <2>1, PartOf DEF List
    <2> QED
      BY <2>1, <2>2 DEF UploadedInv
  <1>4. CASE Run
    <2>1. Part("executors") /\ UNCHANGED <<job, uploaded>>
      BY <1>4 DEF Run
    <2>2. code = "none" /\ at'["outputs"] = at["outputs"]
      BY <2>1, PartOf DEF List
    <2> QED
      BY <2>1, <2>2 DEF UploadedInv
  <1>5. CASE Exit
    BY <1>5 DEF Exit, UploadedInv
  <1>6. CASE UNCHANGED vars
    BY <1>6 DEF vars, UploadedInv
  <1> QED
    BY <1>2, <1>3, <1>4, <1>5, <1>6 DEF Next

-----------------------------------------------------------------------------
(***************************************************************************)
(* Mounts: which one a path lies in.                                       *)
(***************************************************************************)
\* One of finitely many things is the largest.
LEMMA LargestExists ==
  ASSUME NEW S, IsFiniteSet(S), S # {}, NEW size, \A x \in S : size[x] \in Nat
  PROVE  \E x \in S : \A y \in S : size[y] <= size[x]
  <1> DEFINE Above(x) == {y \in S : size[y] > size[x]}
             R == StrictSubsetOrdering(S)
             T == {Above(x) : x \in S}
  <1>1. IsWellFoundedOn(R, SUBSET S)
    BY FS_StrictSubsetOrderingWellFounded, FS_FiniteSubsetsOfFinite
  <1>2. T \subseteq SUBSET S /\ T # {}
    OBVIOUS
  <1>3. PICK A \in T : \A B \in T : <<B, A>> \notin R
    <2> HIDE DEF R, T
    <2> QED
      BY <1>1, <1>2, WFMin
  <1>4. PICK x \in S : A = Above(x)
    BY <1>3
  <1>5. ASSUME NEW y \in S, size[y] > size[x] PROVE FALSE
    <2>1. Above(y) \subseteq Above(x) /\ y \in Above(x) /\ y \notin Above(y)
      BY <1>5
    <2>2. <<Above(y), Above(x)>> \in R
      BY <2>1 DEF StrictSubsetOrdering
    <2> QED
      BY <1>3, <1>4, <2>2
  <1> QED
    BY <1>5

\* ... and so are the largest and the smallest of finitely many numbers.
LEMMA MaxIsIn ==
  ASSUME NEW S \in SUBSET Nat, IsFiniteSet(S), S # {}
  PROVE  Max(S) \in S
  <1> DEFINE size == [x \in S |-> x]
  <1>1. \E x \in S : \A y \in S : size[y] <= size[x]
    <2>1. \A x \in S : size[x] \in Nat
      OBVIOUS
    <2> HIDE DEF size
    <2> QED
      BY <2>1, LargestExists
  <1>2. \E x \in S : \A y \in S : x >= y
    BY <1>1
  <1> QED
    BY <1>2 DEF Max

LEMMA MinIsIn ==
  ASSUME NEW n \in Nat, NEW S \in SUBSET (1..n), S # {}
  PROVE  Min(S) \in S
  <1> DEFINE size == [x \in S |-> n - x]
  <1>1. \E x \in S : \A y \in S : size[y] <= size[x]
    <2>1. \A x \in S : size[x] \in Nat
      OBVIOUS
    <2>2. IsFiniteSet(S)
      <3>1. IsFiniteSet(1..n)
        BY FS_Interval
      <3> QED
        BY <3>1, FS_Subset
    <2> HIDE DEF size
    <2> QED
      BY <2>1, <2>2, LargestExists
  <1>2. \E x \in S : \A y \in S : x <= y
    BY <1>1
  <1> QED
    BY <1>2 DEF Min

\* Where something may be mounted.  Downloads is a path too, but no prover here
\* knows that a text in quotes is a STRING.
MountPath == Path \cup {Downloads}

LEMMA MountPathIs ==
  ASSUME NEW path \in MountPath
  PROVE  Len(path) \in Nat /\ path = SubSeq(path, 1, Len(path))
  <1>1. CASE path \in Path
    BY <1>1 DEF Path
  <1>2. CASE path = Downloads
    BY <1>2 DEF Downloads
  <1> QED
    BY <1>1, <1>2 DEF MountPath

\* What may be mounted: finitely many things at paths, each in a place of its own
\* among the flags.
Mounts(mounts) ==
  /\ IsFiniteSet(mounts)
  /\ \A mount \in mounts : mount.at \in MountPath /\ mount.place \in Nat
  /\ \A one, other \in mounts : one.place = other.place => one = other

\* Two parts of one path that begin it are the same if they are of one length.
LEMMA PrefixOfLength ==
  ASSUME NEW path \in Path, NEW a \in MountPath, NEW b \in MountPath,
         IsPrefix(a, path), IsPrefix(b, path), Len(a) = Len(b)
  PROVE  a = b
  <1>1. a = SubSeq(a, 1, Len(a)) /\ b = SubSeq(b, 1, Len(b))
    BY MountPathIs
  <1> QED
    BY <1>1 DEF IsPrefix

\* One of the mounts around a path hides all others, if docker takes them.
LEMMA TopExists ==
  ASSUME NEW container, NEW mounts, Mounts(mounts), ~Refused(container, mounts),
         NEW path \in Path, Around(mounts, path) # {}
  PROVE  \E top \in Around(mounts, path) :
           \A other \in Around(mounts, path) \ {top} : Hides(container, top, other)
  <1> DEFINE S == Around(mounts, path)
             size == [m \in S |-> IF container = "docker" THEN Len(m.at) ELSE m.place]
  <1>1. IsFiniteSet(S) /\ S \subseteq mounts
    BY FS_Subset DEF Around, Mounts
  <1>2. \A m \in S : m.at \in MountPath /\ Len(m.at) \in Nat /\ m.place \in Nat
    BY <1>1, MountPathIs DEF Mounts
  <1>3. PICK top \in S : \A m \in S : size[m] <= size[top]
    <2>1. S # {} /\ \A m \in S : size[m] \in Nat
      BY <1>2
    <2> HIDE DEF S, size
    <2> QED
      BY <1>1, <2>1, LargestExists
  <1>4. ASSUME NEW other \in S \ {top} PROVE Hides(container, top, other)
    <2>1. size[other] <= size[top]
      BY <1>3
    <2>2. CASE container = "docker"
      <3>1. Len(other.at) # Len(top.at)
        <4>1. other.at # top.at
          BY <1>1, <2>2 DEF Refused
        <4> QED
          BY <1>2, <4>1, PrefixOfLength DEF Around
      <3> QED
        BY <1>2, <2>1, <2>2, <3>1 DEF Hides
    <2>3. CASE container # "docker"
      <3>1. other.place # top.place
        BY <1>1 DEF Mounts
      <3> QED
        BY <1>2, <2>1, <2>3, <3>1 DEF Hides
    <2> QED
      BY <2>2, <2>3
  <1> QED
    BY <1>4

\* A path is in the image, or in the top one of the mounts around it.
LEMMA PlaceIs ==
  ASSUME NEW container, NEW mounts, Mounts(mounts), ~Refused(container, mounts),
         NEW path \in Path
  PROVE  \/ /\ Around(mounts, path) = {}
            /\ Place(container, mounts, path) = Mount(path, [image |-> "own"])
         \/ \E top \in Around(mounts, path) :
              /\ \A other \in Around(mounts, path) \ {top} : Hides(container, top, other)
              /\ Place(container, mounts, path)
                   = Mount(SubSeq(path, Len(top.at) + 1, Len(path)), top.source)
  <1>1. CASE Around(mounts, path) = {}
    BY <1>1 DEF Place
  <1>2. CASE Around(mounts, path) # {}
    <2> DEFINE IsTop(top) == \A other \in Around(mounts, path) \ {top} : Hides(container, top, other)
               top == CHOOSE mount \in Around(mounts, path) : IsTop(mount)
    <2>1. top \in Around(mounts, path) /\ IsTop(top)
      BY <1>2, TopExists
    <2>2. Place(container, mounts, path)
            = Mount(SubSeq(path, Len(top.at) + 1, Len(path)), top.source)
      BY <1>2 DEF Place
    <2> QED
      BY <2>1, <2>2
  <1> QED
    BY <1>1, <1>2

\* A path below a mount is known by its rest.
LEMMA RestOfPath ==
  ASSUME NEW a \in MountPath, NEW p \in Path, NEW q \in Path, IsPrefix(a, p), IsPrefix(a, q),
         SubSeq(p, Len(a) + 1, Len(p)) = SubSeq(q, Len(a) + 1, Len(q))
  PROVE  p = q
  <1>1. Len(a) \in Nat /\ Len(p) \in Nat /\ Len(q) \in Nat /\ Len(a) <= Len(p) /\ Len(a) <= Len(q)
    BY MountPathIs DEF Path, IsPrefix
  <1>2. Len(p) = Len(q)
    <2>1. Len(SubSeq(p, Len(a) + 1, Len(p))) = Len(p) - Len(a)
      BY <1>1 DEF Path
    <2>2. Len(SubSeq(q, Len(a) + 1, Len(q))) = Len(q) - Len(a)
      BY <1>1 DEF Path
    <2> QED
      BY <1>1, <2>1, <2>2
  <1>3. ASSUME NEW i \in 1..Len(p) PROVE p[i] = q[i]
    <2>1. CASE i <= Len(a)
      <3>1. SubSeq(p, 1, Len(a)) = SubSeq(q, 1, Len(a))
        BY DEF IsPrefix
      <3>2. SubSeq(p, 1, Len(a))[i] = p[i] /\ SubSeq(q, 1, Len(a))[i] = q[i]
        BY <1>1, <2>1 DEF Path
      <3> QED
        BY <3>1, <3>2
    <2>2. CASE i > Len(a)
      <3>1. /\ SubSeq(p, Len(a) + 1, Len(p))[i - Len(a)] = p[i]
            /\ SubSeq(q, Len(a) + 1, Len(q))[i - Len(a)] = q[i]
        BY <1>1, <1>2, <2>2 DEF Path
      <3> QED
        BY <3>1
    <2> QED
      BY <1>1, <2>1, <2>2
  <1>4. p \in [1..Len(p) -> Seq(Letter)] /\ q \in [1..Len(p) -> Seq(Letter)]
    BY <1>2 DEF Path
  <1> QED
    BY <1>3, <1>4

\* What is in a dictionary: one mount at every path of an entry, in the place of
\* an entry at that path and with the source of one.
Filled(D, entries, others) ==
  /\ IsFiniteSet(D)
  /\ \A mount \in D : \E i, j \in DOMAIN entries :
       /\ mount.at = entries[i].at /\ mount.at = entries[j].at
       /\ mount.place = others + i /\ mount.source = entries[j].source
  /\ \A i \in DOMAIN entries : \E mount \in D : mount.at = entries[i].at
  /\ \A one, other \in D : one.at = other.at \/ one.place = other.place => one = other

LEMMA DictionaryIs ==
  ASSUME NEW n \in Nat, NEW entries, DOMAIN entries = 1..n, NEW others \in Nat
  PROVE  Filled(Dictionary(entries, others), entries, others)
  <1> DEFINE Same(i) == {j \in 1..n : entries[j].at = entries[i].at}
             D == Dictionary(entries, others)
             mountOf == [i \in 1..n |-> [at |-> entries[i].at, source |-> entries[Max(Same(i))].source,
                                         place |-> others + Min(Same(i))]]
  <1>1. D = {mountOf[i] : i \in 1..n}
    BY DEF Dictionary
  <1> HIDE DEF D
  <1>2. IsFiniteSet(D)
    <2>1. IsFiniteSet(1..n)
      BY FS_Interval
    <2>2. mountOf \in Surjection(1..n, D)
      BY <1>1 DEF Surjection
    <2> HIDE DEF mountOf
    <2> QED
      BY <2>1, <2>2, FS_Surjection
  <1>3. ASSUME NEW i \in 1..n PROVE Max(Same(i)) \in Same(i) /\ Min(Same(i)) \in Same(i)
    <2>1. Same(i) \in SUBSET (1..n) /\ Same(i) # {} /\ Same(i) \in SUBSET Nat
      OBVIOUS
    <2>2. IsFiniteSet(Same(i))
      <3>1. IsFiniteSet(1..n)
        BY FS_Interval
      <3> QED
        BY <2>1, <3>1, FS_Subset
    <2> HIDE DEF Same
    <2> QED
      BY <2>1, <2>2, MaxIsIn, MinIsIn
  <1>4. ASSUME NEW mount \in D
        PROVE  \E i, j \in 1..n :
                 /\ mount.at = entries[i].at /\ mount.at = entries[j].at
                 /\ mount.place = others + i /\ mount.source = entries[j].source
    <2>1. PICK k \in 1..n : mount = mountOf[k]
      BY <1>1
    <2>2. Max(Same(k)) \in 1..n /\ entries[Max(Same(k))].at = entries[k].at
      BY <1>3
    <2>3. Min(Same(k)) \in 1..n /\ entries[Min(Same(k))].at = entries[k].at
      BY <1>3
    <2>4. /\ mount.at = entries[k].at /\ mount.source = entries[Max(Same(k))].source
          /\ mount.place = others + Min(Same(k))
      BY <2>1
    <2> HIDE DEF Same
    <2> QED
      BY <2>2, <2>3, <2>4
  <1>5. ASSUME NEW i \in 1..n PROVE \E mount \in D : mount.at = entries[i].at
    <2>1. mountOf[i] \in D
      BY <1>1
    <2>2. mountOf[i].at = entries[i].at
      OBVIOUS
    <2> QED
      BY <2>1, <2>2
  <1>6. ASSUME NEW one \in D, NEW other \in D, one.at = other.at PROVE one = other
    <2>1. PICK k \in 1..n, l \in 1..n : one = mountOf[k] /\ other = mountOf[l]
      BY <1>1
    <2>2. Same(k) = Same(l)
      BY <1>6, <2>1
    <2> QED
      BY <1>6, <2>1, <2>2
  <1>7. ASSUME NEW one \in D, NEW other \in D, one.place = other.place PROVE one = other
    <2>1. PICK k \in 1..n : one.at = entries[k].at /\ one.place = others + k
      BY <1>4
    <2>2. PICK l \in 1..n : other.at = entries[l].at /\ other.place = others + l
      BY <1>4
    <2>3. others + k = others + l
      BY <1>7, <2>1, <2>2, Zenon
    <2>4. k = l
      BY <2>3
    <2> QED
      BY <1>6, <2>1, <2>2, <2>4
  <1>8. \A one, other \in D : one.at = other.at \/ one.place = other.place => one = other
    BY <1>6, <1>7
  <1> HIDE DEF Same, mountOf
  <1>9. Filled(D, entries, others)
    <2>1. ASSUME NEW mount \in D
          PROVE  \E i, j \in DOMAIN entries :
                   /\ mount.at = entries[i].at /\ mount.at = entries[j].at
                   /\ mount.place = others + i /\ mount.source = entries[j].source
      <3>1. PICK i \in 1..n, j \in 1..n :
              /\ mount.at = entries[i].at /\ mount.at = entries[j].at
              /\ mount.place = others + i /\ mount.source = entries[j].source
        BY <1>4, Zenon
      <3>2. i \in DOMAIN entries /\ j \in DOMAIN entries
        OBVIOUS
      <3> QED
        BY <3>1, <3>2, Zenon
    <2>2. \A i \in DOMAIN entries : \E mount \in D : mount.at = entries[i].at
      BY <1>5, Zenon
    <2> QED
      BY <1>2, <1>8, <2>1, <2>2, Zenon DEF Filled
  <1> QED
    BY <1>9 DEF D

\* The paths of a task.
LEMMA TaskPaths ==
  ASSUME NEW task \in Job
  PROVE  /\ Len(task.inputs) \in Nat /\ DOMAIN task.inputs = 1..Len(task.inputs)
         /\ DOMAIN task.outputs = 1..Len(task.outputs)
         /\ task.container \in {"docker", "singularity"}
         /\ \A i \in DOMAIN task.inputs : task.inputs[i].path \in Path
         /\ \A o \in DOMAIN task.outputs : task.outputs[o].path \in Path
         /\ VolumeDirs(task.outputs, task.volumes) \in Seq(Path)
  <1> DEFINE InputRecord ==
               [source : {"content", "url", "neither"}, path : Path, type : {"FILE", "DIRECTORY"}]
             OutputRecord == [path : Path, type : {"FILE", "DIRECTORY"}]
  <1>1. /\ task.inputs \in Seq(InputRecord) /\ task.outputs \in Seq(OutputRecord)
        /\ task.volumes \in Seq(Path) /\ task.container \in {"docker", "singularity"}
    BY DEF Job
  <1>2. /\ \A input \in InputRecord : input.path \in Path
        /\ \A output \in OutputRecord : output.path \in Path
    OBVIOUS
  <1> HIDE DEF InputRecord, OutputRecord
  <1>3. /\ Len(task.inputs) \in Nat /\ DOMAIN task.inputs = 1..Len(task.inputs)
        /\ Len(task.outputs) \in Nat /\ DOMAIN task.outputs = 1..Len(task.outputs)
        /\ \A i \in DOMAIN task.inputs : task.inputs[i].path \in Path
        /\ \A o \in DOMAIN task.outputs : task.outputs[o].path \in Path
    BY <1>1, <1>2, ElementsOf
  <1>4. [o \in DOMAIN task.outputs |-> Dirname(task.outputs[o].path)] \in Seq(Path)
    <2>1. \A path \in Path : Dirname(path) \in Path
      BY DEF Dirname, Front, Path
    <2>2. [o \in 1..Len(task.outputs) |-> Dirname(task.outputs[o].path)] \in Seq(Path)
      BY <1>3, <2>1
    <2> QED
      BY <1>3, <2>2
  <1>5. VolumeDirs(task.outputs, task.volumes) \in Seq(Path)
    BY <1>1, <1>4 DEF VolumeDirs
  <1> QED
    BY <1>1, <1>3, <1>5

\* The mounts of a task's volumes.
AreVolumes(D, dirs, others) ==
  /\ IsFiniteSet(D)
  /\ \A mount \in D : \E d \in DOMAIN dirs :
       /\ mount.at = dirs[d] /\ mount.at \in Path
       /\ mount.source = [volume |-> VolumeName(dirs[d])]
       /\ mount.place \in Nat /\ mount.place > others
  /\ \A one, other \in D : one.place = other.place => one = other

LEMMA VolumesAre ==
  ASSUME NEW task \in Job, NEW others \in Nat
  PROVE  AreVolumes(Volumes(task.outputs, task.volumes, others),
                    VolumeDirs(task.outputs, task.volumes), others)
  <1> DEFINE dirs == VolumeDirs(task.outputs, task.volumes)
             n == Len(dirs)
             entries == [d \in DOMAIN dirs |-> Mount(dirs[d], [volume |-> VolumeName(dirs[d])])]
             D == Volumes(task.outputs, task.volumes, others)
  <1>1. D = Dictionary(entries, others)
    BY DEF Volumes
  <1>2. dirs \in Seq(Path)
    BY TaskPaths
  <1> HIDE DEF dirs
  <1>3. n \in Nat /\ DOMAIN dirs = 1..n /\ \A d \in 1..n : dirs[d] \in Path
    BY <1>2, ElementsOf
  <1>4. /\ DOMAIN entries = 1..n
        /\ \A d \in 1..n : /\ entries[d].at = dirs[d]
                           /\ entries[d].source = [volume |-> VolumeName(dirs[d])]
    BY <1>3 DEF Mount
  <1> HIDE DEF n, entries, D
  <1>5. Filled(D, entries, others)
    BY <1>1, <1>3, <1>4, DictionaryIs
  <1>6. ASSUME NEW mount \in D
        PROVE  \E d \in DOMAIN dirs :
                 /\ mount.at = dirs[d] /\ mount.at \in Path
                 /\ mount.source = [volume |-> VolumeName(dirs[d])]
                 /\ mount.place \in Nat /\ mount.place > others
    <2>1. PICK i \in 1..n, j \in 1..n :
            /\ mount.at = entries[i].at /\ mount.at = entries[j].at
            /\ mount.place = others + i /\ mount.source = entries[j].source
      BY <1>4, <1>5 DEF Filled
    <2>2. mount.place \in Nat /\ mount.place > others
      BY <1>3, <2>1
    <2> QED
      BY <1>3, <1>4, <2>1, <2>2
  <1> QED
    BY <1>5, <1>6 DEF Filled, AreVolumes, D, dirs

\* The mounts of a task's inputs.
AreBinds(D, inputs) ==
  /\ IsFiniteSet(D)
  /\ \A mount \in D : \E i, j \in DOMAIN inputs :
       /\ mount.at = inputs[i].path /\ mount.at = inputs[j].path /\ mount.at \in Path
       /\ mount.place = i /\ mount.source = [input |-> j]
  /\ \A i \in DOMAIN inputs : \E mount \in D : mount.at = inputs[i].path
  /\ \A one, other \in D : one.place = other.place => one = other

LEMMA BindsAre ==
  ASSUME NEW task \in Job
  PROVE  AreBinds(Binds(task.inputs), task.inputs)
  <1> DEFINE inputs == task.inputs
             n == Len(inputs)
             entries == [i \in DOMAIN inputs |-> Mount(inputs[i].path, [input |-> i])]
             D == Binds(inputs)
  <1>1. D = Dictionary(entries, 0)
    BY DEF Binds
  <1>2. n \in Nat /\ DOMAIN inputs = 1..n /\ \A i \in 1..n : inputs[i].path \in Path
    BY TaskPaths
  <1> HIDE DEF inputs
  <1>3. /\ DOMAIN entries = 1..n
        /\ \A i \in 1..n : entries[i].at = inputs[i].path /\ entries[i].source = [input |-> i]
    BY <1>2 DEF Mount
  <1> HIDE DEF n, entries, D
  <1>4. Filled(D, entries, 0)
    BY <1>1, <1>2, <1>3, DictionaryIs
  <1>5. ASSUME NEW mount \in D
        PROVE  \E i, j \in DOMAIN inputs :
                 /\ mount.at = inputs[i].path /\ mount.at = inputs[j].path /\ mount.at \in Path
                 /\ mount.place = i /\ mount.source = [input |-> j]
    <2>1. PICK i \in 1..n, j \in 1..n :
            /\ mount.at = entries[i].at /\ mount.at = entries[j].at
            /\ mount.place = 0 + i /\ mount.source = entries[j].source
      BY <1>3, <1>4 DEF Filled
    <2>2. mount.place = i
      BY <2>1
    <2>3. /\ mount.at = inputs[i].path /\ mount.at = inputs[j].path /\ mount.at \in Path
          /\ mount.source = [input |-> j]
      BY <1>2, <1>3, <2>1, Zenon
    <2> QED
      BY <1>2, <2>2, <2>3, Zenon
  <1>6. ASSUME NEW i \in DOMAIN inputs PROVE \E mount \in D : mount.at = inputs[i].path
    <2>1. PICK mount \in D : mount.at = entries[i].at
      BY <1>2, <1>3, <1>4, Zenon DEF Filled
    <2> QED
      BY <1>2, <1>3, <2>1, Zenon
  <1> QED
    BY <1>4, <1>5, <1>6 DEF Filled, AreBinds, D, inputs

\* An input at its path, and the volume of a directory.
IsInput(mount, task) ==
  \E i, j \in DOMAIN task.inputs :
    /\ mount.at = task.inputs[i].path /\ mount.at = task.inputs[j].path
    /\ mount.place = i /\ mount.source = [input |-> j]

IsVolume(mount, task) ==
  LET dirs == VolumeDirs(task.outputs, task.volumes) IN
    \E d \in DOMAIN dirs :
      /\ mount.at = dirs[d] /\ mount.at \in Path
      /\ mount.source = [volume |-> VolumeName(dirs[d])]

\* Two lists of flags, one after the other.
LEMMA MountsOfBoth ==
  ASSUME NEW one, NEW other, Mounts(one), Mounts(other),
         \A a \in one : \A b \in other : a.place < b.place
  PROVE  Mounts(one \cup other)
  <1>1. IsFiniteSet(one \cup other)
    BY FS_Union DEF Mounts
  <1>2. \A a \in one \cup other : a.at \in MountPath /\ a.place \in Nat
    BY DEF Mounts
  <1>3. ASSUME NEW a \in one \cup other, NEW b \in one \cup other, a.place = b.place
        PROVE  a = b
    <2>1. ~(a \in one /\ b \in other) /\ ~(b \in one /\ a \in other)
      BY <1>2, <1>3
    <2> QED
      BY <1>3, <2>1 DEF Mounts
  <1> QED
    BY <1>1, <1>2, <1>3 DEF Mounts

\* What an executor's container mounts: the inputs, and then the volumes.
LEMMA ExecutorMountsAre ==
  ASSUME NEW task \in Job
  PROVE  /\ Mounts(ExecutorMounts(task))
         /\ \A mount \in ExecutorMounts(task) : IsInput(mount, task) \/ IsVolume(mount, task)
         /\ \A i \in DOMAIN task.inputs : \E mount \in ExecutorMounts(task) :
              IsInput(mount, task) /\ mount.at = task.inputs[i].path
  <1> DEFINE n == Len(task.inputs)
             dirs == VolumeDirs(task.outputs, task.volumes)
             binds == Binds(task.inputs)
             volumes == Volumes(task.outputs, task.volumes, n)
  <1>1. n \in Nat /\ DOMAIN task.inputs = 1..n
    BY TaskPaths
  <1>2. AreBinds(binds, task.inputs) /\ AreVolumes(volumes, dirs, n)
    BY <1>1, BindsAre, VolumesAre
  <1>3. ExecutorMounts(task) = binds \cup volumes
    BY DEF ExecutorMounts
  <1>4. \A mount \in volumes : IsVolume(mount, task) /\ mount.place \in Nat /\ mount.place > n
    BY <1>2 DEF AreVolumes, IsVolume
  <1> HIDE DEF n, dirs, binds, volumes
  <1>5. ASSUME NEW mount \in binds
        PROVE  /\ IsInput(mount, task) /\ mount.at \in Path
               /\ mount.place \in Nat /\ mount.place <= n
    <2>1. PICK i \in DOMAIN task.inputs, j \in DOMAIN task.inputs :
            /\ mount.at = task.inputs[i].path /\ mount.at = task.inputs[j].path
            /\ mount.at \in Path /\ mount.place = i /\ mount.source = [input |-> j]
      BY <1>2, Zenon DEF AreBinds
    <2>2. mount.place \in Nat /\ mount.place <= n
      BY <1>1, <2>1
    <2> QED
      BY <2>1, <2>2, Zenon DEF IsInput
  <1>6. Mounts(binds)
    BY <1>2, <1>5 DEF AreBinds, Mounts, MountPath
  <1>7. Mounts(volumes)
    BY <1>2, <1>4 DEF AreVolumes, Mounts, MountPath
  <1>8. \A a \in binds : \A b \in volumes : a.place < b.place
    BY <1>1, <1>4, <1>5
  <1>9. Mounts(binds \cup volumes)
    BY <1>6, <1>7, <1>8, MountsOfBoth
  <1>10. \A i \in DOMAIN task.inputs : \E mount \in binds : mount.at = task.inputs[i].path
    BY <1>2 DEF AreBinds
  <1> QED
    BY <1>3, <1>4, <1>5, <1>9, <1>10

\* What the container of stage-out mounts.
LEMMA StageOutMountsAre ==
  ASSUME NEW task \in Job
  PROVE  /\ Mounts(StageOutMounts(task))
         /\ \A mount \in StageOutMounts(task) :
              mount.source = [inputs |-> "all"] \/ IsVolume(mount, task)
  <1> DEFINE dirs == VolumeDirs(task.outputs, task.volumes)
             volumes == Volumes(task.outputs, task.volumes, 1)
             entries == <<Mount(Downloads, [inputs |-> "all"])>>
             inputs == Dictionary(entries, 0)
  <1>1. AreVolumes(volumes, dirs, 1)
    BY VolumesAre
  <1>2. \A mount \in volumes : IsVolume(mount, task) /\ mount.place \in Nat /\ mount.place > 1
    BY <1>1 DEF AreVolumes, IsVolume
  <1>3. /\ DOMAIN entries = 1..1 /\ entries[1].source = [inputs |-> "all"]
        /\ entries[1].at = Downloads
    BY DEF Mount
  <1>4. Downloads \in MountPath
    BY DEF MountPath
  <1>5. InputsDirectory = inputs
    BY DEF InputsDirectory
  <1> HIDE DEF dirs, volumes, entries, inputs
  <1>6. Filled(Dictionary(entries, 0), entries, 0)
    BY <1>3, DictionaryIs
  <1>7. \A mount \in inputs :
          /\ mount.at \in MountPath /\ mount.place = 1 /\ mount.source = [inputs |-> "all"]
    BY <1>3, <1>4, <1>6 DEF Filled, inputs
  <1>8. Mounts(inputs)
    BY <1>6, <1>7 DEF Filled, Mounts, inputs
  <1>9. Mounts(volumes)
    BY <1>1, <1>2 DEF AreVolumes, Mounts, MountPath
  <1>10. Mounts(inputs \cup volumes)
    BY <1>2, <1>7, <1>8, <1>9, MountsOfBoth
  <1>11. StageOutMounts(task) \in {volumes, inputs \cup volumes}
    BY <1>5 DEF StageOutMounts, volumes
  <1> QED
    BY <1>2, <1>7, <1>9, <1>10, <1>11

\* Every input is visible at its path, in a container docker does not refuse.
LEMMA AllVisible ==
  ASSUME NEW task \in Job, InputsApart(task),
         ~Refused(task.container, ExecutorMounts(task)), NEW i \in DOMAIN task.inputs
  PROVE  i \in Visible(task.container, ExecutorMounts(task), task.inputs)
  <1> DEFINE path == task.inputs[i].path
             dirs == VolumeDirs(task.outputs, task.volumes)
             mounts == ExecutorMounts(task)
             container == task.container
  <1>1. /\ path \in Path /\ container \in {"docker", "singularity"} /\ i \in Nat
        /\ DOMAIN task.inputs = 1..Len(task.inputs) /\ Len(task.inputs) \in Nat
    BY TaskPaths
  <1>2. /\ Mounts(mounts)
        /\ \A mount \in mounts : IsInput(mount, task) \/ IsVolume(mount, task)
    BY ExecutorMountsAre
  <1>3. PICK bind \in mounts : IsInput(bind, task) /\ bind.at = path
    BY ExecutorMountsAre
  <1>4. bind.place = i /\ bind.source = [input |-> i]
    BY <1>3 DEF IsInput, InputsApart
  <1>5. bind \in Around(mounts, path)
    BY <1>1, <1>3 DEF Around, IsPrefix, Path
  <1>6. PICK top \in Around(mounts, path) :
          /\ \A other \in Around(mounts, path) \ {top} : Hides(container, top, other)
          /\ Place(container, mounts, path)
               = Mount(SubSeq(path, Len(top.at) + 1, Len(path)), top.source)
    <2> HIDE DEF path, mounts, container
    <2> QED
      BY <1>1, <1>2, <1>5, PlaceIs DEF mounts, container
  <1>7. top \in mounts /\ IsPrefix(top.at, path) /\ Len(top.at) \in Nat
    BY <1>2, <1>6, MountPathIs DEF Around, Mounts
  <1>8. top = bind
    <2> SUFFICES ASSUME Hides(container, top, bind) PROVE FALSE
      BY <1>5, <1>6
    <2>1. CASE container = "docker"
      BY <1>1, <1>3, <1>7, <2>1 DEF Hides, IsPrefix, Path
    <2>2. CASE container = "singularity"
      <3>1. top.place > i
        BY <1>4, <2>2 DEF Hides
      <3>2. CASE IsInput(top, task)
        BY <1>7, <2>2, <3>1, <3>2 DEF IsInput, InputsApart
      <3>3. CASE IsVolume(top, task)
        BY <1>7, <2>2, <3>3 DEF IsVolume, InputsApart
      <3> QED
        BY <1>2, <1>7, <3>2, <3>3
    <2> QED
      BY <1>1, <2>1, <2>2
  <1>9. SubSeq(path, Len(path) + 1, Len(path)) = <<>>
    BY <1>1 DEF Path
  <1> QED
    BY <1>3, <1>4, <1>6, <1>8, <1>9 DEF Visible

\* A path is in the image, in one of the other sources, or in the volume of a
\* directory above it.
LiesIn(place, path, task, others) ==
  LET dirs == VolumeDirs(task.outputs, task.volumes) IN
    \/ place = Mount(path, [image |-> "own"])
    \/ place.source \in others
    \/ \E d \in DOMAIN dirs :
         /\ IsPrefix(dirs[d], path) /\ dirs[d] \in Path
         /\ place = Mount(SubSeq(path, Len(dirs[d]) + 1, Len(path)),
                          [volume |-> VolumeName(dirs[d])])

LEMMA PlaceInTask ==
  ASSUME NEW task \in Job, NEW mounts, Mounts(mounts), ~Refused(task.container, mounts),
         NEW others, \A mount \in mounts : mount.source \in others \/ IsVolume(mount, task),
         NEW path \in Path
  PROVE  LiesIn(Place(task.container, mounts, path), path, task, others)
  <1> DEFINE place == Place(task.container, mounts, path)
  <1>1. CASE place = Mount(path, [image |-> "own"])
    BY <1>1 DEF LiesIn
  <1>2. ASSUME NEW top \in Around(mounts, path),
               place = Mount(SubSeq(path, Len(top.at) + 1, Len(path)), top.source)
        PROVE  LiesIn(place, path, task, others)
    <2>1. top \in mounts /\ IsPrefix(top.at, path)
      BY DEF Around
    <2>2. CASE top.source \in others
      BY <1>2, <2>2 DEF LiesIn, Mount
    <2>3. CASE IsVolume(top, task)
      BY <1>2, <2>1, <2>3 DEF IsVolume, LiesIn
    <2> QED
      BY <2>1, <2>2, <2>3
  <1> QED
    BY <1>1, <1>2, PlaceIs

\* Sources of different kinds are not the same.
LEMMA SourcesDiffer ==
  /\ \A i, v : [input |-> i] # [volume |-> v]
  /\ \A i, v : [inputs |-> i] # [volume |-> v]
  /\ \A i, v : [image |-> i] # [volume |-> v]
  /\ \A i, v : [input |-> i] # [image |-> v]
  /\ \A i, v : [input |-> i] # [inputs |-> v]
  /\ \A i, v : [inputs |-> i] # [image |-> v]
  OBVIOUS

\* What is read as one path in stage-out and was written as another by a program
\* is one file only if the paths are the same.
LEMMA SamePlace ==
  ASSUME NEW task \in Job, VolumesApart(task), NEW p \in Path, NEW q \in Path,
         ~Refused(task.container, ExecutorMounts(task)),
         ~Refused(task.container, StageOutMounts(task)),
         Place(task.container, ExecutorMounts(task), q)
           = Place(task.container, StageOutMounts(task), p)
  PROVE  q = p
  <1> DEFINE dirs == VolumeDirs(task.outputs, task.volumes)
             place == Place(task.container, ExecutorMounts(task), q)
             Inputs == {[input |-> i] : i \in DOMAIN task.inputs}
             All == {[inputs |-> "all"]}
             In(path, d) == /\ IsPrefix(dirs[d], path) /\ dirs[d] \in Path
                            /\ place.at = SubSeq(path, Len(dirs[d]) + 1, Len(path))
                            /\ place.source = [volume |-> VolumeName(dirs[d])]
  <1>1. LiesIn(place, q, task, Inputs)
    <2>1. /\ Mounts(ExecutorMounts(task))
          /\ \A mount \in ExecutorMounts(task) : mount.source \in Inputs \/ IsVolume(mount, task)
      BY ExecutorMountsAre DEF IsInput
    <2> HIDE DEF Inputs
    <2> QED
      BY <2>1, PlaceInTask
  <1>2. LiesIn(place, p, task, All)
    <2>1. /\ Mounts(StageOutMounts(task))
          /\ \A mount \in StageOutMounts(task) : mount.source \in All \/ IsVolume(mount, task)
      BY StageOutMountsAre
    <2> HIDE DEF All
    <2> QED
      BY <2>1, PlaceInTask
  <1> HIDE DEF place
  <1>3. \/ place.at = q /\ place.source = [image |-> "own"]
        \/ \E i : place.source = [input |-> i]
        \/ \E d \in DOMAIN dirs : In(q, d)
    <2>1. CASE place.source \in Inputs
      BY <2>1
    <2>2. CASE place.source \notin Inputs
      <3> HIDE DEF Inputs
      <3> QED
        BY <1>1, <2>2 DEF LiesIn, Mount
    <2> QED
      BY <2>1, <2>2
  <1>4. \/ place.at = p /\ place.source = [image |-> "own"]
        \/ place.source = [inputs |-> "all"]
        \/ \E d \in DOMAIN dirs : In(p, d)
    BY <1>2 DEF LiesIn, Mount
  <1>5. ASSUME NEW d \in DOMAIN dirs, NEW e \in DOMAIN dirs, In(q, d), In(p, e)
        PROVE  q = p
    <2>1. dirs[d] = dirs[e]
      <3>1. VolumeName(dirs[d]) = VolumeName(dirs[e])
        BY <1>5
      <3> QED
        BY <3>1 DEF VolumesApart, VolumeName
    <2> HIDE DEF dirs
    <2> QED
      BY <1>5, <2>1, RestOfPath DEF MountPath
  <1>6. ASSUME NEW d \in DOMAIN dirs, NEW path, In(path, d)
        PROVE  place.source = [volume |-> VolumeName(dirs[d])]
    BY <1>6
  <1> HIDE DEF In, dirs
  <1> QED
    BY <1>3, <1>4, <1>5, <1>6, SourcesDiffer, Zenon

-----------------------------------------------------------------------------
(***************************************************************************)
(* What a program finds.  Nothing is staged any more once a program ran,   *)
(* and all that is staged then is visible.                                 *)
(***************************************************************************)
FoundInv ==
  /\ \E S : runs \in Seq(S)
  /\ runs # <<>> => at["inputs"] = Len(job.inputs)
  /\ staged \subseteq DOMAIN job.inputs
  /\ InputsVisible

LEMMA InitFound == Init => FoundInv
  <1> SUFFICES ASSUME Init PROVE FoundInv
    OBVIOUS
  <1>1. runs = <<>> /\ runs \in Seq({}) /\ DOMAIN runs = {}
    BY DEF Init
  <1>2. staged \subseteq DOMAIN job.inputs
    BY DEF Init
  <1> QED
    BY <1>1, <1>2 DEF FoundInv, InputsVisible

\* A program that runs finds all that is staged.
LEMMA RunFinds ==
  ASSUME ProgressInv, FoundInv, InputsApart(job), Run
  PROVE  FoundInv'
  <1> DEFINE mounts == ExecutorMounts(job)
             executor == job.executors[at.executors + 1]
             run == RunCommand(job.container, executor)
             found == Visible(job.container, mounts, job.inputs) \cap staged
             record == [argv |-> run.argv, streams |-> run.streams, inputs |-> found,
                        env |-> Environment(job.container, executor.env)]
  <1>1. Part("executors") /\ UNCHANGED <<job, staged>>
    BY DEF Run
  <1>2. at["inputs"] = Len(job.inputs) /\ at'["inputs"] = at["inputs"]
    BY <1>1, PartOf DEF List
  <1>3. staged \subseteq DOMAIN job.inputs /\ job \in Job
    BY JobsAssumption DEF FoundInv, ProgressInv
  <1>4. CASE runs' = runs
    BY <1>1, <1>2, <1>4 DEF FoundInv, InputsVisible
  <1>5. CASE Starts(job.container, mounts, executor.command # <<>>) /\ runs' = Append(runs, record)
    <2>1. ~Refused(job.container, mounts)
      BY <1>5 DEF Starts
    <2>2. staged \subseteq Visible(job.container, mounts, job.inputs)
      BY <1>3, <2>1, AllVisible
    <2>3. record.inputs = found
      OBVIOUS
    <2>4. staged \subseteq record.inputs
      BY <2>2, <2>3
    <2>5. PICK S : runs \in Seq(S)
      BY DEF FoundInv
    <2> HIDE DEF record, found, mounts
    <2>6. runs \in Seq(S \cup {record})
      BY <2>5
    <2>7. /\ runs' \in Seq(S \cup {record}) /\ DOMAIN runs' = DOMAIN runs \cup {Len(runs) + 1}
          /\ runs'[Len(runs) + 1] = record /\ \A x \in DOMAIN runs : runs'[x] = runs[x]
      BY <1>5, <2>6
    <2>8. InputsVisible'
      BY <1>1, <2>4, <2>7 DEF FoundInv, InputsVisible
    <2> QED
      BY <1>1, <1>2, <1>3, <2>7, <2>8 DEF FoundInv
  <1> QED
    BY <1>4, <1>5 DEF Run

\* Every step keeps what is said of what was found.
LEMMA FoundStep ==
  ASSUME \A task \in Jobs : InputsApart(task)
  PROVE  ProgressInv /\ FoundInv /\ [Next]_vars => FoundInv'
  <1> SUFFICES ASSUME ProgressInv, FoundInv, [Next]_vars PROVE FoundInv'
    OBVIOUS
  <1>1. /\ Len(job.inputs) \in Nat /\ DOMAIN job.inputs = 1..Len(job.inputs)
    BY JobParts DEF ProgressInv
  <1>2. CASE StageIn
    <2>1. /\ Part("inputs") /\ UNCHANGED <<job, runs>>
          /\ staged' \subseteq staged \cup {at.inputs + 1}
      BY <1>2 DEF StageIn
    <2>2. at["inputs"] < Len(job.inputs) /\ at.inputs + 1 \in DOMAIN job.inputs
      BY <1>1, <2>1, PartOf DEF ProgressInv, List
    <2>3. runs = <<>> /\ DOMAIN runs' = {}
      BY <1>1, <2>1, <2>2 DEF FoundInv
    <2> QED
      BY <2>1, <2>2, <2>3 DEF FoundInv, InputsVisible
  <1>3. CASE Run
    BY <1>3, RunFinds DEF ProgressInv
  <1>4. CASE StageOut
    <2>1. Part("outputs") /\ UNCHANGED <<job, staged, runs>>
      BY <1>4 DEF StageOut
    <2>2. at'["inputs"] = at["inputs"]
      BY <2>1, PartOf DEF List
    <2> QED
      BY <2>1, <2>2 DEF FoundInv, InputsVisible
  <1>5. CASE Exit
    BY <1>5 DEF Exit, FoundInv, InputsVisible
  <1>6. CASE UNCHANGED vars
    BY <1>6 DEF vars, FoundInv, InputsVisible
  <1> QED
    BY <1>2, <1>3, <1>4, <1>5, <1>6 DEF Next

-----------------------------------------------------------------------------
(***************************************************************************)
(* What an URL gets.  A file outside the images was written as some path   *)
(* by a program whose container ran; if no output's path is split, that is *)
(* the path of an output.                                                  *)
(***************************************************************************)
WrittenInv ==
  /\ DOMAIN file = {ReadFrom(Source(job.outputs[o])) : o \in DOMAIN job.outputs}
  /\ \A f \in DOMAIN file : file[f] # Nowhere =>
       /\ file[f] \in FilePath
       /\ ~Refused(job.container, ExecutorMounts(job))
       /\ WrittenTo(file[f]) = f
  /\ DOMAIN uploaded = DOMAIN job.outputs
  /\ UploadIsTheOutput

LEMMA InitWritten == Init => WrittenInv
  BY DEF Init, WrittenInv, UploadIsTheOutput

\* Programs write the files of some paths.
LEMMA RunWrites ==
  ASSUME WrittenInv, Run
  PROVE  WrittenInv'
  <1>1. UNCHANGED <<job, uploaded>>
    BY DEF Run
  <1>2. CASE file' = file
    BY <1>1, <1>2 DEF WrittenInv, UploadIsTheOutput, ReadFrom, WrittenTo, FilePath
  <1>3. CASE ~Refused(job.container, ExecutorMounts(job)) /\ file' \in Written
    <2>1. DOMAIN file' = DOMAIN file
      BY <1>3 DEF Written
    <2>2. ASSUME NEW f \in DOMAIN file, file'[f] # Nowhere
          PROVE  file'[f] \in FilePath /\ WrittenTo(file'[f]) = f
      <3>1. file' \in [DOMAIN file -> {Nowhere} \cup FilePath]
        BY <1>3 DEF Written
      <3>2. file'[f] = file[f] \/ WrittenTo(file'[f]) = f
        BY <1>3, <2>2 DEF Written
      <3> QED
        BY <2>2, <3>1, <3>2 DEF WrittenInv
    <2>3. (DOMAIN file = {ReadFrom(Source(job.outputs[o])) : o \in DOMAIN job.outputs})'
      BY <1>1, <2>1 DEF WrittenInv, ReadFrom
    <2>4. FilePath' = FilePath
      BY <1>1 DEF FilePath
    <2>5. UploadIsTheOutput' /\ (DOMAIN uploaded = DOMAIN job.outputs)'
      BY <1>1 DEF WrittenInv, UploadIsTheOutput
    <2>6. (~Refused(job.container, ExecutorMounts(job)))'
      BY <1>1, <1>3
    <2>7. ASSUME NEW f \in DOMAIN file', file'[f] # Nowhere
          PROVE  file'[f] \in FilePath' /\ (WrittenTo(file[f]))' = f
      <3>1. f \in DOMAIN file
        BY <2>1
      <3>2. file'[f] \in FilePath /\ WrittenTo(file'[f]) = f
        BY <2>2, <2>7, <3>1
      <3>3. (WrittenTo(file[f]))' = WrittenTo(file'[f])
        BY <1>1 DEF WrittenTo
      <3> QED
        BY <2>4, <3>2, <3>3
    <2> QED
      BY <2>3, <2>5, <2>6, <2>7 DEF WrittenInv
  <1> QED
    BY <1>2, <1>3 DEF Run, Starts

\* The file stage-out reads for an output holds what was written to its path.
LEMMA UploadsWhatWasWritten ==
  ASSUME ProgressInv, WrittenInv, VolumesApart(job), OutputsUnsplit(job), StageOut
  PROVE  WrittenInv'
  <1> DEFINE o == at.outputs + 1
             path == job.outputs[o].path
             content == file[ReadFrom(Source(job.outputs[o]))]
             found == content # Nowhere /\ Starts(job.container, StageOutMounts(job), TRUE)
  <1>1. Part("outputs") /\ UNCHANGED <<job, file>>
    BY DEF StageOut
  <1>2. PICK ok \in BOOLEAN :
          uploaded' = IF found /\ ok THEN [uploaded EXCEPT ![o] = content] ELSE uploaded
    BY DEF StageOut
  <1>3. /\ job \in Job /\ Len(job.outputs) \in Nat /\ DOMAIN job.outputs = 1..Len(job.outputs)
    BY JobsAssumption, JobParts DEF ProgressInv
  <1>4. /\ o \in DOMAIN job.outputs /\ path \in Path /\ FilePath \subseteq Path
        /\ Source(job.outputs[o]) = path
    <2>1. o \in DOMAIN job.outputs
      BY <1>1, <1>3, PartOf DEF ProgressInv, List
    <2>2. \A u \in DOMAIN job.outputs : Source(job.outputs[u]) = job.outputs[u].path
      BY DEF OutputsUnsplit
    <2> QED
      BY <1>3, <2>1, <2>2, TaskPaths DEF FilePath
  <1>5. ASSUME found PROVE content = path
    <2>1. ~Refused(job.container, StageOutMounts(job))
      BY <1>5 DEF Starts
    <2>2. ReadFrom(path) \in DOMAIN file
      BY <1>4 DEF WrittenInv
    <2>3. /\ content \in FilePath /\ ~Refused(job.container, ExecutorMounts(job))
          /\ WrittenTo(content) = ReadFrom(path)
      BY <1>4, <1>5, <2>2 DEF WrittenInv
    <2> HIDE DEF path, content
    <2> QED
      BY <1>3, <1>4, <2>1, <2>3, SamePlace DEF WrittenTo, ReadFrom
  <1>6. DOMAIN uploaded' = DOMAIN uploaded
    BY <1>2
  <1>7. \A u \in DOMAIN job.outputs : uploaded'[u] \in {Nowhere, job.outputs[u].path}
    <2> HIDE DEF found, content
    <2> QED
      BY <1>2, <1>5, <1>4 DEF WrittenInv, UploadIsTheOutput, path
  <1> QED
    BY <1>1, <1>6, <1>7 DEF WrittenInv, UploadIsTheOutput, ReadFrom, WrittenTo, FilePath

\* Every step keeps what is said of the files and the uploads.
LEMMA WrittenStep ==
  ASSUME \A task \in Jobs : VolumesApart(task) /\ OutputsUnsplit(task)
  PROVE  ProgressInv /\ WrittenInv /\ [Next]_vars => WrittenInv'
  <1> SUFFICES ASSUME ProgressInv, WrittenInv, [Next]_vars PROVE WrittenInv'
    OBVIOUS
  <1>1. CASE UNCHANGED <<job, file, uploaded>>
    BY <1>1 DEF WrittenInv, UploadIsTheOutput, ReadFrom, WrittenTo, FilePath
  <1>2. CASE Run
    BY <1>2, RunWrites
  <1>3. CASE StageOut
    BY <1>3, UploadsWhatWasWritten DEF ProgressInv
  <1> QED
    BY <1>1, <1>2, <1>3 DEF Next, StageIn, Exit, vars

-----------------------------------------------------------------------------
(***************************************************************************)
(* The theorems.                                                           *)
(***************************************************************************)
\* How far the line is, at all times.
LEMMA ProgressHolds == Spec => []ProgressInv
  BY InitProgress, ProgressStep, PTL DEF Spec

\* No program runs before every input of its task is there, if each has a url or is
\* a file given by content.
THEOREM InputsBeforeProgramsHolds ==
  ASSUME \A task \in Jobs : InputsHaveSource(task)
  PROVE  Spec => []InputsBeforePrograms
  <1>1. Init => StagedInv
    BY InitStaged
  <1>2. StagedInv => InputsBeforePrograms
    BY DEF StagedInv
  <1> QED
    BY <1>1, <1>2, ProgressHolds, StagedStep, PTL DEF Spec

\* Arguments, environments and redirected streams are the client's, for all tasks
\* whose commands and values are none of those the code gets wrong.
LEMMA RunsHold ==
  ASSUME \A task \in Jobs : Runnable(task)
  PROVE  Spec => []RunsInv
  BY InitRuns, RunsStep, ProgressHolds, PTL DEF Spec

\* Every program runs with the arguments the client gave, if each is what it becomes
\* as a path.
THEOREM ProgramsAsGivenHolds ==
  ASSUME \A task \in Jobs : Runnable(task)
  PROVE  Spec => []ProgramsAsGiven
  <1>1. RunsInv => ProgramsAsGiven
    BY DEF RunsInv, ProgramsAsGiven
  <1> QED
    BY <1>1, RunsHold, PTL

\* Every program has its streams redirected to the files the client named.
THEOREM StreamsRedirectedHolds ==
  ASSUME \A task \in Jobs : Runnable(task)
  PROVE  Spec => []StreamsRedirected
  <1>1. RunsInv => StreamsRedirected
    BY DEF RunsInv, StreamsRedirected
  <1> QED
    BY <1>1, RunsHold, PTL

\* Every program finds the client's values in its environment.
THEOREM EnvironmentAsGivenHolds ==
  ASSUME \A task \in Jobs : Runnable(task)
  PROVE  Spec => []EnvironmentAsGiven
  <1>1. RunsInv => EnvironmentAsGiven
    BY DEF RunsInv, EnvironmentAsGiven
  <1> QED
    BY <1>1, RunsHold, PTL

\* Every program finds the inputs that are staged, if no input shares its path and,
\* with singularity, none lies in a volume or below a later input.
THEOREM InputsVisibleHolds ==
  ASSUME \A task \in Jobs : InputsApart(task)
  PROVE  Spec => []InputsVisible
  <1>1. FoundInv => InputsVisible
    BY DEF FoundInv
  <1> QED
    BY <1>1, InitFound, FoundStep, ProgressHolds, PTL DEF Spec

\* What is uploaded was written to the paths of the outputs, for tasks with no split
\* path whose volumes have names of their own.
LEMMA WrittenHolds ==
  ASSUME \A task \in Jobs : VolumesApart(task) /\ OutputsUnsplit(task)
  PROVE  Spec => []WrittenInv
  BY InitWritten, WrittenStep, ProgressHolds, PTL DEF Spec

\* An URL gets what was written to the path of its output, if no path is split by a
\* blank and no two volumes of the task get one name.
THEOREM UploadIsTheOutputHolds ==
  ASSUME \A task \in Jobs : VolumesApart(task) /\ OutputsUnsplit(task)
  PROVE  Spec => []UploadIsTheOutput
  <1>1. WrittenInv => UploadIsTheOutput
    BY DEF WrittenInv
  <1> QED
    BY <1>1, WrittenHolds, PTL

\* A line that ends in zero has uploaded every output, and no other file in its
\* place, if all are files, no path is split by a blank and no two volumes get one
\* name.
THEOREM ZeroMeansUploadedHolds ==
  ASSUME \A task \in Jobs : OutputsAreFiles(task) /\ OutputsUnsplit(task) /\ VolumesApart(task)
  PROVE  Spec => []ZeroMeansUploaded
  <1>1. ASSUME ProgressInv, UploadedInv, WrittenInv PROVE ZeroMeansUploaded
    <2>1. \A o \in DOMAIN job.outputs : uploaded[o] \in {Nowhere, job.outputs[o].path}
      BY <1>1 DEF WrittenInv, UploadIsTheOutput
    <2>2. code = "zero" => \A o \in DOMAIN job.outputs : uploaded[o] # Nowhere
      BY <1>1, JobParts DEF ProgressInv, UploadedInv
    <2> QED
      BY <2>1, <2>2 DEF ZeroMeansUploaded
  <1>2. ProgressInv /\ UploadedInv /\ [Next]_vars => UploadedInv'
    BY UploadedStep
  <1>3. Spec => []WrittenInv
    BY WrittenHolds
  <1> QED
    BY <1>1, <1>2, <1>3, InitUploaded, ProgressHolds, PTL DEF Spec

=============================================================================
