# TLA+ specifications of TESP API

TESP API is a GA4GH TES server in front of one Pulsar server. A client creates a
task; the service keeps it as a document in MongoDB, stages its inputs, runs its
executors as one job in Pulsar, polls for the end of the job and writes the outcome
back. This directory specifies how that works in TLA+, checks it with TLC on small
instances and proves its central part with TLAPS.

Contents: [the system](#the-system), [modules](#modules),
[correspondence](#how-state-and-actions-correspond-to-the-code),
[assumptions](#assumptions-about-the-surroundings), [runs](#runs),
[proofs](#proofs), [disagreements](#where-the-code-and-its-documentation-disagree),
[what is left](#what-is-not-modelled-and-the-plan).

## The system

| Component | State it keeps | Operations | What makes it correct |
|---|---|---|---|
| Task endpoints (`api/endpoints`) | none | create, cancel, get, list | a create inserts one document and dispatches one event; a cancel takes a task only from a live state; a listing shows every task once; no answer shows or changes a task made under another name |
| Authentication (`api/endpoints/endpoint_utils.py`, `utils/token_validator.py`, `utils/basic_auth.py`) | none | `parse_verify_token`, with Basic credentials, OAuth2 tokens or nothing | a token that fails any of its checks lets nobody in, and one that fails none lets in its subject, whoever issued it |
| Error responses (`api/error.py`) | none | `api_handle_error` | the status says what went wrong |
| Task repository (`repository/task_repository.py`) | the MongoDB collection `tasks` | insert, find, `find_one_and_update` with a filter on the state | every change of a state but one expects the state before |
| Log helpers (`repository/task_repository_utils.py`) | the logs they hold between two calls | read the logs, write them back | neither undoes what was written in between |
| Dispatcher and registry (`service/event_dispatcher.py`, `event_handler.py`) | coroutines in the memory of a worker | dispatch, handle | an event of a task is handled once, by the worker that dispatched it |
| Event handlers (`service/event_actions.py`) | one coroutine per task, suspended at an `await` | queued_task, queued_task_rest / _amqp, initialize_task, run_task | the task moves through its states, is submitted once, ends in the outcome of its job, and its job is deleted |
| Error handling (`service/error.py`) | none | `pulsar_event_handle_error` | every failure ends the task and says so in its logs |
| Pulsar operations (`service/pulsar_operations.py`) | REST: none; AMQP: a connection and a channel, made on first use and never closed | setup, upload, run, status, erase | a request that fails is reported, and never repeated blindly; connections stay few |
| Choice of interface (`service/pulsar_service.py`) | an HTTP connection pool | `get_operations` | REST unless `amqp_url` is set |
| Command line (`utils/container.py`) | none | stage-in, run, stage-out, environment, volumes and mounts | zero means done; arguments and environment arrive as given; inputs are where the programs look; outputs are the files the programs wrote |
| Pulsar | the jobs | (external) | |
| File transfer clients, settings, logging | none that tasks depend on | | |

The components meet in three places. The **document** is shared by the endpoints of
all workers and the task's handler, and every access to it is a separate call to
MongoDB. The **event chain** queued_task → queued_task_rest → initialize_task →
run_task hands the task from one coroutine to the next in one worker's memory. The
**job** in Pulsar is reached by requests that can fail before or after they took
effect.

What is hard about it:

* *Interleaving.* Between any two awaits of a handler a client may cancel the task,
  through any worker. The AMQP interface even runs two coroutines on one task.
* *Failure.* A MongoDB call or a request to Pulsar fails before or after its effect,
  inside `try` blocks and promise chains whose `catch` differs from call to call.
* *Restarts.* Events are nowhere but in memory; a worker may die or be stopped at
  every await.
* *Read, then write.* Cancellation checks and the log helpers read the document and
  act on it one or more awaits later.
* *Bounds.* Polling ends after `max_polls`; pages end at `page_size`; every task has
  operations, and so connections, of its own.
* *Identity.* The subject of a token is checked once and then passed on as the author of
  a document and as a filter, in four places and with a meaning of its own for "none".
* *Quoting, volumes and mounts.* The command line passes two shells; outputs share
  volumes; a volume may hide an input.

`PROJECT.json` lists these hazards at the lines where they bite, with the properties
that cover them.

## Modules

```
TesTask            vocabulary: states, kinds of fault
 ├─ TaskRepository    the documents and the calls on them
 ├─ Pulsar            the jobs and how requests end
 │    └─ EventHandlers      the handlers, one action per stretch between awaits
 │         ├─ HandlerProofs      what their operators do, for both interfaces
 │         └─ TaskProperties     what is required whichever interface is used
 │              ├─ RestLifecycle      the whole system over REST
 │              │    ├─ RestInvariant      its inductive invariant
 │              │    │    └─ MCRestLifecycle
 │              │    └─ RestSafetyProofs, RestTheorems, RestRefinement
 │              └─ AmqpLifecycle      the whole system over AMQP
 │                   ├─ MCAmqpLifecycle
 │                   └─ AmqpProofs, AmqpTheorems
 └─ TaskContract      the abstract specification: what a client may rely on
Authentication      who a request is from
TaskListing         GET /tasks, page by page, beside the creation of tasks
 └─ TaskApi            both together: the endpoints as their clients see them
      ├─ MCTaskApi
      └─ TaskApiProofs
ContainerMounts     what a container mounts, and where a path in it leads
 └─ JobScript          the command line of a task and what it does
      ├─ MCJobScript
      └─ JobScriptProofs
```

`EventHandlers` composes the repository and Pulsar; `RestLifecycle` and
`AmqpLifecycle` add the operations that differ and the next-state relation.
`TaskContract` knows states, submissions and results only. `TaskProperties`
instantiates it with a refinement mapping: state, submits and result are the
variables of the same name, and a task *ran* if RUNNING is among the states its
document has been in. `JobScript` refines what the life cycles treat as one
atomic fact, the return code of the job. `TaskApi` composes `Authentication`,
`TaskListing` and the endpoints for single tasks; there, what handlers do to a task is
one step, `Progress`, because a client only needs to know whether a task can still be
canceled.

Definitions whose comment begins with "Mutant:" are not used by any specification.
Each is a plausible slip in the definition that follows it, kept to show that the
properties notice it.

## How state and actions correspond to the code

`state[t]` and `logs[t]` are the two parts of a document that change. `logs` is the
one `TesTaskLog` the endpoint puts there: whether `start_time` is set, the exit codes
of its executor logs, and the number of `system_logs`. `visited[t]` is history.

`pc[t]` is the await at which the handler of `t` is suspended. There is one per task,
since each handler of the REST chain dispatches its successor as its last step. `err`,
`rc`, `polls`, `input` and `snapshot` are the handler's locals: the exception at hand,
`command_status['returncode']`, the iterations of `job_status_complete`, the index of
`setup_data`'s loop, and the logs that a log helper holds. `owner[t]` is the worker
whose event loop runs the handler; a crash takes all of its handlers. Under AMQP
`side[t]` is the second coroutine, the error handler of `handle_queued_task_amqp`.

Every task has its own `PulsarAmqpOperations`, which both of its coroutines use:
`connection[t]` and `channel[t]` say whether the attributes of these names are set, and
`call[t]` at which await of `_connect` or `_send_message` each coroutine is. As
`_connect` sets the connection one await before the channel, a coroutine may find the
one without the other. `opened[t]` is history.

`jobs[t]`, `result[t]` describe the job in Pulsar; `sent[t]`, `refused[t]` (the requests
Pulsar answered with an error page) and `submits[t]` are history of the requests.

An action runs from one await to the next: it consumes the answer of the call it was
suspended at, does everything up to the next call and stops there. `DbReply` and
`PulsarReply` are all the ways a call may go:

| Answer | Meaning | What the code makes of it |
|---|---|---|
| MongoDB `ok` | applied if the filter matched | `Just(task)` or `Nothing` |
| MongoDB `unsent` / `lost` | failed before / after it was applied | `CustomDataLayerError` |
| Pulsar `ok` | done | the value |
| `refused` / `garbled` | an error page / a done request with an unreadable answer | nothing where only bytes are read; `response.json` raises otherwise |
| `lost` / `unreachable` | `ClientError` or timeout, after / before it took effect | `PulsarLayerConnectionError` (AMQP: a timeout stays a `TimeoutError`) |
| `failed` | any other exception | `PulsarOperationsError` where `_reraise_custom` is used |

`ThenOrHandle` is a promise chain with `.catch(pulsar_event_handle_error)`,
`ThenOrExcept` the `try` block of `handle_run_task`, and `ErrorEntry` / `AfterErase`
the `match` of `pulsar_event_handle_error`.

In `TaskApi` a request is the token and the Basic credentials it comes with. A token is
whom it names, who issued it, and which of the ten `Checks` of `verify_token` it does not
stand; the first of these decides the status. `tasks` holds the ids of the collection in
the order of insertion, `author` the author in each document, `live` the tasks a
cancellation still finds, and `answer` the last answer with the tasks it showed or
changed. `owner` is history: the person who created the task, a name together with the
issuer that vouches for it (`Sender`), of which the code keeps the name. `Refuse` stands
for every endpoint whose dependency raises or whose input does not validate. `token`,
`pages` and `existing` belong to the one client that lists its tasks; `ListTasks` is one
call of `get_tasks`.

In `JobScript` the state is the progress of the line (`at`, `code`), which inputs are
staged, which output path each file in a volume was written as, and what each URL got. A
container is its set of mounts, each with its place among the flags. `Place` says which
of them a path lies in, and where in it: that is how an input can be hidden, and how a
program and stage-out may mean different files by one path. Arguments are one
representative of each class the code or a shell tells apart: a word, a blank, a shell
character, the redirection operators, nothing, and texts that a `Path` does not keep
(`./`, a last slash, `http://`). A path is a sequence of names, and a name one of
letters, so that the names of volumes and what the unquoted `curl` of stage-out makes of
a blank (`CurlPath`) can be computed.

## Assumptions about the surroundings

* `find_one_and_update` is atomic. A `find` with a condition on `_id` is answered from
  the index on `_id`, one without a condition in the order of insertion (neither is
  promised by MongoDB without a sort; it is what the default engine does).
* The driver makes an ObjectId of the seconds, a number of the process and a counter, in
  the thread that sends the document. Motor has a pool of such threads, and gunicorn at
  least two workers (`gunicorn_conf.py:26`), so nothing is assumed of the order in which
  ids are stored: `InsertTask` takes any that is new.
* A request that is given up on has either taken effect by then or never does.
* Pulsar starts a submitted job at most once, and reports no zero for one it canceled;
  its error pages are not the JSON the code expects.
* `curl -f`, `wget` and programs tell their failure by their status; `find -exec ... \;`
  does not depend on the status of what it executes. Two names of one volume are one
  directory.
* docker mounts paths in the order of their depth, and refuses two mounts at one path
  and one at `/`; singularity mounts in the order of the flags, and `singularity exec`
  needs a command. Between double quotes a shell expands a `$`.
* Paths are absolute and without empty names, `.` and `..`, and of the characters that mean
  something to a shell, to `-v` or to `curl -F` they have the blank only (`Letter`): the
  double quotes around a mount (`container.py:199-208`) still expand a `$`, and those around
  an uploaded file (`container.py:347`) end before it.
* A good token is one PyJWT verifies; its issuer answers or fails. Anyone may be an
  issuer, and two issuers may give one `sub` to two people.
* Tasks are never deleted (no code does). In the life cycles tests for the author of a
  task always match, for the handlers ask with the author they created the task with;
  `TaskApi` has clients that ask for the tasks of others.
* `connect_robust` fails when its first attempt does; a connection it made reconnects by
  itself and is closed by nobody. While it does, `channel()` and `publish` may wait for
  ever: `_connect` and `_send_message` give none of the three a timeout.
* `AmqpLifecycle` describes docker, where `task_config` is needed only for inputs.

**Fairness.** `WF_vars(HandlerStep(t))` for every task: an event loop that runs keeps
running its coroutines, and each call they wait for ends (HTTP requests have
`client_timeout`, MongoDB calls the driver's timeouts). Under AMQP both coroutines of a
task are fair except while they wait for the broker (`AwaitsBroker`): the steps that end
`connect_robust`, `channel()` or `publish` may never come. `CoroutinesEnd` therefore
says that a coroutine ends or waits for the broker for ever, and that nothing else, such
as the other coroutine that waits, holds it up. Nothing is assumed of clients, of jobs -
which may run forever - or of Pulsar's consumer. `HandlersEnd` and `CoroutinesEnd` need
no more than that: they hold under every fault, crashes included, since they are about
coroutines and not about what these leave behind. `EveryTaskEnds` is about documents,
and its run contains neither crashes nor MongoDB failures, because the code really
abandons a task then: nothing at startup looks for documents left half way, and `case
CustomDataLayerError()` does not touch the document.

## Runs

Deadlock is not checked in any run: when the last task has ended and no client wants
another one (or the listing, or the line, has ended) the system rightly stops.

| Run | Instance | Shows |
|---|---|---|
| `rest_faults` | 1 task, 1 worker, `MaxPolls` 2, every kind of fault | types, `OutcomeMatchesJob`, `OneOutcome`, `SubmittedOnlyWhenRun`, `SystemErrorLogged`, `OnlyClientInterferes`, `ErasedBeforeReport`, the inductive invariant `IInv`, `LogsFrozenAtEnd`, that `TaskContract` is implemented, and that handlers end whatever fails (`HandlersEnd`), each step leaving them less to do (`HandlersCountDown`) |
| `rest_pulsar` | 1 task, `MaxPolls` 3, Pulsar fails in every way | `EveryTaskEnds`, `NoTaskAbandoned`, `FinishedTasksAreErased` |
| `rest_healthy` | 2 tasks, no faults | `SystemErrorHasCause`: the only system error is that of a job which outlives `max_polls` |
| `amqp_faults` | as `rest_faults` | the same contract with two coroutines per task that share a connection; `CanceledBeforeReport`, `ConnectionsBounded`, and that each coroutine ends or waits for the broker (`CoroutinesEnd`) |
| `task_api` | ids 1..3 stored in any order, pages of 2, 2 subjects, 2 issuers, all four settings, 16 kinds of requests | clients reach all of their own tasks and none of a creator with another name; a listing is exact if the tasks it begins with were stored in the order of their ids; the statuses |
| `job_lines` | 2 executors with every command, 3 inputs, 2 outputs; 2 executors and every set of streams, docker and singularity; 6 tasks with overlapping mounts | order of the parts, arguments, environment, redirections of commands that get a shell, inputs at their paths, meaning of zero for files, identity of outputs |
| `rest_cancel_final`, `rest_cancel_pulsar`, `rest_shutdown`, `amqp_healthy`, `job_streams`, `job_directory` | smallest that shows it | a counterexample each, see [below](#where-the-code-and-its-documentation-disagree) |

**Bounds.** Tasks share nothing but workers, and a worker matters only when it crashes,
which stops several handlers at once; so one task explores all that can happen to a
task, and `rest_healthy` has two to keep their handlers apart. (The theorems hold for
any number.) One worker is enough in the runs since cancellations need no handler and so
come from anywhere. `MaxPolls` 2 has a turn that is not the last; 3, for liveness, one
between the first and the last. The input lists cover no input, one of each kind, and
one before another. Polls, inputs and logs are bounded by the code itself, and the
number of requests by the handlers. Three ids with pages of two give a full page, half
of one and the empty one that ends a listing, with a task of the client's or of others
created between any two of them, below or above the token, and first pages out of order.
The requests are good tokens of two subjects and of a second issuer for one of them,
none, one for every check that fails alone, and two that fail two checks, so that the
order of the checks matters; and every kind of Basic credentials. The collection may
begin with one task of a time with other settings. Two executors are needed for "stops
on the first error" and for one to overwrite what the other wrote; two outputs for a
name that two directories share. The tasks with mounts have an input below the volume of
an output, below that of the task and beside them, a volume below another, an input and
a volume at one path, one input below another, an output in `/`, and inputs of which
none is downloaded.

**What the properties mean.** `OutcomeMatchesJob`, `SystemErrorLogged` and
`LogsFrozenAtEnd` relate documents, logs and jobs across the two-call log helpers.
`OneOutcome` is the race of the cancel endpoint with the last update.
`OnlyClientInterferes` says that nothing but a cancellation ever moves a document from
the state its handler believes in, and rests on every answer of the repository being
looked at. `ErasedBeforeReport` and `FinishedTasksAreErased` say on which paths Pulsar
is left with a job: lost connections, cancellations, and refused deletions. The latter
is stated on the job itself, so a DELETE that fails and is not noticed would violate it.
`ImplementsContract` is the sum of the state filters: it allows COMPLETE, EXECUTOR_ERROR
or CANCELED to become SYSTEM_ERROR, which the code does (see `rest_cancel_final`), and
nothing else. `OnlyTasksOfOwnSubject` and `OwnTasksAreReached` relate an answer to who
really created the tasks in it, across authentication, creation, the filters and
settings that changed since. The former is about names only: it cannot be stated about
people, for `token_validator.py:13` takes tokens "from any issuer including owns", and
`OtherAlices` of `MCTaskApi` does reach the tasks of `Alices`. `ConnectionsBounded` is
the race of two coroutines that both find no connection. `InputsVisible` and
`UploadIsTheOutput` say that stage-in, executors and stage-out, each with mounts of its
own, mean the same file by one path. `HandlersCountDown` is a bound on the requests a
task can cost.

## Proofs

Proved with TLAPS for every set of tasks and workers, every `MaxPolls > 0`, all input
lists and all sets of faults (the assumptions named in `TesTask` and `EventHandlers`):

| Theorem | States |
|---|---|
| `InvariantHolds` | `Safety => []IInv` |
| `TypesHold`, `OnlyClientInterferesHolds`, `OutcomeMatchesJobHolds`, `OneOutcomeHolds`, `SubmittedOnlyWhenRunHolds`, `SystemErrorLoggedHolds`, `ErasedBeforeReportHolds` | `Spec => []` of the invariant of that name |
| `RefinesContract` | `Spec => ImplementsContract` |
| `LogsFrozenAtEndHolds` | `Spec => LogsFrozenAtEnd` |
| `HandlersCountDownHolds` | `Spec => HandlersCountDown` |
| `NoTaskAbandonedHolds`, `FinishedTasksAreErasedHolds` | the invariant of that name, when Pulsar is all that fails |
| `SystemErrorHasCauseHolds` | the invariant of that name, when MongoDB and Pulsar do not fail (workers may crash and stop) |

None of the invariants is inductive: that COMPLETE is only set for a job that returned
zero depends on what `rc` holds at `set_complete`, which depends on what polling found,
which depends on the job having been submitted, and so on back to the creation of the
task. `IInv` (module `RestInvariant`) says for each position of the handler what it may
rely on, in seven parts: `VisitedInv` (which states come before which), `StageInv` (the
document's state, up to a cancellation), `SubmitInv` (nothing runs that was not
submitted), `CodeInv` (the return code held is the job's), `ExecLogInv` and
`SystemLogInv` (what is in the logs and in the logs held) and `EraseInv` (what the error
handler did first). `rest_faults` checks it with TLC as well.

The argument has three layers.

1. `HandlerProofs`: the operators the steps are made of (answers, exceptions, updates,
   requests, jumps).
2. `RestSafetyProofs`: for each action, type correctness; for each action of a task's
   handler, that the task's own part of `IInv` is preserved.
3. `RestTheorems`: locality. An action on one task leaves the variables of the others
   alone (`Own`, `Undisturbed`, `DocumentsApart`, `JobsApart`, `ControlApart`), so their
   parts of `IInv` are kept; with crashes, cancellations and creations this gives
   `StepInv`, and the theorems by temporal reasoning. `RestRefinement` maps every step
   to a move of `TaskContract` or to a stutter, using `IInv` for the moves that need
   it: a submission only of a task that ran, an outcome only of that result.

`RestTheorems` ends with what can be proved about termination. `Remaining` adds the
awaits on the longest way to the end, the turns left of `setup_data`'s loop and those
left of the polling. A step moves a handler on, which is less however many turns the
loops behind it had (`MovingOn`), or counts a turn (`HandlerStepCounts`); what clients,
crashes and shutdowns do never adds to it (`EnvironmentCounts`). A handler therefore
makes at most 21 steps, one more per input and `max_polls` for the polling, whatever fails.

The last three theorems need two more invariants, which hold under fewer faults than
`IInv` and so are no part of it. `UpInv` says that without MongoDB failures the one
document an update does not find is a canceled one (`NotFoundInv`), so that every
handler that ends has left a final state behind, and that a handler past `erase_job` has
asked for the deletion: by then the job is out of Pulsar, or Pulsar refused the request
(`refused`), whose status `erase_job` does not look at, or an exception leads to
SYSTEM_ERROR. `CauseInv` says that without failures of Pulsar either, the
handler of an exception is only entered for a cancellation, which it finds out before it
writes anything, or with `polls` at its end.

The other parts are proved in modules of their own:

| Module | Theorems | For |
|---|---|---|
| `TaskApiProofs` | `TypesHold`, `OnlyTasksOfOwnSubjectHolds`, `OwnTasksAreReachedHolds`, `NothingListedTwiceHolds`, `NothingSkippedHolds` | any subjects, issuers, requests, settings, page size, number of tasks and order in which they are stored |
| `JobScriptProofs` | `InputsBeforeProgramsHolds`, `ZeroMeansUploadedHolds`, `ProgramsAsGivenHolds`, `StreamsRedirectedHolds`, `EnvironmentAsGivenHolds`, `InputsVisibleHolds`, `UploadIsTheOutputHolds` | any tasks that satisfy the condition the theorem names |
| `AmqpProofs` | `ConnectionsBoundedHolds`, `SubmittedOnlyWhenRunHolds`, `CanceledBeforeReportHolds`, `AmqpRefinesContract` | any tasks, workers, `MaxPolls`, input lists and faults |
| `AmqpTheorems` | `TypesHold`, `OneOutcomeHolds`, `OutcomeMatchesJobHolds`, `SystemErrorLoggedHolds`, `LogsFrozenAtEndHolds` | the same |

* `TaskApiProofs`: the inductive invariant `ApiInv` is that the author in a document is
  the name of whoever created the task. A request that is let in has its sender's name for
  a subject (`ClientIsSubject`, from the checks), so the filter leaves a client what was
  created under its name (`FilterIsOwn`), and each endpoint keeps the invariant.
  `TypesHold` adds that what a cancellation or a listing shows is stored.
* Its second half is about the listing. A page with a token is in the order of the ids; so
  is the first one when what it is taken from was stored in that order, for `Position` and
  the ids rank alike then (`PositionGrows`). Such a page is what is below a mark of what was
  found (`PageIsPrefix`). The invariant takes the token for that mark: whatever of
  `existing` is below it is on a page, and nothing above it is on one (`Sorted`). A task
  that is created later may get an id below the token, and is then on no page, nor is it
  among those the listing owes.
* `JobScriptProofs`, commands: quoting once or twice is undone by as many shells
  (`RequotedIsSame`, `RunsAsGiven`); the rest is an invariant on how far the line is.
* `JobScriptProofs`, mounts: a dictionary has one mount for each path (`DictionaryIs`),
  so one of the mounts around a path hides the others unless docker refuses them all
  (`TopExists`), and a path is in the image, an input, the inputs directory or the volume
  of a directory above it (`PlaceInTask`). `AllVisible` is that the mount of an input is
  the one its path lies in: with docker because no mount around a path is deeper than
  the path, with singularity because the condition leaves none that is written later.
  `SamePlace` is that executors and stage-out, whose mounts differ, mean one file by two
  paths only if the paths are the same: the volumes then have one name, hence are of one
  directory, and below it the paths have the same rest. `FoundInv` and `WrittenInv` carry
  both through the line: nothing is staged any more once a program ran, and what is in a
  file was written by a program whose container docker did not refuse.
* The conditions are `InputsHaveSource`, `OutputsAreFiles`, `OutputsUnsplit`, `Runnable`,
  `InputsApart` and `VolumesApart` of `JobScript`. Each can be read off the document of a task. They
  exclude what fails (see the next section), inputs that share a path and, with
  singularity, an input below one listed after it. `MCJobScript` assumes all but
  `Runnable` of the tasks of `job_lines`, which TLC evaluates.
* `AmqpProofs`: `LinkInv` is that a task without a connection has opened none, so only
  coroutines that are connecting then can add one. `ChainInv` ties the await of the
  chain of events to the number of submissions and to the messages in the queue; the
  step lemmas say what a step that submits nothing may do (`Advances`), which covers all
  but messages, the submission itself, Pulsar's consumer and a crash. `ReportInv` says
  which messages each coroutine has sent when it is about to report; its last part is why
  a report of the one is true of the other: without a cancel message it ended the chain.
  `CodeInv` is that the chain holds its job's return code once polling is over. With
  `ChainInv` it gives the contract: every update of a document is a move (`UpdateMoves`,
  `ErrorMoves`), and a SYSTEM_ERROR over that of the other coroutine is a stutter. Far
  less is invariant here than over REST, since the error handler may write at any await.
* `AmqpTheorems`: `AmqpInv` joins the types, `LinkInv`, `ChainInv`, `CodeInv` and, for each
  task, `OutcomeInv`. That one relates the document to the chain and not to the second
  coroutine, which at any await pushes a system log and sets SYSTEM_ERROR, and writes
  nothing else. So whatever the chain holds of the logs may lack a system log
  and nothing else, it is never written over a final document, and no filter of the chain
  matches SYSTEM_ERROR. `Settles` is a step that keeps this of one task and leaves the
  others alone.

Every invariant and action property of the passing runs is a theorem. Only model-checked
is liveness (`HandlersEnd`, `EveryTaskEnds`, `CoroutinesEnd`): it rests on weak
fairness, and the prover has no rule for `ENABLED`. Of `HandlersEnd` the half that does
not is proved: by `HandlersCountDownHolds` a handler that keeps taking steps comes to
its end. `TaskContract` states no fairness, so the refinements are proved in full.

## Where the code and its documentation disagree

| Run | Code | What is said |
|---|---|---|
| `rest_cancel_final` | a task canceled between the check after an exception and the unconditional update of the error handler becomes SYSTEM_ERROR | `event_actions.py:302` |
| `rest_cancel_pulsar` | canceling a running task sends nothing to Pulsar, neither then nor when its handler notices | `README.md:291` |
| `rest_shutdown` | a stopped worker leaves its tasks RUNNING: the update expects the state `None`, and `kill_job` does not exist | `event_actions.py:169` |
| `amqp_healthy` | over AMQP every task ends in SYSTEM_ERROR, for `dispatch_event` returns nothing that can be awaited | `event_actions.py:70` |
| `job_streams` | with docker `>` and the path become arguments of a plain command; `sh -c` commands are not redirected at all | `model/task.py:122` |
| `job_directory` | failed uploads of a directory's files do not fail the task | `model/task.py:196` |

More that the models show without a run of their own; each takes one change of a
configuration, or of the tasks in `MCJobScript`, or can be read off a definition:

* COMPLETE becomes SYSTEM_ERROR when the DELETE after it fails
  (`event_actions.py:285`): drop `GiveUp` of finished tasks from `TaskContract`, and
  `rest_faults` fails.
* When ids are not stored in their order - two creations in two threads of motor's pool, or
  in two workers - a listing skips or repeats tasks: its first page is in the order of
  insertion and the others in that of ids (`task_repository.py:83`). `task_api` has such
  listings, and `NothingSkipped` and `NothingListedTwice` fail in it without their
  conditions `InOrder(existing)` and `Sorted`.
* A token of any issuer will do (`token_validator.py:13`), and the author of a task is the
  `sub` alone: with one's own issuer, or a `sub` that two issuers have given, one reaches
  the tasks of somebody else. With `owner[id] = answer.from` in place of the names
  `OnlyTasksOfOwnSubject` fails in `task_api`.
* Outputs in `/a/b` and `/ab` share a volume, for its name is the path without the
  slashes (`container.py:376`): `UploadIsTheOutput` fails for such a job.
* `command` is a `List[Path]` (`model/task.py:107`): `./x` and `x/` reach the program as
  `x`, `http://x` as `http:/x` and an empty argument as `.`. `Jobs <- NoPathJobs` in
  `job_lines.cfg`, and `ProgramsAsGiven` fails.
* The quotes of `shlex.quote` around the path of an output stand inside the single quotes of
  `-F 'file=@...'` and end them (`container.py:347`): a path with a blank is split, and curl
  sends what its first part names. With outputs `/ab/x` and `/ab/x y` the first file goes to
  both URLs and zero is returned: `Jobs <- BlankJobs`, and `ZeroMeansUploaded` and
  `UploadIsTheOutput` fail. Other characters of a path do worse, up to a `||` that makes
  the line end in zero; they are no `Letter`.
* The task of `README.md:247` with singularity: the volume of the output is mounted over
  the input in the same directory, so the program does not find its input
  (`container.py:204`): `Jobs <- ReadmeJobs` in `job_lines.cfg`, and `InputsVisible`
  fails.
* With singularity a task whose inputs are all given by content always ends in
  EXECUTOR_ERROR: the container of stage-in gets no command (`container.py:265`). One of
  `MountJobs` is such a task, and no program of it ever runs.
* With singularity the value of a variable is put between double quotes and a `$` in it
  is expanded (`container.py:178`): `EnvironmentAsGiven` fails for it.
* A directory given by content, or an input with neither `url` nor `content`, is neither
  uploaded nor downloaded (`event_actions.py:119`): `InputsBeforePrograms` fails for it.
* When no key is found for a token the answer is 500 and not 401, for the `except` clause
  names `PyJWKClientError`, which is not imported (`token_validator.py:68`); without
  Basic credentials it is 500, too. Neither lets anybody in: `StatusOf` and
  `VerifyBasicAuth` are these statuses.

The passing runs therefore leave out directories whose names differ only in their
slashes, blanks in the paths of outputs, arguments that are not their own `Path`, inputs
without a source, values with a `$` and inputs below volumes for singularity, as well as
directories among the outputs and redirected streams of plain docker commands, for which
there are the runs above. They also leave out two inputs or an input and an output with
the same path and, with singularity, an input below one listed later, on which nothing
in the repository says what should happen.

## What is not modelled, and the plan

Not modelled: the views of the API and `/service-info` (layout), the file transfer
clients (pure I/O, not called by any handler), settings and logging, the data transfer
services and the tests. Within what is modelled:

* the regular expression of `name_prefix`, which only narrows a listing; `end_time`, which
  is written with the executor log;
* paths with characters a shell or docker takes for something else, see
  [assumptions](#assumptions-about-the-surroundings);
* the limit of 100 connections to Pulsar as a resource: a request that waits too long for
  one is among those that fail. An issuer that never answers, which blocks a thread of
  the web framework, since `requests.get` has no timeout;
* of the command line the image, the resources and the working directory, each a flag
  handed on as it is, and where `wget --mirror` puts the files of a directory. The branch
  for an empty command line is dead code: every line begins with `set -xe`.

Planned, in this order:

1. `PulsarClient`: the connection pool (`limit_per_host`, and `client_timeout`, which also
   counts the wait for a connection) under many polling tasks.
2. The life cycle and the command line composed: `Pulsar` takes any return code where
   `JobScript` computes one, so that what COMPLETE means for the outputs could be one
   theorem instead of two.
