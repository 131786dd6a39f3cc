---------------------------- MODULE RestTheorems ----------------------------
(***************************************************************************)
(* What holds of RestLifecycle in every reachable state and at every step, *)
(* for any tasks, workers, input lists, max_polls and faults.              *)
(***************************************************************************)
EXTENDS RestSafetyProofs

-----------------------------------------------------------------------------
(***************************************************************************)
(* An action of one task leaves the others alone.                          *)
(***************************************************************************)
\* Everything the invariant of a task looks at.
Own(u) ==
  <<state[u], logs[u], visited[u], jobs[u], result[u], sent[u], refused[u], submits[u],
    pc[u], err[u], rc[u], polls[u], snapshot[u]>>

\* A step that leaves everything of a task as it is keeps the task's invariant.
LEMMA Undisturbed ==
  ASSUME NEW u \in Task, TaskInv(u), UNCHANGED Own(u)
  PROVE  TaskInv(u)'
  BY TaskFrame DEF Own

\* An update of one document leaves the other documents as they are.
LEMMA DocumentsApart ==
  ASSUME TypeOK, NEW t \in Task, NEW u \in Task, u # t, NEW old, NEW new, NEW reply,
         \/ UpdateTaskState(t, old, new, reply)
         \/ UpdateTaskLogs(t, old, new, reply)
         \/ UpdateErrorTask(t, new, reply)
         \/ InsertTask(t, reply)
  PROVE  UNCHANGED <<state[u], logs[u], visited[u]>>
  BY DEF TypeOK, RepositoryTypeOK, UpdateTaskState, UpdateTaskLogs, UpdateErrorTask, InsertTask

\* A request for one job leaves the other jobs as they are.
LEMMA JobsApart ==
  ASSUME TypeOK, NEW t \in Task, NEW u \in Task, u # t, NEW kind, NEW reply, Request(t, kind, reply)
  PROVE  UNCHANGED <<jobs[u], result[u], sent[u], refused[u], submits[u]>>
  BY DEF TypeOK, PulsarTypeOK, Request

\* Control passes in one handler at a time.
LEMMA ControlApart ==
  ASSUME TypeOK, NEW t \in Task, NEW u \in Task, u # t, NEW label, NEW e,
         Goto(t, label) \/ ThenOrHandle(t, e, label) \/ ThenOrExcept(t, e, label)
  PROVE  UNCHANGED <<pc[u], err[u]>>
  BY DEF TypeOK, HandlersTypeOK, Goto, ThenOrHandle, ThenOrExcept

\* No handler touches what belongs to another task.
LEMMA HandlersApart ==
  ASSUME TypeOK, NEW t \in Task, NEW u \in Task, u # t, HandlerStep(t)
  PROVE  UNCHANGED Own(u)
  <1>. USE DEF Own, localVars, dbVars, pulsarVars
  <1>1. CASE HandleQueuedTask(t)
    BY <1>1, ControlApart DEF HandleQueuedTask
  <1>2. CASE DispatchRunTask(t)
    BY <1>2, ControlApart DEF DispatchRunTask
  <1>3. ASSUME NEW reply \in DbReply, DbStep(t, reply)
        PROVE  UNCHANGED Own(u)
    <2>1. CASE HandleInitializingTask(t, reply)
      BY <2>1, ControlApart, DocumentsApart DEF HandleInitializingTask
    <2>2. CASE HandleRunTask(t, reply)
      BY <2>2, ControlApart, DocumentsApart DEF HandleRunTask
    <2>3. CASE EarlyCheck(t, reply) \/ LateCheck(t, reply)
      BY <2>3, ControlApart DEF EarlyCheck, LateCheck, CheckCanceled
    <2>4. CASE ReadStartLog(t, reply) \/ ReadExecutorLog(t, reply)
      BY <2>4, ControlApart DEF ReadStartLog, ReadExecutorLog, ReadLogs, TypeOK, HandlersTypeOK
    <2>5. CASE WriteStartTime(t, TRUE, reply)
      BY <2>5, ControlApart, DocumentsApart DEF WriteStartTime
    <2>6. CASE WriteExecutorLog(t, reply)
      BY <2>6, ControlApart, DocumentsApart DEF WriteExecutorLog
    <2>7. CASE SetExecutorError(t, reply)
      BY <2>7, ControlApart, DocumentsApart DEF SetExecutorError
    <2>8. CASE SetComplete(t, reply)
      BY <2>8, ControlApart, DocumentsApart DEF SetComplete
    <2>9. CASE ExceptCheck(t, reply)
      BY <2>9, ControlApart DEF ExceptCheck
    <2>10. CASE HandleUpdate(t, reply)
      BY <2>10, ControlApart, DocumentsApart DEF HandleUpdate
    <2>11. CASE ShutdownUpdate(t, reply)
      BY <2>11, ControlApart, DocumentsApart DEF ShutdownUpdate
    <2>. QED
      BY <1>3, <2>1, <2>2, <2>3, <2>4, <2>5, <2>6, <2>7, <2>8, <2>9, <2>10, <2>11 DEF DbStep
  <1>4. ASSUME NEW reply \in PulsarReply, PulsarStep(t, reply)
        PROVE  UNCHANGED Own(u)
    <2>1. CASE SetupJob(t, reply)
      BY <2>1, ControlApart, JobsApart DEF SetupJob
    <2>2. CASE RunJob(t, reply)
      BY <2>2, ControlApart, JobsApart DEF RunJob, StartPolling, TypeOK, HandlersTypeOK
    <2>3. CASE EraseCancel(t, reply)
      BY <2>3, ControlApart, JobsApart DEF EraseCancel
    <2>4. CASE EraseDelete(t, reply)
      BY <2>4, ControlApart, JobsApart DEF EraseDelete
    <2>5. ASSUME NEW e, SetupInput(t, TRUE, e)
          PROVE  UNCHANGED Own(u)
      BY <2>5, ControlApart DEF SetupInput
    <2>6. ASSUME NEW e, PollStatus(t, e)
          PROVE  UNCHANGED Own(u)
      BY <2>6, ControlApart DEF PollStatus, TypeOK, HandlersTypeOK
    <2>. QED
      BY <1>4, <2>1, <2>2, <2>3, <2>4, <2>5, <2>6 DEF PulsarStep
  <1>. QED
    BY <1>1, <1>2, <1>3, <1>4 DEF HandlerStep

-----------------------------------------------------------------------------
(***************************************************************************)
(* Each group of actions preserves the invariant.                          *)
(***************************************************************************)
\* A step of the handler of a task keeps that task's invariant.
LEMMA HandlerStepInv ==
  ASSUME TypeOK, NEW t \in Task, TaskInv(t), HandlerStep(t)
  PROVE  TaskInv(t)'
  <1>1. ASSUME NEW reply \in DbReply, DbStep(t, reply)
        PROVE  TaskInv(t)'
    BY <1>1, HandleInitializingTaskInv, HandleRunTaskInv, EarlyCheckInv, ReadStartLogInv,
       WriteStartTimeInv, ReadExecutorLogInv, WriteExecutorLogInv, LateCheckInv,
       SetExecutorErrorInv, SetCompleteInv, ExceptCheckInv, HandleUpdateInv, ShutdownUpdateInv
    DEF DbStep
  <1>2. ASSUME NEW reply \in PulsarReply, PulsarStep(t, reply)
        PROVE  TaskInv(t)'
    <2>1. RequestErrors("JSON", reply) \subseteq {"none", "Connection", "Unknown"}
      BY RequestErrorsType
    <2>. QED
      BY <1>2, <2>1, SetupJobInv, RunJobInv, EraseCancelInv, EraseDeleteInv, SetupInputInv,
         PollStatusInv
      DEF PulsarStep
  <1>. QED
    BY <1>1, <1>2, HandleQueuedTaskInv, DispatchRunTaskInv DEF HandlerStep

\* A step of a handler keeps the types.
LEMMA HandlerStepTypes ==
  ASSUME TypeOK, NEW t \in Task, TaskInv(t), HandlerStep(t)
  PROVE  TypeOK'
  <1>1. Collected(t)
    BY DEF TaskInv, CodeInv, Collected, HasCode, TypeOK, HandlersTypeOK, JobResult, ReturnCode
  <1>. QED
    BY <1>1, DispatchTypes, DbStepTypes, PulsarStepTypes DEF HandlerStep, TypeOK, HandlerTypes

\* What clients, Pulsar and the operator do keeps the types.
LEMMA EnvironmentTypes ==
  ASSUME TypeOK, EnvironmentStep
  PROVE  TypeOK'
  BY OutsideTypes, DispatchTypes DEF TypeOK, HandlerTypes, EnvironmentStep

\* A task whose handlers are gone keeps its invariant.
LEMMA CrashInv ==
  ASSUME TypeOK, NEW t \in Task, TaskInv(t), NEW w \in Worker, Crash(w)
  PROVE  TaskInv(t)'
  <1>. USE DEF TypeOK, HandlersTypeOK, localVars, dbVars, pulsarVars, TaskInv, Crash
  <1>1. UNCHANGED <<state, logs, visited, pulsarVars, err, rc, polls, snapshot>>
        /\ (pc'[t] = "idle" \/ pc'[t] = pc[t])
    OBVIOUS
  <1>2. VisitedInv(t)' /\ StageInv(t)'
    BY <1>1 DEF VisitedInv, StageInv, StageStates, TryBody, DocState, TesTaskState,
                RepositoryTypeOK
  <1>3. SubmitInv(t)' /\ CodeInv(t)'
    BY <1>1 DEF SubmitInv, CodeInv, BeforeSubmit, HasCode
  <1>4. ExecLogInv(t)' /\ SystemLogInv(t)' /\ EraseInv(t)'
    BY <1>1 DEF ExecLogInv, SystemLogInv, EraseInv, BeforeSubmit, HoldsLogs, HasLog
  <1>. QED
    BY <1>2, <1>3, <1>4

\* What clients, Pulsar and the operator do keeps the invariant of every task.
LEMMA EnvironmentInv ==
  ASSUME IInv, EnvironmentStep, NEW u \in Task
  PROVE  TaskInv(u)'
  <1>. USE DEF IInv, localVars, dbVars, pulsarVars, handlerVars
  <1>1. ASSUME NEW t \in Task, NEW reply \in DbReply, CancelTask(t, reply)
        PROVE  TaskInv(u)'
    <2>1. CASE u = t
      BY <1>1, <2>1, CancelTaskInv
    <2>2. CASE u # t
      BY <1>1, <2>2, DocumentsApart, Undisturbed DEF CancelTask, Own
    <2>. QED
      BY <2>1, <2>2
  <1>2. ASSUME NEW t \in Task, NEW w \in Worker, NEW list \in InputLists, NEW reply \in DbReply,
               CreateTask(t, w, list, reply)
        PROVE  TaskInv(u)'
    <2>1. CASE u = t
      BY <1>2, <2>1, CreateTaskInv
    <2>2. CASE u # t
      <3>1. UNCHANGED <<state[u], logs[u], visited[u]>>
        BY <1>2, <2>2, DocumentsApart DEF CreateTask
      <3>2. UNCHANGED <<pc[u], err[u], rc[u], polls[u], snapshot[u], pulsarVars>>
        BY <1>2, <2>2 DEF CreateTask, TypeOK, HandlersTypeOK
      <3>. QED
        BY <3>1, <3>2, Undisturbed DEF Own
    <2>. QED
      BY <2>1, <2>2
  <1>3. ASSUME NEW t \in Task, NEW code \in ReturnCode,
               JobFinishes(t, code) /\ UNCHANGED <<handlerVars, dbVars>>
        PROVE  TaskInv(u)'
    <2>1. CASE u = t
      BY <1>3, <2>1, JobFinishesInv
    <2>2. CASE u # t
      <3>1. UNCHANGED Own(u)
        BY <1>3, <2>2 DEF JobFinishes, Own, TypeOK, PulsarTypeOK
      <3>. QED
        BY <3>1, Undisturbed
    <2>. QED
      BY <2>1, <2>2
  <1>4. ASSUME NEW t \in Task, HandlerCancelled(t)
        PROVE  TaskInv(u)'
    <2>1. CASE u = t
      BY <1>4, <2>1, HandlerCancelledInv
    <2>2. CASE u # t
      BY <1>4, <2>2, ControlApart, Undisturbed DEF HandlerCancelled, Own
    <2>. QED
      BY <2>1, <2>2
  <1>5. ASSUME NEW w \in Worker, Crash(w)
        PROVE  TaskInv(u)'
    BY <1>5, CrashInv
  <1>. QED
    BY <1>1, <1>2, <1>3, <1>4, <1>5 DEF EnvironmentStep

-----------------------------------------------------------------------------
(***************************************************************************)
(* IInv is an invariant.                                                   *)
(***************************************************************************)
\* No task and no handler exists at the start.
LEMMA InitInv == Init => IInv
  <1>. SUFFICES ASSUME Init PROVE IInv
    OBVIOUS
  <1>. USE DEF Init, InitRepository, InitPulsar, InitHandlers, EmptyLog
  <1>1. TypeOK
    BY InputListsAssumption, MaxPollsAssumption
    DEF TypeOK, RepositoryTypeOK, PulsarTypeOK, HandlersTypeOK, DocState, TesTaskLog, JobState,
        JobResult, Label, Outside
  <1>2. ASSUME NEW t \in Task
        PROVE  TaskInv(t)
    BY DEF TaskInv, VisitedInv, StageInv, SubmitInv, CodeInv, ExecLogInv, SystemLogInv, EraseInv,
       StageStates, DocState, TryBody, BeforeSubmit, HasCode, HasLog, HoldsLogs
  <1>. QED
    BY <1>1, <1>2 DEF IInv

\* Every step keeps the invariant.
LEMMA StepInv == IInv /\ [Next]_vars => IInv'
  <1>. SUFFICES ASSUME IInv, [Next]_vars PROVE IInv'
    OBVIOUS
  <1>1. CASE EnvironmentStep
    BY <1>1, EnvironmentTypes, EnvironmentInv DEF IInv
  <1>2. ASSUME NEW t \in Task, HandlerStep(t)
        PROVE  IInv'
    <2>1. TypeOK'
      BY <1>2, HandlerStepTypes DEF IInv
    <2>2. ASSUME NEW u \in Task
          PROVE  TaskInv(u)'
      <3>1. CASE u = t
        BY <1>2, <3>1, HandlerStepInv DEF IInv
      <3>2. CASE u # t
        BY <1>2, <3>2, HandlersApart, Undisturbed DEF IInv
      <3>. QED
        BY <3>1, <3>2
    <2>. QED
      BY <2>1, <2>2 DEF IInv
  <1>3. CASE UNCHANGED vars
    <2>1. TypeOK'
      BY <1>3 DEF IInv, TypeOK, RepositoryTypeOK, PulsarTypeOK, HandlersTypeOK, vars, dbVars,
                  pulsarVars, handlerVars
    <2>2. ASSUME NEW u \in Task
          PROVE  TaskInv(u)'
      BY <1>3, Undisturbed DEF IInv, Own, vars, dbVars, pulsarVars, handlerVars
    <2>. QED
      BY <2>1, <2>2 DEF IInv
  <1>. QED
    BY <1>1, <1>2, <1>3 DEF Next

\* At every await of every handler the task, its job and its logs are what the
\* code after the await relies on, whatever failed, stopped or interfered.
THEOREM InvariantHolds == Safety => []IInv
  BY InitInv, StepInv, PTL DEF Safety

\* Every variable keeps to its type.
THEOREM TypesHold == Spec => []TypeOK
  <1>1. IInv => TypeOK
    BY DEF IInv
  <1>. QED
    BY <1>1, InvariantHolds, PTL DEF Spec

\* Only its client takes a task away from its handler: at every await the
\* document is in the state the handler left it in, or CANCELED.
THEOREM OnlyClientInterferesHolds == Spec => []OnlyClientInterferes
  <1>1. IInv => OnlyClientInterferes
    BY DEF IInv, TaskInv, StageInv, OnlyClientInterferes
  <1>. QED
    BY <1>1, InvariantHolds, PTL DEF Spec

\* COMPLETE and EXECUTOR_ERROR are the outcome of the task's own job, whose
\* return code is the one executor log of the task from then on.
THEOREM OutcomeMatchesJobHolds == Spec => []OutcomeMatchesJob
  <1>1. IInv => OutcomeMatchesJob
    BY DEF IInv, TaskInv, ExecLogInv, OutcomeMatchesJob
  <1>. QED
    BY <1>1, InvariantHolds, PTL DEF Spec

\* A cancellation and an outcome, or two outcomes, exclude each other.
THEOREM OneOutcomeHolds == Spec => []OneOutcome
  <1>1. IInv => OneOutcome
    BY DEF IInv, TaskInv, VisitedInv, OneOutcome
  <1>. QED
    BY <1>1, InvariantHolds, PTL DEF Spec

\* A command is submitted at most once, and never for a task that was taken
\* away before it was RUNNING.
THEOREM SubmittedOnlyWhenRunHolds == Spec => []SubmittedOnlyWhenRun
  <1>1. IInv => SubmittedOnlyWhenRun
    BY DEF IInv, TaskInv, SubmitInv, SubmittedOnlyWhenRun
  <1>. QED
    BY <1>1, InvariantHolds, PTL DEF Spec

\* The system log of a SYSTEM_ERROR is never overwritten.
THEOREM SystemErrorLoggedHolds == Spec => []SystemErrorLogged
  <1>1. IInv => SystemErrorLogged
    BY DEF IInv, TaskInv, SystemLogInv, SystemErrorLogged
  <1>. QED
    BY <1>1, InvariantHolds, PTL DEF Spec

\* Every reported failure but a lost connection comes after the request to
\* delete the job.
THEOREM ErasedBeforeReportHolds == Spec => []ErasedBeforeReport
  <1>1. IInv => ErasedBeforeReport
    BY DEF IInv, TaskInv, EraseInv, ErasedBeforeReport
  <1>. QED
    BY <1>1, InvariantHolds, PTL DEF Spec

-----------------------------------------------------------------------------
(***************************************************************************)
(* Handlers count down.                                                    *)
(***************************************************************************)
\* Every await is some way from the end.
LEMMA AwaitsLeftType ==
  ASSUME NEW label \in Label
  PROVE  AwaitsLeft(label) \in 0..21
  <1>1. CASE label \in TryBody
    BY <1>1 DEF AwaitsLeft, TryBody
  <1>2. CASE label \in MaybeInTry
    BY <1>2 DEF AwaitsLeft, MaybeInTry
  <1>3. CASE label \in Outside
    BY <1>3 DEF AwaitsLeft, Outside
  <1>. QED
    BY <1>1, <1>2, <1>3 DEF Label

\* Which awaits come before the two loops.
LEMMA BeforeLoops ==
  ASSUME NEW label \in Label
  PROVE  /\ AwaitsLeft(label) > 18 => label \in {"queued_task", "setup_job", "initialize_task"}
         /\ label \in {"queued_task", "setup_job", "initialize_task"} => AwaitsLeft(label) > 18
         /\ AwaitsLeft(label) = 18 <=> label = "setup_data"
         /\ AwaitsLeft(label) = 12 <=> label = "poll"
  <1>1. CASE label \in {"queued_task", "setup_job", "initialize_task"}
    <2>1. AwaitsLeft(label) \in 19..21
      BY <1>1 DEF AwaitsLeft
    <2>. QED
      BY <1>1, <2>1
  <1>2. CASE label \in {"setup_data", "poll"}
    <2>1. AwaitsLeft("setup_data") = 18 /\ AwaitsLeft("poll") = 12
      BY DEF AwaitsLeft
    <2>. QED
      BY <1>2, <2>1
  <1>3. CASE label \notin {"queued_task", "setup_job", "initialize_task", "setup_data", "poll"}
    <2>1. AwaitsLeft(label) \in 0..11 \cup 13..17
      BY <1>3 DEF AwaitsLeft, Label, TryBody, MaybeInTry, Outside
    <2>. QED
      BY <1>3, <2>1
  <1>. QED
    BY <1>1, <1>2, <1>3

\* The counters of the loops are within their bounds.
LEMMA CountersType ==
  ASSUME TypeOK, NEW t \in Task
  PROVE  /\ pc[t] \in Label /\ MaxPolls \in Nat /\ polls[t] \in 0..MaxPolls
         /\ input[t] \in Nat /\ Len(inputs[t]) \in Nat
  BY MaxPollsAssumption, InputListsAssumption DEF TypeOK, HandlersTypeOK

\* What is left of a handler is a number.
LEMMA RemainingType == TypeOK => \A t \in Task : Remaining(t) \in Nat
  <1>. SUFFICES ASSUME TypeOK PROVE \A t \in Task : Remaining(t) \in Nat
    OBVIOUS
  <1>. TAKE t \in Task
  <1>1. AwaitsLeft(pc[t]) \in 0..21
    BY CountersType, AwaitsLeftType
  <1>2. InputsLeft(t) \in Nat
    BY CountersType DEF InputsLeft
  <1>3. PollsLeft(t) \in Nat
    BY CountersType DEF PollsLeft
  <1>. QED
    BY <1>1, <1>2, <1>3 DEF Remaining

\* A handler that moves on has less left, whatever the loops have in store.
LEMMA MovingOn ==
  ASSUME TypeOK, NEW t \in Task, pc'[t] \in Label, polls'[t] \in 0..MaxPolls,
         UNCHANGED inputs[t], AwaitsLeft(pc'[t]) < AwaitsLeft(pc[t]),
         pc'[t] = "setup_data" => input'[t] = 1
  PROVE  Remaining(t)' < Remaining(t) /\ Remaining(t)' \in Nat
  <1>1. AwaitsLeft(pc[t]) \in 0..21 /\ AwaitsLeft(pc'[t]) \in 0..21
    BY CountersType, AwaitsLeftType
  <1>2. /\ InputsLeft(t) \in Nat /\ InputsLeft(t)' \in Nat
        /\ InputsLeft(t)' <= InputsLeft(t)
    <2>. DEFINE First == {"queued_task", "setup_job", "initialize_task"}
    <2>0. /\ pc'[t] \in First \cup {"setup_data"} => pc[t] \in First
          /\ "setup_data" \notin First
      <3>1. /\ pc'[t] \in First \cup {"setup_data"} => AwaitsLeft(pc'[t]) > 17
            /\ AwaitsLeft(pc[t]) > 18 => pc[t] \in First
        BY <1>1, CountersType, BeforeLoops
      <3>2. pc'[t] \in First \cup {"setup_data"} => AwaitsLeft(pc[t]) > 18
        BY <1>1, <3>1
      <3>. QED
        BY <3>1, <3>2
    <2>1. CASE pc'[t] \in First
      <3>1. InputsLeft(t) = Len(inputs[t]) /\ InputsLeft(t)' = Len(inputs[t])
        BY <2>0, <2>1 DEF InputsLeft
      <3>. QED
        BY <3>1, CountersType
    <2>2. CASE pc'[t] = "setup_data"
      <3>1. InputsLeft(t) = Len(inputs[t])
        BY <2>0, <2>2 DEF InputsLeft
      <3>2. InputsLeft(t)' = IF 1 <= Len(inputs[t]) THEN Len(inputs[t]) + 1 - 1 ELSE 0
        BY <2>0, <2>2 DEF InputsLeft
      <3>. QED
        BY <3>1, <3>2, CountersType
    <2>3. CASE pc'[t] \notin First \cup {"setup_data"}
      <3>1. InputsLeft(t)' = 0
        BY <2>3 DEF InputsLeft
      <3>2. InputsLeft(t) \in Nat
        BY CountersType DEF InputsLeft
      <3>. QED
        BY <3>1, <3>2
    <2>. QED
      BY <2>1, <2>2, <2>3
  <1>3. /\ PollsLeft(t) \in Nat /\ PollsLeft(t)' \in Nat
        /\ PollsLeft(t)' <= PollsLeft(t)
    <2>0. AwaitsLeft("poll") = 12
      BY DEF AwaitsLeft
    <2>1. PollsLeft(t) \in Nat /\ PollsLeft(t)' \in 0..MaxPolls
      BY CountersType DEF PollsLeft
    <2>2. CASE AwaitsLeft(pc[t]) > 12
      <3>1. PollsLeft(t) = MaxPolls
        BY <2>0, <2>2 DEF PollsLeft
      <3>. QED
        BY <2>1, <3>1, CountersType
    <2>3. CASE AwaitsLeft(pc[t]) <= 12
      <3>1. AwaitsLeft(pc'[t]) < 12 /\ pc'[t] # "poll"
        BY <1>1, <2>0, <2>3
      <3>2. PollsLeft(t)' = 0
        BY <1>1, <2>0, <3>1 DEF PollsLeft
      <3>. QED
        BY <2>1, <3>2
    <2>. QED
      BY <1>1, <2>2, <2>3
  <1>. QED
    BY <1>1, <1>2, <1>3 DEF Remaining

\* Where control is after an await.
LEMMA ControlAt ==
  ASSUME TypeOK, NEW t \in Task, NEW label
  PROVE  /\ Goto(t, label) => pc'[t] = label /\ err'[t] = err[t]
         /\ \A e : ThenOrHandle(t, e, label) =>
              err'[t] = e /\ pc'[t] = IF e = "none" THEN label ELSE ErrorEntry(e)
         /\ \A e : ThenOrExcept(t, e, label) =>
              err'[t] = e /\ pc'[t] = IF e = "none" THEN label ELSE "except_check"
  BY DEF Goto, ThenOrHandle, ThenOrExcept, TypeOK, HandlersTypeOK

\* Every step of a handler leaves it less to do: it moves on, or it counts a turn
\* of the loop it is in.
LEMMA HandlerStepCounts ==
  ASSUME IInv, NEW t \in Task, HandlerStep(t)
  PROVE  Remaining(t)' < Remaining(t)
  <1>. USE DEF IInv, localVars
  <1>1. TypeOK' /\ pc'[t] \in Label /\ polls'[t] \in 0..MaxPolls
    BY HandlerStepTypes DEF TypeOK, HandlersTypeOK
  <1>2. ASSUME UNCHANGED inputs[t], AwaitsLeft(pc'[t]) < AwaitsLeft(pc[t]),
               pc'[t] = "setup_data" => input'[t] = 1
        PROVE  Remaining(t)' < Remaining(t)
    BY <1>1, <1>2, MovingOn
  <1>3. CASE HandleQueuedTask(t) \/ DispatchRunTask(t)
    <2>1. \/ pc[t] = "queued_task" /\ pc'[t] = "setup_job"
          \/ pc[t] = "setup_data" /\ pc'[t] = "run_task"
      BY <1>3, ControlAt DEF HandleQueuedTask, DispatchRunTask
    <2>2. UNCHANGED inputs[t]
      BY <1>3 DEF HandleQueuedTask, DispatchRunTask
    <2>. QED
      BY <1>2, <2>1, <2>2 DEF AwaitsLeft
  <1>4. ASSUME NEW reply \in DbReply, DbStep(t, reply)
        PROVE  Remaining(t)' < Remaining(t)
    <2>1. UNCHANGED inputs[t]
      BY <1>4 DEF DbStep, HandleInitializingTask, HandleRunTask, EarlyCheck, LateCheck,
                  CheckCanceled, ReadStartLog, ReadExecutorLog, ReadLogs, WriteStartTime,
                  WriteExecutorLog, SetExecutorError, SetComplete, ExceptCheck, HandleUpdate,
                  ShutdownUpdate
    <2>2. CASE HandleInitializingTask(t, reply)
      <3>1. /\ pc[t] = "initialize_task" /\ input'[t] = 1
            /\ pc'[t] \in {"setup_data", "idle", "handle_update", "handle_cancel"}
        BY <2>2, ControlAt DEF HandleInitializingTask, ErrorEntry, TypeOK, HandlersTypeOK
      <3>. QED
        BY <1>2, <2>1, <3>1 DEF AwaitsLeft
    <2>3. CASE HandleRunTask(t, reply)
      <3>1. pc[t] = "run_task" /\ pc'[t] \in {"early_check", "except_check"}
        BY <2>3, ControlAt DEF HandleRunTask
      <3>. QED
        BY <1>2, <2>1, <3>1 DEF AwaitsLeft
    <2>4. CASE EarlyCheck(t, reply) \/ LateCheck(t, reply)
      <3>1. \/ pc[t] = "early_check" /\ pc'[t] \in {"start_log_read", "idle", "except_check"}
            \/ /\ pc[t] = "late_check"
               /\ pc'[t] \in {"set_complete", "set_error", "idle", "except_check"}
        BY <2>4, ControlAt DEF EarlyCheck, LateCheck, CheckCanceled, OutcomeLabel
      <3>. QED
        BY <1>2, <2>1, <3>1 DEF AwaitsLeft
    <2>5. CASE ReadStartLog(t, reply) \/ ReadExecutorLog(t, reply)
      <3>1. \/ pc[t] = "start_log_read" /\ pc'[t] \in {"start_log_write", "except_check"}
            \/ pc[t] = "exec_log_read" /\ pc'[t] \in {"exec_log_write", "except_check"}
        BY <2>5, ControlAt DEF ReadStartLog, ReadExecutorLog, ReadLogs
      <3>. QED
        BY <1>2, <2>1, <3>1 DEF AwaitsLeft
    <2>6. CASE WriteStartTime(t, TRUE, reply) \/ WriteExecutorLog(t, reply)
      <3>1. \/ pc[t] = "start_log_write" /\ pc'[t] \in {"run_job", "except_check"}
            \/ pc[t] = "exec_log_write" /\ pc'[t] \in {"late_check", "except_check"}
        BY <2>6, ControlAt DEF WriteStartTime, WriteExecutorLog
      <3>. QED
        BY <1>2, <2>1, <3>1 DEF AwaitsLeft
    <2>7. CASE SetExecutorError(t, reply) \/ SetComplete(t, reply)
      <3>1. \/ pc[t] = "set_error" /\ pc'[t] \in {"error_cancel", "except_check"}
            \/ /\ pc[t] = "set_complete"
               /\ pc'[t] \in {"done_cancel", "idle", "handle_update", "handle_cancel"}
        BY <2>7, ControlAt DEF SetExecutorError, SetComplete, ErrorEntry
      <3>. QED
        BY <1>2, <2>1, <3>1 DEF AwaitsLeft
    <2>8. CASE ExceptCheck(t, reply) \/ HandleUpdate(t, reply) \/ ShutdownUpdate(t, reply)
      <3>1. \/ /\ pc[t] = "except_check"
               /\ pc'[t] \in {"idle", "handle_update", "handle_cancel"}
            \/ pc[t] \in {"handle_update", "shutdown_update"} /\ pc'[t] = "idle"
        BY <2>8, ControlAt DEF ExceptCheck, HandleUpdate, ShutdownUpdate, ErrorEntry
      <3>. QED
        BY <1>2, <2>1, <3>1 DEF AwaitsLeft
    <2>. QED
      BY <1>4, <2>2, <2>3, <2>4, <2>5, <2>6, <2>7, <2>8 DEF DbStep
  <1>5. ASSUME NEW reply \in PulsarReply,
               \/ SetupJob(t, reply)
               \/ RunJob(t, reply)
               \/ EraseCancel(t, reply)
               \/ EraseDelete(t, reply)
        PROVE  Remaining(t)' < Remaining(t)
    <2>1. UNCHANGED inputs[t]
      BY <1>5 DEF SetupJob, RunJob, StartPolling, EraseCancel, EraseDelete
    <2>2. CASE SetupJob(t, reply) \/ RunJob(t, reply)
      <3>1. \/ /\ pc[t] = "setup_job"
               /\ pc'[t] \in {"initialize_task", "idle", "handle_update", "handle_cancel"}
            \/ pc[t] = "run_job" /\ pc'[t] \in {"poll", "except_check"}
        BY <2>2, ControlAt DEF SetupJob, RunJob, ErrorEntry
      <3>. QED
        BY <1>2, <2>1, <3>1 DEF AwaitsLeft
    <2>3. CASE EraseCancel(t, reply)
      <3>1. \/ pc[t] = "error_cancel" /\ pc'[t] = "error_delete"
            \/ pc[t] = "done_cancel" /\ pc'[t] = "done_delete"
            \/ pc[t] = "handle_cancel" /\ pc'[t] = "handle_delete"
        BY <2>3, ControlAt DEF EraseCancel
      <3>. QED
        BY <1>2, <2>1, <3>1 DEF AwaitsLeft
    <2>4. CASE EraseDelete(t, reply)
      <3>1. \/ pc[t] = "error_delete" /\ pc'[t] \in {"idle", "except_check"}
            \/ pc[t] = "done_delete" /\ pc'[t] \in {"idle", "handle_update", "handle_cancel"}
            \/ pc[t] = "handle_delete" /\ pc'[t] \in {"idle", "handle_update"}
        BY <2>4, ControlAt DEF EraseDelete, ErrorEntry, AfterErase
      <3>. QED
        BY <1>2, <2>1, <3>1 DEF AwaitsLeft
    <2>. QED
      BY <1>5, <2>2, <2>3, <2>4
  <1>6. ASSUME NEW e, SetupInput(t, TRUE, e)
        PROVE  Remaining(t)' < Remaining(t)
    <2>1. /\ pc[t] = "setup_data" /\ input[t] <= Len(inputs[t]) /\ input'[t] = input[t] + 1
          /\ UNCHANGED inputs[t]
          /\ pc'[t] \in {"setup_data", "idle", "handle_update", "handle_cancel"}
      BY <1>6, ControlAt DEF SetupInput, ErrorEntry, TypeOK, HandlersTypeOK
    <2>2. CASE pc'[t] = "setup_data"
      <3>1. AwaitsLeft("setup_data") = 18 /\ AwaitsLeft("poll") = 12
        BY DEF AwaitsLeft
      <3>2. InputsLeft(t)' < InputsLeft(t) /\ InputsLeft(t) \in Nat /\ InputsLeft(t)' \in Nat
        <4>1. InputsLeft(t) = Len(inputs[t]) + 1 - input[t]
          BY <2>1 DEF InputsLeft
        <4>2. InputsLeft(t)' = IF input[t] + 1 <= Len(inputs[t])
                                 THEN Len(inputs[t]) + 1 - (input[t] + 1)
                                 ELSE 0
          BY <2>1, <2>2 DEF InputsLeft
        <4>. QED
          BY <2>1, <4>1, <4>2, CountersType, SMTT(30)
      <3>3. PollsLeft(t) = MaxPolls /\ PollsLeft(t)' = MaxPolls
        BY <2>1, <2>2, <3>1 DEF PollsLeft
      <3>. QED
        BY <2>1, <2>2, <3>1, <3>2, <3>3, CountersType DEF Remaining
    <2>3. CASE pc'[t] # "setup_data"
      BY <1>2, <2>1, <2>3 DEF AwaitsLeft
    <2>. QED
      BY <2>2, <2>3
  <1>7. ASSUME NEW e, PollStatus(t, e)
        PROVE  Remaining(t)' < Remaining(t)
    <2>1. /\ pc[t] = "poll" /\ UNCHANGED inputs[t]
          /\ \/ pc'[t] \in {"exec_log_read", "except_check"}
             \/ pc'[t] = "poll" /\ polls'[t] = polls[t] + 1
      BY <1>7, ControlAt DEF PollStatus, TypeOK, HandlersTypeOK
    <2>2. CASE pc'[t] = "poll"
      <3>1. AwaitsLeft("poll") = 12
        BY DEF AwaitsLeft
      <3>2. InputsLeft(t) = 0
        BY <2>1 DEF InputsLeft
      <3>3. InputsLeft(t)' = 0
        BY <2>2 DEF InputsLeft
      <3>4. PollsLeft(t) = MaxPolls - polls[t]
        BY <2>1, <3>1 DEF PollsLeft
      <3>5. PollsLeft(t)' = MaxPolls - polls'[t]
        BY <2>2, <3>1 DEF PollsLeft
      <3>. QED
        BY <2>1, <2>2, <3>1, <3>2, <3>3, <3>4, <3>5, CountersType DEF Remaining
    <2>3. CASE pc'[t] # "poll"
      BY <1>2, <2>1, <2>3 DEF AwaitsLeft
    <2>. QED
      BY <2>2, <2>3
  <1>. QED
    BY <1>3, <1>4, <1>5, <1>6, <1>7 DEF HandlerStep, PulsarStep

\* A task that no step touches has as much left as before.
LEMMA SameLeft ==
  ASSUME TypeOK, NEW t \in Task, UNCHANGED <<pc[t], polls[t], input[t], inputs[t]>>
  PROVE  Remaining(t)' = Remaining(t)
  BY DEF Remaining, InputsLeft, PollsLeft

\* The handler of another task changes nothing of this one.
LEMMA OthersStay ==
  ASSUME TypeOK, NEW t \in Task, NEW u \in Task, u # t, HandlerStep(t)
  PROVE  Remaining(u)' = Remaining(u)
  <1>1. UNCHANGED <<pc[u], polls[u]>>
    BY HandlersApart DEF Own
  <1>2. UNCHANGED <<input[u], inputs[u]>>
    BY DEF HandlerStep, DbStep, PulsarStep, HandleQueuedTask, DispatchRunTask,
           HandleInitializingTask, HandleRunTask, EarlyCheck, LateCheck, CheckCanceled,
           ReadStartLog, ReadExecutorLog, ReadLogs, WriteStartTime, WriteExecutorLog,
           SetExecutorError, SetComplete, ExceptCheck, HandleUpdate, ShutdownUpdate, SetupJob,
           RunJob, StartPolling, EraseCancel, EraseDelete, SetupInput, PollStatus, localVars,
           TypeOK, HandlersTypeOK
  <1>. QED
    BY <1>1, <1>2, SameLeft

\* A handler that is cut off is at its end or next to it.
LEMMA CutOff ==
  /\ AwaitsLeft("idle") = 0 /\ AwaitsLeft("shutdown_update") = 1
  /\ \A label \in Label \ {"idle", "shutdown_update"} : AwaitsLeft(label) \in 2..21
  BY DEF AwaitsLeft, Label, TryBody, MaybeInTry, Outside

\* Clients, Pulsar and the operator never make a running handler's way longer.
LEMMA EnvironmentCounts ==
  ASSUME IInv, EnvironmentStep, NEW u \in Task, pc[u] # "idle"
  PROVE  Remaining(u)' <= Remaining(u)
  <1>. USE DEF IInv
  <1>0. Remaining(u) \in Nat
    BY RemainingType
  <1>1. ASSUME NEW t \in Task, NEW w \in Worker, NEW list \in InputLists, NEW reply \in DbReply,
               CreateTask(t, w, list, reply)
        PROVE  Remaining(u)' <= Remaining(u)
    <2>1. u # t
      BY <1>1 DEF CreateTask, InsertTask, TaskInv, VisitedInv
    <2>2. UNCHANGED <<pc[u], polls[u], input[u], inputs[u]>>
      BY <1>1, <2>1 DEF CreateTask, TypeOK, HandlersTypeOK
    <2>. QED
      BY <1>0, <2>2, SameLeft
  <1>2. ASSUME NEW t \in Task,
               \/ \E reply \in DbReply : CancelTask(t, reply)
               \/ \E code \in ReturnCode :
                    JobFinishes(t, code) /\ UNCHANGED <<handlerVars, dbVars>>
        PROVE  Remaining(u)' <= Remaining(u)
    BY <1>0, <1>2, SameLeft DEF CancelTask, handlerVars
  <1>3. ASSUME \/ \E t \in Task : HandlerCancelled(t)
               \/ \E w \in Worker : Crash(w)
        PROVE  Remaining(u)' <= Remaining(u)
    <2>1. UNCHANGED <<polls[u], input[u], inputs[u]>>
      BY <1>3 DEF HandlerCancelled, Crash, localVars
    <2>2. \/ pc'[u] = pc[u]
          \/ pc'[u] = "idle"
          \/ pc'[u] = "shutdown_update" /\ pc[u] # "shutdown_update"
      BY <1>3 DEF HandlerCancelled, Crash, Goto, TypeOK, HandlersTypeOK
    <2>3. CASE pc'[u] = pc[u]
      BY <1>0, <2>1, <2>3, SameLeft
    <2>4. CASE pc'[u] # pc[u]
      <3>1. pc'[u] \in Label /\ polls'[u] \in 0..MaxPolls
        <4>1. {"idle", "shutdown_update"} \subseteq Label
          BY DEF Label, Outside
        <4>. QED
          BY <2>1, <2>2, <4>1, CountersType
      <3>2. pc[u] \in {"idle", "shutdown_update"} \/ AwaitsLeft(pc[u]) \in 2..21
        BY CutOff, CountersType
      <3>3. AwaitsLeft(pc'[u]) < AwaitsLeft(pc[u])
        BY <2>2, <2>4, <3>2, CutOff
      <3>4. Remaining(u)' < Remaining(u) /\ Remaining(u)' \in Nat
        BY <2>1, <2>2, <2>4, <3>1, <3>3, MovingOn
      <3>. QED
        BY <1>0, <3>4
    <2>. QED
      BY <2>3, <2>4
  <1>. QED
    BY <1>1, <1>2, <1>3 DEF EnvironmentStep

\* Whatever fails, is canceled or stops, and for any bound on the polling and any
\* inputs, a handler has less to do after each of its steps and never more.
THEOREM HandlersCountDownHolds == Spec => HandlersCountDown
  <1>0. TypeOK' => (\A t \in Task : Remaining(t) \in Nat)'
    BY RemainingType, PTL
  <1>1. ASSUME IInv, IInv', [Next]_vars, NEW t \in Task
        PROVE  /\ HandlerStep(t) => Remaining(t)' < Remaining(t)
               /\ pc[t] # "idle" => Remaining(t)' \in 0..Remaining(t)
    <2>1. HandlerStep(t) => Remaining(t)' < Remaining(t)
      BY <1>1, HandlerStepCounts
    <2>2. Remaining(t) \in Nat /\ Remaining(t)' \in Nat
      BY <1>0, <1>1, RemainingType DEF IInv
    <2>3. pc[t] # "idle" => Remaining(t)' <= Remaining(t)
      <3>1. CASE EnvironmentStep
        BY <1>1, <3>1, EnvironmentCounts
      <3>2. ASSUME NEW u \in Task, HandlerStep(u)
            PROVE  Remaining(t)' <= Remaining(t)
        BY <1>1, <2>1, <2>2, <3>2, OthersStay DEF IInv
      <3>3. CASE UNCHANGED vars
        BY <1>1, <2>2, <3>3, SameLeft DEF IInv, vars, handlerVars
      <3>. QED
        BY <1>1, <3>1, <3>2, <3>3 DEF Next
    <2>. QED
      BY <2>1, <2>2, <2>3
  <1>2. IInv /\ IInv' /\ [Next]_vars =>
          [\A t \in Task :
             /\ HandlerStep(t) => Remaining(t)' < Remaining(t)
             /\ pc[t] # "idle" => Remaining(t)' \in 0..Remaining(t)]_vars
    BY <1>1
  <1>. QED
    BY <1>2, InvariantHolds, PTL DEF Spec, Safety, HandlersCountDown

=============================================================================
