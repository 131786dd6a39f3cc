--------------------------- MODULE RestRefinement ---------------------------
(***************************************************************************)
(* What RestLifecycle does step by step: it implements TaskContract, it    *)
(* leaves the logs of finished tasks alone, and, while MongoDB does not    *)
(* fail, it neither abandons tasks nor fails them without a cause.         *)
(***************************************************************************)
EXTENDS RestTheorems

-----------------------------------------------------------------------------
(***************************************************************************)
(* The contract's actions, in terms of the code's variables.               *)
(***************************************************************************)
\* The two modules mean the same sets of states.
LEMMA SameStates ==
  /\ Contract!TesTaskState = TesTaskState
  /\ Contract!Cancelable = Cancelable
  BY DEF Contract!TesTaskState, TesTaskState, Contract!Cancelable, Cancelable

\* A change of a document is a Move of the contract.
LEMMA DocumentMoves ==
  ASSUME TypeOK, NEW t \in Task, NEW from, NEW to, state[t] \in from,
         state' = [state EXCEPT ![t] = to],
         visited' = [visited EXCEPT ![t] = visited[t] \cup {to}],
         UNCHANGED <<submits, result>>
  PROVE  Contract!Move(t, from, to)
  <1>1. visited'[t] = visited[t] \cup {to} /\ \A u \in Task \ {t} : visited'[u] = visited[u]
    BY DEF TypeOK, RepositoryTypeOK
  <1>. QED
    BY <1>1 DEF Contract!Move

\* An update that does not find its document, or finds it, is a stutter or a Move.
LEMMA UpdateMoves ==
  ASSUME TypeOK, NEW t \in Task, NEW old, NEW new, NEW reply,
         UpdateTaskState(t, old, new, reply), UNCHANGED pulsarVars
  PROVE  Contract!Move(t, old, new) \/ UNCHANGED <<dbVars, pulsarVars>>
  <1>1. CASE Updates(t, old, reply)
    BY <1>1, DocumentMoves DEF UpdateTaskState, Updates, Matches, pulsarVars
  <1>2. CASE ~Updates(t, old, reply)
    BY <1>2 DEF UpdateTaskState, dbVars
  <1>. QED
    BY <1>1, <1>2

\* What the contract does not see.
LEMMA ContractStutters ==
  ASSUME UNCHANGED <<state, visited, submits, result>>
  PROVE  UNCHANGED Contract!contractVars
  BY DEF Contract!contractVars

-----------------------------------------------------------------------------
(***************************************************************************)
(* The refinement.                                                         *)
(***************************************************************************)
\* A request other than run_job's is nothing to the contract.
LEMMA OtherRequestsStutter ==
  ASSUME TypeOK, NEW t \in Task, NEW kind, kind # "submit", NEW reply, Request(t, kind, reply),
         UNCHANGED dbVars
  PROVE  UNCHANGED Contract!contractVars
  <1>1. UNCHANGED <<state, visited, submits, result>>
    BY DEF Request, dbVars, TypeOK, PulsarTypeOK
  <1>. QED
    BY <1>1, ContractStutters

\* run_job, which is reached with a RUNNING task and once, is Submit.
LEMMA RunJobSubmits ==
  ASSUME IInv, NEW t \in Task, NEW reply, RunJob(t, reply)
  PROVE  Contract!Submit(t)
  <1>1. "RUNNING" \in visited[t] /\ submits[t] = 0
    BY DEF IInv, TaskInv, StageInv, SubmitInv, TryBody, BeforeSubmit, RunJob
  <1>. QED
    BY <1>1 DEF RunJob, Request, dbVars, Contract!Submit, IInv, TypeOK, PulsarTypeOK

\* The steps on the documents are the contract's moves.
LEMMA DbStepRefines ==
  ASSUME IInv, NEW t \in Task, NEW reply, DbStep(t, reply)
  PROVE  [Contract!Next]_(Contract!contractVars)
  <1>. USE DEF IInv, Contract!Next
  <1>0. UNCHANGED <<dbVars, pulsarVars>> => UNCHANGED Contract!contractVars
    BY ContractStutters DEF dbVars, pulsarVars
  <1>1. ASSUME NEW from, NEW to, NEW r, UpdateTaskState(t, from, to, r), UNCHANGED pulsarVars,
               Contract!Move(t, from, to) => Contract!Next
        PROVE  [Contract!Next]_(Contract!contractVars)
    BY <1>0, <1>1, UpdateMoves
  <1>2. CASE HandleInitializingTask(t, reply)
    BY <1>1, <1>2 DEF HandleInitializingTask, Contract!Initialize
  <1>3. CASE HandleRunTask(t, reply)
    BY <1>1, <1>3 DEF HandleRunTask, Contract!Run
  <1>4. CASE SetExecutorError(t, reply)
    <2>1. result[t] = "nonzero"
      BY <1>4 DEF SetExecutorError, TaskInv, CodeInv, HasCode
    <2>. QED
      BY <1>1, <1>4, <2>1 DEF SetExecutorError, Contract!Fail
  <1>5. CASE SetComplete(t, reply)
    <2>1. result[t] = "zero"
      BY <1>5 DEF SetComplete, TaskInv, CodeInv, HasCode
    <2>. QED
      BY <1>1, <1>5, <2>1 DEF SetComplete, Contract!Complete
  <1>6. CASE HandleUpdate(t, reply)
    <2>1. state[t] # "SYSTEM_ERROR"
      BY <1>6 DEF HandleUpdate, TaskInv, StageInv
    <2>2. CASE Updates(t, TesTaskState, reply)
      <3>1. state[t] \in TesTaskState \ {"SYSTEM_ERROR"}
        BY <2>1, <2>2 DEF Updates, Matches
      <3>2. Contract!Move(t, TesTaskState \ {"SYSTEM_ERROR"}, "SYSTEM_ERROR")
        BY <1>6, <2>2, <3>1, DocumentMoves DEF HandleUpdate, UpdateErrorTask, pulsarVars
      <3>. QED
        BY <3>2, SameStates DEF Contract!GiveUp
    <2>3. CASE ~Updates(t, TesTaskState, reply)
      BY <1>0, <1>6, <2>3 DEF HandleUpdate, UpdateErrorTask, dbVars
    <2>. QED
      BY <2>2, <2>3
  <1>7. CASE ShutdownUpdate(t, reply)
    <2>1. UNCHANGED <<dbVars, pulsarVars>>
      BY <1>7 DEF ShutdownUpdate, UpdateTaskState, Updates, Matches, dbVars
    <2>. QED
      BY <1>0, <2>1
  <1>8. CASE EarlyCheck(t, reply) \/ LateCheck(t, reply) \/ ExceptCheck(t, reply)
    BY <1>0, <1>8 DEF EarlyCheck, LateCheck, ExceptCheck, CheckCanceled
  <1>9. CASE ReadStartLog(t, reply) \/ ReadExecutorLog(t, reply)
    BY <1>0, <1>9 DEF ReadStartLog, ReadExecutorLog, ReadLogs
  <1>10. CASE WriteStartTime(t, TRUE, reply) \/ WriteExecutorLog(t, reply)
    BY <1>10, ContractStutters DEF WriteStartTime, WriteExecutorLog, UpdateTaskLogs, pulsarVars
  <1>. QED
    BY <1>2, <1>3, <1>4, <1>5, <1>6, <1>7, <1>8, <1>9, <1>10 DEF DbStep

\* What clients and Pulsar do is in the contract; the rest of EnvironmentStep is
\* invisible to it.
LEMMA EnvironmentRefines ==
  ASSUME IInv, EnvironmentStep
  PROVE  [Contract!Next]_(Contract!contractVars)
  <1>. USE DEF IInv, Contract!Next
  <1>0. UNCHANGED <<dbVars, pulsarVars>> => UNCHANGED Contract!contractVars
    BY ContractStutters DEF dbVars, pulsarVars
  <1>1. ASSUME NEW t \in Task, NEW reply \in DbReply, CancelTask(t, reply)
        PROVE  [Contract!Next]_(Contract!contractVars)
    BY <1>0, <1>1, UpdateMoves, SameStates DEF CancelTask, Contract!Cancel
  <1>2. ASSUME NEW t \in Task, NEW w \in Worker, NEW list \in InputLists, NEW reply \in DbReply,
               CreateTask(t, w, list, reply)
        PROVE  [Contract!Next]_(Contract!contractVars)
    <2>1. CASE reply # "unsent"
      <3>1. visited[t] = {}
        BY <1>2 DEF CreateTask, InsertTask, TaskInv, VisitedInv
      <3>2. visited' = [visited EXCEPT ![t] = visited[t] \cup {"QUEUED"}]
        BY <1>2, <2>1, <3>1 DEF CreateTask, InsertTask
      <3>3. /\ state[t] \in {"ABSENT"} /\ state' = [state EXCEPT ![t] = "QUEUED"]
            /\ UNCHANGED <<submits, result>>
        BY <1>2, <2>1 DEF CreateTask, InsertTask, pulsarVars
      <3>4. Contract!Move(t, {"ABSENT"}, "QUEUED")
        <4>1. \A from : state[t] \in from => Contract!Move(t, from, "QUEUED")
          BY <3>2, <3>3, DocumentMoves
        <4>. QED
          BY <3>3, <4>1
      <3>. QED
        BY <3>4 DEF Contract!Create
    <2>2. CASE reply = "unsent"
      BY <1>0, <1>2, <2>2 DEF CreateTask, InsertTask, dbVars
    <2>. QED
      BY <2>1, <2>2
  <1>3. ASSUME NEW t \in Task, NEW code \in ReturnCode, JobFinishes(t, code),
               UNCHANGED <<handlerVars, dbVars>>
        PROVE  Contract!JobEnds(t)
    <2>1. submits[t] \in Nat /\ submits[t] <= 1 /\ submits[t] # 0
      BY <1>3 DEF JobFinishes, TaskInv, SubmitInv, TypeOK, PulsarTypeOK
    <2>2. submits[t] = 1
      BY <2>1
    <2>3. code \in {"zero", "nonzero"} /\ result' = [result EXCEPT ![t] = code]
      BY <1>3 DEF JobFinishes, ReturnCode
    <2>4. result[t] = "none" /\ UNCHANGED <<state, visited, submits>>
      BY <1>3 DEF JobFinishes, dbVars
    <2>. QED
      BY <2>2, <2>3, <2>4 DEF Contract!JobEnds
  <1>4. ASSUME NEW t \in Task, HandlerCancelled(t)
        PROVE  UNCHANGED Contract!contractVars
    BY <1>0, <1>4 DEF HandlerCancelled
  <1>5. ASSUME NEW w \in Worker, Crash(w)
        PROVE  UNCHANGED Contract!contractVars
    BY <1>0, <1>5 DEF Crash
  <1>. QED
    BY <1>1, <1>2, <1>3, <1>4, <1>5 DEF EnvironmentStep

\* The documents and the submissions behave as the client was promised, over
\* REST and whatever fails: RestLifecycle implements TaskContract.
THEOREM RefinesContract == Spec => ImplementsContract
  <1>1. Init => Contract!Init
    BY DEF Init, InitRepository, InitPulsar, Contract!Init
  <1>2. IInv /\ [Next]_vars => [Contract!Next]_(Contract!contractVars)
    <2>. SUFFICES ASSUME IInv, [Next]_vars PROVE [Contract!Next]_(Contract!contractVars)
      OBVIOUS
    <2>1. CASE EnvironmentStep
      BY <2>1, EnvironmentRefines
    <2>2. ASSUME NEW t \in Task, HandlerStep(t)
          PROVE  [Contract!Next]_(Contract!contractVars)
      <3>0. UNCHANGED <<dbVars, pulsarVars>> => UNCHANGED Contract!contractVars
        BY ContractStutters DEF dbVars, pulsarVars
      <3>1. CASE HandleQueuedTask(t) \/ DispatchRunTask(t)
        BY <3>0, <3>1 DEF HandleQueuedTask, DispatchRunTask
      <3>2. ASSUME NEW reply \in PulsarReply, PulsarStep(t, reply)
            PROVE  [Contract!Next]_(Contract!contractVars)
        <4>1. CASE RunJob(t, reply)
          BY <4>1, RunJobSubmits DEF Contract!Next
        <4>2. CASE SetupJob(t, reply) \/ EraseCancel(t, reply) \/ EraseDelete(t, reply)
          BY <4>2, OtherRequestsStutter DEF IInv, SetupJob, EraseCancel, EraseDelete
        <4>3. ASSUME NEW e, SetupInput(t, TRUE, e) \/ PollStatus(t, e)
              PROVE  UNCHANGED Contract!contractVars
          BY <3>0, <4>3 DEF SetupInput, PollStatus
        <4>. QED
          BY <3>2, <4>1, <4>2, <4>3 DEF PulsarStep
      <3>. QED
        BY <2>2, <3>1, <3>2, DbStepRefines DEF HandlerStep
    <2>3. CASE UNCHANGED vars
      BY <2>3, ContractStutters DEF vars, dbVars, pulsarVars
    <2>. QED
      BY <2>1, <2>2, <2>3 DEF Next
  <1>. QED
    BY <1>1, <1>2, InvariantHolds, PTL DEF Spec, Safety, ImplementsContract, Contract!Spec

-----------------------------------------------------------------------------
(***************************************************************************)
(* Finished tasks.                                                         *)
(***************************************************************************)
\* A log helper whose document is no longer RUNNING writes nothing, so the logs
\* of the execution stay as they are once the task is final.
THEOREM LogsFrozenAtEndHolds == Spec => LogsFrozenAtEnd
  <1>. DEFINE Frozen(u) == /\ logs'[u].start = logs[u].start
                           /\ logs'[u].exec = logs[u].exec
  <1>1. ASSUME IInv, [Next]_vars, NEW u \in Task, state[u] \in Terminal
        PROVE  Frozen(u)
    <2>. USE <1>1 DEF IInv
    <2>1. logs'[u] = logs[u] => Frozen(u)
      OBVIOUS
    <2>2. ASSUME NEW t \in Task, HandlerStep(t), u # t
          PROVE  Frozen(u)
      BY <2>1, <2>2, HandlersApart DEF Own
    <2>3. ASSUME NEW reply, DbStep(u, reply)
          PROVE  Frozen(u)
      <3>1. CASE WriteStartTime(u, TRUE, reply) \/ WriteExecutorLog(u, reply)
        BY <2>1, <3>1 DEF WriteStartTime, WriteExecutorLog, UpdateTaskLogs, Updates, Matches,
                          Terminal, Cancelable
      <3>2. CASE HandleUpdate(u, reply)
        <4>1. logs' = logs \/ logs' = [logs EXCEPT ![u].system = logs[u].system + 1]
          BY <3>2 DEF HandleUpdate, UpdateErrorTask
        <4>2. logs[u] \in TesTaskLog /\ DOMAIN logs = Task
          BY DEF TypeOK, RepositoryTypeOK
        <4>3. logs'[u] = logs[u] \/ logs'[u] = [logs[u] EXCEPT !.system = logs[u].system + 1]
          BY <4>1, <4>2
        <4>. QED
          BY <4>2, <4>3 DEF TesTaskLog
      <3>3. CASE ~ \/ WriteStartTime(u, TRUE, reply)
                   \/ WriteExecutorLog(u, reply)
                   \/ HandleUpdate(u, reply)
        <4>1. UNCHANGED logs
          BY <2>3, <3>3
          DEF DbStep, HandleInitializingTask, HandleRunTask, EarlyCheck, LateCheck, CheckCanceled,
              ReadStartLog, ReadExecutorLog, ReadLogs, SetExecutorError, SetComplete, ExceptCheck,
              ShutdownUpdate, UpdateTaskState, dbVars
        <4>. QED
          BY <2>1, <4>1
      <3>. QED
        BY <3>1, <3>2, <3>3
    <2>4. ASSUME NEW reply, PulsarStep(u, reply)
          PROVE  UNCHANGED logs
      BY <2>4 DEF PulsarStep, SetupJob, RunJob, EraseCancel, EraseDelete, SetupInput, PollStatus,
                  dbVars
    <2>5. CASE HandlerStep(u)
      BY <2>1, <2>3, <2>4, <2>5 DEF HandlerStep, HandleQueuedTask, DispatchRunTask, dbVars
    <2>6. CASE EnvironmentStep
      BY <2>1, <2>6 DEF EnvironmentStep, CancelTask, UpdateTaskState, CreateTask, InsertTask,
                        HandlerCancelled, Crash, dbVars
    <2>. QED
      BY <2>1, <2>2, <2>5, <2>6 DEF Next, vars, dbVars
  <1>2. IInv /\ [Next]_vars =>
          [\A t \in Task : state[t] \in Terminal =>
              /\ logs'[t].start = logs[t].start
              /\ logs'[t].exec = logs[t].exec]_<<state, logs>>
    BY <1>1
  <1>. QED
    BY <1>2, InvariantHolds, PTL DEF Spec, Safety, LogsFrozenAtEnd

-----------------------------------------------------------------------------
(***************************************************************************)
(* While some kinds of fault do not happen: UpInv and CauseInv, which rest *)
(* on what IInv says of every position.                                    *)
(***************************************************************************)
\* What may be used of the state before a step of one task.
Before(t) == TypeOK /\ VisitedInv(t) /\ StageInv(t) /\ SubmitInv(t) /\ CodeInv(t)

\* The two invariants of a task only look at what belongs to it.
LEMMA ApartFromTask ==
  ASSUME NEW u \in Task, UNCHANGED Own(u)
  PROVE  /\ UpInv(u) => UpInv(u)'
         /\ CauseInv(u) => CauseInv(u)'
  BY DEF Own, UpInv, CauseInv, NotFoundInv

\* While MongoDB is up a call is answered.
LEMMA DbAnswers ==
  ASSUME "db" \notin Faults, NEW reply \in DbReply
  PROVE  reply = "ok"
  BY DEF DbReply

\* An answered update leaves the document in the new state, or finds it elsewhere.
LEMMA AnsweredUpdate ==
  ASSUME TypeOK, NEW t \in Task, NEW old, NEW new, UpdateTaskState(t, old, new, "ok")
  PROVE  state'[t] = IF state[t] \in old THEN new ELSE state[t]
  BY DEF UpdateTaskState, Updates, Matches, TypeOK, RepositoryTypeOK

\* ... and tells its caller, who goes on or raises TaskNotFoundError.
LEMMA AnswerTells ==
  ASSUME TypeOK, NEW t \in Task, NEW old, NEW label
  PROVE  /\ ThenOrExcept(t, GetElseThrow(UpdateResult(t, old, "ok")), label) =>
              \/ state[t] \in old /\ pc'[t] = label /\ err'[t] = "none"
              \/ state[t] \notin old /\ pc'[t] = "except_check" /\ err'[t] = "TaskNotFound"
         /\ ThenOrHandle(t, GetElseThrow(UpdateResult(t, old, "ok")), label) =>
              \/ state[t] \in old /\ pc'[t] = label /\ err'[t] = "none"
              \/ state[t] \notin old /\ pc'[t] = "idle" /\ err'[t] = "TaskNotFound"
  BY DEF ThenOrExcept, ThenOrHandle, GetElseThrow, UpdateResult, Matches, ErrorEntry, TypeOK,
         HandlersTypeOK

\* No call of the repository loses a document while MongoDB is up.
LEMMA DbStepUp ==
  ASSUME NEW t \in Task, Before(t), UpInv(t), "db" \notin Faults, NEW reply \in DbReply,
         DbStep(t, reply)
  PROVE  UpInv(t)'
  <1>. USE DEF Before, StageInv, StageStates, UpInv, NotFoundInv, dbVars, pulsarVars, localVars, Terminal, Cancelable, TesTaskState
  <1>0. reply = "ok"
    BY DbAnswers
  <1>1. CASE HandleInitializingTask(t, reply)
    BY <1>0, <1>1, AnswerTells, AnsweredUpdate DEF HandleInitializingTask, ErrorEntry
  <1>2. CASE HandleRunTask(t, reply)
    BY <1>0, <1>2, AnswerTells, AnsweredUpdate DEF HandleRunTask
  <1>3. CASE EarlyCheck(t, reply) \/ LateCheck(t, reply)
    BY <1>0, <1>3, ControlAt DEF EarlyCheck, LateCheck, CheckCanceled, OutcomeLabel
  <1>4. CASE ReadStartLog(t, reply) \/ ReadExecutorLog(t, reply)
    BY <1>0, <1>4, AnswerTells DEF ReadStartLog, ReadExecutorLog, ReadLogs
  <1>5. CASE WriteStartTime(t, TRUE, reply)
    <2>1. ThenOrExcept(t, GetElseThrow(UpdateResult(t, {"RUNNING"}, reply)), "run_job")
      BY <1>5 DEF WriteStartTime
    <2>. QED
      BY <1>0, <1>5, <2>1, AnswerTells DEF WriteStartTime, UpdateTaskLogs
  <1>6. CASE WriteExecutorLog(t, reply)
    BY <1>0, <1>6, AnswerTells DEF WriteExecutorLog, UpdateTaskLogs
  <1>7. CASE SetExecutorError(t, reply)
    BY <1>0, <1>7, ControlAt, AnsweredUpdate DEF SetExecutorError
  <1>8. CASE SetComplete(t, reply)
    BY <1>0, <1>8, AnswerTells, AnsweredUpdate DEF SetComplete, ErrorEntry
  <1>9. CASE ExceptCheck(t, reply)
    BY <1>0, <1>9, ControlAt DEF ExceptCheck, ErrorEntry
  <1>10. CASE HandleUpdate(t, reply)
    <2>1. state[t] \in TesTaskState
      BY <1>10 DEF HandleUpdate, VisitedInv, TypeOK, RepositoryTypeOK, DocState
    <2>2. state'[t] = "SYSTEM_ERROR"
      BY <1>0, <1>10, <2>1
      DEF HandleUpdate, UpdateErrorTask, Updates, Matches, TypeOK, RepositoryTypeOK
    <2>. QED
      BY <1>0, <1>10, <2>2, ControlAt DEF HandleUpdate
  <1>11. CASE ShutdownUpdate(t, reply)
    BY <1>11 DEF ShutdownUpdate
  <1>. QED
    BY <1>1, <1>2, <1>3, <1>4, <1>5, <1>6, <1>7, <1>8, <1>9, <1>10, <1>11 DEF DbStep

\* Neither does a request to Pulsar, however it ends.
LEMMA PulsarStepUp ==
  ASSUME NEW t \in Task, Before(t), UpInv(t), NEW reply \in PulsarReply, PulsarStep(t, reply)
  PROVE  UpInv(t)'
  <1>. USE DEF Before, StageInv, StageStates, UpInv, NotFoundInv, dbVars, pulsarVars, localVars,
               Terminal, Cancelable, TesTaskState
  <1>0. \A kind, e : e \in RequestErrors(kind, reply) =>
          /\ e \notin {"TaskNotFound", "DataLayer"}
          /\ ReraiseCustom(e) \notin {"TaskNotFound", "DataLayer"}
    BY RequestErrorsType
  <1>1. CASE SetupJob(t, reply)
    BY <1>0, <1>1, ControlAt DEF SetupJob, ErrorEntry
  <1>2. CASE RunJob(t, reply)
    BY <1>0, <1>2, ControlAt DEF RunJob
  <1>3. CASE EraseCancel(t, reply)
    BY <1>3, ControlAt DEF EraseCancel
  <1>4. CASE EraseDelete(t, reply)
    <2>1. PICK e \in RequestErrors("BYTES", reply) :
            \/ pc[t] = "error_delete" /\ ThenOrExcept(t, ReraiseCustom(e), "idle")
            \/ pc[t] = "done_delete" /\ ThenOrHandle(t, ReraiseCustom(e), "idle")
            \/ pc[t] = "handle_delete" /\ Goto(t, AfterErase(err[t]))
      BY <1>4 DEF EraseDelete
    <2>2. UNCHANGED state
      BY <1>4 DEF EraseDelete
    <2>3. CASE pc[t] \in {"error_delete", "done_delete"} /\ e = "none"
      <3>1. jobs[t] # "none"
        BY <2>3 DEF CodeInv, SubmitInv, HasCode
      <3>2. reply \in {"ok", "refused", "garbled"}
        BY <2>3 DEF RequestErrors, PulsarReply
      <3>3. jobs'[t] = "deleted" \/ "delete" \in refused'[t]
        BY <1>4, <3>1, <3>2 DEF EraseDelete, Request, TakesEffect, After, TypeOK, PulsarTypeOK
      <3>. QED
        BY <1>0, <2>1, <2>2, <2>3, <3>3, ControlAt DEF ErrorEntry, ReraiseCustom
    <2>4. CASE pc[t] \in {"error_delete", "done_delete"} /\ e # "none"
      <3>1. ReraiseCustom(e) \notin {"none", "TaskNotFound", "DataLayer"}
        BY <1>0, <2>1, <2>4 DEF ReraiseCustom
      <3>. QED
        BY <2>1, <2>2, <2>4, <3>1, ControlAt DEF ErrorEntry
    <2>5. CASE pc[t] = "handle_delete"
      BY <1>0, <2>1, <2>2, <2>5, ControlAt DEF AfterErase
    <2>. QED
      BY <2>1, <2>3, <2>4, <2>5
  <1>5. ASSUME NEW e \in RequestErrors("JSON", reply), SetupInput(t, TRUE, e)
        PROVE  UpInv(t)'
    <2>1. PICK f \in {e, "none"} : ThenOrHandle(t, f, "setup_data")
      BY <1>5 DEF SetupInput
    <2>2. /\ pc'[t] \in {"setup_data", "handle_update", "handle_cancel"}
          /\ err'[t] \notin {"TaskNotFound", "DataLayer"}
      <3>1. f \notin {"TaskNotFound", "DataLayer"}
        BY <1>0
      <3>2. err'[t] = f /\ (pc'[t] = "setup_data" \/ pc'[t] = ErrorEntry(f))
        BY <2>1, ControlAt
      <3>3. ErrorEntry(f) \in {"handle_update", "handle_cancel"}
        BY <3>1 DEF ErrorEntry
      <3>. QED
        BY <3>1, <3>2, <3>3
    <2>. QED
      BY <2>2
  <1>6. ASSUME NEW e \in RequestErrors("JSON", reply), PollStatus(t, e)
        PROVE  UpInv(t)'
    BY <1>0, <1>6, ControlAt DEF PollStatus
  <1>. QED
    BY <1>1, <1>2, <1>3, <1>4, <1>5, <1>6 DEF PulsarStep

\* A step of its handler keeps a task from being lost.
LEMMA HandlerStepUp ==
  ASSUME NEW t \in Task, Before(t), UpInv(t), "db" \notin Faults, HandlerStep(t)
  PROVE  UpInv(t)'
  <1>1. CASE HandleQueuedTask(t) \/ DispatchRunTask(t)
    BY <1>1, ControlAt
    DEF HandleQueuedTask, DispatchRunTask, Before, UpInv, NotFoundInv, dbVars, pulsarVars
  <1>. QED
    BY <1>1, DbStepUp, PulsarStepUp DEF HandlerStep

\* Clients and Pulsar do not, and workers do not stop.
LEMMA EnvironmentUp ==
  ASSUME IInv, NEW u \in Task, UpInv(u), Faults \subseteq {"pulsar"}, EnvironmentStep
  PROVE  UpInv(u)'
  <1>. USE DEF UpInv, NotFoundInv, handlerVars, pulsarVars, dbVars
  <1>0. Before(u) /\ TypeOK
    BY DEF IInv, TaskInv, Before
  <1>1. ASSUME NEW t \in Task, NEW reply \in DbReply, CancelTask(t, reply)
        PROVE  UpInv(u)'
    <2>1. UpdateTaskState(t, Cancelable, "CANCELED", "ok") /\ UNCHANGED <<pc, err, jobs, refused>>
      BY <1>1, DbAnswers DEF CancelTask
    <2>2. state'[u] = state[u] \/ state'[u] = "CANCELED"
      BY <1>0, <2>1, DocumentsApart, AnsweredUpdate
    <2>. QED
      BY <2>1, <2>2 DEF Terminal, Cancelable, TesTaskState
  <1>2. ASSUME NEW t \in Task, NEW w \in Worker, NEW list \in InputLists, NEW reply \in DbReply,
               CreateTask(t, w, list, reply)
        PROVE  UpInv(u)'
    <2>1. reply = "ok"
      BY <1>2, DbAnswers
    <2>2. /\ pc' = [pc EXCEPT ![t] = "queued_task"] /\ state' = [state EXCEPT ![t] = "QUEUED"]
          /\ UNCHANGED <<err, jobs, refused>>
      BY <1>2, <2>1 DEF CreateTask, InsertTask
    <2>. QED
      BY <1>0, <2>2 DEF TypeOK, HandlersTypeOK, RepositoryTypeOK
  <1>3. ASSUME NEW t \in Task, NEW code \in ReturnCode, JobFinishes(t, code),
               UNCHANGED <<handlerVars, dbVars>>
        PROVE  UpInv(u)'
    BY <1>3 DEF JobFinishes
  <1>4. ASSUME (\E t \in Task : HandlerCancelled(t)) \/ (\E w \in Worker : Crash(w))
        PROVE  FALSE
    BY <1>4 DEF HandlerCancelled, Crash
  <1>. QED
    BY <1>1, <1>2, <1>3, <1>4 DEF EnvironmentStep

\* While only Pulsar fails, no task is lost and every finished job is erased.
LEMMA StepUp ==
  ASSUME Faults \subseteq {"pulsar"}
  PROVE  IInv /\ AllUp /\ [Next]_vars => AllUp'
  <1>. SUFFICES ASSUME IInv, AllUp, [Next]_vars, NEW u \in Task PROVE UpInv(u)'
    BY DEF AllUp
  <1>0. TypeOK /\ Before(u) /\ UpInv(u)
    BY DEF AllUp, IInv, TaskInv, Before
  <1>1. CASE EnvironmentStep
    BY <1>0, <1>1, EnvironmentUp
  <1>2. ASSUME NEW t \in Task, HandlerStep(t)
        PROVE  UpInv(u)'
    <2>1. CASE u = t
      BY <1>0, <1>2, <2>1, HandlerStepUp
    <2>2. CASE u # t
      BY <1>0, <1>2, <2>2, HandlersApart, ApartFromTask
    <2>. QED
      BY <2>1, <2>2
  <1>3. CASE UNCHANGED vars
    BY <1>0, <1>3, ApartFromTask DEF Own, vars, dbVars, pulsarVars, handlerVars
  <1>. QED
    BY <1>1, <1>2, <1>3 DEF Next

\* While Pulsar does not fail a request ends in no exception.
LEMMA PulsarAnswers ==
  ASSUME "pulsar" \notin Faults, NEW reply \in PulsarReply, NEW type
  PROVE  RequestErrors(type, reply) = {"none"}
  BY DEF PulsarReply, RequestErrors

\* A call of the repository reports no failure that was not one.
LEMMA DbStepCause ==
  ASSUME NEW t \in Task, Before(t), CauseInv(t), "db" \notin Faults, NEW reply \in DbReply,
         DbStep(t, reply)
  PROVE  CauseInv(t)'
  <1>. USE DEF Before, StageInv, StageStates, CauseInv, NotFoundInv, dbVars, localVars
  <1>0. reply = "ok"
    BY DbAnswers
  <1>1. CASE HandleInitializingTask(t, reply)
    BY <1>0, <1>1, AnswerTells, AnsweredUpdate DEF HandleInitializingTask
  <1>2. CASE HandleRunTask(t, reply)
    BY <1>0, <1>2, AnswerTells, AnsweredUpdate DEF HandleRunTask
  <1>3. CASE EarlyCheck(t, reply) \/ LateCheck(t, reply)
    BY <1>0, <1>3, ControlAt DEF EarlyCheck, LateCheck, CheckCanceled, OutcomeLabel
  <1>4. CASE ReadStartLog(t, reply) \/ ReadExecutorLog(t, reply)
    BY <1>0, <1>4, AnswerTells DEF ReadStartLog, ReadExecutorLog, ReadLogs
  <1>5. CASE WriteStartTime(t, TRUE, reply)
    <2>1. ThenOrExcept(t, GetElseThrow(UpdateResult(t, {"RUNNING"}, reply)), "run_job")
      BY <1>5 DEF WriteStartTime
    <2>. QED
      BY <1>0, <1>5, <2>1, AnswerTells DEF WriteStartTime, UpdateTaskLogs
  <1>6. CASE WriteExecutorLog(t, reply)
    BY <1>0, <1>6, AnswerTells DEF WriteExecutorLog, UpdateTaskLogs
  <1>7. CASE SetExecutorError(t, reply)
    BY <1>0, <1>7, ControlAt, AnsweredUpdate DEF SetExecutorError
  <1>8. CASE SetComplete(t, reply)
    BY <1>0, <1>8, AnswerTells, AnsweredUpdate DEF SetComplete
  <1>9. CASE ExceptCheck(t, reply)
    BY <1>0, <1>9, ControlAt DEF ExceptCheck, ErrorEntry
  <1>10. CASE HandleUpdate(t, reply)
    BY <1>10, ControlAt DEF HandleUpdate
  <1>11. CASE ShutdownUpdate(t, reply)
    <2>1. state' = state
      BY <1>11 DEF ShutdownUpdate, UpdateTaskState, Updates, Matches
    <2>. QED
      BY <1>11, <2>1, ControlAt DEF ShutdownUpdate
  <1>. QED
    BY <1>1, <1>2, <1>3, <1>4, <1>5, <1>6, <1>7, <1>8, <1>9, <1>10, <1>11 DEF DbStep

\* The one exception on the way to Pulsar is that of the last poll.
LEMMA PulsarStepCause ==
  ASSUME NEW t \in Task, Before(t), CauseInv(t), "pulsar" \notin Faults,
         NEW reply \in PulsarReply, PulsarStep(t, reply)
  PROVE  CauseInv(t)'
  <1>. USE DEF Before, StageInv, StageStates, CauseInv, NotFoundInv, dbVars, localVars
  <1>0. /\ \A type : RequestErrors(type, reply) = {"none"}
        /\ ReraiseCustom("none") = "none"
    BY PulsarAnswers DEF ReraiseCustom
  <1>1. CASE SetupJob(t, reply)
    BY <1>0, <1>1, ControlAt DEF SetupJob
  <1>2. CASE RunJob(t, reply)
    <2>1. pc[t] = "run_job" /\ ThenOrExcept(t, "none", "poll") /\ UNCHANGED state
      BY <1>0, <1>2 DEF RunJob
    <2>. QED
      BY <2>1, ControlAt
  <1>3. CASE EraseCancel(t, reply)
    BY <1>3, ControlAt DEF EraseCancel
  <1>4. CASE EraseDelete(t, reply)
    BY <1>0, <1>4, ControlAt DEF EraseDelete, AfterErase
  <1>5. ASSUME SetupInput(t, TRUE, "none")
        PROVE  CauseInv(t)'
    <2>1. ThenOrHandle(t, "none", "setup_data") /\ UNCHANGED <<polls, state>>
      BY <1>5 DEF SetupInput
    <2>. QED
      BY <2>1, ControlAt
  <1>6. ASSUME PollStatus(t, "none")
        PROVE  CauseInv(t)'
    <2>1. pc[t] = "poll" /\ UNCHANGED state
      BY <1>6 DEF PollStatus
    <2>2. state[t] # "SYSTEM_ERROR"
      BY <2>1
    <2>3. CASE Goto(t, "exec_log_read")
      BY <2>1, <2>2, <2>3, ControlAt
    <2>4. CASE /\ polls' = [polls EXCEPT ![t] = @ + 1]
               /\ ThenOrExcept(t, IF PollsExhausted(polls[t] + 1) THEN "Unknown" ELSE "none", "poll")
      <3>1. polls'[t] = polls[t] + 1
        BY <2>4 DEF TypeOK, HandlersTypeOK
      <3>2. CASE PollsExhausted(polls[t] + 1)
        BY <2>1, <2>2, <2>4, <3>1, <3>2, ControlAt DEF PollsExhausted
      <3>3. CASE ~PollsExhausted(polls[t] + 1)
        BY <2>1, <2>2, <2>4, <3>3, ControlAt
      <3>. QED
        BY <3>2, <3>3
    <2>. QED
      BY <1>6, <2>3, <2>4 DEF PollStatus
  <1>. QED
    BY <1>0, <1>1, <1>2, <1>3, <1>4, <1>5, <1>6 DEF PulsarStep

\* Clients raise nothing, and a handler that is stopped reports nothing.
LEMMA EnvironmentCause ==
  ASSUME IInv, NEW u \in Task, CauseInv(u), EnvironmentStep
  PROVE  CauseInv(u)'
  <1>. USE DEF CauseInv, NotFoundInv, localVars, handlerVars, dbVars
  <1>0. TypeOK
    BY DEF IInv
  <1>1. ASSUME NEW t \in Task, NEW reply \in DbReply, CancelTask(t, reply)
        PROVE  CauseInv(u)'
    <2>1. UNCHANGED <<pc, err, polls>> /\ UpdateTaskState(t, Cancelable, "CANCELED", reply)
      BY <1>1 DEF CancelTask
    <2>2. state'[u] \in {state[u], "CANCELED"}
      BY <1>0, <2>1 DEF UpdateTaskState, TypeOK, RepositoryTypeOK
    <2>. QED
      BY <2>1, <2>2
  <1>2. ASSUME NEW t \in Task, NEW w \in Worker, NEW list \in InputLists, NEW reply \in DbReply,
               CreateTask(t, w, list, reply)
        PROVE  CauseInv(u)'
    <2>1. UNCHANGED <<err, polls>>
      BY <1>2 DEF CreateTask
    <2>2. CASE u # t
      BY <1>0, <1>2, <2>1, <2>2
      DEF CreateTask, InsertTask, TypeOK, HandlersTypeOK, RepositoryTypeOK
    <2>3. CASE u = t
      <3>1. pc[u] = "idle" /\ state[u] = "ABSENT"
        BY <1>2, <2>3 DEF CreateTask, InsertTask, IInv, TaskInv, VisitedInv
      <3>2. pc'[u] \in {"idle", "queued_task"} /\ state'[u] \in {"ABSENT", "QUEUED"}
        BY <1>0, <1>2, <2>3, <3>1
        DEF CreateTask, InsertTask, TypeOK, HandlersTypeOK, RepositoryTypeOK
      <3>. QED
        BY <2>1, <3>2
    <2>. QED
      BY <2>2, <2>3
  <1>3. ASSUME NEW t \in Task, NEW code \in ReturnCode, JobFinishes(t, code),
               UNCHANGED <<handlerVars, dbVars>>
        PROVE  CauseInv(u)'
    BY <1>3
  <1>4. ASSUME pc'[u] \in {pc[u], "idle", "shutdown_update"}, UNCHANGED <<err, polls, state>>
        PROVE  CauseInv(u)'
    BY <1>4
  <1>5. CASE \E t \in Task : HandlerCancelled(t)
    BY <1>0, <1>4, <1>5 DEF HandlerCancelled, Goto, TypeOK, HandlersTypeOK
  <1>6. CASE \E w \in Worker : Crash(w)
    BY <1>4, <1>6 DEF Crash
  <1>. QED
    BY <1>1, <1>2, <1>3, <1>5, <1>6 DEF EnvironmentStep

\* While neither MongoDB nor Pulsar fails, every reported failure is a job that
\* was not done in time.
LEMMA StepCause ==
  ASSUME "db" \notin Faults, "pulsar" \notin Faults
  PROVE  IInv /\ AllCaused /\ [Next]_vars => AllCaused'
  <1>. SUFFICES ASSUME IInv, AllCaused, [Next]_vars, NEW u \in Task PROVE CauseInv(u)'
    BY DEF AllCaused
  <1>0. TypeOK /\ Before(u) /\ CauseInv(u)
    BY DEF AllCaused, IInv, TaskInv, Before
  <1>1. CASE EnvironmentStep
    BY <1>0, <1>1, EnvironmentCause
  <1>2. ASSUME NEW t \in Task, HandlerStep(t)
        PROVE  CauseInv(u)'
    <2>1. CASE u # t
      BY <1>0, <1>2, <2>1, HandlersApart, ApartFromTask
    <2>2. CASE u = t /\ (HandleQueuedTask(t) \/ DispatchRunTask(t))
      BY <1>0, <2>2, ControlAt
      DEF HandleQueuedTask, DispatchRunTask, CauseInv, NotFoundInv, dbVars, localVars
    <2>. QED
      BY <1>0, <1>2, <2>1, <2>2, DbStepCause, PulsarStepCause DEF HandlerStep
  <1>3. CASE UNCHANGED vars
    BY <1>0, <1>3, ApartFromTask DEF Own, vars, dbVars, pulsarVars, handlerVars
  <1>. QED
    BY <1>1, <1>2, <1>3 DEF Next

\* At the start there is nothing to lose.
LEMMA InitUp == Init => AllUp /\ AllCaused
  BY DEF Init, InitRepository, InitPulsar, InitHandlers, AllUp, UpInv, AllCaused, CauseInv,
         NotFoundInv

\* While MongoDB and the workers are up, whatever Pulsar does, no path through
\* the handlers ends before the task's document is final.
THEOREM NoTaskAbandonedHolds ==
  ASSUME Faults \subseteq {"pulsar"}
  PROVE  Spec => []NoTaskAbandoned
  <1>1. IInv /\ AllUp /\ [Next]_vars => AllUp'
    BY StepUp
  <1>2. AllUp => NoTaskAbandoned
    BY DEF AllUp, UpInv, NoTaskAbandoned
  <1>. QED
    BY <1>1, <1>2, InitUp, InvariantHolds, PTL DEF Spec, Safety

\* While MongoDB and the workers are up, the job of every task that its handler
\* left COMPLETE or EXECUTOR_ERROR is out of Pulsar, or Pulsar refused to delete
\* it: the task had a job, since it has a return code, and every other end of the
\* DELETE sends the handler into its error branch.
THEOREM FinishedTasksAreErasedHolds ==
  ASSUME Faults \subseteq {"pulsar"}
  PROVE  Spec => []FinishedTasksAreErased
  <1>1. IInv /\ AllUp /\ [Next]_vars => AllUp'
    BY StepUp
  <1>2. AllUp => FinishedTasksAreErased
    BY DEF AllUp, UpInv, FinishedTasksAreErased
  <1>. QED
    BY <1>1, <1>2, InitUp, InvariantHolds, PTL DEF Spec, Safety

\* While neither MongoDB nor Pulsar fails, a SYSTEM_ERROR means that max_polls
\* polls found the job unfinished, even when workers crash and handlers are
\* stopped: the filters of the updates raise for canceled tasks only, and those
\* are left alone.
THEOREM SystemErrorHasCauseHolds ==
  ASSUME "db" \notin Faults, "pulsar" \notin Faults
  PROVE  Spec => []SystemErrorHasCause
  <1>1. IInv /\ AllCaused /\ [Next]_vars => AllCaused'
    BY StepCause
  <1>2. AllCaused => SystemErrorHasCause
    BY DEF AllCaused, CauseInv, SystemErrorHasCause
  <1>. QED
    BY <1>1, <1>2, InitUp, InvariantHolds, PTL DEF Spec, Safety

=============================================================================
