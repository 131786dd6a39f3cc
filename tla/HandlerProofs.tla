---------------------------- MODULE HandlerProofs ---------------------------
(***************************************************************************)
(* What the handlers of EventHandlers do to the types of their variables,  *)
(* whichever interface to Pulsar they use: a lemma for every operator the  *)
(* actions are made of, and one for every group of actions.                *)
(***************************************************************************)
EXTENDS TaskProperties, TLAPS

-----------------------------------------------------------------------------
(***************************************************************************)
(* The operators.                                                          *)
(***************************************************************************)
\* Every label and exception a transition of control yields is one of the model.
LEMMA TransitionTypes ==
  /\ \A e : ErrorEntry(e) \in Label /\ AfterErase(e) \in Label
  /\ \A answer \in {"just", "nothing", "error"} : GetElseThrow(answer) \in Exception \cup {"none"}
  /\ \A code : OutcomeLabel(code) \in Label
  BY DEF ErrorEntry, AfterErase, GetElseThrow, OutcomeLabel, Label, TryBody, MaybeInTry, Outside,
         Exception

\* A conditional update is answered Just, Nothing or an error.
LEMMA UpdateResultType ==
  \A t, old, reply : UpdateResult(t, old, reply) \in {"just", "nothing", "error"}
  BY DEF UpdateResult

\* What a request may raise, before and after _reraise_custom.
LEMMA RequestErrorsType ==
  \A type, reply, e :
    e \in RequestErrors(type, reply) => /\ e \in {"none", "Connection", "Unknown"}
                                        /\ ReraiseCustom(e) \in {"none", "Connection", "Operations"}
  BY DEF RequestErrors, ReraiseCustom

\* The three ways an await passes control keep pc and err in their types.
LEMMA ControlTypes ==
  ASSUME HandlersTypeOK, NEW t \in Task, NEW label \in Label, NEW e \in Exception \cup {"none"},
         \/ Goto(t, label)
         \/ ThenOrHandle(t, e, label)
         \/ ThenOrExcept(t, e, label)
  PROVE  pc' \in [Task -> Label] /\ err' \in [Task -> Exception \cup {"none"}]
  <1>1. ErrorEntry(e) \in Label /\ "except_check" \in Label
    BY TransitionTypes DEF Label, Outside
  <1>. QED
    BY <1>1 DEF Goto, ThenOrHandle, ThenOrExcept, HandlersTypeOK

\* update_task_state keeps the documents in their types.
LEMMA UpdateTaskStateTypes ==
  ASSUME RepositoryTypeOK, NEW t \in Task, NEW old, NEW new \in TesTaskState, NEW reply,
         UpdateTaskState(t, old, new, reply)
  PROVE  RepositoryTypeOK'
  BY DEF RepositoryTypeOK, UpdateTaskState, DocState

\* A $set of well-formed logs keeps the documents in their types.
LEMMA UpdateTaskLogsTypes ==
  ASSUME RepositoryTypeOK, NEW t \in Task, NEW old, NEW new \in TesTaskLog, NEW reply,
         UpdateTaskLogs(t, old, new, reply)
  PROVE  RepositoryTypeOK'
  BY DEF RepositoryTypeOK, UpdateTaskLogs

\* The error handler's update keeps the documents in their types.
LEMMA UpdateErrorTaskTypes ==
  ASSUME RepositoryTypeOK, NEW t \in Task, NEW new \in TesTaskState, NEW reply,
         UpdateErrorTask(t, new, reply)
  PROVE  RepositoryTypeOK'
  <1>1. [logs[t] EXCEPT !.system = @ + 1] \in TesTaskLog
    <2>1. logs[t] \in TesTaskLog
      BY DEF RepositoryTypeOK
    <2>2. \A log \in TesTaskLog : [log EXCEPT !.system = @ + 1] \in TesTaskLog
      BY DEF TesTaskLog
    <2>. QED
      BY <2>1, <2>2
  <1>2. logs' = logs \/ logs' = [logs EXCEPT ![t] = [logs[t] EXCEPT !.system = @ + 1]]
    BY DEF UpdateErrorTask
  <1>3. logs' \in [Task -> TesTaskLog]
    BY <1>1, <1>2 DEF RepositoryTypeOK
  <1>. QED
    BY <1>3 DEF RepositoryTypeOK, UpdateErrorTask, DocState

\* A request keeps what is known of the jobs in its types.
LEMMA RequestTypes ==
  ASSUME PulsarTypeOK, NEW t \in Task, NEW kind \in RequestKind, NEW reply,
         Request(t, kind, reply)
  PROVE  PulsarTypeOK'
  <1>1. \A job \in JobState : After(kind, job) \in JobState
    BY DEF After, JobState, RequestKind
  <1>. QED
    BY <1>1 DEF PulsarTypeOK, Request

\* What an action does to the handler's own variables besides pc and err.
LEMMA LocalTypes ==
  ASSUME HandlersTypeOK, UNCHANGED localVars,
         pc' \in [Task -> Label], err' \in [Task -> Exception \cup {"none"}]
  PROVE  HandlersTypeOK'
  BY DEF HandlersTypeOK, localVars

\* The return code is there before it is logged, since job_status_complete has
\* returned it, and a poll that is still to come is within the limit.
Collected(t) ==
  /\ pc[t] \in {"exec_log_read", "exec_log_write"} => rc[t] \in ReturnCode
  /\ pc[t] = "poll" => polls[t] < MaxPolls

-----------------------------------------------------------------------------
(***************************************************************************)
(* The actions.                                                            *)
(***************************************************************************)
HandlerTypes == RepositoryTypeOK /\ PulsarTypeOK /\ HandlersTypeOK

\* A call of the repository keeps the types.
LEMMA RepositoryCallTypes ==
  ASSUME HandlerTypes, NEW t \in Task, Collected(t), NEW reply, NEW taskConfig \in BOOLEAN,
         \/ HandleInitializingTask(t, reply)
         \/ HandleRunTask(t, reply)
         \/ EarlyCheck(t, reply)
         \/ ReadStartLog(t, reply)
         \/ WriteStartTime(t, taskConfig, reply)
         \/ ReadExecutorLog(t, reply)
         \/ WriteExecutorLog(t, reply)
         \/ LateCheck(t, reply)
         \/ SetExecutorError(t, reply)
         \/ SetComplete(t, reply)
         \/ ExceptCheck(t, reply)
         \/ HandleUpdate(t, reply)
         \/ ShutdownUpdate(t, reply)
  PROVE  HandlerTypes'
  <1>. USE DEF HandlerTypes
  <1>0. /\ {"setup_data", "early_check", "start_log_read", "start_log_write", "run_job",
            "exec_log_write", "late_check", "error_cancel", "done_cancel", "idle"} \subseteq Label
        /\ {"none", "DataLayer", "Unknown"} \subseteq Exception \cup {"none"}
        /\ {"INITIALIZING", "RUNNING", "COMPLETE", "EXECUTOR_ERROR", "CANCELED", "SYSTEM_ERROR"}
             \subseteq TesTaskState
    BY DEF Label, TryBody, MaybeInTry, Outside, Exception, TesTaskState
  <1>1. \A old : GetElseThrow(UpdateResult(t, old, reply)) \in Exception \cup {"none"}
    BY TransitionTypes, UpdateResultType
  <1>2. UNCHANGED dbVars => RepositoryTypeOK'
    BY DEF dbVars, RepositoryTypeOK
  <1>3. UNCHANGED pulsarVars => PulsarTypeOK'
    BY DEF pulsarVars, PulsarTypeOK
  <1>4. CASE HandleInitializingTask(t, reply)
    <2>1. pc' \in [Task -> Label] /\ err' \in [Task -> Exception \cup {"none"}]
      BY <1>4, <1>0, <1>1, ControlTypes DEF HandleInitializingTask
    <2>2. RepositoryTypeOK' /\ PulsarTypeOK'
      BY <1>4, <1>0, <1>3, UpdateTaskStateTypes DEF HandleInitializingTask
    <2>. QED
      BY <2>1, <2>2, <1>4 DEF HandleInitializingTask, HandlersTypeOK
  <1>5. CASE HandleRunTask(t, reply)
    BY <1>5, <1>0, <1>1, <1>3, ControlTypes, LocalTypes, UpdateTaskStateTypes DEF HandleRunTask
  <1>6. ASSUME NEW from, NEW to \in Label, CheckCanceled(t, from, to, reply)
        PROVE  HandlerTypes'
    <2>1. pc' \in [Task -> Label] /\ err' \in [Task -> Exception \cup {"none"}]
      BY <1>6, <1>0, ControlTypes DEF CheckCanceled
    <2>. QED
      BY <2>1, <1>6, <1>2, <1>3, LocalTypes DEF CheckCanceled
  <1>7. CASE EarlyCheck(t, reply)
    BY <1>7, <1>6, <1>0 DEF EarlyCheck
  <1>8. CASE LateCheck(t, reply)
    BY <1>8, <1>6, TransitionTypes DEF LateCheck
  <1>9. ASSUME NEW from, NEW to \in Label, ReadLogs(t, from, to, reply)
        PROVE  HandlerTypes'
    <2>1. pc' \in [Task -> Label] /\ err' \in [Task -> Exception \cup {"none"}]
      BY <1>9, <1>1, ControlTypes DEF ReadLogs
    <2>2. snapshot' \in [Task -> TesTaskLog]
      BY <1>9 DEF ReadLogs, HandlersTypeOK, RepositoryTypeOK
    <2>. QED
      BY <2>1, <2>2, <1>9, <1>2, <1>3 DEF ReadLogs, HandlersTypeOK
  <1>10. CASE ReadStartLog(t, reply)
    BY <1>10, <1>9, <1>0 DEF ReadStartLog
  <1>11. CASE ReadExecutorLog(t, reply)
    BY <1>11, <1>9, <1>0 DEF ReadExecutorLog
  <1>12. CASE WriteStartTime(t, taskConfig, reply)
    <2>1. [snapshot[t] EXCEPT !.start = TRUE] \in TesTaskLog
      <3>1. \A log \in TesTaskLog : [log EXCEPT !.start = TRUE] \in TesTaskLog
        BY DEF TesTaskLog
      <3>. QED
        BY <3>1 DEF HandlersTypeOK
    <2>. QED
      BY <2>1, <1>12, <1>0, <1>1, <1>3, ControlTypes, LocalTypes, UpdateTaskLogsTypes
      DEF WriteStartTime
  <1>13. CASE SetExecutorError(t, reply)
    BY <1>13, <1>0, <1>3, ControlTypes, LocalTypes, UpdateTaskStateTypes DEF SetExecutorError
  <1>14. CASE SetComplete(t, reply)
    BY <1>14, <1>0, <1>1, <1>3, ControlTypes, LocalTypes, UpdateTaskStateTypes DEF SetComplete
  <1>15. CASE ExceptCheck(t, reply)
    <2>1. pc' \in [Task -> Label] /\ err' \in [Task -> Exception \cup {"none"}]
      BY <1>15, <1>0, TransitionTypes, ControlTypes DEF ExceptCheck
    <2>. QED
      BY <2>1, <1>15, <1>2, <1>3, LocalTypes DEF ExceptCheck
  <1>16. CASE HandleUpdate(t, reply)
    BY <1>16, <1>0, <1>3, ControlTypes, LocalTypes, UpdateErrorTaskTypes DEF HandleUpdate
  <1>17. CASE ShutdownUpdate(t, reply)
    BY <1>17, <1>0, <1>3, ControlTypes, LocalTypes, UpdateTaskStateTypes DEF ShutdownUpdate
  <1>18. CASE WriteExecutorLog(t, reply)
    <2>1. [snapshot[t] EXCEPT !.exec = Append(@, rc[t])] \in TesTaskLog
      <3>1. \A log \in TesTaskLog, code \in ReturnCode :
              [log EXCEPT !.exec = Append(@, code)] \in TesTaskLog
        BY DEF TesTaskLog
      <3>2. snapshot[t] \in TesTaskLog /\ rc[t] \in ReturnCode
        BY <1>18 DEF WriteExecutorLog, Collected, HandlersTypeOK
      <3>. QED
        BY <3>1, <3>2
    <2>. QED
      BY <2>1, <1>18, <1>0, <1>1, <1>3, ControlTypes, LocalTypes, UpdateTaskLogsTypes
      DEF WriteExecutorLog
  <1>. QED
    BY <1>4, <1>5, <1>7, <1>8, <1>10, <1>11, <1>12, <1>13, <1>14, <1>15, <1>16, <1>17, <1>18

\* A turn of setup_data's loop or of job_status_complete's keeps the types.
LEMMA LoopTypes ==
  ASSUME HandlerTypes, NEW t \in Task, Collected(t), NEW e \in Exception \cup {"none"},
         NEW taskConfig \in BOOLEAN, SetupInput(t, taskConfig, e) \/ PollStatus(t, e)
  PROVE  HandlerTypes'
  <1>. USE DEF HandlerTypes
  <1>0. /\ {"setup_data", "poll", "exec_log_read"} \subseteq Label
        /\ {"none", "Unknown"} \subseteq Exception \cup {"none"}
    BY DEF Label, TryBody, MaybeInTry, Outside, Exception
  <1>1. CASE SetupInput(t, taskConfig, e)
    <2>1. pc' \in [Task -> Label] /\ err' \in [Task -> Exception \cup {"none"}]
      BY <1>1, <1>0, ControlTypes DEF SetupInput
    <2>2. input' \in [Task -> Nat]
      BY <1>1 DEF SetupInput, HandlersTypeOK
    <2>3. RepositoryTypeOK' /\ PulsarTypeOK'
      BY <1>1 DEF SetupInput, dbVars, pulsarVars, RepositoryTypeOK, PulsarTypeOK
    <2>. QED
      BY <2>1, <2>2, <2>3, <1>1 DEF SetupInput, HandlersTypeOK
  <1>2. CASE PollStatus(t, e)
    <2>1. pc' \in [Task -> Label] /\ err' \in [Task -> Exception \cup {"none"}]
      BY <1>2, <1>0, ControlTypes DEF PollStatus
    <2>2. rc' \in [Task -> JobResult]
      BY <1>2 DEF PollStatus, HandlersTypeOK, PulsarTypeOK
    <2>3. polls' \in [Task -> 0..MaxPolls]
      BY <1>2, MaxPollsAssumption DEF PollStatus, HandlersTypeOK, Collected
    <2>4. RepositoryTypeOK' /\ PulsarTypeOK'
      BY <1>2 DEF PollStatus, dbVars, pulsarVars, RepositoryTypeOK, PulsarTypeOK
    <2>. QED
      BY <2>1, <2>2, <2>3, <2>4, <1>2 DEF PollStatus, HandlersTypeOK
  <1>. QED
    BY <1>1, <1>2

\* A step that only passes control keeps the types.
LEMMA DispatchTypes ==
  ASSUME HandlerTypes, NEW t \in Task,
         HandleQueuedTask(t) \/ DispatchRunTask(t) \/ HandlerCancelled(t)
  PROVE  HandlerTypes'
  <1>1. PICK label \in Label : Goto(t, label)
    <2>1. {"setup_job", "run_task", "idle", "shutdown_update"} \subseteq Label
      BY DEF Label, MaybeInTry, Outside
    <2>. QED
      BY <2>1 DEF HandleQueuedTask, DispatchRunTask, HandlerCancelled
  <1>2. UNCHANGED <<localVars, dbVars, pulsarVars>>
    BY DEF HandleQueuedTask, DispatchRunTask, HandlerCancelled
  <1>3. RepositoryTypeOK' /\ PulsarTypeOK'
    BY <1>2 DEF HandlerTypes, RepositoryTypeOK, PulsarTypeOK, dbVars, pulsarVars
  <1>4. HandlersTypeOK'
    BY <1>1, <1>2, ControlTypes, LocalTypes DEF HandlerTypes, Exception
  <1>. QED
    BY <1>3, <1>4 DEF HandlerTypes

\* What clients, Pulsar and the operator do keeps the types.
LEMMA OutsideTypes ==
  ASSUME HandlerTypes,
         \/ \E t \in Task : \E reply : CancelTask(t, reply)
         \/ \E t \in Task, w \in Worker, list \in InputLists : \E reply :
              CreateTask(t, w, list, reply)
         \/ \E t \in Task, code \in ReturnCode :
              JobFinishes(t, code) /\ UNCHANGED <<handlerVars, dbVars>>
         \/ \E w : Crash(w)
  PROVE  HandlerTypes'
  <1>. USE DEF HandlerTypes, localVars, dbVars, pulsarVars, handlerVars
  <1>0. {"idle", "queued_task"} \subseteq Label /\ "CANCELED" \in TesTaskState
    BY DEF Label, Outside, TesTaskState
  <1>1. ASSUME NEW t \in Task, NEW reply, CancelTask(t, reply)
        PROVE  HandlerTypes'
    BY <1>0, <1>1, UpdateTaskStateTypes DEF CancelTask, PulsarTypeOK, HandlersTypeOK
  <1>2. ASSUME NEW t \in Task, NEW w \in Worker, NEW list \in InputLists, NEW reply,
               CreateTask(t, w, list, reply)
        PROVE  HandlerTypes'
    <2>1. RepositoryTypeOK'
      BY <1>2 DEF CreateTask, InsertTask, RepositoryTypeOK, DocState, TesTaskState
    <2>. QED
      BY <2>1, <1>0, <1>2 DEF CreateTask, PulsarTypeOK, HandlersTypeOK
  <1>3. ASSUME NEW t \in Task, NEW code \in ReturnCode, JobFinishes(t, code),
               UNCHANGED <<handlerVars, dbVars>>
        PROVE  HandlerTypes'
    BY <1>3 DEF JobFinishes, RepositoryTypeOK, PulsarTypeOK, HandlersTypeOK, ReturnCode, JobResult
  <1>4. ASSUME NEW w, Crash(w)
        PROVE  HandlerTypes'
    <2>1. pc' \in [Task -> Label]
      BY <1>0, <1>4 DEF Crash, HandlersTypeOK
    <2>. QED
      BY <2>1, <1>4 DEF Crash, RepositoryTypeOK, PulsarTypeOK, HandlersTypeOK
  <1>. QED
    BY <1>1, <1>2, <1>3, <1>4

=============================================================================
