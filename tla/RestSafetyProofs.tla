------------------------- MODULE RestSafetyProofs --------------------------
(***************************************************************************)
(* The types and the invariant IInv are inductive.  For IInv there is a    *)
(* lemma for every action: the action preserves the invariant of the task  *)
(* it works on.  The tasks it does not work on keep theirs by TaskFrame.   *)
(***************************************************************************)
EXTENDS RestInvariant, HandlerProofs

-----------------------------------------------------------------------------
(***************************************************************************)
(* Type correctness.                                                       *)
(***************************************************************************)
\* A call of the repository keeps the types.
LEMMA DbStepTypes ==
  ASSUME TypeOK, NEW t \in Task, Collected(t), NEW reply, DbStep(t, reply)
  PROVE  TypeOK'
  BY RepositoryCallTypes DEF TypeOK, HandlerTypes, DbStep

\* A request to Pulsar keeps the types.
LEMMA PulsarStepTypes ==
  ASSUME TypeOK, NEW t \in Task, Collected(t), NEW reply, PulsarStep(t, reply)
  PROVE  TypeOK'
  <1>. USE DEF TypeOK
  <1>0. /\ {"setup_data", "initialize_task", "poll", "exec_log_read", "error_delete",
            "done_delete", "handle_delete", "idle"} \subseteq Label
        /\ {"none", "Connection", "Operations", "Unknown"} \subseteq Exception \cup {"none"}
        /\ {"setup", "submit", "cancel", "delete"} \subseteq RequestKind
    BY DEF Label, TryBody, MaybeInTry, Outside, Exception, RequestKind
  <1>1. UNCHANGED dbVars => RepositoryTypeOK'
    BY DEF dbVars, RepositoryTypeOK
  <1>2. UNCHANGED pulsarVars => PulsarTypeOK'
    BY DEF pulsarVars, PulsarTypeOK
  <1>3. \A type, e :
          e \in RequestErrors(type, reply) => ReraiseCustom(e) \in Exception \cup {"none"}
    BY RequestErrorsType, <1>0
  <1>4. CASE SetupJob(t, reply)
    <2>1. pc' \in [Task -> Label] /\ err' \in [Task -> Exception \cup {"none"}]
      BY <1>4, <1>0, <1>3, ControlTypes DEF SetupJob
    <2>. QED
      BY <2>1, <1>4, <1>0, <1>1, LocalTypes, RequestTypes DEF SetupJob
  <1>5. CASE RunJob(t, reply)
    <2>1. pc' \in [Task -> Label] /\ err' \in [Task -> Exception \cup {"none"}]
      BY <1>5, <1>0, <1>3, ControlTypes DEF RunJob
    <2>. QED
      BY <2>1, <1>5, <1>0, <1>1, RequestTypes, MaxPollsAssumption
      DEF RunJob, StartPolling, HandlersTypeOK
  <1>6. CASE EraseCancel(t, reply)
    <2>1. pc' \in [Task -> Label] /\ err' \in [Task -> Exception \cup {"none"}]
      BY <1>6, <1>0, ControlTypes DEF EraseCancel
    <2>. QED
      BY <2>1, <1>6, <1>0, <1>1, LocalTypes, RequestTypes DEF EraseCancel
  <1>7. CASE EraseDelete(t, reply)
    <2>1. pc' \in [Task -> Label] /\ err' \in [Task -> Exception \cup {"none"}]
      BY <1>7, <1>0, <1>3, TransitionTypes, ControlTypes DEF EraseDelete
    <2>. QED
      BY <2>1, <1>7, <1>0, <1>1, LocalTypes, RequestTypes DEF EraseDelete
  <1>8. ASSUME NEW e \in RequestErrors("JSON", reply), SetupInput(t, TRUE, e) \/ PollStatus(t, e)
        PROVE  TypeOK'
    <2>1. e \in Exception \cup {"none"}
      BY <1>8, <1>0, RequestErrorsType
    <2>. QED
      BY <2>1, <1>8, LoopTypes DEF HandlerTypes
  <1>. QED
    BY <1>4, <1>5, <1>6, <1>7, <1>8 DEF PulsarStep

-----------------------------------------------------------------------------
(***************************************************************************)
(* Every action keeps the invariant of its task.                           *)
(***************************************************************************)
USE DEF TypeOK, RepositoryTypeOK, PulsarTypeOK, HandlersTypeOK
USE DEF localVars, dbVars, pulsarVars, Goto, TaskInv

\* The invariant of a task only looks at what belongs to that task.
LEMMA TaskFrame ==
  ASSUME NEW u \in Task, TaskInv(u),
         UNCHANGED <<state[u], logs[u], visited[u], jobs[u], result[u], sent[u], refused[u],
                     submits[u], pc[u], err[u], rc[u], polls[u], snapshot[u]>>
  PROVE  TaskInv(u)'
  BY DEF VisitedInv, StageInv, SubmitInv, CodeInv, ExecLogInv, SystemLogInv, EraseInv

\* The logs of a RUNNING document hold no system log yet.
LEMMA RunningLogs ==
  ASSUME TypeOK, NEW t \in Task, TaskInv(t), state[t] = "RUNNING"
  PROVE  logs[t].system = 0
  <1>1. logs[t].system \in Nat
    BY DEF TesTaskLog
  <1>. QED
    BY <1>1 DEF SystemLogInv, VisitedInv

BeforeLog == BeforeSubmit \cup {"poll", "exec_log_read", "exec_log_write"}

\* What a log helper's write has to respect.
LEMMA LogsInv ==
  ASSUME NEW t \in Task, TaskInv(t), UNCHANGED <<state[t], visited[t], result[t], rc[t]>>,
         pc'[t] \notin HoldsLogs,
         logs'[t] = logs[t] \/ (state[t] = "RUNNING" /\ logs'[t].system = 0),
         state[t] = "ABSENT" \/ pc'[t] \in BeforeLog => logs'[t].exec = <<>>,
         pc'[t] \in HasLog => logs'[t].exec = <<rc[t]>>
  PROVE  ExecLogInv(t)' /\ SystemLogInv(t)'
  BY DEF ExecLogInv, SystemLogInv, VisitedInv, BeforeLog

\* HandleQueuedTask keeps the invariant of its task.
LEMMA HandleQueuedTaskInv ==
  ASSUME TypeOK, NEW t \in Task, TaskInv(t),
         HandleQueuedTask(t)
  PROVE  TaskInv(t)'
  <1>. USE DEF HandleQueuedTask
  <1>1. VisitedInv(t)' /\ StageInv(t)'
    BY DEF VisitedInv, StageInv, StageStates, TryBody, DocState, TesTaskState
  <1>2. SubmitInv(t)' /\ CodeInv(t)'
    BY DEF SubmitInv, CodeInv, StageInv, BeforeSubmit, HasCode, HasLog, TryBody
  <1>3. ExecLogInv(t)' /\ SystemLogInv(t)'
    BY DEF ExecLogInv, SystemLogInv, VisitedInv, CodeInv, SubmitInv, BeforeSubmit,
           HoldsLogs, HasLog, HasCode
  <1>4. EraseInv(t)'
    BY DEF EraseInv, StageInv
  <1>. QED
    BY <1>1, <1>2, <1>3, <1>4

\* HandleInitializingTask keeps the invariant of its task.
LEMMA HandleInitializingTaskInv ==
  ASSUME TypeOK, NEW t \in Task, TaskInv(t),
         NEW reply, HandleInitializingTask(t, reply)
  PROVE  TaskInv(t)'
  <1>. USE DEF HandleInitializingTask, UpdateTaskState, Updates, UpdateResult, Matches,
              ThenOrHandle, GetElseThrow, ErrorEntry
  <1>1. VisitedInv(t)' /\ StageInv(t)'
    BY DEF VisitedInv, StageInv, StageStates, TryBody, DocState, TesTaskState
  <1>2. SubmitInv(t)' /\ CodeInv(t)'
    BY DEF SubmitInv, CodeInv, StageInv, BeforeSubmit, HasCode, HasLog, TryBody
  <1>3. ExecLogInv(t)' /\ SystemLogInv(t)'
    BY DEF ExecLogInv, SystemLogInv, VisitedInv, CodeInv, SubmitInv, BeforeSubmit,
           HoldsLogs, HasLog, HasCode
  <1>4. EraseInv(t)'
    BY DEF EraseInv, StageInv
  <1>. QED
    BY <1>1, <1>2, <1>3, <1>4

\* SetupInput keeps the invariant of its task.
LEMMA SetupInputInv ==
  ASSUME TypeOK, NEW t \in Task, TaskInv(t),
         NEW e \in {"none", "Connection", "Unknown"}, SetupInput(t, TRUE, e)
  PROVE  TaskInv(t)'
  <1>. USE DEF SetupInput, ThenOrHandle, ErrorEntry
  <1>1. VisitedInv(t)' /\ StageInv(t)'
    BY DEF VisitedInv, StageInv, StageStates, TryBody, DocState, TesTaskState
  <1>2. SubmitInv(t)' /\ CodeInv(t)'
    BY DEF SubmitInv, CodeInv, StageInv, BeforeSubmit, HasCode, HasLog, TryBody
  <1>3. ExecLogInv(t)' /\ SystemLogInv(t)'
    BY DEF ExecLogInv, SystemLogInv, VisitedInv, CodeInv, SubmitInv, BeforeSubmit,
           HoldsLogs, HasLog, HasCode
  <1>4. EraseInv(t)'
    BY DEF EraseInv, StageInv
  <1>. QED
    BY <1>1, <1>2, <1>3, <1>4

\* DispatchRunTask keeps the invariant of its task.
LEMMA DispatchRunTaskInv ==
  ASSUME TypeOK, NEW t \in Task, TaskInv(t),
         DispatchRunTask(t)
  PROVE  TaskInv(t)'
  <1>. USE DEF DispatchRunTask
  <1>1. VisitedInv(t)' /\ StageInv(t)'
    BY DEF VisitedInv, StageInv, StageStates, TryBody, DocState, TesTaskState
  <1>2. SubmitInv(t)' /\ CodeInv(t)'
    BY DEF SubmitInv, CodeInv, StageInv, BeforeSubmit, HasCode, HasLog, TryBody
  <1>3. ExecLogInv(t)' /\ SystemLogInv(t)'
    BY DEF ExecLogInv, SystemLogInv, VisitedInv, CodeInv, SubmitInv, BeforeSubmit,
           HoldsLogs, HasLog, HasCode
  <1>4. EraseInv(t)'
    BY DEF EraseInv, StageInv
  <1>. QED
    BY <1>1, <1>2, <1>3, <1>4

\* HandleRunTask keeps the invariant of its task.
LEMMA HandleRunTaskInv ==
  ASSUME TypeOK, NEW t \in Task, TaskInv(t),
         NEW reply, HandleRunTask(t, reply)
  PROVE  TaskInv(t)'
  <1>. USE DEF HandleRunTask, UpdateTaskState, Updates, UpdateResult, Matches,
              ThenOrExcept, GetElseThrow
  <1>1. VisitedInv(t)' /\ StageInv(t)'
    BY DEF VisitedInv, StageInv, StageStates, TryBody, DocState, TesTaskState
  <1>2. SubmitInv(t)' /\ CodeInv(t)'
    BY DEF SubmitInv, CodeInv, StageInv, BeforeSubmit, HasCode, HasLog, TryBody
  <1>3. ExecLogInv(t)' /\ SystemLogInv(t)'
    BY DEF ExecLogInv, SystemLogInv, VisitedInv, CodeInv, SubmitInv, BeforeSubmit,
           HoldsLogs, HasLog, HasCode
  <1>4. EraseInv(t)'
    BY DEF EraseInv, StageInv
  <1>. QED
    BY <1>1, <1>2, <1>3, <1>4

\* EarlyCheck keeps the invariant of its task.
LEMMA EarlyCheckInv ==
  ASSUME TypeOK, NEW t \in Task, TaskInv(t),
         NEW reply, EarlyCheck(t, reply)
  PROVE  TaskInv(t)'
  <1>. USE DEF EarlyCheck, CheckCanceled, ThenOrExcept
  <1>1. VisitedInv(t)' /\ StageInv(t)'
    BY DEF VisitedInv, StageInv, StageStates, TryBody, DocState, TesTaskState
  <1>2. SubmitInv(t)' /\ CodeInv(t)'
    BY DEF SubmitInv, CodeInv, StageInv, BeforeSubmit, HasCode, HasLog, TryBody
  <1>3. ExecLogInv(t)' /\ SystemLogInv(t)'
    BY DEF ExecLogInv, SystemLogInv, VisitedInv, CodeInv, SubmitInv, BeforeSubmit,
           HoldsLogs, HasLog, HasCode
  <1>4. EraseInv(t)'
    BY DEF EraseInv, StageInv
  <1>. QED
    BY <1>1, <1>2, <1>3, <1>4

\* ReadStartLog keeps the invariant of its task.
LEMMA ReadStartLogInv ==
  ASSUME TypeOK, NEW t \in Task, TaskInv(t),
         NEW reply, ReadStartLog(t, reply)
  PROVE  TaskInv(t)'
  <1>. USE DEF ReadStartLog, ReadLogs, UpdateResult, Matches, ThenOrExcept, GetElseThrow
  <1>1. VisitedInv(t)' /\ StageInv(t)'
    BY DEF VisitedInv, StageInv, StageStates, TryBody, DocState, TesTaskState
  <1>2. SubmitInv(t)' /\ CodeInv(t)'
    BY DEF SubmitInv, CodeInv, StageInv, BeforeSubmit, HasCode, HasLog, TryBody
  <1>3. ExecLogInv(t)' /\ SystemLogInv(t)'
    <2>1. pc'[t] \in HoldsLogs => snapshot'[t].system = 0
      BY RunningLogs DEF HoldsLogs
    <2>. QED
      BY <2>1 DEF ExecLogInv, SystemLogInv, BeforeSubmit, HoldsLogs, HasLog
  <1>4. EraseInv(t)'
    BY DEF EraseInv, StageInv
  <1>. QED
    BY <1>1, <1>2, <1>3, <1>4

\* WriteStartTime keeps the invariant of its task.
LEMMA WriteStartTimeInv ==
  ASSUME TypeOK, NEW t \in Task, TaskInv(t),
         NEW reply, WriteStartTime(t, TRUE, reply)
  PROVE  TaskInv(t)'
  <1>. USE DEF WriteStartTime, UpdateTaskLogs, Updates, UpdateResult, Matches,
              ThenOrExcept, GetElseThrow
  <1>1. VisitedInv(t)' /\ StageInv(t)'
    BY DEF VisitedInv, StageInv, StageStates, TryBody, DocState, TesTaskState
  <1>2. SubmitInv(t)' /\ CodeInv(t)'
    BY DEF SubmitInv, CodeInv, StageInv, BeforeSubmit, HasCode, HasLog, TryBody
  <1>3. ExecLogInv(t)' /\ SystemLogInv(t)'
    <2>1. PICK log \in TesTaskLog : log = snapshot[t]
      OBVIOUS
    <2>2. log.exec = <<>> /\ log.system = 0
      BY <2>1 DEF ExecLogInv, SystemLogInv, HoldsLogs
    <2>3. [log EXCEPT !.start = TRUE].exec = <<>> /\ [log EXCEPT !.start = TRUE].system = 0
      BY <2>2 DEF TesTaskLog
    <2>4. logs'[t] = logs[t] \/ (state[t] = "RUNNING" /\ logs'[t].system = 0)
      BY <2>1, <2>3
    <2>5. UNCHANGED <<state, visited, result, rc>> /\ pc'[t] \notin HoldsLogs
      BY DEF HoldsLogs
    <2>6. state[t] = "ABSENT" \/ pc'[t] \in BeforeLog => logs'[t].exec = <<>>
      BY <2>1, <2>3 DEF BeforeLog, BeforeSubmit, ExecLogInv, VisitedInv
    <2>7. pc'[t] \in HasLog => logs'[t].exec = <<rc[t]>>
      BY <2>1, <2>3 DEF HasLog
    <2>. QED
      BY <2>4, <2>5, <2>6, <2>7, LogsInv
  <1>4. EraseInv(t)'
    BY DEF EraseInv, StageInv
  <1>. QED
    BY <1>1, <1>2, <1>3, <1>4

\* RunJob keeps the invariant of its task.
LEMMA RunJobInv ==
  ASSUME TypeOK, NEW t \in Task, TaskInv(t),
         NEW reply, RunJob(t, reply)
  PROVE  TaskInv(t)'
  <1>. USE DEF RunJob, StartPolling, ThenOrExcept, ReraiseCustom, Request, After
  <1>1. VisitedInv(t)' /\ StageInv(t)'
    BY DEF VisitedInv, StageInv, StageStates, TryBody, DocState, TesTaskState
  <1>2. SubmitInv(t)' /\ CodeInv(t)'
    BY MaxPollsAssumption DEF SubmitInv, CodeInv, StageInv, BeforeSubmit, HasCode, HasLog,
           TryBody
  <1>3. ExecLogInv(t)' /\ SystemLogInv(t)'
    BY DEF ExecLogInv, SystemLogInv, VisitedInv, CodeInv, SubmitInv, BeforeSubmit,
           HoldsLogs, HasLog, HasCode
  <1>4. EraseInv(t)'
    BY DEF EraseInv, StageInv
  <1>. QED
    BY <1>1, <1>2, <1>3, <1>4

\* PollStatus keeps the invariant of its task.
LEMMA PollStatusInv ==
  ASSUME TypeOK, NEW t \in Task, TaskInv(t),
         NEW e \in {"none", "Connection", "Unknown"}, PollStatus(t, e)
  PROVE  TaskInv(t)'
  <1>. USE DEF PollStatus, ThenOrExcept, PollsExhausted
  <1>1. VisitedInv(t)' /\ StageInv(t)'
    BY DEF VisitedInv, StageInv, StageStates, TryBody, DocState, TesTaskState
  <1>2. SubmitInv(t)' /\ CodeInv(t)'
    BY MaxPollsAssumption DEF SubmitInv, CodeInv, StageInv, BeforeSubmit, HasCode, HasLog,
           TryBody
  <1>3. ExecLogInv(t)' /\ SystemLogInv(t)'
    BY DEF ExecLogInv, SystemLogInv, VisitedInv, CodeInv, SubmitInv, BeforeSubmit,
           HoldsLogs, HasLog, HasCode
  <1>4. EraseInv(t)'
    BY DEF EraseInv, StageInv
  <1>. QED
    BY <1>1, <1>2, <1>3, <1>4

\* ReadExecutorLog keeps the invariant of its task.
LEMMA ReadExecutorLogInv ==
  ASSUME TypeOK, NEW t \in Task, TaskInv(t),
         NEW reply, ReadExecutorLog(t, reply)
  PROVE  TaskInv(t)'
  <1>. USE DEF ReadExecutorLog, ReadLogs, UpdateResult, Matches, ThenOrExcept,
              GetElseThrow
  <1>1. VisitedInv(t)' /\ StageInv(t)'
    BY DEF VisitedInv, StageInv, StageStates, TryBody, DocState, TesTaskState
  <1>2. SubmitInv(t)' /\ CodeInv(t)'
    BY DEF SubmitInv, CodeInv, StageInv, BeforeSubmit, HasCode, HasLog, TryBody
  <1>3. ExecLogInv(t)' /\ SystemLogInv(t)'
    <2>1. pc'[t] \in HoldsLogs => snapshot'[t].system = 0
      BY RunningLogs DEF HoldsLogs
    <2>. QED
      BY <2>1 DEF ExecLogInv, SystemLogInv, BeforeSubmit, HoldsLogs, HasLog
  <1>4. EraseInv(t)'
    BY DEF EraseInv, StageInv
  <1>. QED
    BY <1>1, <1>2, <1>3, <1>4

\* WriteExecutorLog keeps the invariant of its task.
LEMMA WriteExecutorLogInv ==
  ASSUME TypeOK, NEW t \in Task, TaskInv(t),
         NEW reply, WriteExecutorLog(t, reply)
  PROVE  TaskInv(t)'
  <1>. USE DEF WriteExecutorLog, UpdateTaskLogs, Updates, UpdateResult, Matches,
              ThenOrExcept, GetElseThrow
  <1>1. VisitedInv(t)' /\ StageInv(t)'
    BY DEF VisitedInv, StageInv, StageStates, TryBody, DocState, TesTaskState
  <1>2. SubmitInv(t)' /\ CodeInv(t)'
    BY DEF SubmitInv, CodeInv, StageInv, BeforeSubmit, HasCode, HasLog, TryBody
  <1>3. ExecLogInv(t)' /\ SystemLogInv(t)'
    <2>1. PICK log \in TesTaskLog : log = snapshot[t]
      OBVIOUS
    <2>2. log.exec = <<>> /\ log.system = 0
      BY <2>1 DEF ExecLogInv, SystemLogInv, HoldsLogs
    <2>3. [log EXCEPT !.exec = Append(@, rc[t])].exec = <<rc[t]>>
             /\ [log EXCEPT !.exec = Append(@, rc[t])].system = 0
      BY <2>2 DEF TesTaskLog
    <2>4. logs'[t] = logs[t] \/ (state[t] = "RUNNING" /\ logs'[t].system = 0)
      BY <2>1, <2>3
    <2>5. UNCHANGED <<state, visited, result, rc>> /\ pc'[t] \notin HoldsLogs
      BY DEF HoldsLogs
    <2>6. state[t] = "ABSENT" \/ pc'[t] \in BeforeLog => logs'[t].exec = <<>>
      BY <2>1, <2>3 DEF BeforeLog, BeforeSubmit, ExecLogInv, VisitedInv
    <2>7. pc'[t] \in HasLog => logs'[t].exec = <<rc[t]>>
      BY <2>1, <2>3 DEF HasLog
    <2>. QED
      BY <2>4, <2>5, <2>6, <2>7, LogsInv
  <1>4. EraseInv(t)'
    BY DEF EraseInv, StageInv
  <1>. QED
    BY <1>1, <1>2, <1>3, <1>4

\* LateCheck keeps the invariant of its task.
LEMMA LateCheckInv ==
  ASSUME TypeOK, NEW t \in Task, TaskInv(t),
         NEW reply, LateCheck(t, reply)
  PROVE  TaskInv(t)'
  <1>. USE DEF LateCheck, CheckCanceled, ThenOrExcept, OutcomeLabel
  <1>1. VisitedInv(t)' /\ StageInv(t)'
    BY DEF VisitedInv, StageInv, StageStates, TryBody, DocState, TesTaskState
  <1>2. SubmitInv(t)' /\ CodeInv(t)'
    BY DEF SubmitInv, CodeInv, JobResult, StageInv, BeforeSubmit, HasCode, HasLog, TryBody
  <1>3. ExecLogInv(t)' /\ SystemLogInv(t)'
    BY DEF ExecLogInv, SystemLogInv, VisitedInv, CodeInv, SubmitInv, BeforeSubmit,
           HoldsLogs, HasLog, HasCode
  <1>4. EraseInv(t)'
    BY DEF EraseInv, StageInv
  <1>. QED
    BY <1>1, <1>2, <1>3, <1>4

\* SetExecutorError keeps the invariant of its task.
LEMMA SetExecutorErrorInv ==
  ASSUME TypeOK, NEW t \in Task, TaskInv(t),
         NEW reply, SetExecutorError(t, reply)
  PROVE  TaskInv(t)'
  <1>. USE DEF SetExecutorError, UpdateTaskState, Updates, Matches, ThenOrExcept
  <1>1. VisitedInv(t)' /\ StageInv(t)'
    BY DEF VisitedInv, StageInv, StageStates, TryBody, DocState, TesTaskState
  <1>2. SubmitInv(t)' /\ CodeInv(t)'
    BY DEF SubmitInv, CodeInv, StageInv, BeforeSubmit, HasCode, HasLog, TryBody
  <1>3. ExecLogInv(t)' /\ SystemLogInv(t)'
    BY DEF ExecLogInv, SystemLogInv, VisitedInv, CodeInv, SubmitInv, BeforeSubmit,
           HoldsLogs, HasLog, HasCode
  <1>4. EraseInv(t)'
    BY DEF EraseInv, StageInv
  <1>. QED
    BY <1>1, <1>2, <1>3, <1>4

\* SetComplete keeps the invariant of its task.
LEMMA SetCompleteInv ==
  ASSUME TypeOK, NEW t \in Task, TaskInv(t),
         NEW reply, SetComplete(t, reply)
  PROVE  TaskInv(t)'
  <1>. USE DEF SetComplete, UpdateTaskState, Updates, UpdateResult, Matches, ThenOrHandle,
              GetElseThrow, ErrorEntry
  <1>1. VisitedInv(t)' /\ StageInv(t)'
    BY DEF VisitedInv, StageInv, StageStates, TryBody, DocState, TesTaskState
  <1>2. SubmitInv(t)' /\ CodeInv(t)'
    BY DEF SubmitInv, CodeInv, StageInv, BeforeSubmit, HasCode, HasLog, TryBody
  <1>3. ExecLogInv(t)' /\ SystemLogInv(t)'
    BY DEF ExecLogInv, SystemLogInv, VisitedInv, CodeInv, SubmitInv, BeforeSubmit,
           HoldsLogs, HasLog, HasCode
  <1>4. EraseInv(t)'
    BY DEF EraseInv, StageInv
  <1>. QED
    BY <1>1, <1>2, <1>3, <1>4

\* SetupJob keeps the invariant of its task.
LEMMA SetupJobInv ==
  ASSUME TypeOK, NEW t \in Task, TaskInv(t),
         NEW reply, SetupJob(t, reply)
  PROVE  TaskInv(t)'
  <1>. USE DEF SetupJob, ThenOrHandle, ErrorEntry, ReraiseCustom, Request, After
  <1>1. VisitedInv(t)' /\ StageInv(t)'
    BY DEF VisitedInv, StageInv, StageStates, TryBody, DocState, TesTaskState
  <1>2. SubmitInv(t)' /\ CodeInv(t)'
    BY DEF SubmitInv, CodeInv, StageInv, BeforeSubmit, HasCode, HasLog, TryBody
  <1>3. ExecLogInv(t)' /\ SystemLogInv(t)'
    BY DEF ExecLogInv, SystemLogInv, VisitedInv, CodeInv, SubmitInv, BeforeSubmit,
           HoldsLogs, HasLog, HasCode
  <1>4. EraseInv(t)'
    BY DEF EraseInv, StageInv
  <1>. QED
    BY <1>1, <1>2, <1>3, <1>4

\* EraseCancel keeps the invariant of its task.
LEMMA EraseCancelInv ==
  ASSUME TypeOK, NEW t \in Task, TaskInv(t),
         NEW reply, EraseCancel(t, reply)
  PROVE  TaskInv(t)'
  <1>. USE DEF EraseCancel, Request, After
  <1>1. VisitedInv(t)' /\ StageInv(t)'
    BY DEF VisitedInv, StageInv, StageStates, TryBody, DocState, TesTaskState
  <1>2. SubmitInv(t)' /\ CodeInv(t)'
    BY DEF SubmitInv, CodeInv, StageInv, BeforeSubmit, HasCode, HasLog, TryBody
  <1>3. ExecLogInv(t)' /\ SystemLogInv(t)'
    BY DEF ExecLogInv, SystemLogInv, VisitedInv, CodeInv, SubmitInv, BeforeSubmit,
           HoldsLogs, HasLog, HasCode
  <1>4. EraseInv(t)'
    BY DEF EraseInv, StageInv
  <1>. QED
    BY <1>1, <1>2, <1>3, <1>4

\* EraseDelete keeps the invariant of its task.
LEMMA EraseDeleteInv ==
  ASSUME TypeOK, NEW t \in Task, TaskInv(t),
         NEW reply, EraseDelete(t, reply)
  PROVE  TaskInv(t)'
  <1>. USE DEF EraseDelete, Request, After, ThenOrExcept, ThenOrHandle, AfterErase,
              ErrorEntry, ReraiseCustom
  <1>1. VisitedInv(t)' /\ StageInv(t)'
    BY DEF VisitedInv, StageInv, StageStates, TryBody, DocState, TesTaskState
  <1>2. SubmitInv(t)' /\ CodeInv(t)'
    BY DEF SubmitInv, CodeInv, StageInv, BeforeSubmit, HasCode, HasLog, TryBody
  <1>3. ExecLogInv(t)' /\ SystemLogInv(t)'
    BY DEF ExecLogInv, SystemLogInv, VisitedInv, CodeInv, SubmitInv, BeforeSubmit,
           HoldsLogs, HasLog, HasCode
  <1>4. EraseInv(t)'
    BY DEF EraseInv, StageInv
  <1>. QED
    BY <1>1, <1>2, <1>3, <1>4

\* ExceptCheck keeps the invariant of its task.
LEMMA ExceptCheckInv ==
  ASSUME TypeOK, NEW t \in Task, TaskInv(t),
         NEW reply, ExceptCheck(t, reply)
  PROVE  TaskInv(t)'
  <1>. USE DEF ExceptCheck, ErrorEntry
  <1>1. VisitedInv(t)' /\ StageInv(t)'
    BY DEF VisitedInv, StageInv, StageStates, TryBody, DocState, TesTaskState
  <1>2. SubmitInv(t)' /\ CodeInv(t)'
    BY DEF SubmitInv, CodeInv, StageInv, BeforeSubmit, HasCode, HasLog, TryBody
  <1>3. ExecLogInv(t)' /\ SystemLogInv(t)'
    BY DEF ExecLogInv, SystemLogInv, VisitedInv, CodeInv, SubmitInv, BeforeSubmit,
           HoldsLogs, HasLog, HasCode
  <1>4. EraseInv(t)'
    BY DEF EraseInv, StageInv
  <1>. QED
    BY <1>1, <1>2, <1>3, <1>4

\* HandleUpdate keeps the invariant of its task.
LEMMA HandleUpdateInv ==
  ASSUME TypeOK, NEW t \in Task, TaskInv(t),
         NEW reply, HandleUpdate(t, reply)
  PROVE  TaskInv(t)'
  <1>. USE DEF HandleUpdate, UpdateErrorTask, Updates, Matches, TesTaskLog
  <1>1. VisitedInv(t)' /\ StageInv(t)'
    BY DEF VisitedInv, StageInv, StageStates, TryBody, DocState, TesTaskState
  <1>2. SubmitInv(t)' /\ CodeInv(t)'
    BY DEF SubmitInv, CodeInv, StageInv, BeforeSubmit, HasCode, HasLog, TryBody
  <1>3. ExecLogInv(t)' /\ SystemLogInv(t)'
    BY DEF ExecLogInv, SystemLogInv, VisitedInv, CodeInv, SubmitInv, BeforeSubmit,
           HoldsLogs, HasLog, HasCode
  <1>4. EraseInv(t)'
    BY DEF EraseInv, StageInv
  <1>. QED
    BY <1>1, <1>2, <1>3, <1>4

\* ShutdownUpdate keeps the invariant of its task.
LEMMA ShutdownUpdateInv ==
  ASSUME TypeOK, NEW t \in Task, TaskInv(t),
         NEW reply, ShutdownUpdate(t, reply)
  PROVE  TaskInv(t)'
  <1>. USE DEF ShutdownUpdate, UpdateTaskState, Updates, Matches
  <1>1. VisitedInv(t)' /\ StageInv(t)'
    BY DEF VisitedInv, StageInv, StageStates, TryBody, DocState, TesTaskState
  <1>2. SubmitInv(t)' /\ CodeInv(t)'
    BY DEF SubmitInv, CodeInv, StageInv, BeforeSubmit, HasCode, HasLog, TryBody
  <1>3. ExecLogInv(t)' /\ SystemLogInv(t)'
    BY DEF ExecLogInv, SystemLogInv, VisitedInv, CodeInv, SubmitInv, BeforeSubmit,
           HoldsLogs, HasLog, HasCode
  <1>4. EraseInv(t)'
    BY DEF EraseInv, StageInv
  <1>. QED
    BY <1>1, <1>2, <1>3, <1>4

\* HandlerCancelled keeps the invariant of its task.
LEMMA HandlerCancelledInv ==
  ASSUME TypeOK, NEW t \in Task, TaskInv(t),
         HandlerCancelled(t)
  PROVE  TaskInv(t)'
  <1>. USE DEF HandlerCancelled
  <1>1. VisitedInv(t)' /\ StageInv(t)'
    BY DEF VisitedInv, StageInv, StageStates, TryBody, DocState, TesTaskState
  <1>2. SubmitInv(t)' /\ CodeInv(t)'
    BY DEF SubmitInv, CodeInv, StageInv, BeforeSubmit, HasCode, HasLog, TryBody
  <1>3. ExecLogInv(t)' /\ SystemLogInv(t)'
    BY DEF ExecLogInv, SystemLogInv, VisitedInv, CodeInv, SubmitInv, BeforeSubmit,
           HoldsLogs, HasLog, HasCode
  <1>4. EraseInv(t)'
    BY DEF EraseInv, StageInv
  <1>. QED
    BY <1>1, <1>2, <1>3, <1>4

\* CancelTask keeps the invariant of its task.
LEMMA CancelTaskInv ==
  ASSUME TypeOK, NEW t \in Task, TaskInv(t),
         NEW reply, CancelTask(t, reply)
  PROVE  TaskInv(t)'
  <1>. USE DEF CancelTask, UpdateTaskState, Updates, Matches, Cancelable, handlerVars
  <1>1. VisitedInv(t)' /\ StageInv(t)'
    BY DEF VisitedInv, StageInv, StageStates, TryBody, DocState, TesTaskState
  <1>2. SubmitInv(t)' /\ CodeInv(t)'
    BY DEF SubmitInv, CodeInv, StageInv, BeforeSubmit, HasCode, HasLog, TryBody
  <1>3. ExecLogInv(t)' /\ SystemLogInv(t)'
    BY DEF ExecLogInv, SystemLogInv, VisitedInv, CodeInv, SubmitInv, BeforeSubmit,
           HoldsLogs, HasLog, HasCode
  <1>4. EraseInv(t)'
    BY DEF EraseInv, StageInv
  <1>. QED
    BY <1>1, <1>2, <1>3, <1>4

\* JobFinishes keeps the invariant of its task.
LEMMA JobFinishesInv ==
  ASSUME TypeOK, NEW t \in Task, TaskInv(t),
         NEW code \in ReturnCode, JobFinishes(t, code) /\ UNCHANGED <<handlerVars, dbVars>>
  PROVE  TaskInv(t)'
  <1>. USE DEF JobFinishes, handlerVars
  <1>1. VisitedInv(t)' /\ StageInv(t)'
    BY DEF VisitedInv, StageInv, StageStates, TryBody, DocState, TesTaskState
  <1>2. SubmitInv(t)' /\ CodeInv(t)'
    BY DEF SubmitInv, CodeInv, StageInv, BeforeSubmit, HasCode, HasLog, TryBody
  <1>3. ExecLogInv(t)' /\ SystemLogInv(t)'
    BY DEF ExecLogInv, SystemLogInv, VisitedInv, CodeInv, SubmitInv, BeforeSubmit,
           HoldsLogs, HasLog, HasCode
  <1>4. EraseInv(t)'
    BY DEF EraseInv, StageInv
  <1>. QED
    BY <1>1, <1>2, <1>3, <1>4

\* CreateTask keeps the invariant of its task.
LEMMA CreateTaskInv ==
  ASSUME TypeOK, NEW t \in Task, TaskInv(t),
         NEW w \in Worker, NEW list \in InputLists, NEW reply, CreateTask(t, w, list, reply)
  PROVE  TaskInv(t)'
  <1>. USE DEF CreateTask, InsertTask, EmptyLog
  <1>1. VisitedInv(t)' /\ StageInv(t)'
    BY DEF VisitedInv, StageInv, StageStates, TryBody, DocState, TesTaskState
  <1>2. SubmitInv(t)' /\ CodeInv(t)'
    BY DEF SubmitInv, CodeInv, StageInv, BeforeSubmit, HasCode, HasLog, TryBody,
           VisitedInv
  <1>3. ExecLogInv(t)' /\ SystemLogInv(t)'
    BY DEF ExecLogInv, SystemLogInv, VisitedInv, CodeInv, SubmitInv, BeforeSubmit,
           HoldsLogs, HasLog, HasCode
  <1>4. EraseInv(t)'
    BY DEF EraseInv, StageInv
  <1>. QED
    BY <1>1, <1>2, <1>3, <1>4

=============================================================================
