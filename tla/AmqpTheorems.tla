---------------------------- MODULE AmqpTheorems ----------------------------
(***************************************************************************)
(* Over AMQP, for any number of tasks and workers, any max_polls, input    *)
(* lists and faults: every variable keeps its type, and what a document    *)
(* says of its task is what became of the job, although the chain of       *)
(* events and the error handler beside it write the same document.         *)
(***************************************************************************)
EXTENDS AmqpProofs, HandlerProofs

-----------------------------------------------------------------------------
(***************************************************************************)
(* The inductive invariant: what was written to a document so far, by      *)
(* whichever coroutine, fits where the chain of events is.                 *)
(***************************************************************************)
\* The awaits before the executor log is written.
BeforeLog == BeforeSubmit \cup {"poll", "exec_log_read", "exec_log_write"}

\* The awaits at which the executor log is written.
HasLog == {"late_check", "set_error", "set_complete"}

\* The awaits at which a log helper holds the logs it is going to write.
HoldsLogs == {"start_log_write", "exec_log_write"}

\* A document that can be canceled was never in a final state; so the state that
\* a conditional update gives it is its first outcome.
DocInv(t) ==
  /\ state[t] = "ABSENT" => visited[t] = {}
  /\ state[t] \in Cancelable => visited[t] \subseteq Cancelable
  /\ \A a, b \in visited[t] \cap {"COMPLETE", "EXECUTOR_ERROR", "CANCELED"} : a = b

\* The executor log is written once, between the polling and the outcome.
ExecInv(t) ==
  /\ state[t] = "ABSENT" \/ pc[t] \in BeforeLog => logs[t].exec = <<>>
  /\ pc[t] \in HoldsLogs => snapshot[t].exec = <<>>
  /\ pc[t] \in HasLog => logs[t].exec = <<rc[t]>>
  /\ "COMPLETE" \in visited[t] => result[t] = "zero" /\ logs[t].exec = <<"zero">>
  /\ "EXECUTOR_ERROR" \in visited[t] => result[t] = "nonzero" /\ logs[t].exec = <<"nonzero">>

\* No log helper holds logs older than a system log it could write over.
SystemInv(t) ==
  /\ "SYSTEM_ERROR" \in visited[t] <=> logs[t].system > 0
  /\ pc[t] \in HoldsLogs => snapshot[t].system = 0

\* A poll that is still to come is within the limit.
PollsInv(t) == pc[t] = "poll" => polls[t] < MaxPolls

OutcomeInv(t) == DocInv(t) /\ ExecInv(t) /\ SystemInv(t) /\ PollsInv(t)

\* Everything OutcomeInv looks at.
Own(t) ==
  <<state[t], logs[t], visited[t], result[t], pc[t], rc[t], polls[t], snapshot[t]>>

\* A step that keeps the invariant of one task and leaves the others alone.
Settles(t) == OutcomeInv(t)' /\ \A u \in Task \ {t} : UNCHANGED Own(u)

LEMMA Undisturbed ==
  ASSUME NEW u \in Task, OutcomeInv(u), UNCHANGED Own(u)
  PROVE  OutcomeInv(u)'
  BY DEF OutcomeInv, DocInv, ExecInv, SystemInv, PollsInv, Own

LEMMA SettlesAll ==
  ASSUME \A u \in Task : OutcomeInv(u), NEW t \in Task, Settles(t)
  PROVE  \A u \in Task : OutcomeInv(u)'
  BY Undisturbed DEF Settles

\* The label sets, and where errors lead.
LEMMA Labels ==
  /\ \A e : {ErrorEntry(e), AfterErase(e)} \cap (BeforeLog \cup HasLog \cup HoldsLogs) = {}
  /\ {"idle", "except_check", "shutdown_update"} \cap (BeforeLog \cup HasLog \cup HoldsLogs) = {}
  /\ HoldsLogs \subseteq BeforeLog /\ "poll" \in BeforeLog /\ BeforeLog \cap HasLog = {}
  BY DEF ErrorEntry, AfterErase, BeforeLog, BeforeSubmit, HasLog, HoldsLogs

\* Where control may go, for the label sets of this module.
LEMMA ControlLeads ==
  ASSUME HandlerTypes, NEW t \in Task, NEW label, NEW e,
         Goto(t, label) \/ ThenOrHandle(t, e, label) \/ ThenOrExcept(t, e, label)
  PROVE  /\ \A u \in Task \ {t} : pc'[u] = pc[u]
         /\ pc'[t] = label \/ pc'[t] \notin BeforeLog \cup HasLog \cup HoldsLogs
  BY Labels DEF Goto, ThenOrHandle, ThenOrExcept, HandlerTypes, HandlersTypeOK

-----------------------------------------------------------------------------
(***************************************************************************)
(* The kinds of step.                                                      *)
(***************************************************************************)
\* What the new position of the chain of events must not ask for too early.
Leads(t, label) ==
  /\ label \notin HoldsLogs
  /\ label \in BeforeLog => pc[t] \in BeforeLog
  /\ label \in HasLog => pc[t] \in HasLog
  /\ label = "poll" => pc[t] = "poll"

\* A step that passes control and touches nothing of the document.
LEMMA ControlSettles ==
  ASSUME HandlerTypes, NEW t \in Task, OutcomeInv(t), NEW label, NEW e,
         Goto(t, label) \/ ThenOrHandle(t, e, label) \/ ThenOrExcept(t, e, label),
         Leads(t, label),
         UNCHANGED <<state, visited, logs, result, rc, polls, snapshot>>
  PROVE  Settles(t)
  <1>1. /\ \A u \in Task \ {t} : pc'[u] = pc[u]
        /\ pc'[t] = label \/ pc'[t] \notin BeforeLog \cup HasLog \cup HoldsLogs
    BY ControlLeads
  <1>2. OutcomeInv(t)'
    BY <1>1, Labels DEF OutcomeInv, DocInv, ExecInv, SystemInv, PollsInv, Leads
  <1> QED
    BY <1>1, <1>2 DEF Settles, Own

\* A conditional update, of the handler or of the client.
LEMMA UpdateSettles ==
  ASSUME HandlerTypes, NEW t \in Task, OutcomeInv(t),
         NEW old \in SUBSET Cancelable, NEW new \in TesTaskState \ {"SYSTEM_ERROR"}, NEW reply,
         UpdateTaskState(t, old, new, reply),
         new = "COMPLETE" => result[t] = "zero" /\ logs[t].exec = <<"zero">>,
         new = "EXECUTOR_ERROR" => result[t] = "nonzero" /\ logs[t].exec = <<"nonzero">>,
         \/ UNCHANGED pc
         \/ \E label, e :
              /\ Goto(t, label) \/ ThenOrHandle(t, e, label) \/ ThenOrExcept(t, e, label)
              /\ Leads(t, label),
         UNCHANGED <<result, rc, polls, snapshot>>
  PROVE  Settles(t)
  <1>1. /\ \A u \in Task \ {t} : pc'[u] = pc[u]
        /\ pc'[t] = pc[t] \/ Leads(t, pc'[t]) \/ pc'[t] \notin BeforeLog \cup HasLog \cup HoldsLogs
    BY ControlLeads
  <1>2. /\ UNCHANGED logs
        /\ \A u \in Task \ {t} : state'[u] = state[u] /\ visited'[u] = visited[u]
        /\ \/ state'[t] = state[t] /\ visited'[t] = visited[t]
           \/ /\ state[t] \in Cancelable
              /\ state'[t] = new /\ visited'[t] = visited[t] \cup {new}
    BY DEF UpdateTaskState, Updates, Matches, HandlerTypes, RepositoryTypeOK
  <1>3. "ABSENT" \notin TesTaskState \cup Cancelable
    BY DEF TesTaskState, Cancelable
  <1>4. DocInv(t)'
    BY <1>2, <1>3 DEF OutcomeInv, DocInv, Cancelable
  <1>5. ExecInv(t)' /\ SystemInv(t)' /\ PollsInv(t)'
    BY <1>1, <1>2, <1>3, Labels DEF OutcomeInv, ExecInv, SystemInv, PollsInv, Leads
  <1> QED
    BY <1>1, <1>2, <1>4, <1>5 DEF Settles, Own, OutcomeInv

\* A report of an error, by either coroutine.
LEMMA ReportSettles ==
  ASSUME HandlerTypes, NEW t \in Task, OutcomeInv(t), NEW reply,
         UpdateErrorTask(t, "SYSTEM_ERROR", reply), UNCHANGED pc \/ Goto(t, "idle"),
         UNCHANGED <<result, rc, polls, snapshot>>
  PROVE  Settles(t)
  <1>1. /\ \A u \in Task \ {t} : pc'[u] = pc[u]
        /\ pc'[t] = pc[t] \/ pc'[t] \notin BeforeLog \cup HasLog \cup HoldsLogs
    BY ControlLeads, Labels
  <1>2. logs[t] \in TesTaskLog
    BY DEF HandlerTypes, RepositoryTypeOK
  <1>3. /\ \A u \in Task \ {t} : UNCHANGED <<state[u], visited[u], logs[u]>>
        /\ \/ UNCHANGED <<state[t], visited[t], logs[t]>>
           \/ /\ state[t] \in TesTaskState /\ state'[t] = "SYSTEM_ERROR"
              /\ visited'[t] = visited[t] \cup {"SYSTEM_ERROR"}
              /\ logs'[t] = [logs[t] EXCEPT !.system = logs[t].system + 1]
    BY DEF UpdateErrorTask, Updates, Matches, HandlerTypes, RepositoryTypeOK
  <1>4. DocInv(t)'
    BY <1>3 DEF OutcomeInv, DocInv, Cancelable
  <1>5. /\ logs'[t].exec = logs[t].exec
        /\ \/ logs'[t].system = logs[t].system /\ visited'[t] = visited[t] /\ state'[t] = state[t]
           \/ /\ logs'[t].system > 0 /\ visited'[t] = visited[t] \cup {"SYSTEM_ERROR"}
              /\ state'[t] = "SYSTEM_ERROR"
    BY <1>2, <1>3 DEF TesTaskLog
  <1>6. ExecInv(t)' /\ SystemInv(t)' /\ PollsInv(t)'
    BY <1>1, <1>5, Labels DEF OutcomeInv, ExecInv, SystemInv, PollsInv
  <1> QED
    BY <1>1, <1>3, <1>4, <1>6 DEF Settles, Own, OutcomeInv

\* A RUNNING document has neither a system log nor an outcome.
LEMMA RunningLogs ==
  ASSUME HandlerTypes, NEW t \in Task, OutcomeInv(t), state[t] = "RUNNING"
  PROVE  /\ logs[t].system = 0
         /\ visited[t] \cap {"COMPLETE", "EXECUTOR_ERROR", "SYSTEM_ERROR"} = {}
  <1>1. logs[t].system \in Nat
    BY DEF HandlerTypes, RepositoryTypeOK, TesTaskLog
  <1> QED
    BY <1>1 DEF OutcomeInv, DocInv, SystemInv, Cancelable

\* A log helper reads.
LEMMA ReadSettles ==
  ASSUME HandlerTypes, NEW t \in Task, OutcomeInv(t), NEW from \in BeforeLog,
         NEW to \in HoldsLogs, NEW reply, ReadLogs(t, from, to, reply)
  PROVE  Settles(t)
  <1>1. /\ pc[t] = from
        /\ ThenOrExcept(t, GetElseThrow(UpdateResult(t, {"RUNNING"}, reply)), to)
        /\ snapshot' = [snapshot EXCEPT ![t] = logs[t]]
        /\ UNCHANGED <<state, visited, logs, result, rc, polls>>
    BY DEF ReadLogs, dbVars, pulsarVars
  <1>2. /\ \A u \in Task \ {t} : pc'[u] = pc[u] /\ snapshot'[u] = snapshot[u]
        /\ snapshot'[t] = logs[t]
        /\ pc'[t] = to \/ pc'[t] \notin BeforeLog \cup HasLog \cup HoldsLogs
    BY <1>1, ControlLeads DEF HandlerTypes, HandlersTypeOK
  <1>3. pc'[t] = to => state[t] = "RUNNING"
    BY <1>1, Labels
       DEF ThenOrExcept, GetElseThrow, UpdateResult, Matches, HandlerTypes, HandlersTypeOK
  <1>4. pc'[t] \in HoldsLogs => logs[t].system = 0
    BY <1>2, <1>3, RunningLogs
  <1>5. DocInv(t)' /\ ExecInv(t)'
    BY <1>1, <1>2, Labels DEF OutcomeInv, DocInv, ExecInv
  <1>6. SystemInv(t)' /\ PollsInv(t)'
    BY <1>1, <1>2, <1>4, Labels DEF OutcomeInv, SystemInv, PollsInv, HoldsLogs
  <1> QED
    BY <1>1, <1>2, <1>5, <1>6 DEF Settles, Own, OutcomeInv

\* A log helper writes, if the document is RUNNING still.
LEMMA WriteSettles ==
  ASSUME HandlerTypes, NEW t \in Task, OutcomeInv(t), NEW log \in TesTaskLog, log.system = 0,
         NEW reply, UpdateTaskLogs(t, {"RUNNING"}, log, reply),
         NEW label, NEW e, ThenOrExcept(t, e, label),
         e = "none" => UpdateResult(t, {"RUNNING"}, reply) = "just",
         label \notin HoldsLogs, label # "poll",
         label \in BeforeLog => log.exec = <<>>,
         label \in HasLog => log.exec = <<rc[t]>>,
         UNCHANGED <<result, rc, polls, snapshot>>
  PROVE  Settles(t)
  <1>1. /\ \A u \in Task \ {t} : pc'[u] = pc[u] /\ logs'[u] = logs[u]
        /\ UNCHANGED <<state, visited>>
        /\ pc'[t] = label \/ pc'[t] \notin BeforeLog \cup HasLog \cup HoldsLogs
        /\ logs'[t] = logs[t] \/ (state[t] = "RUNNING" /\ logs'[t] = log)
    BY ControlLeads DEF UpdateTaskLogs, Updates, Matches, HandlerTypes, RepositoryTypeOK
  <1>2. pc'[t] \in BeforeLog \cup HasLog => pc'[t] = label /\ logs'[t] = log
    <2>1. pc'[t] \in BeforeLog \cup HasLog => e = "none" /\ pc'[t] = label
      BY Labels DEF ThenOrExcept, HandlerTypes, HandlersTypeOK
    <2>2. e = "none" => reply = "ok" /\ state[t] = "RUNNING"
      BY DEF UpdateResult, Matches
    <2>3. e = "none" => logs'[t] = log
      BY <2>2 DEF UpdateTaskLogs, Updates, Matches, HandlerTypes, RepositoryTypeOK
    <2> QED
      BY <2>1, <2>3
  <1>3. DocInv(t)' /\ PollsInv(t)'
    BY <1>1, <1>2, Labels DEF OutcomeInv, DocInv, PollsInv
  <1>4. ExecInv(t)'
    BY <1>1, <1>2, Labels, RunningLogs DEF OutcomeInv, ExecInv
  <1>5. SystemInv(t)'
    BY <1>1, <1>2, Labels, RunningLogs DEF OutcomeInv, SystemInv
  <1> QED
    BY <1>1, <1>3, <1>4, <1>5 DEF Settles, Own, OutcomeInv

-----------------------------------------------------------------------------
(***************************************************************************)
(* The awaits of the chain of events.                                      *)
(***************************************************************************)
\* The updates that end a task on their own say what became of its job.
LEMMA OutcomeSettles ==
  ASSUME HandlerTypes, NEW t \in Task, Judged(t), OutcomeInv(t), NEW reply,
         SetComplete(t, reply) \/ SetExecutorError(t, reply)
  PROVE  Settles(t)
  <1>1. UNCHANGED <<result, rc, polls, snapshot>> /\ {"RUNNING"} \in SUBSET Cancelable
    BY DEF SetComplete, SetExecutorError, localVars, pulsarVars, Cancelable
  <1>2. Leads(t, "done_cancel") /\ Leads(t, "error_cancel")
    BY DEF Leads, BeforeLog, BeforeSubmit, HasLog, HoldsLogs
  <1>3. {"COMPLETE", "EXECUTOR_ERROR"} \subseteq TesTaskState \ {"SYSTEM_ERROR"}
    BY DEF TesTaskState
  <1>4. CASE SetComplete(t, reply)
    <2>1. pc[t] = "set_complete" /\ "set_complete" \in HasCode \cap HasLog
      BY <1>4 DEF SetComplete, HasCode, HasLog
    <2>2. result[t] = "zero" /\ logs[t].exec = <<"zero">>
      BY <2>1 DEF Judged, OutcomeInv, ExecInv
    <2>3. /\ UpdateTaskState(t, {"RUNNING"}, "COMPLETE", reply)
          /\ \E e : ThenOrHandle(t, e, "done_cancel")
      BY <1>4 DEF SetComplete
    <2> QED
      BY <1>1, <1>2, <1>3, <2>2, <2>3, UpdateSettles
  <1>5. CASE SetExecutorError(t, reply)
    <2>1. pc[t] = "set_error" /\ "set_error" \in HasCode \cap HasLog
      BY <1>5 DEF SetExecutorError, HasCode, HasLog
    <2>2. result[t] = "nonzero" /\ rc[t] = "nonzero"
      BY <2>1 DEF Judged, JobResult
    <2>3. logs[t].exec = <<"nonzero">>
      BY <2>1, <2>2 DEF OutcomeInv, ExecInv
    <2>4. /\ UpdateTaskState(t, {"RUNNING"}, "EXECUTOR_ERROR", reply)
          /\ \E e : ThenOrExcept(t, e, "error_cancel")
      BY <1>5 DEF SetExecutorError
    <2> QED
      BY <1>1, <1>2, <1>3, <2>2, <2>3, <2>4, UpdateSettles
  <1> QED
    BY <1>4, <1>5

\* The updates on the way to the submission.
LEMMA EarlyUpdateSettles ==
  ASSUME HandlerTypes, NEW t \in Task, OutcomeInv(t), NEW reply,
         HandleInitializingTask(t, reply) \/ HandleRunTask(t, reply) \/ ShutdownUpdate(t, reply)
  PROVE  Settles(t)
  <1>1. UNCHANGED <<result, rc, polls, snapshot>>
    BY DEF HandleInitializingTask, HandleRunTask, ShutdownUpdate, localVars, pulsarVars
  <1>2. /\ {"QUEUED"} \in SUBSET Cancelable /\ {"INITIALIZING"} \in SUBSET Cancelable
        /\ {} \in SUBSET Cancelable
        /\ {"INITIALIZING", "RUNNING", "CANCELED"} \subseteq TesTaskState \ {"SYSTEM_ERROR"}
    BY DEF Cancelable, TesTaskState
  <1>3. CASE HandleInitializingTask(t, reply)
    <2>1. Leads(t, "setup_data")
      BY <1>3 DEF HandleInitializingTask, Leads, BeforeLog, BeforeSubmit, HasLog, HoldsLogs
    <2>2. /\ UpdateTaskState(t, {"QUEUED"}, "INITIALIZING", reply)
          /\ \E e : ThenOrHandle(t, e, "setup_data")
      BY <1>3 DEF HandleInitializingTask
    <2> QED
      BY <1>1, <1>2, <2>1, <2>2, UpdateSettles
  <1>4. CASE HandleRunTask(t, reply)
    <2>1. Leads(t, "early_check")
      BY <1>4 DEF HandleRunTask, Leads, BeforeLog, BeforeSubmit, HasLog, HoldsLogs
    <2>2. /\ UpdateTaskState(t, {"INITIALIZING"}, "RUNNING", reply)
          /\ \E e : ThenOrExcept(t, e, "early_check")
      BY <1>4 DEF HandleRunTask
    <2> QED
      BY <1>1, <1>2, <2>1, <2>2, UpdateSettles
  <1>5. CASE ShutdownUpdate(t, reply)
    <2>1. Leads(t, "idle")
      BY Labels DEF Leads
    <2>2. UpdateTaskState(t, {}, "CANCELED", reply) /\ Goto(t, "idle")
      BY <1>5 DEF ShutdownUpdate
    <2> QED
      BY <1>1, <1>2, <2>1, <2>2, UpdateSettles
  <1> QED
    BY <1>3, <1>4, <1>5

\* The reads that may end the handler.
LEMMA CheckSettles ==
  ASSUME HandlerTypes, NEW t \in Task, OutcomeInv(t), NEW reply,
         EarlyCheck(t, reply) \/ LateCheck(t, reply) \/ ExceptCheck(t, reply)
  PROVE  Settles(t)
  <1>1. UNCHANGED <<state, visited, logs, result, rc, polls, snapshot>>
    BY DEF EarlyCheck, LateCheck, CheckCanceled, ExceptCheck, localVars, dbVars, pulsarVars
  <1>2. Leads(t, "idle") /\ \A e : Leads(t, ErrorEntry(e))
    BY Labels DEF Leads
  <1>3. ASSUME NEW from, NEW to, CheckCanceled(t, from, to, reply)
        PROVE  Goto(t, "idle") \/ Goto(t, to) \/ ThenOrExcept(t, "DataLayer", to)
    BY <1>3 DEF CheckCanceled
  <1>4. CASE EarlyCheck(t, reply)
    <2>1. Leads(t, "start_log_read")
      BY <1>4 DEF EarlyCheck, CheckCanceled, Leads, BeforeLog, BeforeSubmit, HasLog, HoldsLogs
    <2> QED
      BY <1>1, <1>2, <1>3, <1>4, <2>1, ControlSettles DEF EarlyCheck
  <1>5. CASE LateCheck(t, reply)
    <2>1. Leads(t, OutcomeLabel(rc[t]))
      BY <1>5 DEF LateCheck, CheckCanceled, OutcomeLabel, Leads, BeforeLog, BeforeSubmit, HasLog,
                  HoldsLogs
    <2> QED
      BY <1>1, <1>2, <1>3, <1>5, <2>1, ControlSettles DEF LateCheck
  <1>6. CASE ExceptCheck(t, reply)
    <2>1. Goto(t, "idle") \/ Goto(t, ErrorEntry(err[t]))
      BY <1>6 DEF ExceptCheck
    <2> QED
      BY <1>1, <1>2, <2>1, ControlSettles
  <1> QED
    BY <1>4, <1>5, <1>6

\* The log helpers.
LEMMA LogsSettle ==
  ASSUME HandlerTypes, NEW t \in Task, Judged(t), OutcomeInv(t), NEW reply,
         \/ ReadStartLog(t, reply) \/ WriteStartTime(t, FALSE, reply)
         \/ ReadExecutorLog(t, reply) \/ WriteExecutorLog(t, reply)
  PROVE  Settles(t)
  <1>1. CASE ReadStartLog(t, reply) \/ ReadExecutorLog(t, reply)
    <2>1. /\ {"start_log_read", "exec_log_read"} \subseteq BeforeLog
          /\ {"start_log_write", "exec_log_write"} \subseteq HoldsLogs
      BY DEF BeforeLog, BeforeSubmit, HoldsLogs
    <2> QED
      BY <1>1, <2>1, ReadSettles DEF ReadStartLog, ReadExecutorLog
  <1>2. snapshot[t] \in TesTaskLog
    BY DEF HandlerTypes, HandlersTypeOK
  <1>3. CASE WriteStartTime(t, FALSE, reply)
    <2> DEFINE log == [snapshot[t] EXCEPT !.start = TRUE]
    <2>1. pc[t] \in HoldsLogs
      BY <1>3 DEF WriteStartTime, HoldsLogs
    <2>2. log \in TesTaskLog /\ log.exec = <<>> /\ log.system = 0
      <3>1. \A l \in TesTaskLog : /\ [l EXCEPT !.start = TRUE] \in TesTaskLog
                                   /\ [l EXCEPT !.start = TRUE].exec = l.exec
                                   /\ [l EXCEPT !.start = TRUE].system = l.system
        BY DEF TesTaskLog
      <3> QED
        BY <1>2, <2>1, <3>1 DEF OutcomeInv, ExecInv, SystemInv
    <2>3. "run_job" \notin HoldsLogs \cup HasLog /\ "run_job" # "poll"
      BY DEF HoldsLogs, HasLog
    <2>4. PICK e : /\ ThenOrExcept(t, e, "run_job")
                   /\ e = "none" => UpdateResult(t, {"RUNNING"}, reply) = "just"
      BY <1>3 DEF WriteStartTime, GetElseThrow, UpdateResult
    <2>5. UpdateTaskLogs(t, {"RUNNING"}, log, reply) /\ UNCHANGED <<result, rc, polls, snapshot>>
      BY <1>3 DEF WriteStartTime, localVars, pulsarVars
    <2> HIDE DEF log
    <2> QED
      BY <2>2, <2>3, <2>4, <2>5, WriteSettles
  <1>4. CASE WriteExecutorLog(t, reply)
    <2> DEFINE log == [snapshot[t] EXCEPT !.exec = Append(snapshot[t].exec, rc[t])]
    <2>1. /\ pc[t] = "exec_log_write" /\ pc[t] \in HoldsLogs /\ pc[t] \in HasCode
          /\ UpdateTaskLogs(t, {"RUNNING"}, log, reply)
          /\ UNCHANGED <<result, rc, polls, snapshot>>
      BY <1>4 DEF WriteExecutorLog, HoldsLogs, HasCode, localVars, pulsarVars
    <2>2. rc[t] \in ReturnCode
      BY <2>1 DEF Judged, JobResult, ReturnCode
    <2>3. log \in TesTaskLog /\ log.exec = <<rc[t]>> /\ log.system = 0
      <3>1. \A l \in TesTaskLog, c \in ReturnCode :
              /\ [l EXCEPT !.exec = Append(l.exec, c)] \in TesTaskLog
              /\ [l EXCEPT !.exec = Append(l.exec, c)].system = l.system
              /\ [l EXCEPT !.exec = Append(l.exec, c)].exec = Append(l.exec, c)
        BY DEF TesTaskLog
      <3>2. snapshot[t].exec = <<>> /\ snapshot[t].system = 0
        BY <2>1 DEF OutcomeInv, ExecInv, SystemInv
      <3>3. Append(<<>>, rc[t]) = <<rc[t]>>
        OBVIOUS
      <3> QED
        BY <1>2, <2>2, <3>1, <3>2, <3>3
    <2>4. "late_check" \notin HoldsLogs \cup BeforeLog /\ "late_check" # "poll"
      BY DEF HoldsLogs, BeforeLog, BeforeSubmit
    <2>5. PICK e : /\ ThenOrExcept(t, e, "late_check")
                   /\ e = "none" => UpdateResult(t, {"RUNNING"}, reply) = "just"
      BY <1>4 DEF WriteExecutorLog, GetElseThrow, UpdateResult
    <2> HIDE DEF log
    <2> QED
      BY <2>1, <2>3, <2>4, <2>5, WriteSettles
  <1> QED
    BY <1>1, <1>3, <1>4

\* The handler itself reports an error.
LEMMA HandlerReports ==
  ASSUME HandlerTypes, NEW t \in Task, OutcomeInv(t), NEW reply,
         HandleUpdate(t, reply) \/ SideUpdate(t, reply)
  PROVE  Settles(t)
  <1>1. /\ UpdateErrorTask(t, "SYSTEM_ERROR", reply)
        /\ UNCHANGED pc \/ Goto(t, "idle")
        /\ UNCHANGED <<result, rc, polls, snapshot>>
    BY DEF HandleUpdate, SideUpdate, localVars, handlerVars, pulsarVars
  <1> QED
    BY <1>1, ReportSettles

\* A call of the repository.
LEMMA DbStepSettles ==
  ASSUME HandlerTypes, NEW t \in Task, Judged(t), OutcomeInv(t), NEW reply, DbStep(t, reply)
  PROVE  Settles(t)
  BY OutcomeSettles, EarlyUpdateSettles, CheckSettles, LogsSettle, HandlerReports DEF DbStep

\* A turn of job_status_complete.
LEMMA PollSettles ==
  ASSUME HandlerTypes, NEW t \in Task, OutcomeInv(t), NEW e, PollStatus(t, e)
  PROVE  Settles(t)
  <1>1. /\ pc[t] = "poll" /\ polls[t] < MaxPolls /\ logs[t].exec = <<>>
        /\ UNCHANGED <<state, visited, logs, result, snapshot>>
    BY Labels DEF PollStatus, OutcomeInv, PollsInv, ExecInv, dbVars, pulsarVars
  <1>2. /\ "exec_log_read" \notin HasLog \cup HoldsLogs /\ "exec_log_read" # "poll"
        /\ Leads(t, "poll")
    BY <1>1 DEF Leads, BeforeLog, BeforeSubmit, HasLog, HoldsLogs
  <1>3. CASE e # "none"
    BY <1>1, <1>2, <1>3, ControlSettles DEF PollStatus
  <1>4. CASE e = "none" /\ result[t] # "none"
    <2>1. /\ rc' = [rc EXCEPT ![t] = result[t]] /\ UNCHANGED polls
          /\ Goto(t, "exec_log_read")
      BY <1>4 DEF PollStatus
    <2>2. /\ pc'[t] = "exec_log_read"
          /\ \A u \in Task \ {t} : pc'[u] = pc[u] /\ rc'[u] = rc[u]
      BY <2>1 DEF Goto, HandlerTypes, HandlersTypeOK
    <2>3. OutcomeInv(t)'
      BY <1>1, <1>2, <2>1, <2>2 DEF OutcomeInv, DocInv, ExecInv, SystemInv, PollsInv
    <2> QED
      BY <1>1, <2>1, <2>2, <2>3 DEF Settles, Own
  <1>5. CASE e = "none" /\ result[t] = "none"
    <2>1. /\ polls' = [polls EXCEPT ![t] = polls[t] + 1] /\ UNCHANGED rc
          /\ ThenOrExcept(t, IF PollsExhausted(polls[t] + 1) THEN "Unknown" ELSE "none", "poll")
      BY <1>5 DEF PollStatus
    <2>2. polls[t] \in 0..MaxPolls
      BY DEF HandlerTypes, HandlersTypeOK
    <2>3. /\ pc'[t] = "except_check" \/ (pc'[t] = "poll" /\ polls[t] + 1 # MaxPolls)
          /\ polls'[t] = polls[t] + 1
          /\ \A u \in Task \ {t} : pc'[u] = pc[u] /\ polls'[u] = polls[u]
      BY <2>1 DEF ThenOrExcept, PollsExhausted, HandlerTypes, HandlersTypeOK
    <2>4. pc'[t] = "poll" => polls'[t] < MaxPolls
      BY <1>1, <2>2, <2>3, MaxPollsAssumption
    <2>5. OutcomeInv(t)'
      BY <1>1, <2>1, <2>3, <2>4, Labels DEF OutcomeInv, DocInv, ExecInv, SystemInv, PollsInv
    <2> QED
      BY <1>1, <2>1, <2>3, <2>5 DEF Settles, Own
  <1> QED
    BY <1>3, <1>4, <1>5

\* An await that sends a message.
LEMMA MessageSettles ==
  ASSUME HandlerTypes, NEW t \in Task, OutcomeInv(t), NEW reply, MessageStep(t, reply)
  PROVE  Settles(t)
  <1>1. CASE HandleQueuedTaskAmqp(t, reply)
    <2>1. Leads(t, "initialize_task")
      BY <1>1 DEF HandleQueuedTaskAmqp, Leads, BeforeLog, BeforeSubmit, HasLog, HoldsLogs
    <2>2. Goto(t, "initialize_task") /\ UNCHANGED <<state, visited, logs, result, rc, polls, snapshot>>
      BY <1>1 DEF HandleQueuedTaskAmqp, SendMessage, localVars, dbVars
    <2> QED
      BY <2>1, <2>2, ControlSettles
  <1>2. CASE EraseJob(t, reply)
    <2>1. PICK label : Goto(t, label) /\ (label = "idle" \/ label = AfterErase(err[t]))
      BY <1>2 DEF EraseJob
    <2>2. UNCHANGED <<state, visited, logs, result, rc, polls, snapshot>>
      BY <1>2 DEF EraseJob, SendMessage, localVars, dbVars
    <2>3. Leads(t, label)
      BY <2>1, Labels DEF Leads
    <2> QED
      BY <2>1, <2>2, <2>3, ControlSettles
  <1>3. CASE RunJob(t, reply)
    <2>1. /\ pc[t] = "run_job" /\ Goto(t, "poll") /\ polls' = [polls EXCEPT ![t] = 0]
          /\ UNCHANGED <<state, visited, logs, result, rc, snapshot>>
      BY <1>3 DEF RunJob, SendMessage, StartPolling, dbVars
    <2>2. /\ pc'[t] = "poll" /\ polls'[t] = 0
          /\ \A u \in Task \ {t} : pc'[u] = pc[u] /\ polls'[u] = polls[u]
      BY <2>1 DEF Goto, HandlerTypes, HandlersTypeOK
    <2>3. 0 < MaxPolls
      BY MaxPollsAssumption
    <2>4. "run_job" \in BeforeLog /\ "poll" \notin HoldsLogs \cup HasLog
      BY DEF BeforeLog, BeforeSubmit, HoldsLogs, HasLog
    <2>5. OutcomeInv(t)'
      BY <2>1, <2>2, <2>3, <2>4 DEF OutcomeInv, DocInv, ExecInv, SystemInv, PollsInv
    <2> QED
      BY <2>1, <2>2, <2>5 DEF Settles, Own
  <1> QED
    BY <1>1, <1>2, <1>3 DEF MessageStep

\* The steps of both coroutines of a task.
LEMMA TaskSettles ==
  ASSUME HandlerTypes, NEW t \in Task, Judged(t), OutcomeInv(t), ChainStep(t) \/ SideStep(t)
  PROVE  Settles(t)
  <1>1. ASSUME NEW reply, DbStep(t, reply) PROVE Settles(t)
    BY <1>1, DbStepSettles
  <1>2. ASSUME NEW reply, MessageStep(t, reply) PROVE Settles(t)
    BY <1>2, MessageSettles
  <1>3. ASSUME NEW e, PollStatus(t, e) PROVE Settles(t)
    BY <1>3, PollSettles
  <1>4. ASSUME NEW reply, SideUpdate(t, reply) PROVE Settles(t)
    BY <1>4, HandlerReports
  <1>5. ASSUME NEW e, SetupInput(t, FALSE, e) PROVE Settles(t)
    <2>1. /\ pc[t] = "setup_data" /\ \E f : ThenOrHandle(t, f, "setup_data")
          /\ UNCHANGED <<state, visited, logs, result, rc, polls, snapshot>>
      BY <1>5 DEF SetupInput, dbVars, pulsarVars
    <2>2. Leads(t, "setup_data")
      BY <2>1 DEF Leads, BeforeLog, BeforeSubmit, HasLog, HoldsLogs
    <2> QED
      BY <2>1, <2>2, ControlSettles
  <1>6. CASE HandleQueuedTask(t) \/ DispatchRunTask(t)
    <2>1. PICK label : Goto(t, label) /\ Leads(t, label)
      BY <1>6 DEF HandleQueuedTask, DispatchRunTask, Leads, BeforeLog, BeforeSubmit, HasLog,
                  HoldsLogs
    <2>2. UNCHANGED <<state, visited, logs, result, rc, polls, snapshot>>
      BY <1>6 DEF HandleQueuedTask, DispatchRunTask, localVars, dbVars, pulsarVars
    <2> QED
      BY <2>1, <2>2, ControlSettles
  <1>7. CASE (\E c : ConnectStep(t, c)) \/ (\E reply : SideErase(t, reply))
    <2>1. UNCHANGED <<state, visited, logs, result, pc, rc, polls, snapshot>>
      BY <1>7 DEF ConnectStep, SideErase, SendMessage, handlerVars, dbVars, pulsarVars
    <2> QED
      BY <2>1, Undisturbed DEF Settles, Own
  <1> QED
    BY <1>1, <1>2, <1>3, <1>4, <1>5, <1>6, <1>7 DEF ChainStep, SideStep

-----------------------------------------------------------------------------
(***************************************************************************)
(* What clients, Pulsar and the operator do.                               *)
(***************************************************************************)
LEMMA CancelSettles ==
  ASSUME HandlerTypes, NEW t \in Task, OutcomeInv(t), NEW reply, CancelTask(t, reply)
  PROVE  Settles(t)
  <1>1. /\ UpdateTaskState(t, Cancelable, "CANCELED", reply)
        /\ UNCHANGED <<pc, result, rc, polls, snapshot>>
    BY DEF CancelTask, handlerVars, pulsarVars
  <1>2. "CANCELED" \in TesTaskState \ {"SYSTEM_ERROR"}
    BY DEF TesTaskState
  <1> QED
    BY <1>1, <1>2, UpdateSettles

\* A document that was not there has no past.
LEMMA CreateSettles ==
  ASSUME HandlerTypes, NEW t \in Task, OutcomeInv(t), NEW w, NEW list, NEW reply,
         CreateTask(t, w, list, reply)
  PROVE  Settles(t)
  <1>1. /\ state[t] = "ABSENT" /\ UNCHANGED <<logs, result, rc, polls, snapshot>>
        /\ pc' = pc \/ pc' = [pc EXCEPT ![t] = "queued_task"]
        /\ \/ UNCHANGED <<state, visited>>
           \/ /\ state' = [state EXCEPT ![t] = "QUEUED"]
              /\ visited' = [visited EXCEPT ![t] = {"QUEUED"}]
    BY DEF CreateTask, InsertTask, pulsarVars
  <1>2. /\ \A u \in Task \ {t} : UNCHANGED <<state[u], visited[u], pc[u]>>
        /\ pc'[t] = pc[t] \/ pc'[t] = "queued_task"
        /\ \/ UNCHANGED <<state[t], visited[t]>>
           \/ state'[t] = "QUEUED" /\ visited'[t] = {"QUEUED"}
    BY <1>1 DEF HandlerTypes, RepositoryTypeOK, HandlersTypeOK
  <1>3. visited[t] = {} /\ logs[t].exec = <<>>
    BY <1>1 DEF OutcomeInv, DocInv, ExecInv
  <1>4. "queued_task" \notin HoldsLogs \cup HasLog
    BY DEF HoldsLogs, HasLog
  <1>5. DocInv(t)'
    BY <1>2, <1>3 DEF OutcomeInv, DocInv, Cancelable
  <1>6. ExecInv(t)' /\ SystemInv(t)' /\ PollsInv(t)'
    BY <1>1, <1>2, <1>3, <1>4 DEF OutcomeInv, ExecInv, SystemInv, PollsInv
  <1> QED
    BY <1>1, <1>2, <1>5, <1>6 DEF Settles, Own, OutcomeInv

\* A job ends after its task was submitted, so before anything is said of it.
LEMMA FinishSettles ==
  ASSUME HandlerTypes, NEW t \in Task, OutcomeInv(t), NEW code, JobFinishes(t, code),
         UNCHANGED <<handlerVars, dbVars>>
  PROVE  Settles(t)
  <1>1. /\ result[t] = "none" /\ result' = [result EXCEPT ![t] = code]
        /\ UNCHANGED <<state, visited, logs, pc, rc, polls, snapshot>>
    BY DEF JobFinishes, handlerVars, dbVars
  <1>2. \A u \in Task \ {t} : result'[u] = result[u]
    BY <1>1 DEF HandlerTypes, PulsarTypeOK
  <1>3. OutcomeInv(t)'
    BY <1>1 DEF OutcomeInv, DocInv, ExecInv, SystemInv, PollsInv
  <1> QED
    BY <1>1, <1>2, <1>3 DEF Settles, Own

LEMMA EnvironmentSettles ==
  ASSUME HandlerTypes, \A u \in Task : OutcomeInv(u), EnvironmentStep
  PROVE  \A u \in Task : OutcomeInv(u)'
  <1>1. CASE \E t \in Task : Settles(t)
    BY <1>1, SettlesAll
  <1>2. ASSUME NEW t \in Task, NEW reply, CancelTask(t, reply) PROVE Settles(t)
    BY <1>2, CancelSettles
  <1>3. ASSUME NEW t \in Task, NEW w, NEW list, NEW reply, CreateTask(t, w, list, reply)
        PROVE  Settles(t)
    BY <1>3, CreateSettles
  <1>4. ASSUME NEW t \in Task, NEW code, JobFinishes(t, code), UNCHANGED <<handlerVars, dbVars>>
        PROVE  Settles(t)
    BY <1>4, FinishSettles
  <1>5. ASSUME NEW t \in Task, ChainCancelled(t) PROVE Settles(t)
    <2>1. PICK label : Goto(t, label) /\ label \in {"idle", "shutdown_update"}
      BY <1>5 DEF ChainCancelled, HandlerCancelled
    <2>2. UNCHANGED <<state, visited, logs, result, rc, polls, snapshot>>
      BY <1>5 DEF ChainCancelled, HandlerCancelled, localVars, dbVars, pulsarVars
    <2>3. Leads(t, label)
      BY <2>1, Labels DEF Leads
    <2> QED
      BY <2>1, <2>2, <2>3, ControlSettles
  <1>6. CASE \E t \in Task : PulsarConsumes(t) \/ SideCancelled(t)
    <2>1. UNCHANGED <<state, visited, logs, result, pc, rc, polls, snapshot>>
      BY <1>6 DEF PulsarConsumes, SideCancelled, handlerVars, dbVars, pulsarVars
    <2> QED
      BY <2>1, Undisturbed DEF Own
  <1>7. ASSUME NEW w, CrashBoth(w), NEW u \in Task PROVE OutcomeInv(u)'
    <2>1. /\ pc'[u] = pc[u] \/ pc'[u] = "idle"
          /\ UNCHANGED <<state, visited, logs, result, rc, polls, snapshot>>
      BY <1>7 DEF CrashBoth, Crash, localVars, dbVars, pulsarVars
    <2> QED
      BY <2>1, Labels DEF OutcomeInv, DocInv, ExecInv, SystemInv, PollsInv
  <1> QED
    BY <1>1, <1>2, <1>3, <1>4, <1>5, <1>6, <1>7 DEF EnvironmentStep

LEMMA OutcomeStep ==
  HandlerTypes /\ CodeInv /\ (\A u \in Task : OutcomeInv(u)) /\ [Next]_vars
    => (\A u \in Task : OutcomeInv(u))'
  <1> SUFFICES ASSUME HandlerTypes, CodeInv, \A u \in Task : OutcomeInv(u), [Next]_vars
               PROVE  \A u \in Task : OutcomeInv(u)'
    OBVIOUS
  <1>1. CASE EnvironmentStep
    BY <1>1, EnvironmentSettles
  <1>2. ASSUME NEW t \in Task, ChainStep(t) \/ SideStep(t) PROVE \A u \in Task : OutcomeInv(u)'
    <2>1. Judged(t)
      BY DEF CodeInv
    <2>2. Settles(t)
      BY <1>2, <2>1, TaskSettles
    <2> QED
      BY <2>2, SettlesAll
  <1>3. CASE UNCHANGED vars
    <2>1. UNCHANGED <<state, visited, logs, result, pc, rc, polls, snapshot>>
      BY <1>3 DEF vars, handlerVars, dbVars, pulsarVars
    <2> QED
      BY <2>1, Undisturbed DEF Own
  <1> QED
    BY <1>1, <1>2, <1>3 DEF Next

-----------------------------------------------------------------------------
(***************************************************************************)
(* Types.                                                                  *)
(***************************************************************************)
\* The two variables no other invariant speaks of.
LinkTypes == side \in [Task -> SideLabel] /\ channel \in [Task -> BOOLEAN]

\* A message leaves what is known of the jobs in its types.
LEMMA SendTypes ==
  ASSUME PulsarTypeOK, NEW t \in Task, NEW c, NEW type \in MessageType, NEW reply,
         SendMessage(t, c, type, reply)
  PROVE  PulsarTypeOK'
  <1>1. MessageType \subseteq RequestKind
    BY DEF MessageType, RequestKind
  <1>2. /\ sent' = [sent EXCEPT ![t] = sent[t] \cup {type}]
        /\ submits' = [submits EXCEPT ![t] = IF type = "submit" THEN submits[t] + 1 ELSE submits[t]]
        /\ UNCHANGED <<jobs, result, refused>>
    BY DEF SendMessage
  <1> QED
    BY <1>1, <1>2 DEF PulsarTypeOK

\* The awaits that send a message.
LEMMA MessageTypes ==
  ASSUME HandlerTypes, NEW t \in Task, NEW reply, MessageStep(t, reply)
  PROVE  HandlerTypes'
  <1>1. PICK label \in Label : Goto(t, label)
    <2>1. {"initialize_task", "poll", "idle"} \subseteq Label /\ AfterErase(err[t]) \in Label
      BY TransitionTypes DEF Label, TryBody, Outside
    <2> QED
      BY <2>1 DEF MessageStep, HandleQueuedTaskAmqp, RunJob, EraseJob
  <1>2. PICK type \in MessageType : SendMessage(t, "chain", type, reply)
    BY DEF MessageStep, HandleQueuedTaskAmqp, RunJob, EraseJob, MessageType
  <1>3. /\ UNCHANGED <<rc, input, snapshot, owner, inputs, dbVars>>
        /\ UNCHANGED polls \/ polls' = [polls EXCEPT ![t] = 0]
    BY DEF MessageStep, HandleQueuedTaskAmqp, RunJob, EraseJob, StartPolling, localVars
  <1>4. PulsarTypeOK' /\ RepositoryTypeOK'
    BY <1>2, <1>3, SendTypes DEF HandlerTypes, RepositoryTypeOK, dbVars
  <1>5. pc' \in [Task -> Label] /\ err' \in [Task -> Exception \cup {"none"}]
    BY <1>1 DEF Goto, HandlerTypes, HandlersTypeOK
  <1>6. polls' \in [Task -> 0..MaxPolls]
    BY <1>3, MaxPollsAssumption DEF HandlerTypes, HandlersTypeOK
  <1> QED
    BY <1>3, <1>4, <1>5, <1>6 DEF HandlerTypes, HandlersTypeOK

\* Pulsar takes a message.
LEMMA ConsumeTypes ==
  ASSUME HandlerTypes, ChainInv, NEW t \in Task, PulsarConsumes(t)
  PROVE  HandlerTypes'
  <1>1. queue[t] \in Seq(MessageType) /\ queue[t] # <<>>
    BY DEF PulsarConsumes, ChainInv, Domains
  <1>2. Head(queue[t]) \in MessageType
    BY <1>1
  <1>3. \A kind \in MessageType, job \in JobState : After(kind, job) \in JobState
    BY DEF After, JobState, MessageType
  <1>4. jobs' = [jobs EXCEPT ![t] = After(Head(queue[t]), jobs[t])]
    BY DEF PulsarConsumes
  <1>5. UNCHANGED <<result, sent, refused, submits, handlerVars, dbVars>>
    BY DEF PulsarConsumes
  <1>6. PulsarTypeOK'
    BY <1>2, <1>3, <1>4, <1>5 DEF HandlerTypes, PulsarTypeOK
  <1> QED
    BY <1>5, <1>6 DEF HandlerTypes, RepositoryTypeOK, HandlersTypeOK, handlerVars, dbVars

\* Both coroutines of a task.
LEMMA TaskTypes ==
  ASSUME HandlerTypes, NEW t \in Task, Judged(t), OutcomeInv(t), ChainStep(t) \/ SideStep(t)
  PROVE  HandlerTypes'
  <1>1. Collected(t)
    BY DEF Collected, Judged, HasCode, JobResult, ReturnCode, OutcomeInv, PollsInv
  <1>2. CASE HandleQueuedTask(t) \/ DispatchRunTask(t)
    BY <1>2, DispatchTypes
  <1>3. ASSUME NEW reply, DbStep(t, reply) PROVE HandlerTypes'
    BY <1>1, <1>3, RepositoryCallTypes DEF DbStep
  <1>4. ASSUME NEW reply, MessageStep(t, reply) PROVE HandlerTypes'
    BY <1>4, MessageTypes
  <1>5. ASSUME NEW e \in Exception \cup {"none"}, SetupInput(t, FALSE, e) \/ PollStatus(t, e)
        PROVE  HandlerTypes'
    BY <1>1, <1>5, LoopTypes
  <1>6. CASE \E c : ConnectStep(t, c)
    BY <1>6 DEF ConnectStep, HandlerTypes, RepositoryTypeOK, PulsarTypeOK, HandlersTypeOK,
                handlerVars, dbVars, pulsarVars
  <1>7. ASSUME NEW reply, SideErase(t, reply) PROVE HandlerTypes'
    <2>1. SendMessage(t, "side", "cancel", reply) /\ UNCHANGED <<handlerVars, dbVars>>
      BY <1>7 DEF SideErase
    <2>2. PulsarTypeOK'
      BY <2>1, SendTypes DEF HandlerTypes, MessageType
    <2> QED
      BY <2>1, <2>2 DEF HandlerTypes, RepositoryTypeOK, HandlersTypeOK, handlerVars, dbVars
  <1>8. ASSUME NEW reply, SideUpdate(t, reply) PROVE HandlerTypes'
    <2>1. UpdateErrorTask(t, "SYSTEM_ERROR", reply) /\ UNCHANGED <<handlerVars, pulsarVars>>
      BY <1>8 DEF SideUpdate
    <2>2. RepositoryTypeOK'
      BY <2>1, UpdateErrorTaskTypes DEF HandlerTypes, TesTaskState
    <2> QED
      BY <2>1, <2>2 DEF HandlerTypes, PulsarTypeOK, HandlersTypeOK, handlerVars, pulsarVars
  <1> QED
    BY <1>2, <1>3, <1>4, <1>5, <1>6, <1>7, <1>8 DEF ChainStep, SideStep

LEMMA HandlerTypesStep ==
  HandlerTypes /\ ChainInv /\ CodeInv /\ (\A u \in Task : OutcomeInv(u)) /\ [Next]_vars
    => HandlerTypes'
  <1> SUFFICES ASSUME HandlerTypes, ChainInv, CodeInv, \A u \in Task : OutcomeInv(u), [Next]_vars
               PROVE  HandlerTypes'
    OBVIOUS
  <1>1. ASSUME NEW t \in Task, ChainStep(t) \/ SideStep(t) PROVE HandlerTypes'
    BY <1>1, TaskTypes DEF CodeInv
  <1>2. CASE EnvironmentStep
    <2>1. CASE \/ \E t \in Task : \E reply : CancelTask(t, reply)
               \/ \E t \in Task, w \in Worker, list \in InputLists : \E reply :
                    CreateTask(t, w, list, reply)
               \/ \E t \in Task, code \in ReturnCode :
                    JobFinishes(t, code) /\ UNCHANGED <<handlerVars, dbVars>>
               \/ \E w : Crash(w)
      BY <2>1, OutsideTypes
    <2>2. CASE \E t \in Task : PulsarConsumes(t)
      BY <2>2, ConsumeTypes
    <2>3. CASE \E t \in Task : HandlerCancelled(t)
      BY <2>3, DispatchTypes
    <2>4. CASE \E t \in Task : SideCancelled(t)
      BY <2>4 DEF SideCancelled, HandlerTypes, RepositoryTypeOK, PulsarTypeOK, HandlersTypeOK,
                  handlerVars, dbVars, pulsarVars
    <2> QED
      BY <1>2, <2>1, <2>2, <2>3, <2>4 DEF EnvironmentStep, ChainCancelled, CrashBoth
  <1>3. CASE UNCHANGED vars
    BY <1>3 DEF vars, HandlerTypes, RepositoryTypeOK, PulsarTypeOK, HandlersTypeOK, handlerVars,
                dbVars, pulsarVars
  <1> QED
    BY <1>1, <1>2, <1>3 DEF Next

LEMMA LinkTypesStep == LinkTypes /\ [Next]_vars => LinkTypes'
  <1> SUFFICES ASSUME LinkTypes, [Next]_vars PROVE LinkTypes'
    OBVIOUS
  <1>1. {"idle", "erase", "update"} = SideLabel
    BY DEF SideLabel
  <1>2. ASSUME NEW t \in Task, ChainStep(t) \/ SideStep(t) PROVE LinkTypes'
    <2>1. /\ side' = side \/ \E label \in SideLabel : side' = [side EXCEPT ![t] = label]
          /\ channel' = channel \/ channel' = [channel EXCEPT ![t] = TRUE]
      BY <1>1, <1>2 DEF ChainStep, SideStep, DbStep, MessageStep, ConnectStep, Connect, Connected,
           ChannelOpened, HandleQueuedTaskAmqp, RunJob, EraseJob, SideErase, SideUpdate,
           SendMessage, amqpVars, linkVars
    <2> QED
      BY <2>1 DEF LinkTypes
  <1>3. CASE EnvironmentStep
    <2>1. /\ \/ side' = side
             \/ \E t \in Task : side' = [side EXCEPT ![t] = "idle"]
             \/ \E w : side' = [t \in Task |-> IF owner[t] = w THEN "idle" ELSE side[t]]
          /\ channel' = channel
      BY <1>3 DEF EnvironmentStep, PulsarConsumes, ChainCancelled, SideCancelled, CrashBoth,
                  amqpVars, linkVars
    <2> QED
      BY <1>1, <2>1 DEF LinkTypes
  <1>4. CASE UNCHANGED vars
    BY <1>4 DEF LinkTypes, vars, amqpVars, linkVars
  <1> QED
    BY <1>2, <1>3, <1>4 DEF Next

-----------------------------------------------------------------------------
(***************************************************************************)
(* The theorems.                                                           *)
(***************************************************************************)
AmqpInv ==
  /\ HandlerTypes /\ LinkTypes /\ LinkInv /\ ChainInv /\ CodeInv
  /\ \A t \in Task : OutcomeInv(t)

LEMMA InitAmqp == Init => AmqpInv
  <1> SUFFICES ASSUME Init PROVE AmqpInv
    OBVIOUS
  <1>1. HandlerTypes
    <2>1. EmptyLog \in TesTaskLog
      BY DEF EmptyLog, TesTaskLog
    <2>2. RepositoryTypeOK /\ PulsarTypeOK
      BY <2>1 DEF Init, InitRepository, InitPulsar, RepositoryTypeOK, PulsarTypeOK, DocState, JobState,
                  JobResult
    <2>3. HandlersTypeOK
      BY <2>1, MaxPollsAssumption, InputListsAssumption
         DEF Init, InitHandlers, HandlersTypeOK, Label, Outside, JobResult
    <2> QED
      BY <2>2, <2>3 DEF HandlerTypes
  <1>2. LinkTypes
    BY DEF Init, LinkTypes, SideLabel
  <1>3. CodeInv
    BY DEF Init, InitRepository, InitPulsar, InitHandlers, CodeInv, Judged, HasCode, DocState,
           JobResult
  <1>4. ASSUME NEW t \in Task PROVE OutcomeInv(t)
    <2>1. /\ state[t] = "ABSENT" /\ visited[t] = {} /\ pc[t] = "idle"
          /\ logs[t].exec = <<>> /\ logs[t].system = 0
      BY DEF Init, InitRepository, InitHandlers, EmptyLog
    <2>2. "ABSENT" \notin Cancelable
      BY DEF Cancelable
    <2>3. DocInv(t) /\ SystemInv(t) /\ PollsInv(t)
      BY <2>1, <2>2, Labels DEF DocInv, SystemInv, PollsInv
    <2>4. ExecInv(t)
      BY <2>1, Labels DEF ExecInv
    <2> QED
      BY <2>3, <2>4 DEF OutcomeInv
  <1> QED
    BY <1>1, <1>2, <1>3, <1>4, InitLink, InitChain DEF AmqpInv

LEMMA AmqpHolds == Spec => []AmqpInv
  <1>1. AmqpInv /\ [Next]_vars => AmqpInv'
    BY HandlerTypesStep, LinkTypesStep, LinkStep, ChainStepInv, CodeStepInv, OutcomeStep
       DEF AmqpInv
  <1> QED
    BY InitAmqp, <1>1, PTL DEF Spec

\* Over AMQP every variable keeps its type, with any number of tasks and workers
\* and whatever fails: only codes that were collected are logged, and
\* job_status_complete stays within max_polls.
THEOREM TypesHold == Spec => []TypeOK
  <1>1. AmqpInv => TypeOK
    BY DEF AmqpInv, HandlerTypes, LinkTypes, LinkInv, ChainInv, Domains, TypeOK
  <1> QED
    BY AmqpHolds, <1>1, PTL

\* Over AMQP a task is COMPLETE, EXECUTOR_ERROR or CANCELED, and never two of
\* them, although the error handler beside the chain of events may take the
\* document to SYSTEM_ERROR at any time: no filter takes it back from there.
THEOREM OneOutcomeHolds == Spec => []OneOutcome
  <1>1. AmqpInv => OneOutcome
    BY DEF AmqpInv, OutcomeInv, DocInv, OneOutcome
  <1> QED
    BY AmqpHolds, <1>1, PTL

\* Over AMQP the outcome of a task is that of its job, and the one executor log
\* says so, although nothing tells handle_run_task that a submission was lost.
THEOREM OutcomeMatchesJobHolds == Spec => []OutcomeMatchesJob
  <1>1. AmqpInv => OutcomeMatchesJob
    BY DEF AmqpInv, OutcomeInv, ExecInv, OutcomeMatchesJob
  <1> QED
    BY AmqpHolds, <1>1, PTL

\* Over AMQP a document that was SYSTEM_ERROR has a system log and no other has,
\* although the error handler pushes it while a log helper of the chain may be
\* between its read and its write.
THEOREM SystemErrorLoggedHolds == Spec => []SystemErrorLogged
  <1>1. AmqpInv => SystemErrorLogged
    BY DEF AmqpInv, OutcomeInv, SystemInv, SystemErrorLogged
  <1> QED
    BY AmqpHolds, <1>1, PTL

\* Over AMQP a final task's logs of the execution stay as they are, although the
\* two coroutines work on one document: the log helpers write to RUNNING ones
\* only, and both error handlers push a system log and nothing else.
THEOREM LogsFrozenAtEndHolds == Spec => LogsFrozenAtEnd
  <1> DEFINE Frozen(u) == /\ logs'[u].start = logs[u].start
                          /\ logs'[u].exec = logs[u].exec
  <1>1. ASSUME AmqpInv, [Next]_vars, NEW u \in Task, state[u] \in Terminal
        PROVE  Frozen(u)
    <2>1. logs \in [Task -> TesTaskLog] /\ "RUNNING" \notin Terminal
      BY <1>1 DEF AmqpInv, HandlerTypes, RepositoryTypeOK, Terminal, Cancelable
    <2>2. ASSUME NEW t \in Task, NEW log, NEW reply, UpdateTaskLogs(t, {"RUNNING"}, log, reply)
          PROVE  Frozen(u)
      <3>1. logs'[u] = logs[u]
        BY <1>1, <2>1, <2>2 DEF UpdateTaskLogs, Updates, Matches
      <3> QED
        BY <3>1
    <2>3. ASSUME NEW t \in Task, NEW reply, UpdateErrorTask(t, "SYSTEM_ERROR", reply)
          PROVE  Frozen(u)
      <3>1. logs' = logs \/ logs' = [logs EXCEPT ![t].system = logs[t].system + 1]
        BY <2>3 DEF UpdateErrorTask
      <3>2. logs'[u] = logs[u] \/ logs'[u] = [logs[u] EXCEPT !.system = logs[t].system + 1]
        BY <2>1, <3>1
      <3> QED
        BY <2>1, <3>2 DEF TesTaskLog
    <2>4. UNCHANGED logs => Frozen(u)
      OBVIOUS
    <2>5. ASSUME NEW t \in Task, NEW reply, DbStep(t, reply)
          PROVE  Frozen(u)
      <3>1. CASE WriteStartTime(t, FALSE, reply) \/ WriteExecutorLog(t, reply)
        BY <2>2, <3>1 DEF WriteStartTime, WriteExecutorLog
      <3>2. CASE HandleUpdate(t, reply)
        BY <2>3, <3>2 DEF HandleUpdate
      <3>3. CASE ~ \/ WriteStartTime(t, FALSE, reply) \/ WriteExecutorLog(t, reply)
                   \/ HandleUpdate(t, reply)
        <4>1. UNCHANGED logs
          BY <2>5, <3>3
             DEF DbStep, HandleInitializingTask, HandleRunTask, EarlyCheck, LateCheck,
                 CheckCanceled, ReadStartLog, ReadExecutorLog, ReadLogs, SetExecutorError,
                 SetComplete, ExceptCheck, ShutdownUpdate, UpdateTaskState, dbVars
        <4> QED
          BY <2>4, <4>1
      <3> QED
        BY <3>1, <3>2, <3>3
    <2>6. ASSUME NEW t \in Task, ChainStep(t)
          PROVE  Frozen(u)
      <3>1. (\E reply : DbStep(t, reply)) \/ UNCHANGED logs
        BY <2>6 DEF ChainStep, HandleQueuedTask, DispatchRunTask, ConnectStep, MessageStep,
                    HandleQueuedTaskAmqp, RunJob, EraseJob, SetupInput, PollStatus, dbVars
      <3> QED
        BY <2>4, <2>5, <3>1
    <2>7. ASSUME NEW t \in Task, SideStep(t)
          PROVE  Frozen(u)
      BY <2>3, <2>4, <2>7 DEF SideStep, ConnectStep, SideErase, SideUpdate, dbVars
    <2>8. EnvironmentStep => UNCHANGED logs
      BY DEF EnvironmentStep, CancelTask, UpdateTaskState, CreateTask, InsertTask, PulsarConsumes,
             ChainCancelled, HandlerCancelled, SideCancelled, CrashBoth, Crash, dbVars
    <2> QED
      BY <1>1, <2>4, <2>6, <2>7, <2>8 DEF Next, vars, dbVars
  <1>2. AmqpInv /\ [Next]_vars =>
          [\A t \in Task : state[t] \in Terminal =>
              /\ logs'[t].start = logs[t].start
              /\ logs'[t].exec = logs[t].exec]_<<state, logs>>
    BY <1>1
  <1> QED
    BY <1>2, AmqpHolds, PTL DEF Spec, LogsFrozenAtEnd

=============================================================================
