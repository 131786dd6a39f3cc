----------------------------- MODULE AmqpProofs -----------------------------
(***************************************************************************)
(* Over AMQP, for any number of tasks and workers, any max_polls, input    *)
(* lists and faults: connections are bounded, no command is submitted      *)
(* twice or for a task that did not run, failures are reported after a     *)
(* cancel message, and the contract with the client is kept, although two  *)
(* coroutines work on a task and failed messages are not noticed.          *)
(***************************************************************************)
EXTENDS AmqpLifecycle, TLAPS, FiniteSetTheorems

-----------------------------------------------------------------------------
(***************************************************************************)
(* Connections.                                                            *)
(***************************************************************************)
\* How many of a task's coroutines await connect_robust.
Connecting(t) == Cardinality({c \in Coroutine : call[t][c] = "connecting"})

LinkInv ==
  /\ connection \in [Task -> BOOLEAN]
  /\ opened \in [Task -> Nat]
  /\ call \in [Task -> [Coroutine -> Phase]]
  /\ \A t \in Task : ~connection[t] => opened[t] = 0
  /\ ConnectionsBounded

\* A set of coroutines has up to two members, more if it has more of them.
LEMMA CoroutineSets ==
  /\ Cardinality({}) = 0 /\ Cardinality(Coroutine) = 2
  /\ \A c : Cardinality({c}) = 1
  /\ \A C \in SUBSET Coroutine : Cardinality(C) \in 0..2
  /\ \A C, D \in SUBSET Coroutine : D \subseteq C => Cardinality(D) <= Cardinality(C)
  /\ \A C \in SUBSET Coroutine : \A c \in C : Cardinality(C \ {c}) = Cardinality(C) - 1
  <1>1. Cardinality({}) = 0 /\ \A c : Cardinality({c}) = 1
    BY FS_EmptySet, FS_Singleton
  <1>2. IsFiniteSet({"side"}) /\ IsFiniteSet(Coroutine) /\ Cardinality(Coroutine) = 2
    <2>1. IsFiniteSet({"side"}) /\ Cardinality({"side"}) = 1 /\ "chain" \notin {"side"}
      BY FS_Singleton
    <2>2. Coroutine = {"side"} \cup {"chain"}
      BY DEF Coroutine
    <2> QED
      BY <2>1, <2>2, FS_AddElement
  <1>3. \A C \in SUBSET Coroutine : IsFiniteSet(C) /\ Cardinality(C) \in 0..2
    BY <1>2, FS_Subset, FS_CardinalityType
  <1>4. \A C, D \in SUBSET Coroutine : D \subseteq C => Cardinality(D) <= Cardinality(C)
    BY <1>3, FS_Subset
  <1>5. \A C \in SUBSET Coroutine : \A c \in C : Cardinality(C \ {c}) = Cardinality(C) - 1
    BY <1>3, FS_RemoveElement
  <1> QED
    BY <1>1, <1>2, <1>3, <1>4, <1>5

LEMMA InitLink == Init => LinkInv
  <1> SUFFICES ASSUME Init PROVE LinkInv
    OBVIOUS
  <1>1. /\ connection \in [Task -> BOOLEAN] /\ opened \in [Task -> Nat]
        /\ call \in [Task -> [Coroutine -> Phase]]
        /\ \A t \in Task : opened[t] = 0
    BY DEF Init, Phase
  <1>2. \A t \in Task : {c \in Coroutine : call[t][c] = "connecting"} = {}
    BY DEF Init
  <1> QED
    BY <1>1, <1>2, CoroutineSets DEF LinkInv, ConnectionsBounded

\* Fewer coroutines that connect, and the same connections, are within the bound.
LEMMA FewerConnecting ==
  ASSUME LinkInv, UNCHANGED <<connection, opened>>,
         call' \in [Task -> [Coroutine -> Phase]],
         \A t \in Task, c \in Coroutine :
           call'[t][c] = "connecting" => call[t][c] = "connecting" \/ ~connection[t]
  PROVE  LinkInv'
  <1>1. ASSUME NEW t \in Task PROVE opened[t] + Connecting(t)' <= Cardinality(Coroutine)
    <2> DEFINE before == {c \in Coroutine : call[t][c] = "connecting"}
               after == {c \in Coroutine : call'[t][c] = "connecting"}
    <2>1. opened[t] \in Nat /\ Cardinality(before) \in 0..2 /\ Cardinality(after) \in 0..2
      BY CoroutineSets DEF LinkInv
    <2>2. opened[t] + Cardinality(before) <= Cardinality(Coroutine)
      BY DEF LinkInv, ConnectionsBounded
    <2>3. CASE connection[t]
      <3>1. after \subseteq before
        BY <2>3
      <3>2. Cardinality(after) <= Cardinality(before)
        BY <3>1, CoroutineSets
      <3> QED
        BY <2>1, <2>2, <3>2, CoroutineSets DEF Connecting
    <2>4. CASE ~connection[t]
      BY <2>1, <2>4, CoroutineSets DEF LinkInv, Connecting
    <2> QED
      BY <2>3, <2>4
  <1> QED
    BY <1>1 DEF LinkInv, ConnectionsBounded, Connecting

\* connect_robust returns: one coroutine less connects, and there is one connection more.
LEMMA ConnectedLink ==
  ASSUME LinkInv, NEW t \in Task, NEW c \in Coroutine, Connected(t, c)
  PROVE  LinkInv'
  <1>1. /\ call[t][c] = "connecting"
        /\ call' = [call EXCEPT ![t][c] = "opening"]
        /\ connection' = [connection EXCEPT ![t] = TRUE]
        /\ opened' = [opened EXCEPT ![t] = @ + 1]
    BY DEF Connected, SetCall
  <1>2. /\ connection' \in [Task -> BOOLEAN] /\ opened' \in [Task -> Nat]
        /\ call' \in [Task -> [Coroutine -> Phase]]
    BY <1>1 DEF LinkInv, Phase
  <1>3. ASSUME NEW u \in Task PROVE opened'[u] + Connecting(u)' <= Cardinality(Coroutine)
    <2> DEFINE before == {d \in Coroutine : call[u][d] = "connecting"}
               after == {d \in Coroutine : call'[u][d] = "connecting"}
    <2>1. opened[u] \in Nat /\ Cardinality(before) \in 0..2 /\ Cardinality(after) \in 0..2
      BY CoroutineSets DEF LinkInv
    <2>2. opened[u] + Cardinality(before) <= Cardinality(Coroutine)
      BY DEF LinkInv, ConnectionsBounded
    <2>3. CASE u = t
      <3>1. after = before \ {c} /\ c \in before
        BY <1>1, <2>3 DEF LinkInv
      <3>2. Cardinality(after) = Cardinality(before) - 1
        BY <3>1, CoroutineSets
      <3>3. opened'[u] = opened[u] + 1
        BY <1>1, <2>3 DEF LinkInv
      <3> QED
        BY <2>1, <2>2, <3>2, <3>3, CoroutineSets DEF Connecting
    <2>4. CASE u # t
      <3>1. after = before /\ opened'[u] = opened[u]
        BY <1>1, <2>4 DEF LinkInv
      <3> QED
        BY <2>2, <3>1 DEF Connecting
    <2> QED
      BY <2>3, <2>4
  <1>4. \A u \in Task : ~connection'[u] => opened'[u] = 0
    BY <1>1 DEF LinkInv
  <1> QED
    BY <1>2, <1>3, <1>4 DEF LinkInv, ConnectionsBounded, Connecting

\* A call that moves on, except to connect_robust, is within the bound.
LEMMA SetCallLink ==
  ASSUME LinkInv, NEW t \in Task, NEW c \in Coroutine, NEW phase \in Phase \ {"connecting"},
         SetCall(t, c, phase), UNCHANGED <<connection, opened>>
  PROVE  LinkInv'
  <1>1. call' = [call EXCEPT ![t][c] = phase] /\ call \in [Task -> [Coroutine -> Phase]]
    BY DEF SetCall, LinkInv
  <1>2. call' \in [Task -> [Coroutine -> Phase]]
    BY <1>1
  <1>3. \A u \in Task, d \in Coroutine : call'[u][d] = "connecting" => call[u][d] = "connecting"
    BY <1>1
  <1> QED
    BY <1>2, <1>3, FewerConnecting

\* _connect is entered only by a task that has no connection.
LEMMA ConnectLink ==
  ASSUME LinkInv, NEW t \in Task, NEW c \in Coroutine, Connect(t, c)
  PROVE  LinkInv'
  <1>1. /\ call' = [call EXCEPT ![t][c] = "connecting"] /\ ~connection[t]
        /\ UNCHANGED <<connection, opened>>
    BY DEF Connect, SetCall, NeedsConnection
  <1>2. call' \in [Task -> [Coroutine -> Phase]]
    BY <1>1 DEF LinkInv, Phase
  <1>3. \A u \in Task, d \in Coroutine :
          call'[u][d] = "connecting" => call[u][d] = "connecting" \/ ~connection[u]
    BY <1>1 DEF LinkInv
  <1> QED
    BY <1>1, <1>2, <1>3, FewerConnecting

\* Every step keeps the connections within the bound.
LEMMA LinkStep == LinkInv /\ [Next]_vars => LinkInv'
  <1> SUFFICES ASSUME LinkInv, [Next]_vars PROVE LinkInv'
    OBVIOUS
  <1>0. {"ready", "opening", "publishing"} \subseteq Phase \ {"connecting"}
        /\ {"chain", "side"} \subseteq Coroutine
    BY DEF Phase, Coroutine
  <1>1. ASSUME UNCHANGED linkVars PROVE LinkInv'
    BY <1>1 DEF linkVars, LinkInv, ConnectionsBounded
  <1>2. ASSUME NEW t \in Task, NEW c \in Coroutine, ConnectStep(t, c) PROVE LinkInv'
    <2>1. CASE Connect(t, c)
      BY <2>1, ConnectLink
    <2>2. CASE Connected(t, c)
      BY <2>2, ConnectedLink
    <2>3. CASE ChannelOpened(t, c)
      BY <1>0, <2>3, SetCallLink DEF ChannelOpened
    <2> QED
      BY <1>2, <2>1, <2>2, <2>3 DEF ConnectStep
  <1>3. ASSUME NEW t \in Task, NEW c \in Coroutine, NEW type, NEW reply,
               SendMessage(t, c, type, reply)
        PROVE  LinkInv'
    BY <1>0, <1>3, SetCallLink DEF SendMessage
  <1>4. ASSUME NEW t \in Task, ChainStep(t) PROVE LinkInv'
    BY <1>0, <1>1, <1>2, <1>3, <1>4
       DEF ChainStep, DbStep, MessageStep, HandleQueuedTaskAmqp, RunJob, EraseJob, amqpVars
  <1>5. ASSUME NEW t \in Task, SideStep(t) PROVE LinkInv'
    BY <1>0, <1>1, <1>2, <1>3, <1>5 DEF SideStep, SideErase, SideUpdate
  <1>6. ASSUME EnvironmentStep PROVE LinkInv'
    <2>1. CASE UNCHANGED linkVars
      BY <1>1, <2>1
    <2>2. CASE \E t \in Task : PulsarConsumes(t)
      BY <1>1, <2>2 DEF PulsarConsumes
    <2>3. CASE \E t \in Task : ChainCancelled(t) \/ SideCancelled(t)
      BY <1>0, <2>3, SetCallLink DEF ChainCancelled, SideCancelled
    <2>4. CASE \E w \in Worker : CrashBoth(w)
      <3>1. PICK w \in Worker : CrashBoth(w)
        BY <2>4
      <3>2. call' = [t \in Task |->
                       IF owner[t] = w THEN [c \in Coroutine |-> "ready"] ELSE call[t]]
            /\ UNCHANGED <<connection, opened>>
        BY <3>1 DEF CrashBoth
      <3>3. call' \in [Task -> [Coroutine -> Phase]]
        BY <1>0, <3>2 DEF LinkInv
      <3>4. \A t \in Task, c \in Coroutine :
              call'[t][c] = "connecting" => call[t][c] = "connecting"
        BY <3>2
      <3> QED
        BY <3>2, <3>3, <3>4, FewerConnecting
    <2> QED
      BY <1>6, <2>1, <2>2, <2>3, <2>4 DEF EnvironmentStep, amqpVars
  <1>7. CASE UNCHANGED vars
    BY <1>1, <1>7 DEF vars, amqpVars
  <1> QED
    BY <1>4, <1>5, <1>6, <1>7 DEF Next

-----------------------------------------------------------------------------
(***************************************************************************)
(* Submissions.  Where the chain of events is tells whether the command    *)
(* was submitted; the coroutine beside it never submits.                   *)
(***************************************************************************)
\* The awaits before the command is submitted.
BeforeSubmit ==
  { "queued_task", "setup_job", "initialize_task", "setup_data", "run_task",
    "early_check", "start_log_read", "start_log_write", "run_job" }

Domains ==
  /\ DOMAIN pc = Task /\ DOMAIN state = Task /\ DOMAIN visited = Task
  /\ DOMAIN jobs = Task /\ DOMAIN result = Task
  /\ submits \in [Task -> Nat]
  /\ queue \in [Task -> Seq(MessageType)]

OrderInv(t) ==
  /\ state[t] = "ABSENT" => visited[t] = {}
  /\ pc[t] \in BeforeSubmit => submits[t] = 0
  /\ pc[t] \in TryBody => "RUNNING" \in visited[t]
  /\ "RUNNING" \notin visited[t] => submits[t] = 0
  /\ submits[t] \in {0, 1}
  /\ submits[t] = 0 => result[t] = "none" /\ jobs[t] # "running"
  /\ submits[t] = 0 => \A i \in 1..Len(queue[t]) : queue[t][i] # "submit"

ChainInv == Domains /\ \A t \in Task : OrderInv(t)

\* A task no step works on.
Untouched(t) ==
  UNCHANGED <<pc[t], state[t], visited[t], jobs[t], result[t], submits[t], queue[t]>>

LEMMA UntouchedInv ==
  ASSUME NEW t \in Task, OrderInv(t), Untouched(t)
  PROVE  OrderInv(t)'
  BY DEF OrderInv, Untouched

\* What a step that submits nothing may do to the task it works on.
Advances(t) ==
  /\ UNCHANGED <<jobs, result, submits, queue>>
  /\ DOMAIN pc' = Task /\ DOMAIN state' = Task /\ DOMAIN visited' = Task
  /\ \A u \in Task \ {t} : UNCHANGED <<pc[u], state[u], visited[u]>>
  /\ visited[t] \subseteq visited'[t]
  /\ state'[t] = "ABSENT" => state[t] = "ABSENT" /\ visited'[t] = visited[t]
  /\ pc'[t] \in BeforeSubmit => pc[t] \in BeforeSubmit \/ "RUNNING" \notin visited[t]
  /\ pc'[t] \in TryBody => pc[t] \in TryBody \/ "RUNNING" \in visited'[t]

LEMMA AdvancesInv ==
  ASSUME ChainInv, NEW t \in Task, Advances(t)
  PROVE  ChainInv'
  <1>1. Domains'
    BY DEF ChainInv, Domains, Advances
  <1>2. OrderInv(t)'
    BY DEF ChainInv, OrderInv, Advances
  <1>3. ASSUME NEW u \in Task \ {t} PROVE OrderInv(u)'
    BY UntouchedInv DEF ChainInv, Untouched, Advances
  <1> QED
    BY <1>1, <1>2, <1>3 DEF ChainInv

\* Where errors lead is neither before a submission nor in the try block.
LEMMA ErrorsLeadOut ==
  /\ \A e : ErrorEntry(e) \notin BeforeSubmit \cup TryBody
  /\ \A e : AfterErase(e) \notin BeforeSubmit \cup TryBody
  /\ {"idle", "except_check", "shutdown_update"} \cap (BeforeSubmit \cup TryBody) = {}
  BY DEF ErrorEntry, AfterErase, BeforeSubmit, TryBody

\* Where control may go.
LEMMA ControlGoes ==
  ASSUME DOMAIN pc = Task, NEW t \in Task, NEW label, NEW e,
         Goto(t, label) \/ ThenOrHandle(t, e, label) \/ ThenOrExcept(t, e, label)
  PROVE  /\ DOMAIN pc' = Task
         /\ \A u \in Task \ {t} : pc'[u] = pc[u]
         /\ pc'[t] = label \/ pc'[t] \notin BeforeSubmit \cup TryBody
  BY ErrorsLeadOut DEF Goto, ThenOrHandle, ThenOrExcept

\* What the updates of the repository may do to documents.
LEMMA UpdateGoes ==
  ASSUME DOMAIN state = Task, DOMAIN visited = Task, NEW t \in Task,
         NEW new \in TesTaskState, NEW reply, NEW old \in SUBSET TesTaskState,
         \/ UpdateTaskState(t, old, new, reply)
         \/ old = TesTaskState /\ UpdateErrorTask(t, new, reply)
  PROVE  /\ DOMAIN state' = Task /\ DOMAIN visited' = Task
         /\ \A u \in Task \ {t} : state'[u] = state[u] /\ visited'[u] = visited[u]
         /\ visited[t] \subseteq visited'[t]
         /\ state'[t] = "ABSENT" => state[t] = "ABSENT" /\ visited'[t] = visited[t]
         /\ UpdateResult(t, old, reply) = "just" => new \in visited'[t]
  <1>1. "ABSENT" \notin TesTaskState
    BY DEF TesTaskState
  <1> QED
    BY <1>1 DEF UpdateTaskState, UpdateErrorTask, Updates, UpdateResult, Matches

\* Steps of the handlers that only pass control, and read or write the logs.
LEMMA ControlAdvances ==
  ASSUME ChainInv, NEW t \in Task, NEW label, NEW e,
         Goto(t, label) \/ ThenOrHandle(t, e, label) \/ ThenOrExcept(t, e, label),
         UNCHANGED <<jobs, result, submits, queue, state, visited>>,
         label \in BeforeSubmit => pc[t] \in BeforeSubmit,
         label \in TryBody => pc[t] \in TryBody
  PROVE  Advances(t)
  <1>1. /\ DOMAIN pc' = Task
        /\ \A u \in Task \ {t} : pc'[u] = pc[u]
        /\ pc'[t] = label \/ pc'[t] \notin BeforeSubmit \cup TryBody
    BY ControlGoes DEF ChainInv, Domains
  <1> QED
    BY <1>1 DEF Advances, ChainInv, Domains

\* Steps that change the state of the document.
LEMMA UpdateAdvances ==
  ASSUME ChainInv, NEW t \in Task, NEW label, NEW e, NEW reply,
         NEW new \in TesTaskState, NEW old \in SUBSET TesTaskState,
         Goto(t, label) \/ ThenOrHandle(t, e, label) \/ ThenOrExcept(t, e, label),
         \/ UpdateTaskState(t, old, new, reply)
         \/ old = TesTaskState /\ UpdateErrorTask(t, new, reply),
         UNCHANGED <<jobs, result, submits, queue>>,
         label \in BeforeSubmit => pc[t] \in BeforeSubmit,
         label \in TryBody => pc[t] \in TryBody
  PROVE  Advances(t)
  <1>1. /\ DOMAIN pc' = Task
        /\ \A u \in Task \ {t} : pc'[u] = pc[u]
        /\ pc'[t] = label \/ pc'[t] \notin BeforeSubmit \cup TryBody
    BY ControlGoes DEF ChainInv, Domains
  <1>2. /\ DOMAIN state' = Task /\ DOMAIN visited' = Task
        /\ \A u \in Task \ {t} : state'[u] = state[u] /\ visited'[u] = visited[u]
        /\ visited[t] \subseteq visited'[t]
        /\ state'[t] = "ABSENT" => state[t] = "ABSENT" /\ visited'[t] = visited[t]
    BY UpdateGoes DEF ChainInv, Domains
  <1> QED
    BY <1>1, <1>2 DEF Advances, ChainInv, Domains

\* handle_run_task enters its try block with a task that is RUNNING.
LEMMA HandleRunTaskAdvances ==
  ASSUME ChainInv, NEW t \in Task, NEW reply, HandleRunTask(t, reply), UNCHANGED queue
  PROVE  Advances(t)
  <1> DEFINE answer == UpdateResult(t, {"INITIALIZING"}, reply)
  <1>1. /\ pc[t] = "run_task"
        /\ UpdateTaskState(t, {"INITIALIZING"}, "RUNNING", reply)
        /\ ThenOrExcept(t, GetElseThrow(answer), "early_check")
        /\ UNCHANGED <<jobs, result, submits>>
    BY DEF HandleRunTask, pulsarVars
  <1>2. /\ DOMAIN state' = Task /\ DOMAIN visited' = Task
        /\ \A u \in Task \ {t} : state'[u] = state[u] /\ visited'[u] = visited[u]
        /\ visited[t] \subseteq visited'[t]
        /\ state'[t] = "ABSENT" => state[t] = "ABSENT" /\ visited'[t] = visited[t]
        /\ answer = "just" => "RUNNING" \in visited'[t]
    BY <1>1, UpdateGoes DEF ChainInv, Domains, TesTaskState
  <1>3. /\ DOMAIN pc' = Task
        /\ \A u \in Task \ {t} : pc'[u] = pc[u]
        /\ pc'[t] = "early_check" \/ pc'[t] \notin BeforeSubmit \cup TryBody
        /\ pc'[t] = "early_check" => answer = "just"
    <2>1. answer # "just" => GetElseThrow(answer) # "none"
      BY DEF UpdateResult, GetElseThrow
    <2>2. pc'[t] = "early_check" => GetElseThrow(answer) = "none"
      BY <1>1 DEF ChainInv, Domains, ThenOrExcept
    <2>3. DOMAIN pc = Task
      BY DEF ChainInv, Domains
    <2>4. /\ DOMAIN pc' = Task
          /\ \A u \in Task \ {t} : pc'[u] = pc[u]
          /\ pc'[t] = "early_check" \/ pc'[t] \notin BeforeSubmit \cup TryBody
      BY <1>1, <2>3, ControlGoes
    <2> QED
      BY <2>1, <2>2, <2>4
  <1>4. "run_task" \in BeforeSubmit
    BY DEF BeforeSubmit
  <1> QED
    BY <1>1, <1>2, <1>3, <1>4 DEF Advances, ChainInv, Domains

\* A call of the repository.
LEMMA DbStepAdvances ==
  ASSUME ChainInv, NEW t \in Task, NEW reply, DbStep(t, reply)
  PROVE  Advances(t)
  <1>0. /\ UNCHANGED queue
        /\ {"QUEUED", "INITIALIZING", "RUNNING", "COMPLETE", "EXECUTOR_ERROR", "SYSTEM_ERROR",
            "CANCELED"} \subseteq TesTaskState
    BY DEF DbStep, amqpVars, TesTaskState
  <1>1. /\ {"initialize_task", "setup_data", "start_log_read", "start_log_write", "run_job",
            "early_check"} \subseteq BeforeSubmit
        /\ {"early_check", "start_log_read", "start_log_write", "run_job", "exec_log_read",
            "exec_log_write", "late_check", "set_error", "set_complete", "error_cancel",
            "done_cancel"} \subseteq TryBody
        /\ {"initialize_task", "setup_data", "idle"} \cap TryBody = {}
        /\ {"exec_log_write", "late_check", "set_error", "set_complete", "error_cancel",
            "done_cancel", "idle"} \cap BeforeSubmit = {}
        /\ \A code : OutcomeLabel(code) \in {"set_error", "set_complete"}
    BY DEF BeforeSubmit, TryBody, OutcomeLabel
  <1>2. CASE HandleInitializingTask(t, reply)
    <2>1. /\ pc[t] = "initialize_task" /\ ThenOrHandle(t, GetElseThrow(UpdateResult(t, {"QUEUED"}, reply)), "setup_data")
          /\ UpdateTaskState(t, {"QUEUED"}, "INITIALIZING", reply)
          /\ UNCHANGED <<jobs, result, submits>>
      BY <1>2 DEF HandleInitializingTask, pulsarVars
    <2>2. {"QUEUED"} \in SUBSET TesTaskState /\ "INITIALIZING" \in TesTaskState
      BY <1>0
    <2> QED
      BY <1>0, <1>1, <2>1, <2>2, UpdateAdvances
  <1>3. CASE HandleRunTask(t, reply)
    BY <1>0, <1>3, HandleRunTaskAdvances
  <1>4. ASSUME NEW from \in TryBody, NEW to \in TryBody, CheckCanceled(t, from, to, reply),
               to \in BeforeSubmit => from \in BeforeSubmit
        PROVE  Advances(t)
    BY <1>0, <1>1, <1>4, ControlAdvances DEF CheckCanceled, pulsarVars, dbVars
  <1>5. CASE EarlyCheck(t, reply)
    BY <1>1, <1>4, <1>5 DEF EarlyCheck
  <1>6. CASE LateCheck(t, reply)
    <2>1. OutcomeLabel(rc[t]) \in TryBody \ BeforeSubmit
      BY <1>1
    <2> QED
      BY <1>1, <1>4, <1>6, <2>1 DEF LateCheck
  <1>7. ASSUME NEW from \in TryBody, NEW to \in TryBody, ReadLogs(t, from, to, reply),
               to \in BeforeSubmit => from \in BeforeSubmit
        PROVE  Advances(t)
    BY <1>0, <1>7, ControlAdvances DEF ReadLogs, pulsarVars, dbVars
  <1>8. CASE ReadStartLog(t, reply)
    BY <1>1, <1>7, <1>8 DEF ReadStartLog
  <1>9. CASE ReadExecutorLog(t, reply)
    BY <1>1, <1>7, <1>9 DEF ReadExecutorLog
  <1>10. CASE WriteStartTime(t, FALSE, reply)
    BY <1>0, <1>1, <1>10, ControlAdvances DEF WriteStartTime, UpdateTaskLogs, pulsarVars
  <1>11. CASE WriteExecutorLog(t, reply)
    BY <1>0, <1>1, <1>11, ControlAdvances DEF WriteExecutorLog, UpdateTaskLogs, pulsarVars
  <1>12. CASE SetExecutorError(t, reply)
    <2>1. /\ pc[t] = "set_error" /\ ThenOrExcept(t, IF reply = "ok" THEN "none" ELSE "DataLayer", "error_cancel")
          /\ UpdateTaskState(t, {"RUNNING"}, "EXECUTOR_ERROR", reply)
          /\ UNCHANGED <<jobs, result, submits>>
      BY <1>12 DEF SetExecutorError, pulsarVars
    <2>2. {"RUNNING"} \in SUBSET TesTaskState /\ "EXECUTOR_ERROR" \in TesTaskState
      BY <1>0
    <2> QED
      BY <1>0, <1>1, <2>1, <2>2, UpdateAdvances
  <1>13. CASE SetComplete(t, reply)
    <2>1. /\ pc[t] = "set_complete" /\ ThenOrHandle(t, GetElseThrow(UpdateResult(t, {"RUNNING"}, reply)), "done_cancel")
          /\ UpdateTaskState(t, {"RUNNING"}, "COMPLETE", reply)
          /\ UNCHANGED <<jobs, result, submits>>
      BY <1>13 DEF SetComplete, pulsarVars
    <2>2. {"RUNNING"} \in SUBSET TesTaskState /\ "COMPLETE" \in TesTaskState
      BY <1>0
    <2> QED
      BY <1>0, <1>1, <2>1, <2>2, UpdateAdvances
  <1>14. CASE ExceptCheck(t, reply)
    <2>1. PICK label : Goto(t, label) /\ label \notin BeforeSubmit \cup TryBody
      BY <1>14, ErrorsLeadOut DEF ExceptCheck
    <2> QED
      BY <1>0, <1>14, <2>1, ControlAdvances DEF ExceptCheck, pulsarVars, dbVars
  <1>15. CASE HandleUpdate(t, reply)
    BY <1>0, <1>1, <1>15, UpdateAdvances DEF HandleUpdate, pulsarVars
  <1>16. CASE ShutdownUpdate(t, reply)
    BY <1>0, <1>1, <1>16, UpdateAdvances DEF ShutdownUpdate, pulsarVars
  <1> QED
    BY <1>2, <1>3, <1>5, <1>6, <1>8, <1>9, <1>10, <1>11, <1>12, <1>13, <1>14, <1>15, <1>16
       DEF DbStep

\* The other steps of the chain that send nothing.
LEMMA ChainAdvances ==
  ASSUME ChainInv, NEW t \in Task, UNCHANGED queue,
         \/ HandleQueuedTask(t) \/ DispatchRunTask(t)
         \/ \E e : SetupInput(t, FALSE, e) \/ PollStatus(t, e)
         \/ HandlerCancelled(t)
  PROVE  Advances(t)
  <1>1. /\ {"queued_task", "setup_job", "setup_data", "run_task"} \subseteq BeforeSubmit \ TryBody
        /\ {"poll", "exec_log_read"} \subseteq TryBody \ BeforeSubmit
    BY DEF BeforeSubmit, TryBody
  <1>2. CASE HandleQueuedTask(t)
    BY <1>1, <1>2, ControlAdvances DEF HandleQueuedTask, dbVars, pulsarVars
  <1>3. CASE DispatchRunTask(t)
    BY <1>1, <1>3, ControlAdvances DEF DispatchRunTask, dbVars, pulsarVars
  <1>4. ASSUME NEW e, SetupInput(t, FALSE, e) PROVE Advances(t)
    <2>1. /\ pc[t] = "setup_data" /\ \E f : ThenOrHandle(t, f, "setup_data")
          /\ UNCHANGED <<jobs, result, submits, state, visited>>
      BY <1>4 DEF SetupInput, dbVars, pulsarVars
    <2> QED
      BY <1>1, <2>1, ControlAdvances
  <1>5. ASSUME NEW e, PollStatus(t, e) PROVE Advances(t)
    <2>1. /\ pc[t] = "poll"
          /\ \/ \E f : ThenOrExcept(t, f, "poll")
             \/ Goto(t, "exec_log_read")
          /\ UNCHANGED <<jobs, result, submits, state, visited>>
      BY <1>5 DEF PollStatus, dbVars, pulsarVars
    <2>2. CASE \E f : ThenOrExcept(t, f, "poll")
      BY <1>1, <2>1, <2>2, ControlAdvances
    <2>3. CASE Goto(t, "exec_log_read")
      BY <1>1, <2>1, <2>3, ControlAdvances
    <2> QED
      BY <2>1, <2>2, <2>3
  <1>6. CASE HandlerCancelled(t)
    <2>1. PICK label : Goto(t, label) /\ label \notin BeforeSubmit \cup TryBody
      BY <1>6, ErrorsLeadOut DEF HandlerCancelled
    <2>2. UNCHANGED <<jobs, result, submits, state, visited>>
      BY <1>6 DEF HandlerCancelled, dbVars, pulsarVars
    <2> QED
      BY <2>1, <2>2, ControlAdvances
  <1> QED
    BY <1>2, <1>3, <1>4, <1>5, <1>6

\* The updates outside the chain: cancel_task, and the error handler beside it.
LEMMA OutsideAdvances ==
  ASSUME ChainInv, NEW t \in Task, NEW reply,
         \/ CancelTask(t, reply) /\ UNCHANGED queue
         \/ SideUpdate(t, reply)
  PROVE  Advances(t)
  <1>1. \E old \in SUBSET TesTaskState, new \in TesTaskState :
          \/ UpdateTaskState(t, old, new, reply)
          \/ old = TesTaskState /\ UpdateErrorTask(t, new, reply)
    <2>1. /\ Cancelable \in SUBSET TesTaskState
          /\ "CANCELED" \in TesTaskState /\ "SYSTEM_ERROR" \in TesTaskState
      BY DEF Cancelable, TesTaskState
    <2>2. \/ UpdateTaskState(t, Cancelable, "CANCELED", reply)
          \/ UpdateErrorTask(t, "SYSTEM_ERROR", reply)
      BY DEF CancelTask, SideUpdate
    <2> QED
      BY <2>1, <2>2
  <1>2. UNCHANGED <<pc, jobs, result, submits, queue>>
    BY DEF CancelTask, SideUpdate, handlerVars, pulsarVars
  <1>3. /\ DOMAIN state' = Task /\ DOMAIN visited' = Task
        /\ \A u \in Task \ {t} : state'[u] = state[u] /\ visited'[u] = visited[u]
        /\ visited[t] \subseteq visited'[t]
        /\ state'[t] = "ABSENT" => state[t] = "ABSENT" /\ visited'[t] = visited[t]
    BY <1>1, UpdateGoes DEF ChainInv, Domains
  <1> QED
    BY <1>2, <1>3 DEF Advances, ChainInv, Domains

\* POST /tasks, for a document that is not there yet and was never RUNNING.
LEMMA CreateAdvances ==
  ASSUME ChainInv, NEW t \in Task, NEW w, NEW list, NEW reply, CreateTask(t, w, list, reply),
         UNCHANGED queue
  PROVE  Advances(t)
  <1>1. state[t] = "ABSENT" /\ visited[t] = {}
    BY DEF CreateTask, InsertTask, ChainInv, OrderInv
  <1>2. "queued_task" \notin TryBody
    BY DEF TryBody
  <1>3. /\ \/ state' = state /\ visited' = visited
           \/ /\ state' = [state EXCEPT ![t] = "QUEUED"]
              /\ visited' = [visited EXCEPT ![t] = {"QUEUED"}]
        /\ pc' = pc \/ pc' = [pc EXCEPT ![t] = "queued_task"]
        /\ UNCHANGED <<jobs, result, submits>>
    BY DEF CreateTask, InsertTask, pulsarVars
  <1> QED
    BY <1>1, <1>2, <1>3 DEF Advances, ChainInv, Domains

-----------------------------------------------------------------------------
(***************************************************************************)
(* Messages, jobs and crashes.                                             *)
(***************************************************************************)
LEMMA AppendedQueue ==
  ASSUME queue \in [Task -> Seq(MessageType)], NEW t \in Task, NEW type \in MessageType
  PROVE  [queue EXCEPT ![t] = Append(queue[t], type)] \in [Task -> Seq(MessageType)]
  <1>1. Append(queue[t], type) \in Seq(MessageType)
    OBVIOUS
  <1> QED
    BY <1>1

\* A message that is not a submission.
LEMMA MessageInv ==
  ASSUME ChainInv, NEW t \in Task, NEW c, NEW type \in {"setup", "cancel"}, NEW reply,
         SendMessage(t, c, type, reply), UNCHANGED <<state, visited>>,
         \/ UNCHANGED pc
         \/ \E label : /\ Goto(t, label)
                       /\ label \in BeforeSubmit => pc[t] \in BeforeSubmit
                       /\ label \in TryBody => pc[t] \in TryBody
  PROVE  ChainInv'
  <1>1. /\ queue' = queue \/ queue' = [queue EXCEPT ![t] = Append(queue[t], type)]
        /\ submits' = [submits EXCEPT ![t] = submits[t]]
        /\ UNCHANGED <<jobs, result>>
    BY DEF SendMessage
  <1>2. /\ DOMAIN pc' = Task
        /\ \A u \in Task \ {t} : pc'[u] = pc[u]
        /\ pc'[t] \in BeforeSubmit => pc[t] \in BeforeSubmit
        /\ pc'[t] \in TryBody => pc[t] \in TryBody
    BY DEF ChainInv, Domains, Goto
  <1>3. type \in MessageType /\ queue[t] \in Seq(MessageType)
    BY DEF MessageType, ChainInv, Domains
  <1>4. Domains'
    <2>1. queue' \in [Task -> Seq(MessageType)]
      <3>1. queue \in [Task -> Seq(MessageType)]
        BY DEF ChainInv, Domains
      <3>2. [queue EXCEPT ![t] = Append(queue[t], type)] \in [Task -> Seq(MessageType)]
        BY <1>3, <3>1, AppendedQueue
      <3> QED
        BY <1>1, <3>1, <3>2 DEF MessageType
    <2>2. submits' \in [Task -> Nat]
      BY <1>1 DEF ChainInv, Domains
    <2> QED
      BY <1>1, <1>2, <2>1, <2>2 DEF ChainInv, Domains
  <1>5. \A u \in Task : submits'[u] = submits[u]
    BY <1>1 DEF ChainInv, Domains
  <1>6. \A u \in Task \ {t} : queue'[u] = queue[u]
    BY <1>1 DEF ChainInv, Domains
  <1>7. submits[t] = 0 => \A i \in 1..Len(queue'[t]) : queue'[t][i] # "submit"
    <2>1. submits[t] = 0 => \A i \in 1..Len(queue[t]) : queue[t][i] # "submit"
      BY DEF ChainInv, OrderInv
    <2>2. queue'[t] \in {queue[t], Append(queue[t], type)}
      BY <1>1 DEF ChainInv, Domains
    <2> QED
      BY <1>3, <2>1, <2>2
  <1>8. OrderInv(t)'
    BY <1>1, <1>2, <1>5, <1>7 DEF ChainInv, OrderInv
  <1>9. ASSUME NEW u \in Task \ {t} PROVE OrderInv(u)'
    BY <1>1, <1>2, <1>5, <1>6, UntouchedInv DEF ChainInv, Untouched
  <1> QED
    BY <1>4, <1>8, <1>9 DEF ChainInv

\* The submission: the first, and of a task that is or was RUNNING.
LEMMA RunJobInv ==
  ASSUME ChainInv, NEW t \in Task, NEW reply, RunJob(t, reply)
  PROVE  ChainInv'
  <1>1. /\ pc[t] = "run_job" /\ pc' = [pc EXCEPT ![t] = "poll"]
        /\ queue' = queue \/ queue' = [queue EXCEPT ![t] = Append(queue[t], "submit")]
        /\ submits' = [submits EXCEPT ![t] = submits[t] + 1]
        /\ UNCHANGED <<state, visited, jobs, result>>
    BY DEF RunJob, SendMessage, Goto, dbVars
  <1>2. "run_job" \in BeforeSubmit \cap TryBody /\ "poll" \notin BeforeSubmit
    BY DEF BeforeSubmit, TryBody
  <1>3. submits[t] = 0 /\ "RUNNING" \in visited[t]
    BY <1>1, <1>2 DEF ChainInv, OrderInv
  <1>4. "submit" \in MessageType /\ queue[t] \in Seq(MessageType)
    BY DEF MessageType, ChainInv, Domains
  <1>5. Domains'
    <2>1. queue' \in [Task -> Seq(MessageType)]
      <3>1. queue \in [Task -> Seq(MessageType)]
        BY DEF ChainInv, Domains
      <3>2. [queue EXCEPT ![t] = Append(queue[t], "submit")] \in [Task -> Seq(MessageType)]
        BY <1>4, <3>1, AppendedQueue
      <3> QED
        BY <1>1, <3>1, <3>2 DEF MessageType
    <2>2. submits' \in [Task -> Nat] /\ DOMAIN pc' = Task
      BY <1>1 DEF ChainInv, Domains
    <2> QED
      BY <1>1, <2>1, <2>2 DEF ChainInv, Domains
  <1>6. /\ pc'[t] = "poll" /\ submits'[t] = 1
        /\ \A u \in Task \ {t} :
             pc'[u] = pc[u] /\ submits'[u] = submits[u] /\ queue'[u] = queue[u]
    BY <1>1, <1>3 DEF ChainInv, Domains
  <1>7. OrderInv(t)'
    BY <1>1, <1>2, <1>3, <1>6 DEF ChainInv, OrderInv
  <1>8. ASSUME NEW u \in Task \ {t} PROVE OrderInv(u)'
    BY <1>1, <1>6, UntouchedInv DEF ChainInv, Untouched
  <1> QED
    BY <1>5, <1>7, <1>8 DEF ChainInv

\* Pulsar runs a job only when it takes the message that submits it.
LEMMA ConsumeInv ==
  ASSUME ChainInv, NEW t \in Task, PulsarConsumes(t)
  PROVE  ChainInv'
  <1>1. /\ queue[t] # <<>>
        /\ jobs' = [jobs EXCEPT ![t] = After(Head(queue[t]), jobs[t])]
        /\ queue' = [queue EXCEPT ![t] = Tail(queue[t])]
        /\ UNCHANGED <<pc, state, visited, result, submits>>
    BY DEF PulsarConsumes, handlerVars, dbVars
  <1>2. queue[t] \in Seq(MessageType)
    BY DEF ChainInv, Domains
  <1>3. /\ Tail(queue[t]) \in Seq(MessageType) /\ Head(queue[t]) = queue[t][1]
        /\ 1 \in 1..Len(queue[t]) /\ Len(Tail(queue[t])) = Len(queue[t]) - 1
        /\ Len(queue[t]) \in Nat /\ Head(queue[t]) \in MessageType
        /\ \A i \in 1..Len(Tail(queue[t])) :
             i + 1 \in 1..Len(queue[t]) /\ Tail(queue[t])[i] = queue[t][i + 1]
    BY <1>1, <1>2
  <1>4. Domains'
    BY <1>1, <1>3 DEF ChainInv, Domains
  <1>5. /\ jobs'[t] = After(Head(queue[t]), jobs[t]) /\ queue'[t] = Tail(queue[t])
        /\ \A u \in Task \ {t} : jobs'[u] = jobs[u] /\ queue'[u] = queue[u]
    BY <1>1 DEF ChainInv, Domains
  <1>6. OrderInv(t)'
    <2>1. ASSUME submits[t] = 0 PROVE jobs'[t] # "running"
      <3>1. Head(queue[t]) \in {"setup", "cancel"}
        BY <1>3, <2>1 DEF ChainInv, OrderInv, MessageType
      <3>2. jobs[t] # "running"
        BY <2>1 DEF ChainInv, OrderInv
      <3> QED
        BY <1>5, <3>1, <3>2 DEF After
    <2>2. submits[t] = 0 => \A i \in 1..Len(queue'[t]) : queue'[t][i] # "submit"
      BY <1>3, <1>5 DEF ChainInv, OrderInv
    <2> QED
      BY <1>1, <2>1, <2>2 DEF ChainInv, OrderInv
  <1>7. ASSUME NEW u \in Task \ {t} PROVE OrderInv(u)'
    BY <1>1, <1>5, UntouchedInv DEF ChainInv, Untouched
  <1> QED
    BY <1>4, <1>6, <1>7 DEF ChainInv

\* Only the process of a submitted job ends.
LEMMA FinishInv ==
  ASSUME ChainInv, NEW t \in Task, NEW code, JobFinishes(t, code),
         UNCHANGED <<handlerVars, dbVars, queue>>
  PROVE  ChainInv'
  <1>1. /\ UNCHANGED <<pc, state, visited, jobs, submits, queue>>
        /\ result' = [result EXCEPT ![t] = code]
        /\ jobs[t] = "running" \/ submits[t] > 0
    BY DEF JobFinishes, handlerVars, dbVars
  <1>2. submits[t] # 0
    BY <1>1 DEF ChainInv, OrderInv
  <1>3. Domains'
    BY <1>1 DEF ChainInv, Domains
  <1>4. \A u \in Task \ {t} : result'[u] = result[u]
    BY <1>1 DEF ChainInv, Domains
  <1>5. OrderInv(t)'
    BY <1>1, <1>2 DEF ChainInv, OrderInv
  <1>6. ASSUME NEW u \in Task \ {t} PROVE OrderInv(u)'
    BY <1>1, <1>4, UntouchedInv DEF ChainInv, Untouched
  <1> QED
    BY <1>3, <1>5, <1>6 DEF ChainInv

\* A worker dies, and its coroutines with it.
LEMMA CrashInv ==
  ASSUME ChainInv, NEW w \in Worker, CrashBoth(w)
  PROVE  ChainInv'
  <1>1. /\ pc' = [t \in Task |-> IF owner[t] = w THEN "idle" ELSE pc[t]]
        /\ UNCHANGED <<state, visited, jobs, result, submits, queue>>
    BY DEF CrashBoth, Crash, dbVars, pulsarVars
  <1>2. Domains'
    BY <1>1 DEF ChainInv, Domains
  <1>3. ASSUME NEW t \in Task PROVE OrderInv(t)'
    <2>1. pc'[t] = pc[t] \/ pc'[t] \notin BeforeSubmit \cup TryBody
      BY <1>1, ErrorsLeadOut
    <2> QED
      BY <1>1, <2>1 DEF ChainInv, OrderInv
  <1> QED
    BY <1>2, <1>3 DEF ChainInv

-----------------------------------------------------------------------------
(***************************************************************************)
(* The steps together.                                                     *)
(***************************************************************************)
LEMMA InitChain == Init => ChainInv
  <1> SUFFICES ASSUME Init PROVE ChainInv
    OBVIOUS
  <1>1. /\ DOMAIN pc = Task /\ DOMAIN state = Task /\ DOMAIN visited = Task
        /\ DOMAIN jobs = Task /\ DOMAIN result = Task /\ submits \in [Task -> Nat]
        /\ \A t \in Task :
             /\ pc[t] = "idle" /\ state[t] = "ABSENT" /\ visited[t] = {}
             /\ jobs[t] = "none" /\ result[t] = "none" /\ submits[t] = 0
    BY DEF Init, InitRepository, InitPulsar, InitHandlers
  <1>2. queue \in [Task -> Seq(MessageType)] /\ \A t \in Task : queue[t] = <<>>
    BY DEF Init
  <1>3. "idle" \notin TryBody
    BY DEF TryBody
  <1> QED
    BY <1>1, <1>2, <1>3 DEF ChainInv, Domains, OrderInv

\* Both coroutines of a task.
LEMMA TaskStepInv ==
  ASSUME ChainInv, NEW t \in Task, ChainStep(t) \/ SideStep(t)
  PROVE  ChainInv'
  <1>1. CASE \/ (HandleQueuedTask(t) \/ DispatchRunTask(t)) /\ UNCHANGED amqpVars
             \/ \E e : (SetupInput(t, FALSE, e) \/ PollStatus(t, e)) /\ UNCHANGED amqpVars
    BY <1>1, ChainAdvances, AdvancesInv DEF amqpVars
  <1>2. CASE \E reply \in DbReply : DbStep(t, reply)
    BY <1>2, DbStepAdvances, AdvancesInv
  <1>3. CASE \E c \in Coroutine : ConnectStep(t, c)
    <2>1. UNCHANGED <<pc, state, visited, jobs, result, submits, queue>>
      BY <1>3 DEF ConnectStep, handlerVars, dbVars, pulsarVars
    <2> QED
      BY <2>1 DEF ChainInv, Domains, OrderInv
  <1>4. ASSUME NEW reply, HandleQueuedTaskAmqp(t, reply) PROVE ChainInv'
    <2>1. pc[t] \in BeforeSubmit /\ "initialize_task" \in BeforeSubmit \ TryBody
      BY <1>4 DEF HandleQueuedTaskAmqp, BeforeSubmit, TryBody
    <2>2. /\ Goto(t, "initialize_task") /\ SendMessage(t, "chain", "setup", reply)
          /\ UNCHANGED <<state, visited>>
      BY <1>4 DEF HandleQueuedTaskAmqp, dbVars
    <2> QED
      BY <2>1, <2>2, MessageInv
  <1>5. ASSUME NEW reply, EraseJob(t, reply) PROVE ChainInv'
    <2>1. PICK label : Goto(t, label) /\ label \notin BeforeSubmit \cup TryBody
      BY <1>5, ErrorsLeadOut DEF EraseJob
    <2>2. SendMessage(t, "chain", "cancel", reply) /\ UNCHANGED <<state, visited>>
      BY <1>5 DEF EraseJob, dbVars
    <2> QED
      BY <2>1, <2>2, MessageInv
  <1>6. CASE \E reply \in SendReply(t, "chain") : MessageStep(t, reply)
    BY <1>4, <1>5, <1>6, RunJobInv DEF MessageStep
  <1>7. CASE \E reply \in SendReply(t, "side") : SideErase(t, reply)
    <2>1. PICK reply : SideErase(t, reply)
      BY <1>7
    <2>2. /\ SendMessage(t, "side", "cancel", reply)
          /\ UNCHANGED <<pc, state, visited>>
      BY <2>1 DEF SideErase, handlerVars, dbVars
    <2> QED
      BY <2>2, MessageInv
  <1>8. CASE \E reply \in DbReply : SideUpdate(t, reply)
    BY <1>8, OutsideAdvances, AdvancesInv
  <1> QED
    BY <1>1, <1>2, <1>3, <1>6, <1>7, <1>8 DEF ChainStep, SideStep, Coroutine

\* Clients, Pulsar, and what stops coroutines.
LEMMA EnvironmentStepInv == ChainInv /\ EnvironmentStep => ChainInv'
  <1> SUFFICES ASSUME ChainInv, EnvironmentStep PROVE ChainInv'
    OBVIOUS
  <1>1. CASE \E t \in Task, reply \in DbReply : CancelTask(t, reply) /\ UNCHANGED amqpVars
    BY <1>1, OutsideAdvances, AdvancesInv DEF amqpVars
  <1>2. CASE \E t \in Task, w \in Worker, list \in InputLists, reply \in DbReply :
               CreateTask(t, w, list, reply) /\ UNCHANGED amqpVars
    BY <1>2, CreateAdvances, AdvancesInv DEF amqpVars
  <1>3. CASE \E t \in Task, code \in ReturnCode :
               JobFinishes(t, code) /\ UNCHANGED <<handlerVars, dbVars>> /\ UNCHANGED amqpVars
    BY <1>3, FinishInv DEF amqpVars
  <1>4. CASE \E t \in Task : PulsarConsumes(t)
    BY <1>4, ConsumeInv
  <1>5. CASE \E t \in Task : ChainCancelled(t)
    BY <1>5, ChainAdvances, AdvancesInv DEF ChainCancelled
  <1>6. CASE \E t \in Task : SideCancelled(t)
    <2>1. UNCHANGED <<pc, state, visited, jobs, result, submits, queue>>
      BY <1>6 DEF SideCancelled, handlerVars, dbVars, pulsarVars
    <2> QED
      BY <2>1 DEF ChainInv, Domains, OrderInv
  <1>7. CASE \E w \in Worker : CrashBoth(w)
    BY <1>7, CrashInv
  <1> QED
    BY <1>1, <1>2, <1>3, <1>4, <1>5, <1>6, <1>7 DEF EnvironmentStep

LEMMA ChainStepInv == ChainInv /\ [Next]_vars => ChainInv'
  <1> SUFFICES ASSUME ChainInv, [Next]_vars PROVE ChainInv'
    OBVIOUS
  <1>1. CASE EnvironmentStep
    BY <1>1, EnvironmentStepInv
  <1>2. CASE \E t \in Task : ChainStep(t) \/ SideStep(t)
    BY <1>2, TaskStepInv
  <1>3. CASE UNCHANGED vars
    <2>1. UNCHANGED <<pc, state, visited, jobs, result, submits, queue>>
      BY <1>3 DEF vars, amqpVars, handlerVars, dbVars, pulsarVars
    <2> QED
      BY <2>1 DEF ChainInv, Domains, OrderInv
  <1> QED
    BY <1>1, <1>2, <1>3 DEF Next

-----------------------------------------------------------------------------
(***************************************************************************)
(* Reports of failures.  Both coroutines may write SYSTEM_ERROR, and each  *)
(* knows only of the messages it sent itself.                              *)
(***************************************************************************)
ReportDomains ==
  /\ DOMAIN pc = Task /\ DOMAIN err = Task /\ DOMAIN state = Task
  /\ DOMAIN side = Task /\ DOMAIN sent = Task

\* Either coroutine is about to report only when it may, and a report that no
\* cancel message preceded is the last thing the chain of events did.
Reported(t) ==
  /\ pc[t] = "handle_update" => err[t] = "Connection" \/ "cancel" \in sent[t]
  /\ side[t] = "update" => "cancel" \in sent[t]
  /\ state[t] = "SYSTEM_ERROR" =>
       "cancel" \in sent[t] \/ (pc[t] = "idle" /\ err[t] = "Connection")

ReportInv == ReportDomains /\ \A t \in Task : Reported(t)

\* What a step may do to the task it works on.
Reports(t) ==
  /\ ReportDomains'
  /\ \A u \in Task \ {t} : UNCHANGED <<pc[u], err[u], state[u], side[u], sent[u]>>
  /\ sent[t] \subseteq sent'[t]
  /\ pc'[t] = "handle_update" =>
       \/ err'[t] = "Connection"
       \/ "cancel" \in sent'[t]
       \/ UNCHANGED <<pc[t], err[t]>>
  /\ side'[t] = "update" => side[t] = "update" \/ "cancel" \in sent'[t]
  /\ state'[t] = "SYSTEM_ERROR" =>
       \/ state[t] = "SYSTEM_ERROR" /\ (pc[t] = "idle" => UNCHANGED <<pc[t], err[t]>>)
       \/ side[t] = "update"
       \/ pc[t] = "handle_update" /\ pc'[t] = "idle" /\ UNCHANGED err[t]

LEMMA ReportsInv ==
  ASSUME ReportInv, NEW t \in Task, Reports(t)
  PROVE  ReportInv'
  <1>1. Reported(t)'
    BY DEF ReportInv, Reported, Reports
  <1>2. ASSUME NEW u \in Task \ {t} PROVE Reported(u)'
    BY DEF ReportInv, Reported, Reports
  <1> QED
    BY <1>1, <1>2 DEF ReportInv, Reports

\* Errors lead to the report at once only when they are those of a connection.
LEMMA ReportGoes ==
  ASSUME DOMAIN pc = Task, DOMAIN err = Task, NEW t \in Task, NEW label, NEW e,
         Goto(t, label) \/ ThenOrHandle(t, e, label) \/ ThenOrExcept(t, e, label),
         label # "handle_update"
  PROVE  /\ DOMAIN pc' = Task /\ DOMAIN err' = Task
         /\ \A u \in Task \ {t} : pc'[u] = pc[u] /\ err'[u] = err[u]
         /\ pc'[t] = "handle_update" => err'[t] = "Connection"
  <1>1. e # "Connection" => ErrorEntry(e) # "handle_update"
    BY DEF ErrorEntry
  <1>2. ErrorEntry("none") # "handle_update"
    BY DEF ErrorEntry
  <1> QED
    BY <1>1, <1>2 DEF Goto, ThenOrHandle, ThenOrExcept

\* A step of the chain of events that does not report.
LEMMA ChainReports ==
  ASSUME ReportInv, NEW t \in Task, NEW label, NEW e, pc[t] # "idle",
         Goto(t, label) \/ ThenOrHandle(t, e, label) \/ ThenOrExcept(t, e, label),
         label # "handle_update",
         \/ UNCHANGED state
         \/ \E old, new, reply : UpdateTaskState(t, old, new, reply) /\ new # "SYSTEM_ERROR",
         UNCHANGED <<sent, side>>
  PROVE  Reports(t)
  <1>1. /\ DOMAIN pc' = Task /\ DOMAIN err' = Task
        /\ \A u \in Task \ {t} : pc'[u] = pc[u] /\ err'[u] = err[u]
        /\ pc'[t] = "handle_update" => err'[t] = "Connection"
    BY ReportGoes DEF ReportInv, ReportDomains
  <1>2. /\ DOMAIN state' = Task
        /\ \A u \in Task \ {t} : state'[u] = state[u]
        /\ state'[t] = "SYSTEM_ERROR" => state[t] = "SYSTEM_ERROR"
    BY DEF UpdateTaskState, ReportInv, ReportDomains
  <1> QED
    BY <1>1, <1>2 DEF Reports, ReportInv, ReportDomains

\* A call of the repository.
LEMMA DbStepReports ==
  ASSUME ReportInv, NEW t \in Task, NEW reply, DbStep(t, reply)
  PROVE  Reports(t)
  <1>0. UNCHANGED <<sent, side>>
    BY DEF DbStep, amqpVars, pulsarVars, HandleInitializingTask, HandleRunTask, EarlyCheck,
           LateCheck, CheckCanceled, ReadStartLog, ReadExecutorLog, ReadLogs, WriteStartTime,
           WriteExecutorLog, SetExecutorError, SetComplete, ExceptCheck, HandleUpdate,
           ShutdownUpdate
  <1>1. CASE HandleInitializingTask(t, reply)
    BY <1>0, <1>1, ChainReports DEF HandleInitializingTask
  <1>2. CASE HandleRunTask(t, reply)
    BY <1>0, <1>2, ChainReports DEF HandleRunTask
  <1>3. CASE EarlyCheck(t, reply)
    BY <1>0, <1>3, ChainReports DEF EarlyCheck, CheckCanceled, dbVars
  <1>4. CASE LateCheck(t, reply)
    BY <1>0, <1>4, ChainReports DEF LateCheck, CheckCanceled, OutcomeLabel, dbVars
  <1>5. CASE ReadStartLog(t, reply)
    BY <1>0, <1>5, ChainReports DEF ReadStartLog, ReadLogs, dbVars
  <1>6. CASE ReadExecutorLog(t, reply)
    BY <1>0, <1>6, ChainReports DEF ReadExecutorLog, ReadLogs, dbVars
  <1>7. CASE WriteStartTime(t, FALSE, reply)
    BY <1>0, <1>7, ChainReports DEF WriteStartTime, UpdateTaskLogs
  <1>8. CASE WriteExecutorLog(t, reply)
    BY <1>0, <1>8, ChainReports DEF WriteExecutorLog, UpdateTaskLogs
  <1>9. CASE SetExecutorError(t, reply)
    BY <1>0, <1>9, ChainReports DEF SetExecutorError
  <1>10. CASE SetComplete(t, reply)
    BY <1>0, <1>10, ChainReports DEF SetComplete
  <1>11. CASE ShutdownUpdate(t, reply)
    BY <1>0, <1>11, ChainReports DEF ShutdownUpdate
  <1>12. CASE ExceptCheck(t, reply)
    <2>1. ErrorEntry(err[t]) = "handle_update" => err[t] = "Connection"
      BY DEF ErrorEntry
    <2>2. /\ pc[t] = "except_check" /\ UNCHANGED <<err, state>>
          /\ \/ pc' = [pc EXCEPT ![t] = "idle"]
             \/ pc' = [pc EXCEPT ![t] = ErrorEntry(err[t])]
      BY <1>12 DEF ExceptCheck, Goto, dbVars
    <2> QED
      BY <1>0, <2>1, <2>2 DEF Reports, ReportInv, ReportDomains
  <1>13. CASE HandleUpdate(t, reply)
    <2>1. /\ pc[t] = "handle_update" /\ pc' = [pc EXCEPT ![t] = "idle"] /\ UNCHANGED err
          /\ state' = state \/ state' = [state EXCEPT ![t] = "SYSTEM_ERROR"]
      BY <1>13 DEF HandleUpdate, Goto, UpdateErrorTask
    <2> QED
      BY <1>0, <2>1 DEF Reports, ReportInv, ReportDomains
  <1> QED
    BY <1>1, <1>2, <1>3, <1>4, <1>5, <1>6, <1>7, <1>8, <1>9, <1>10, <1>11, <1>12, <1>13
       DEF DbStep

\* A message of either coroutine.
LEMMA MessageReports ==
  ASSUME ReportInv, NEW t \in Task, NEW reply,
         HandleQueuedTaskAmqp(t, reply) \/ RunJob(t, reply) \/ EraseJob(t, reply)
           \/ SideErase(t, reply)
  PROVE  Reports(t)
  <1>1. ASSUME NEW c, NEW type, SendMessage(t, c, type, reply)
        PROVE  /\ DOMAIN sent' = Task /\ sent'[t] = sent[t] \cup {type}
               /\ \A u \in Task \ {t} : sent'[u] = sent[u]
    BY <1>1 DEF SendMessage, ReportInv, ReportDomains
  <1>2. CASE HandleQueuedTaskAmqp(t, reply)
    <2>1. /\ pc[t] = "setup_job" /\ pc' = [pc EXCEPT ![t] = "initialize_task"]
          /\ side' = [side EXCEPT ![t] = "erase"] /\ UNCHANGED <<err, state>>
          /\ SendMessage(t, "chain", "setup", reply)
      BY <1>2 DEF HandleQueuedTaskAmqp, Goto, dbVars
    <2> QED
      BY <1>1, <2>1 DEF Reports, ReportInv, ReportDomains
  <1>3. CASE RunJob(t, reply)
    <2>1. /\ pc[t] = "run_job" /\ pc' = [pc EXCEPT ![t] = "poll"]
          /\ UNCHANGED <<side, err, state>>
          /\ SendMessage(t, "chain", "submit", reply)
      BY <1>3 DEF RunJob, Goto, dbVars
    <2> QED
      BY <1>1, <2>1 DEF Reports, ReportInv, ReportDomains
  <1>4. CASE EraseJob(t, reply)
    <2>1. PICK label : /\ pc' = [pc EXCEPT ![t] = label] /\ UNCHANGED <<side, err, state>>
                       /\ SendMessage(t, "chain", "cancel", reply)
                       /\ pc[t] # "idle"
      BY <1>4 DEF EraseJob, Goto, dbVars
    <2> QED
      BY <1>1, <2>1 DEF Reports, ReportInv, ReportDomains
  <1>5. CASE SideErase(t, reply)
    <2>1. /\ side' = [side EXCEPT ![t] = "update"] /\ UNCHANGED <<pc, err, state>>
          /\ SendMessage(t, "side", "cancel", reply)
      BY <1>5 DEF SideErase, handlerVars, dbVars
    <2> QED
      BY <1>1, <2>1 DEF Reports, ReportInv, ReportDomains
  <1> QED
    BY <1>2, <1>3, <1>4, <1>5

\* Both coroutines of a task.
LEMMA TaskStepReports ==
  ASSUME ReportInv, NEW t \in Task, ChainStep(t) \/ SideStep(t)
  PROVE  ReportInv'
  <1>1. CASE (HandleQueuedTask(t) \/ DispatchRunTask(t)) /\ UNCHANGED amqpVars
    BY <1>1, ChainReports, ReportsInv
       DEF HandleQueuedTask, DispatchRunTask, amqpVars, dbVars, pulsarVars
  <1>2. CASE \E reply \in DbReply : DbStep(t, reply)
    BY <1>2, DbStepReports, ReportsInv
  <1>3. CASE \E c \in Coroutine : ConnectStep(t, c)
    <2>1. UNCHANGED <<pc, err, state, side, sent>>
      BY <1>3 DEF ConnectStep, handlerVars, dbVars, pulsarVars
    <2> QED
      BY <2>1 DEF ReportInv, ReportDomains, Reported
  <1>4. CASE \E reply : MessageStep(t, reply) \/ SideErase(t, reply)
    BY <1>4, MessageReports, ReportsInv DEF MessageStep
  <1>5. ASSUME NEW e, SetupInput(t, FALSE, e), UNCHANGED amqpVars PROVE ReportInv'
    <2>1. /\ pc[t] = "setup_data" /\ \E f : ThenOrHandle(t, f, "setup_data")
          /\ UNCHANGED <<sent, side, state>>
      BY <1>5 DEF SetupInput, amqpVars, dbVars, pulsarVars
    <2> QED
      BY <2>1, ChainReports, ReportsInv
  <1>6. ASSUME NEW e, PollStatus(t, e), UNCHANGED amqpVars PROVE ReportInv'
    <2>1. /\ pc[t] = "poll" /\ UNCHANGED <<sent, side, state>>
          /\ (\E f : ThenOrExcept(t, f, "poll")) \/ Goto(t, "exec_log_read")
      BY <1>6 DEF PollStatus, amqpVars, dbVars, pulsarVars
    <2>2. CASE \E f : ThenOrExcept(t, f, "poll")
      BY <2>1, <2>2, ChainReports, ReportsInv
    <2>3. CASE Goto(t, "exec_log_read")
      BY <2>1, <2>3, ChainReports, ReportsInv
    <2> QED
      BY <2>1, <2>2, <2>3
  <1>7. CASE \E reply \in DbReply : SideUpdate(t, reply)
    <2>1. /\ side[t] = "update" /\ side' = [side EXCEPT ![t] = "idle"]
          /\ UNCHANGED <<pc, err, sent>>
          /\ state' = state \/ state' = [state EXCEPT ![t] = "SYSTEM_ERROR"]
      BY <1>7 DEF SideUpdate, UpdateErrorTask, handlerVars, pulsarVars
    <2>2. Reports(t)
      BY <2>1 DEF Reports, ReportInv, ReportDomains
    <2> QED
      BY <2>2, ReportsInv
  <1> QED
    BY <1>1, <1>2, <1>3, <1>4, <1>5, <1>6, <1>7 DEF ChainStep, SideStep, Coroutine

\* Clients, Pulsar, and what stops coroutines.
LEMMA EnvironmentReports == ReportInv /\ EnvironmentStep => ReportInv'
  <1> SUFFICES ASSUME ReportInv, EnvironmentStep PROVE ReportInv'
    OBVIOUS
  <1>1. CASE \E t \in Task, reply \in DbReply : CancelTask(t, reply) /\ UNCHANGED amqpVars
    <2>1. PICK t \in Task, reply \in DbReply : CancelTask(t, reply) /\ UNCHANGED amqpVars
      BY <1>1
    <2>2. /\ state' = state \/ state' = [state EXCEPT ![t] = "CANCELED"]
          /\ UNCHANGED <<pc, err, side, sent>>
      BY <2>1 DEF CancelTask, UpdateTaskState, amqpVars, handlerVars, pulsarVars
    <2>3. Reports(t)
      BY <2>2 DEF Reports, ReportInv, ReportDomains
    <2> QED
      BY <2>3, ReportsInv
  <1>2. CASE \E t \in Task, w \in Worker, list \in InputLists, reply \in DbReply :
               CreateTask(t, w, list, reply) /\ UNCHANGED amqpVars
    <2>1. PICK t \in Task, w \in Worker, list \in InputLists, reply \in DbReply :
            CreateTask(t, w, list, reply) /\ UNCHANGED amqpVars
      BY <1>2
    <2>2. /\ state[t] = "ABSENT"
          /\ state' = state \/ state' = [state EXCEPT ![t] = "QUEUED"]
          /\ pc' = pc \/ pc' = [pc EXCEPT ![t] = "queued_task"]
          /\ UNCHANGED <<err, side, sent>>
      BY <2>1 DEF CreateTask, InsertTask, amqpVars, pulsarVars
    <2>3. Reports(t)
      BY <2>2 DEF Reports, ReportInv, ReportDomains
    <2> QED
      BY <2>3, ReportsInv
  <1>3. CASE \/ \E t \in Task, code \in ReturnCode :
                  JobFinishes(t, code) /\ UNCHANGED <<handlerVars, dbVars>> /\ UNCHANGED amqpVars
             \/ \E t \in Task : PulsarConsumes(t)
    <2>1. UNCHANGED <<pc, err, state, side, sent>>
      BY <1>3 DEF JobFinishes, PulsarConsumes, handlerVars, dbVars, amqpVars
    <2> QED
      BY <2>1 DEF ReportInv, ReportDomains, Reported
  <1>4. CASE \E t \in Task : ChainCancelled(t)
    <2>1. PICK t \in Task : ChainCancelled(t)
      BY <1>4
    <2>2. /\ pc[t] # "idle" /\ UNCHANGED <<err, state, side, sent>>
          /\ \/ pc' = [pc EXCEPT ![t] = "idle"]
             \/ pc' = [pc EXCEPT ![t] = "shutdown_update"]
      BY <2>1 DEF ChainCancelled, HandlerCancelled, Goto, dbVars, pulsarVars
    <2>3. Reports(t)
      BY <2>2 DEF Reports, ReportInv, ReportDomains
    <2> QED
      BY <2>3, ReportsInv
  <1>5. CASE \E t \in Task : SideCancelled(t)
    <2>1. PICK t \in Task : SideCancelled(t)
      BY <1>5
    <2>2. side' = [side EXCEPT ![t] = "idle"] /\ UNCHANGED <<pc, err, state, sent>>
      BY <2>1 DEF SideCancelled, handlerVars, dbVars, pulsarVars
    <2>3. Reports(t)
      BY <2>2 DEF Reports, ReportInv, ReportDomains
    <2> QED
      BY <2>3, ReportsInv
  <1>6. CASE \E w \in Worker : CrashBoth(w)
    <2>1. PICK w \in Worker : CrashBoth(w)
      BY <1>6
    <2>2. /\ pc' = [t \in Task |-> IF owner[t] = w THEN "idle" ELSE pc[t]]
          /\ side' = [t \in Task |-> IF owner[t] = w THEN "idle" ELSE side[t]]
          /\ UNCHANGED <<err, state, sent>>
      BY <2>1 DEF CrashBoth, Crash, dbVars, pulsarVars
    <2>3. \A t \in Task : /\ pc'[t] = pc[t] \/ pc'[t] = "idle"
                          /\ side'[t] = side[t] \/ side'[t] = "idle"
      BY <2>2
    <2> QED
      BY <2>2, <2>3 DEF ReportInv, ReportDomains, Reported
  <1> QED
    BY <1>1, <1>2, <1>3, <1>4, <1>5, <1>6 DEF EnvironmentStep

LEMMA ReportStepInv == ReportInv /\ [Next]_vars => ReportInv'
  <1> SUFFICES ASSUME ReportInv, [Next]_vars PROVE ReportInv'
    OBVIOUS
  <1>1. CASE EnvironmentStep
    BY <1>1, EnvironmentReports
  <1>2. CASE \E t \in Task : ChainStep(t) \/ SideStep(t)
    BY <1>2, TaskStepReports
  <1>3. CASE UNCHANGED vars
    <2>1. UNCHANGED <<pc, err, state, side, sent>>
      BY <1>3 DEF vars, amqpVars, handlerVars, dbVars, pulsarVars
    <2> QED
      BY <2>1 DEF ReportInv, ReportDomains, Reported
  <1> QED
    BY <1>1, <1>2, <1>3 DEF Next

-----------------------------------------------------------------------------
(***************************************************************************)
(* Return codes.  From the end of polling on the chain of events holds the *)
(* return code of its job, and that is what it decides by.                 *)
(***************************************************************************)
HasCode == {"exec_log_read", "exec_log_write", "late_check", "set_error", "set_complete"}

Judged(t) ==
  /\ result[t] \in JobResult
  /\ pc[t] \in HasCode => rc[t] = result[t] /\ rc[t] # "none"
  /\ pc[t] = "set_complete" => rc[t] = "zero"
  /\ pc[t] = "set_error" => rc[t] # "zero"

CodeInv ==
  /\ state \in [Task -> DocState]
  /\ DOMAIN pc = Task /\ DOMAIN rc = Task /\ DOMAIN result = Task
  /\ \A t \in Task : Judged(t)

\* Documents stay in their states, whatever is done with them.
LEMMA StateStays ==
  ASSUME CodeInv, NEW t \in Task, NEW reply,
         \/ UNCHANGED state
         \/ \E old, new : UpdateTaskState(t, old, new, reply) /\ new \in TesTaskState
         \/ UpdateErrorTask(t, "SYSTEM_ERROR", reply)
         \/ InsertTask(t, reply)
  PROVE  state' \in [Task -> DocState]
  BY DEF CodeInv, DocState, TesTaskState, UpdateTaskState, UpdateErrorTask, InsertTask

\* A step of the chain of events that passes the code on, or has none.
LEMMA PassesCode ==
  ASSUME CodeInv, state' \in [Task -> DocState], NEW t \in Task, NEW label, NEW e,
         Goto(t, label) \/ ThenOrHandle(t, e, label) \/ ThenOrExcept(t, e, label),
         label \in HasCode => pc[t] \in HasCode,
         label = "set_complete" => rc[t] = "zero",
         label = "set_error" => rc[t] # "zero",
         UNCHANGED <<rc, result>>
  PROVE  CodeInv'
  <1>1. \A f : ErrorEntry(f) \notin HasCode /\ "except_check" \notin HasCode
    BY DEF ErrorEntry, HasCode
  <1>2. /\ DOMAIN pc' = Task /\ \A u \in Task \ {t} : pc'[u] = pc[u]
        /\ pc'[t] = label \/ pc'[t] \notin HasCode
    BY <1>1 DEF Goto, ThenOrHandle, ThenOrExcept, CodeInv
  <1>3. {"set_complete", "set_error"} \subseteq HasCode
    BY DEF HasCode
  <1>4. ASSUME NEW u \in Task PROVE Judged(u)'
    <2>1. CASE u = t
      BY <1>2, <1>3, <2>1 DEF CodeInv, Judged
    <2>2. CASE u # t
      BY <1>2, <2>2 DEF CodeInv, Judged
    <2> QED
      BY <2>1, <2>2
  <1> QED
    BY <1>2, <1>4 DEF CodeInv

\* A step that leaves the chain of events and its job where they are, or ends it.
LEMMA ApartFromCode ==
  ASSUME CodeInv, state' \in [Task -> DocState], UNCHANGED <<rc, result>>,
         DOMAIN pc' = Task, \A t \in Task : pc'[t] = pc[t] \/ pc'[t] \notin HasCode
  PROVE  CodeInv'
  <1>1. {"set_complete", "set_error"} \subseteq HasCode
    BY DEF HasCode
  <1>2. ASSUME NEW t \in Task PROVE Judged(t)'
    BY <1>1 DEF CodeInv, Judged
  <1> QED
    BY <1>2 DEF CodeInv

LEMMA PollStatusCode ==
  ASSUME CodeInv, NEW t \in Task, NEW e, PollStatus(t, e)
  PROVE  CodeInv'
  <1>1. pc[t] = "poll" /\ "poll" \notin HasCode /\ UNCHANGED <<state, result>>
    BY DEF PollStatus, HasCode, dbVars, pulsarVars
  <1>2. state' \in [Task -> DocState]
    BY <1>1, StateStays
  <1>3. CASE UNCHANGED rc /\ \E f : ThenOrExcept(t, f, "poll")
    BY <1>1, <1>2, <1>3, PassesCode DEF HasCode
  <1>4. CASE rc' = [rc EXCEPT ![t] = result[t]] /\ result[t] # "none" /\ Goto(t, "exec_log_read")
    <2>1. /\ pc' = [pc EXCEPT ![t] = "exec_log_read"] /\ "exec_log_read" # "set_complete"
      BY <1>4 DEF Goto
    <2>2. ASSUME NEW u \in Task PROVE Judged(u)'
      BY <1>1, <1>4, <2>1 DEF CodeInv, Judged
    <2> QED
      BY <1>1, <1>2, <1>4, <2>1, <2>2 DEF CodeInv
  <1> QED
    BY <1>3, <1>4 DEF PollStatus

\* A call of the repository.
LEMMA DbStepCode ==
  ASSUME CodeInv, NEW t \in Task, NEW reply, DbStep(t, reply)
  PROVE  CodeInv'
  <1>0. UNCHANGED <<rc, result>>
    BY DEF DbStep, amqpVars, pulsarVars, localVars, HandleInitializingTask, HandleRunTask,
           EarlyCheck, LateCheck, CheckCanceled, ReadStartLog, ReadExecutorLog, ReadLogs,
           WriteStartTime, WriteExecutorLog, SetExecutorError, SetComplete, ExceptCheck,
           HandleUpdate, ShutdownUpdate
  <1>1. state' \in [Task -> DocState]
    <2>1. \/ UNCHANGED state
          \/ \E old, new : UpdateTaskState(t, old, new, reply) /\ new \in TesTaskState
          \/ UpdateErrorTask(t, "SYSTEM_ERROR", reply)
      BY DEF DbStep, dbVars, TesTaskState, HandleInitializingTask, HandleRunTask,
             EarlyCheck, LateCheck, CheckCanceled, ReadStartLog, ReadExecutorLog, ReadLogs,
             WriteStartTime, WriteExecutorLog, SetExecutorError, SetComplete, ExceptCheck,
             HandleUpdate, ShutdownUpdate, UpdateTaskLogs
    <2> QED
      BY <2>1, StateStays
  <1> USE DEF HasCode
  <1>2. CASE HandleInitializingTask(t, reply)
    BY <1>0, <1>1, <1>2, PassesCode DEF HandleInitializingTask
  <1>3. CASE HandleRunTask(t, reply)
    BY <1>0, <1>1, <1>3, PassesCode DEF HandleRunTask
  <1>4. CASE EarlyCheck(t, reply)
    BY <1>0, <1>1, <1>4, PassesCode DEF EarlyCheck, CheckCanceled
  <1>5. CASE LateCheck(t, reply)
    <2>1. /\ pc[t] = "late_check"
          /\ \/ ThenOrExcept(t, "DataLayer", OutcomeLabel(rc[t]))
             \/ Goto(t, OutcomeLabel(rc[t]))
             \/ Goto(t, "idle")
      BY <1>5 DEF LateCheck, CheckCanceled
    <2>2. /\ OutcomeLabel(rc[t]) = "set_complete" => rc[t] = "zero"
          /\ OutcomeLabel(rc[t]) = "set_error" => rc[t] # "zero"
      BY DEF OutcomeLabel
    <2> QED
      BY <1>0, <1>1, <2>1, <2>2, PassesCode
  <1>6. CASE ReadStartLog(t, reply)
    BY <1>0, <1>1, <1>6, PassesCode DEF ReadStartLog, ReadLogs
  <1>7. CASE ReadExecutorLog(t, reply)
    BY <1>0, <1>1, <1>7, PassesCode DEF ReadExecutorLog, ReadLogs
  <1>8. CASE WriteStartTime(t, FALSE, reply)
    BY <1>0, <1>1, <1>8, PassesCode DEF WriteStartTime
  <1>9. CASE WriteExecutorLog(t, reply)
    BY <1>0, <1>1, <1>9, PassesCode DEF WriteExecutorLog
  <1>10. CASE SetExecutorError(t, reply)
    BY <1>0, <1>1, <1>10, PassesCode DEF SetExecutorError
  <1>11. CASE SetComplete(t, reply)
    BY <1>0, <1>1, <1>11, PassesCode DEF SetComplete
  <1>12. CASE ExceptCheck(t, reply)
    <2>1. \A e : ErrorEntry(e) \notin HasCode
      BY DEF ErrorEntry
    <2>2. Goto(t, "idle") \/ Goto(t, ErrorEntry(err[t]))
      BY <1>12 DEF ExceptCheck
    <2> QED
      BY <1>0, <1>1, <2>1, <2>2, PassesCode
  <1>13. CASE HandleUpdate(t, reply) \/ ShutdownUpdate(t, reply)
    BY <1>0, <1>1, <1>13, PassesCode DEF HandleUpdate, ShutdownUpdate
  <1> QED
    BY <1>2, <1>3, <1>4, <1>5, <1>6, <1>7, <1>8, <1>9, <1>10, <1>11, <1>12, <1>13 DEF DbStep

\* Both coroutines of a task.
LEMMA TaskStepCode ==
  ASSUME CodeInv, NEW t \in Task, ChainStep(t) \/ SideStep(t)
  PROVE  CodeInv'
  <1>0. \A e : AfterErase(e) \notin HasCode
    BY DEF AfterErase, HasCode
  <1>1. UNCHANGED state => state' \in [Task -> DocState]
    BY DEF CodeInv
  <1>2. CASE HandleQueuedTask(t) \/ DispatchRunTask(t)
    <2>1. (Goto(t, "setup_job") \/ Goto(t, "run_task")) /\ UNCHANGED <<rc, result, state>>
      BY <1>2 DEF HandleQueuedTask, DispatchRunTask, localVars, dbVars, pulsarVars
    <2> QED
      BY <1>1, <2>1, PassesCode DEF HasCode
  <1>3. CASE \E reply : DbStep(t, reply)
    BY <1>3, DbStepCode
  <1>4. CASE \E c : ConnectStep(t, c)
    <2>1. UNCHANGED <<pc, rc, result, state>>
      BY <1>4 DEF ConnectStep, handlerVars, dbVars, pulsarVars
    <2> QED
      BY <1>1, <2>1, ApartFromCode DEF CodeInv
  <1>5. CASE \E reply : HandleQueuedTaskAmqp(t, reply) \/ RunJob(t, reply)
    <2>1. /\ Goto(t, "initialize_task") \/ Goto(t, "poll")
          /\ UNCHANGED <<rc, result, state>>
      BY <1>5 DEF HandleQueuedTaskAmqp, RunJob, StartPolling, SendMessage, localVars, dbVars
    <2> QED
      BY <1>1, <2>1, PassesCode DEF HasCode
  <1>6. CASE \E reply : EraseJob(t, reply)
    <2>1. PICK label : Goto(t, label) /\ (label = "idle" \/ label = AfterErase(err[t]))
      BY <1>6 DEF EraseJob
    <2>2. UNCHANGED <<rc, result, state>>
      BY <1>6 DEF EraseJob, SendMessage, localVars, dbVars
    <2>3. label \notin HasCode /\ label \notin {"set_complete", "set_error"}
      BY <1>0, <2>1 DEF HasCode
    <2> QED
      BY <1>1, <2>1, <2>2, <2>3, PassesCode
  <1>7. ASSUME NEW e, SetupInput(t, FALSE, e) PROVE CodeInv'
    <2>1. (\E f : ThenOrHandle(t, f, "setup_data")) /\ UNCHANGED <<rc, result, state>>
      BY <1>7 DEF SetupInput, dbVars, pulsarVars
    <2> QED
      BY <1>1, <2>1, PassesCode DEF HasCode
  <1>8. CASE \E e : PollStatus(t, e)
    BY <1>8, PollStatusCode
  <1>9. CASE \E reply : SideErase(t, reply)
    <2>1. UNCHANGED <<pc, rc, result, state>>
      BY <1>9 DEF SideErase, SendMessage, handlerVars, dbVars
    <2> QED
      BY <1>1, <2>1, ApartFromCode DEF CodeInv
  <1>10. ASSUME NEW reply, SideUpdate(t, reply) PROVE CodeInv'
    <2>1. UNCHANGED <<pc, rc, result>> /\ UpdateErrorTask(t, "SYSTEM_ERROR", reply)
      BY <1>10 DEF SideUpdate, handlerVars, pulsarVars
    <2> QED
      BY <2>1, StateStays, ApartFromCode DEF CodeInv
  <1> QED
    BY <1>2, <1>3, <1>4, <1>5, <1>6, <1>7, <1>8, <1>9, <1>10 DEF ChainStep, SideStep, MessageStep

\* Clients, Pulsar, and what stops coroutines.
LEMMA EnvironmentCode == CodeInv /\ EnvironmentStep => CodeInv'
  <1> SUFFICES ASSUME CodeInv, EnvironmentStep PROVE CodeInv'
    OBVIOUS
  <1>0. {"idle", "queued_task", "shutdown_update"} \cap HasCode = {}
    BY DEF HasCode
  <1>1. ASSUME NEW t \in Task, NEW reply, CancelTask(t, reply) PROVE CodeInv'
    <2>1. UNCHANGED <<pc, rc, result>> /\ UpdateTaskState(t, Cancelable, "CANCELED", reply)
      BY <1>1 DEF CancelTask, handlerVars, pulsarVars
    <2>2. state' \in [Task -> DocState]
      BY <2>1, StateStays DEF TesTaskState
    <2> QED
      BY <2>1, <2>2, ApartFromCode DEF CodeInv
  <1>2. ASSUME NEW t \in Task, NEW w, NEW list, NEW reply, CreateTask(t, w, list, reply)
        PROVE  CodeInv'
    <2>1. /\ InsertTask(t, reply) /\ UNCHANGED <<rc, result>>
          /\ pc' = pc \/ pc' = [pc EXCEPT ![t] = "queued_task"]
      BY <1>2 DEF CreateTask, pulsarVars
    <2>2. DOMAIN pc' = Task /\ \A u \in Task : pc'[u] = pc[u] \/ pc'[u] \notin HasCode
      BY <1>0, <2>1 DEF CodeInv
    <2> QED
      BY <2>1, <2>2, StateStays, ApartFromCode
  <1>3. ASSUME NEW t \in Task, NEW code \in ReturnCode, JobFinishes(t, code),
               UNCHANGED <<handlerVars, dbVars>>
        PROVE  CodeInv'
    <2>1. /\ UNCHANGED <<pc, rc, state>> /\ result[t] = "none" /\ code \in JobResult
          /\ result' = [result EXCEPT ![t] = code]
      BY <1>3 DEF JobFinishes, handlerVars, dbVars, ReturnCode, JobResult
    <2>2. ASSUME NEW u \in Task PROVE Judged(u)'
      BY <2>1 DEF CodeInv, Judged
    <2> QED
      BY <2>1, <2>2 DEF CodeInv
  <1>4. CASE \E t \in Task : PulsarConsumes(t) \/ SideCancelled(t)
    <2>1. UNCHANGED <<pc, rc, result, state>>
      BY <1>4 DEF PulsarConsumes, SideCancelled, handlerVars, dbVars, pulsarVars
    <2> QED
      BY <2>1, ApartFromCode DEF CodeInv
  <1>5. ASSUME NEW t \in Task, ChainCancelled(t) PROVE CodeInv'
    <2>1. (Goto(t, "idle") \/ Goto(t, "shutdown_update")) /\ UNCHANGED <<rc, result, state>>
      BY <1>5 DEF ChainCancelled, HandlerCancelled, localVars, dbVars, pulsarVars
    <2>2. state' \in [Task -> DocState]
      BY <2>1 DEF CodeInv
    <2> QED
      BY <1>0, <2>1, <2>2, PassesCode
  <1>6. ASSUME NEW w, CrashBoth(w) PROVE CodeInv'
    <2>1. /\ pc' = [t \in Task |-> IF owner[t] = w THEN "idle" ELSE pc[t]]
          /\ UNCHANGED <<rc, result, state>>
      BY <1>6 DEF CrashBoth, Crash, localVars, dbVars, pulsarVars
    <2>2. DOMAIN pc' = Task /\ \A t \in Task : pc'[t] = pc[t] \/ pc'[t] \notin HasCode
      BY <1>0, <2>1
    <2> QED
      BY <2>1, <2>2, ApartFromCode DEF CodeInv
  <1> QED
    BY <1>1, <1>2, <1>3, <1>4, <1>5, <1>6 DEF EnvironmentStep

LEMMA CodeStepInv == CodeInv /\ [Next]_vars => CodeInv'
  <1> SUFFICES ASSUME CodeInv, [Next]_vars PROVE CodeInv'
    OBVIOUS
  <1>1. CASE EnvironmentStep
    BY <1>1, EnvironmentCode
  <1>2. CASE \E t \in Task : ChainStep(t) \/ SideStep(t)
    BY <1>2, TaskStepCode
  <1>3. CASE UNCHANGED vars
    <2>1. UNCHANGED <<pc, rc, result, state>>
      BY <1>3 DEF vars, handlerVars, dbVars, pulsarVars
    <2> QED
      BY <2>1, ApartFromCode DEF CodeInv
  <1> QED
    BY <1>1, <1>2, <1>3 DEF Next

-----------------------------------------------------------------------------
(***************************************************************************)
(* The contract.                                                           *)
(***************************************************************************)
\* What the contract does not see.
LEMMA ContractStutters ==
  ASSUME UNCHANGED <<state, visited, submits, result>>
  PROVE  UNCHANGED Contract!contractVars
  BY DEF Contract!contractVars

\* Updates of the repository that find their document are moves of the contract.
LEMMA UpdateMoves ==
  ASSUME ChainInv, NEW t \in Task, NEW old, NEW new, NEW reply,
         UpdateTaskState(t, old, new, reply), UNCHANGED <<submits, result>>
  PROVE  Contract!Move(t, old, new) \/ UNCHANGED Contract!contractVars
  <1>1. CASE Updates(t, old, reply)
    <2>1. /\ state[t] \in old /\ state' = [state EXCEPT ![t] = new]
          /\ visited' = [visited EXCEPT ![t] = visited[t] \cup {new}]
      BY <1>1 DEF UpdateTaskState, Updates, Matches
    <2>2. visited'[t] = visited[t] \cup {new} /\ \A u \in Task \ {t} : visited'[u] = visited[u]
      BY <2>1 DEF ChainInv, Domains
    <2> QED
      BY <2>1, <2>2 DEF Contract!Move
  <1>2. CASE ~Updates(t, old, reply)
    BY <1>2, ContractStutters DEF UpdateTaskState
  <1> QED
    BY <1>1, <1>2

\* SYSTEM_ERROR over anything else is GiveUp; over SYSTEM_ERROR, which the other
\* coroutine wrote, it is nothing.
LEMMA ErrorMoves ==
  ASSUME ChainInv, CodeInv, NEW t \in Task, NEW reply, UpdateErrorTask(t, "SYSTEM_ERROR", reply),
         UNCHANGED <<submits, result>>
  PROVE  Contract!GiveUp(t) \/ UNCHANGED Contract!contractVars
  <1>1. CASE ~Updates(t, TesTaskState, reply)
    BY <1>1, ContractStutters DEF UpdateErrorTask
  <1>2. CASE Updates(t, TesTaskState, reply)
    <2>1. /\ state[t] \in TesTaskState /\ state' = [state EXCEPT ![t] = "SYSTEM_ERROR"]
          /\ visited' = [visited EXCEPT ![t] = visited[t] \cup {"SYSTEM_ERROR"}]
      BY <1>2 DEF UpdateErrorTask, Updates, Matches
    <2>2. {u \in Task : "RUNNING" \in visited[u]}' = {u \in Task : "RUNNING" \in visited[u]}
      BY <2>1 DEF ChainInv, Domains
    <2>3. Contract!TesTaskState = TesTaskState
      BY DEF Contract!TesTaskState, TesTaskState
    <2>4. CASE state[t] = "SYSTEM_ERROR"
      <3>1. state' = state
        BY <2>1, <2>4 DEF CodeInv
      <3> QED
        BY <2>2, <3>1 DEF Contract!contractVars
    <2>5. CASE state[t] # "SYSTEM_ERROR"
      BY <2>1, <2>2, <2>3, <2>5 DEF Contract!GiveUp, Contract!Move
    <2> QED
      BY <2>4, <2>5
  <1> QED
    BY <1>1, <1>2

\* A call of the repository.
LEMMA DbStepRefines ==
  ASSUME ChainInv, CodeInv, NEW t \in Task, NEW reply, DbStep(t, reply)
  PROVE  [Contract!Next]_(Contract!contractVars)
  <1>0. UNCHANGED <<submits, result>>
    BY DbStepAdvances DEF Advances
  <1>1. ASSUME NEW old, NEW new, UpdateTaskState(t, old, new, reply),
               Contract!Move(t, old, new) => Contract!Next
        PROVE  [Contract!Next]_(Contract!contractVars)
    BY <1>0, <1>1, UpdateMoves
  <1>2. CASE HandleInitializingTask(t, reply)
    BY <1>1, <1>2 DEF HandleInitializingTask, Contract!Next, Contract!Initialize
  <1>3. CASE HandleRunTask(t, reply)
    BY <1>1, <1>3 DEF HandleRunTask, Contract!Next, Contract!Run
  <1>4. CASE SetExecutorError(t, reply)
    <2>1. pc[t] = "set_error" /\ result[t] = "nonzero"
      BY <1>4 DEF SetExecutorError, CodeInv, Judged, HasCode, JobResult
    <2> QED
      BY <1>1, <1>4, <2>1 DEF SetExecutorError, Contract!Next, Contract!Fail
  <1>5. CASE SetComplete(t, reply)
    <2>1. pc[t] = "set_complete" /\ result[t] = "zero"
      BY <1>5 DEF SetComplete, CodeInv, Judged, HasCode
    <2> QED
      BY <1>1, <1>5, <2>1 DEF SetComplete, Contract!Next, Contract!Complete
  <1>6. CASE HandleUpdate(t, reply)
    BY <1>0, <1>6, ErrorMoves DEF HandleUpdate, Contract!Next
  <1>7. CASE ShutdownUpdate(t, reply)
    <2>1. UNCHANGED <<state, visited>>
      BY <1>7 DEF ShutdownUpdate, UpdateTaskState, Updates, Matches
    <2> QED
      BY <1>0, <2>1, ContractStutters
  <1>8. CASE \/ EarlyCheck(t, reply) \/ LateCheck(t, reply) \/ ExceptCheck(t, reply)
             \/ ReadStartLog(t, reply) \/ ReadExecutorLog(t, reply)
             \/ WriteStartTime(t, FALSE, reply) \/ WriteExecutorLog(t, reply)
    <2>1. UNCHANGED <<state, visited>>
      BY <1>8 DEF EarlyCheck, LateCheck, CheckCanceled, ExceptCheck, ReadStartLog,
                  ReadExecutorLog, ReadLogs, WriteStartTime, WriteExecutorLog, UpdateTaskLogs,
                  dbVars
    <2> QED
      BY <1>0, <2>1, ContractStutters
  <1> QED
    BY <1>2, <1>3, <1>4, <1>5, <1>6, <1>7, <1>8 DEF DbStep

\* Both coroutines of a task.
LEMMA TaskStepRefines ==
  ASSUME ChainInv, CodeInv, NEW t \in Task, ChainStep(t) \/ SideStep(t)
  PROVE  [Contract!Next]_(Contract!contractVars)
  <1>1. ASSUME NEW c, NEW type, NEW reply, SendMessage(t, c, type, reply), type # "submit"
        PROVE  UNCHANGED <<submits, result>>
    <2>1. submits' = [submits EXCEPT ![t] = submits[t]] /\ UNCHANGED result
      BY <1>1 DEF SendMessage
    <2>2. submits \in [Task -> Nat]
      BY DEF ChainInv, Domains
    <2> QED
      BY <2>1, <2>2
  <1>2. CASE \E reply \in DbReply : DbStep(t, reply)
    BY <1>2, DbStepRefines
  <1>3. ASSUME NEW reply, RunJob(t, reply) PROVE Contract!Submit(t)
    <2>1. pc[t] = "run_job" /\ "run_job" \in BeforeSubmit \cap TryBody
      BY <1>3 DEF RunJob, BeforeSubmit, TryBody
    <2>2. submits[t] = 0 /\ "RUNNING" \in visited[t]
      BY <2>1 DEF ChainInv, OrderInv
    <2>3. /\ submits' = [submits EXCEPT ![t] = submits[t] + 1]
          /\ UNCHANGED <<state, visited, result>>
      BY <1>3 DEF RunJob, SendMessage, dbVars
    <2>4. submits' = [submits EXCEPT ![t] = 1]
      BY <2>2, <2>3
    <2> QED
      BY <2>2, <2>3, <2>4 DEF Contract!Submit
  <1>4. CASE \E reply : HandleQueuedTaskAmqp(t, reply) \/ EraseJob(t, reply) \/ SideErase(t, reply)
    BY <1>1, <1>4, ContractStutters DEF HandleQueuedTaskAmqp, EraseJob, SideErase, dbVars
  <1>5. CASE \E reply : SideUpdate(t, reply)
    <2>1. PICK reply : UpdateErrorTask(t, "SYSTEM_ERROR", reply) /\ UNCHANGED <<submits, result>>
      BY <1>5 DEF SideUpdate, pulsarVars
    <2> QED
      BY <2>1, ErrorMoves DEF Contract!Next
  <1>6. CASE \/ \E c : ConnectStep(t, c)
             \/ HandleQueuedTask(t) \/ DispatchRunTask(t)
             \/ \E e : SetupInput(t, FALSE, e) \/ PollStatus(t, e)
    BY <1>6, ContractStutters
       DEF ConnectStep, HandleQueuedTask, DispatchRunTask, SetupInput, PollStatus, dbVars,
           pulsarVars
  <1> QED
    BY <1>2, <1>3, <1>4, <1>5, <1>6 DEF ChainStep, SideStep, MessageStep, Contract!Next

\* What clients and Pulsar do; nothing that stops coroutines is in the contract.
LEMMA EnvironmentRefines ==
  ASSUME ChainInv, CodeInv, EnvironmentStep
  PROVE  [Contract!Next]_(Contract!contractVars)
  <1>1. ASSUME NEW t \in Task, NEW reply, CancelTask(t, reply)
        PROVE  [Contract!Next]_(Contract!contractVars)
    <2>1. Contract!Cancelable = Cancelable
      BY DEF Contract!Cancelable, Cancelable
    <2>2. UpdateTaskState(t, Cancelable, "CANCELED", reply) /\ UNCHANGED <<submits, result>>
      BY <1>1 DEF CancelTask, pulsarVars
    <2> QED
      BY <2>1, <2>2, UpdateMoves DEF Contract!Cancel, Contract!Next
  <1>2. ASSUME NEW t \in Task, NEW w, NEW list, NEW reply, CreateTask(t, w, list, reply)
        PROVE  [Contract!Next]_(Contract!contractVars)
    <2>1. InsertTask(t, reply) /\ UNCHANGED <<submits, result>>
      BY <1>2 DEF CreateTask, pulsarVars
    <2>2. CASE reply = "unsent"
      BY <2>1, <2>2, ContractStutters DEF InsertTask
    <2>3. CASE reply # "unsent"
      <3>1. /\ state[t] = "ABSENT" /\ state' = [state EXCEPT ![t] = "QUEUED"]
            /\ visited' = [visited EXCEPT ![t] = {"QUEUED"}]
            /\ visited[t] = {}
        BY <2>1, <2>3 DEF InsertTask, ChainInv, OrderInv
      <3>2. {u \in Task : "RUNNING" \in visited[u]}' = {u \in Task : "RUNNING" \in visited[u]}
        BY <3>1 DEF ChainInv, Domains
      <3> QED
        BY <2>1, <3>1, <3>2 DEF Contract!Move, Contract!Create, Contract!Next
    <2> QED
      BY <2>2, <2>3
  <1>3. ASSUME NEW t \in Task, NEW code \in ReturnCode, JobFinishes(t, code),
               UNCHANGED <<handlerVars, dbVars>>
        PROVE  Contract!JobEnds(t)
    <2>1. /\ result[t] = "none" /\ result' = [result EXCEPT ![t] = code]
          /\ UNCHANGED <<state, visited, submits>>
          /\ jobs[t] = "running" \/ submits[t] > 0
      BY <1>3 DEF JobFinishes, dbVars
    <2>2. submits[t] = 1
      BY <2>1 DEF ChainInv, OrderInv
    <2> QED
      BY <2>1, <2>2 DEF Contract!JobEnds, ReturnCode
  <1>4. CASE \/ \E t \in Task : PulsarConsumes(t) \/ ChainCancelled(t) \/ SideCancelled(t)
             \/ \E w \in Worker : CrashBoth(w)
    BY <1>4, ContractStutters
       DEF PulsarConsumes, ChainCancelled, HandlerCancelled, SideCancelled, CrashBoth, Crash,
           dbVars, pulsarVars
  <1> QED
    BY <1>1, <1>2, <1>3, <1>4 DEF EnvironmentStep, Contract!Next

-----------------------------------------------------------------------------
(***************************************************************************)
(* The theorems.                                                           *)
(***************************************************************************)
\* Over AMQP a task opens two connections at most, for it awaits connect_robust
\* only in coroutines that found none, however messages and calls fail.
THEOREM ConnectionsBoundedHolds == Spec => []ConnectionsBounded
  <1>1. LinkInv => ConnectionsBounded
    BY DEF LinkInv
  <1> QED
    BY InitLink, LinkStep, <1>1, PTL DEF Spec

\* Over AMQP a command is submitted once at most, and only for a task that became
\* RUNNING, although handle_run_task does not learn whether a message was sent and
\* the error handler of handle_queued_task_amqp works on the task beside it.
THEOREM SubmittedOnlyWhenRunHolds == Spec => []SubmittedOnlyWhenRun
  <1>1. ChainInv => SubmittedOnlyWhenRun
    <2>1. ASSUME NEW t \in Task, OrderInv(t)
          PROVE  /\ "RUNNING" \notin visited[t] => submits[t] = 0 /\ result[t] = "none"
                 /\ submits[t] <= 1
      <3>1. submits[t] <= 1
        BY <2>1 DEF OrderInv
      <3>2. "RUNNING" \notin visited[t] => submits[t] = 0 /\ result[t] = "none"
        BY <2>1, Zenon DEF OrderInv
      <3> QED
        BY <3>1, <3>2
    <2> QED
      BY <2>1 DEF ChainInv, SubmittedOnlyWhenRun
  <1> QED
    BY InitChain, ChainStepInv, <1>1, PTL DEF Spec

\* Over AMQP every SYSTEM_ERROR but that of a lost connection was written after a
\* cancel message for the job was handed to _send_message, whichever of the two
\* coroutines wrote it and whatever became of the other one.
THEOREM CanceledBeforeReportHolds == Spec => []CanceledBeforeReport
  <1>1. Init => ReportInv
    BY DEF Init, InitRepository, InitPulsar, InitHandlers, ReportInv, ReportDomains, Reported
  <1>2. ReportInv => CanceledBeforeReport
    BY DEF ReportInv, Reported, CanceledBeforeReport
  <1> QED
    BY <1>1, <1>2, ReportStepInv, PTL DEF Spec

\* Over AMQP documents and submissions behave as the client was promised, with
\* two coroutines on a task and whatever fails: AmqpLifecycle implements
\* TaskContract.
THEOREM AmqpRefinesContract == Spec => ImplementsContract
  <1>1. Init => CodeInv
    BY DEF Init, InitRepository, InitPulsar, InitHandlers, CodeInv, Judged, HasCode, DocState,
           JobResult
  <1>2. Init => Contract!Init
    BY DEF Init, InitRepository, InitPulsar, Contract!Init
  <1>3. ChainInv /\ CodeInv /\ [Next]_vars => [Contract!Next]_(Contract!contractVars)
    <2>1. UNCHANGED vars => UNCHANGED Contract!contractVars
      BY ContractStutters DEF vars, dbVars, pulsarVars
    <2> QED
      BY <2>1, EnvironmentRefines, TaskStepRefines DEF Next
  <1> QED
    BY <1>1, <1>2, <1>3, InitChain, ChainStepInv, CodeStepInv, PTL
       DEF Spec, ImplementsContract, Contract!Spec

=============================================================================
