--------------------------- MODULE AmqpLifecycle ---------------------------
(***************************************************************************)
(* The life of TES tasks when pulsar.amqp_url is set.  The handlers are    *)
(* those of EventHandlers, but jobs are set up, submitted and canceled by  *)
(* messages, whose failures PulsarAmqpOperations turns into return values  *)
(* nobody looks at, and handle_queued_task_amqp awaits the None that       *)
(* dispatch_event returns: the TypeError sends it into its error handler,  *)
(* which runs beside the chain of events it has just started.              *)
(***************************************************************************)
EXTENDS TaskProperties, FiniteSets

VARIABLES
  side,        \* the error handler of handle_queued_task_amqp
  queue,       \* the messages for a task that Pulsar has not consumed yet
  connection,  \* whether self.connection of the task's operations is set
  channel,     \* whether self.channel is
  opened,      \* history: connections opened for the task, which nobody closes
  call         \* where in _send_message each coroutine of the task is

linkVars == <<connection, channel, opened, call>>

amqpVars == <<side, queue, linkVars>>

vars == <<handlerVars, dbVars, pulsarVars, amqpVars>>

SideLabel == {"idle", "erase", "update"}

MessageType == {"setup", "submit", "cancel"}

\* The chain of events and the error handler share one PulsarAmqpOperations.
Coroutine == {"chain", "side"}

\* The awaits of _send_message; "ready" is before the first of them.
Phase == {"ready", "connecting", "opening", "publishing"}

Init ==
  /\ InitRepository /\ InitPulsar /\ InitHandlers
  /\ side = [t \in Task |-> "idle"]
  /\ queue = [t \in Task |-> <<>>]
  /\ connection = [t \in Task |-> FALSE]
  /\ channel = [t \in Task |-> FALSE]
  /\ opened = [t \in Task |-> 0]
  /\ call = [t \in Task |-> [c \in Coroutine |-> "ready"]]

-----------------------------------------------------------------------------
(***************************************************************************)
(* PulsarAmqpOperations.                                                   *)
(***************************************************************************)
Sending(t, c) ==
  CASE c = "chain" -> pc[t] \in {"setup_job", "run_job", "error_cancel", "done_cancel", "handle_cancel"}
    [] c = "side"  -> side[t] = "erase"

SetCall(t, c, phase) == call' = [call EXCEPT ![t][c] = phase]

\* Mutant: every message gets a connection of its own.
NeedsConnectionAlways(t) == TRUE

\* self.connection is None or self.connection.is_closed.  Nobody closes it, and
\* while a RobustConnection reconnects by itself it is not closed.
NeedsConnection(t) == ~connection[t]

\* _connect awaits connect_robust ...
Connect(t, c) ==
  /\ Sending(t, c) /\ call[t][c] = "ready" /\ NeedsConnection(t)
  /\ SetCall(t, c, "connecting")
  /\ UNCHANGED <<connection, channel, opened>>

\* ... sets self.connection and awaits its channel() ...
Connected(t, c) ==
  /\ call[t][c] = "connecting"
  /\ SetCall(t, c, "opening")
  /\ connection' = [connection EXCEPT ![t] = TRUE]
  /\ opened' = [opened EXCEPT ![t] = @ + 1]
  /\ UNCHANGED channel

\* ... and sets self.channel: the message is published next.
ChannelOpened(t, c) ==
  /\ call[t][c] = "opening"
  /\ SetCall(t, c, "publishing")
  /\ channel' = [channel EXCEPT ![t] = TRUE]
  /\ UNCHANGED <<connection, opened>>

\* Whether the coroutine is at one of the three awaits that wait for the broker.
\* None has a timeout, and a robust channel waits until its connection is back:
\* while the broker is down they may last for ever.  (Without a channel there is
\* nothing to await: the AttributeError comes at once.)
AwaitsBroker(t, c) == Sending(t, c) /\ (call[t][c] # "ready" \/ channel[t])

(***************************************************************************)
(* How _send_message may end now.  connect_robust, channel() or publish    *)
(* may raise, publish before or after the broker took the message, and     *)
(* self.channel is still None while the other coroutine awaits channel(),  *)
(* or for good after that raised: an AttributeError, with nothing sent.    *)
(* Whatever it is, the caller goes on as if nothing had happened.          *)
(***************************************************************************)
PublishReply == {"ok"} \cup IF "pulsar" \in Faults THEN {"unsent"} ELSE {}

\* Mutant: a coroutine that finds a connection and no channel waits for the channel.
SendReplyPatient(t, c) ==
  IF call[t][c] \in {"connecting", "opening"} THEN PublishReply \ {"ok"}
  ELSE IF channel[t] THEN PublishReply
  ELSE {}

SendReply(t, c) ==
  IF call[t][c] \in {"connecting", "opening"} THEN PublishReply \ {"ok"}
  ELSE IF call[t][c] = "ready" /\ NeedsConnection(t) THEN {}
  ELSE IF channel[t] THEN PublishReply
  ELSE {"unsent"}

SendMessage(t, c, type, reply) ==
  /\ queue' = IF reply = "ok" THEN [queue EXCEPT ![t] = Append(@, type)] ELSE queue
  /\ sent' = [sent EXCEPT ![t] = @ \cup {type}]
  /\ submits' = [submits EXCEPT ![t] = IF type = "submit" THEN @ + 1 ELSE @]
  /\ SetCall(t, c, "ready")
  /\ UNCHANGED <<jobs, result, refused, connection, channel, opened>>

\* Pulsar takes the messages about one job in their order.
PulsarConsumes(t) ==
  /\ queue[t] # <<>>
  /\ jobs' = [jobs EXCEPT ![t] = After(Head(queue[t]), @)]
  /\ queue' = [queue EXCEPT ![t] = Tail(@)]
  /\ UNCHANGED <<result, sent, refused, submits, side, linkVars, handlerVars, dbVars>>

\* This _pulsar_request catches ClientError only: a timeout comes out as it is.
AmqpRequestErrors(reply) ==
  RequestErrors("JSON", reply) \cup IF reply \in {"lost", "unreachable"} THEN {"Unknown"} ELSE {}

-----------------------------------------------------------------------------
(***************************************************************************)
(* The awaits that send messages.                                          *)
(***************************************************************************)
HandleQueuedTaskAmqp(t, reply) ==
  /\ pc[t] = "setup_job"
  /\ SendMessage(t, "chain", "setup", reply)
  /\ Goto(t, "initialize_task")
  /\ side' = [side EXCEPT ![t] = "erase"]
  /\ UNCHANGED <<localVars, dbVars>>

\* Mutant: a failed publish is tried again, although it may have succeeded.
RunJobRetried(t, reply) ==
  /\ pc[t] = "run_job"
  /\ SendMessage(t, "chain", "submit", reply)
  /\ Goto(t, IF reply = "ok" THEN "poll" ELSE "run_job")
  /\ StartPolling(t)
  /\ UNCHANGED <<side, dbVars>>

\* run_job, whose result is not looked at.
RunJob(t, reply) ==
  /\ pc[t] = "run_job"
  /\ SendMessage(t, "chain", "submit", reply)
  /\ Goto(t, "poll")
  /\ StartPolling(t)
  /\ UNCHANGED <<side, dbVars>>

\* erase_job is a single message, and never fails for its callers.
EraseJob(t, reply) ==
  /\ \/ pc[t] \in {"error_cancel", "done_cancel"} /\ Goto(t, "idle")
     \/ pc[t] = "handle_cancel" /\ Goto(t, AfterErase(err[t]))
  /\ SendMessage(t, "chain", "cancel", reply)
  /\ UNCHANGED <<side, localVars, dbVars>>

\* pulsar_event_handle_error for the TypeError of handle_queued_task_amqp.
SideErase(t, reply) ==
  /\ side[t] = "erase"
  /\ SendMessage(t, "side", "cancel", reply)
  /\ side' = [side EXCEPT ![t] = "update"]
  /\ UNCHANGED <<handlerVars, dbVars>>

SideUpdate(t, reply) ==
  /\ side[t] = "update"
  /\ UpdateErrorTask(t, "SYSTEM_ERROR", reply)
  /\ side' = [side EXCEPT ![t] = "idle"]
  /\ UNCHANGED <<queue, linkVars, handlerVars, pulsarVars>>

-----------------------------------------------------------------------------
DbStep(t, reply) ==
  /\ \/ HandleInitializingTask(t, reply)
     \/ HandleRunTask(t, reply)
     \/ EarlyCheck(t, reply)
     \/ ReadStartLog(t, reply)
     \/ WriteStartTime(t, FALSE, reply)
     \/ ReadExecutorLog(t, reply)
     \/ WriteExecutorLog(t, reply)
     \/ LateCheck(t, reply)
     \/ SetExecutorError(t, reply)
     \/ SetComplete(t, reply)
     \/ ExceptCheck(t, reply)
     \/ HandleUpdate(t, reply)
     \/ ShutdownUpdate(t, reply)
  /\ UNCHANGED amqpVars

MessageStep(t, reply) ==
  HandleQueuedTaskAmqp(t, reply) \/ RunJob(t, reply) \/ EraseJob(t, reply)

ConnectStep(t, c) ==
  /\ Connect(t, c) \/ Connected(t, c) \/ ChannelOpened(t, c)
  /\ UNCHANGED <<side, queue, handlerVars, dbVars, pulsarVars>>

\* The chain of events of a task ...
ChainStep(t) ==
  \/ (HandleQueuedTask(t) \/ DispatchRunTask(t)) /\ UNCHANGED amqpVars
  \/ \E reply \in DbReply : DbStep(t, reply)
  \/ ConnectStep(t, "chain")
  \/ \E reply \in SendReply(t, "chain") : MessageStep(t, reply)
  \/ \E reply \in PulsarReply, e \in Exception \cup {"none"} :
       /\ e \in AmqpRequestErrors(reply)
       /\ SetupInput(t, FALSE, e) \/ PollStatus(t, e)
       /\ UNCHANGED amqpVars

\* ... and what runs beside it.
SideStep(t) ==
  \/ ConnectStep(t, "side")
  \/ \E reply \in SendReply(t, "side") : SideErase(t, reply)
  \/ \E reply \in DbReply : SideUpdate(t, reply)

SideCancelled(t) ==
  /\ "shutdown" \in Faults
  /\ side[t] # "idle"
  /\ side' = [side EXCEPT ![t] = "idle"]
  /\ SetCall(t, "side", "ready")
  /\ UNCHANGED <<queue, connection, channel, opened, handlerVars, dbVars, pulsarVars>>

ChainCancelled(t) ==
  /\ HandlerCancelled(t)
  /\ SetCall(t, "chain", "ready")
  /\ UNCHANGED <<side, queue, connection, channel, opened>>

CrashBoth(w) ==
  /\ Crash(w)
  /\ side' = [t \in Task |-> IF owner[t] = w THEN "idle" ELSE side[t]]
  /\ call' = [t \in Task |->
                IF owner[t] = w THEN [c \in Coroutine |-> "ready"] ELSE call[t]]
  /\ UNCHANGED <<queue, connection, channel, opened>>

EnvironmentStep ==
  \/ /\ \/ \E t \in Task, reply \in DbReply : CancelTask(t, reply)
        \/ \E t \in Task, w \in Worker, list \in InputLists, reply \in DbReply :
             CreateTask(t, w, list, reply)
        \/ \E t \in Task, code \in ReturnCode :
             JobFinishes(t, code) /\ UNCHANGED <<handlerVars, dbVars>>
     /\ UNCHANGED amqpVars
  \/ \E t \in Task : PulsarConsumes(t) \/ ChainCancelled(t) \/ SideCancelled(t)
  \/ \E w \in Worker : CrashBoth(w)

Next == EnvironmentStep \/ \E t \in Task : ChainStep(t) \/ SideStep(t)

\* Both coroutines of a task are run by its event loop, and every call to MongoDB
\* and every HTTP request ends, with a timeout if need be.  What is awaited of the
\* broker need not come, and neither must Pulsar take a message.
Fairness ==
  \A t \in Task :
    /\ WF_vars(~AwaitsBroker(t, "chain") /\ ChainStep(t))
    /\ WF_vars(~AwaitsBroker(t, "side") /\ SideStep(t))

Spec == Init /\ [][Next]_vars /\ Fairness

-----------------------------------------------------------------------------
(***************************************************************************)
(* Properties.                                                             *)
(***************************************************************************)
\* The values every variable takes.
TypeOK ==
  /\ RepositoryTypeOK /\ PulsarTypeOK /\ HandlersTypeOK
  /\ side \in [Task -> SideLabel]
  /\ queue \in [Task -> Seq(MessageType)]
  /\ connection \in [Task -> BOOLEAN] /\ channel \in [Task -> BOOLEAN]
  /\ opened \in [Task -> Nat]
  /\ call \in [Task -> [Coroutine -> Phase]]

\* Every failure but a lost connection is reported only after a cancel message
\* for the job was handed to _send_message, by whichever of the two coroutines
\* reports first.
CanceledBeforeReport ==
  \A t \in Task : state[t] = "SYSTEM_ERROR" /\ err[t] # "Connection" => "cancel" \in sent[t]

\* Connections are never closed, so there must not be many: a task opens a second
\* one only when both of its coroutines found none, and then never another,
\* however many messages it sends and however they fail.
ConnectionsBounded ==
  \A t \in Task :
    opened[t] + Cardinality({c \in Coroutine : call[t][c] = "connecting"}) <= Cardinality(Coroutine)

Ended(t, c) ==
  CASE c = "chain" -> pc[t] = "idle"
    [] c = "side"  -> side[t] = "idle"

\* Whatever fails, each coroutine of a task comes to its end or waits for the
\* broker for ever: nothing else holds it up, not the other coroutine that waits,
\* nor an operations object with a connection and no channel, for which every
\* message is lost.
CoroutinesEnd ==
  \A t \in Task, c \in Coroutine : []<>Ended(t, c) \/ <>[]AwaitsBroker(t, c)

=============================================================================
