---------------------------- MODULE TaskContract ----------------------------
(***************************************************************************)
(* What the service promises the client of a task, whichever interface to  *)
(* Pulsar it uses and whatever fails: the document goes through its states *)
(* in order, the command is submitted at most once and only after the task *)
(* was RUNNING, an outcome is the outcome of that very job, a canceled or  *)
(* finished task never runs again, and only SYSTEM_ERROR may replace an    *)
(* outcome.  Handlers, awaits, messages and failures are not visible here. *)
(***************************************************************************)
EXTENDS TesTask, Naturals

VARIABLES
  state,      \* the state the client reads
  ran,        \* the tasks that ever were RUNNING
  submits,    \* how many times its command was submitted
  result      \* how its job ended

contractVars == <<state, ran, submits, result>>

Init ==
  /\ state = [t \in Task |-> "ABSENT"]
  /\ ran = {}
  /\ submits = [t \in Task |-> 0]
  /\ result = [t \in Task |-> "none"]

\* The document moves from one of the states in from to the state to.
Move(t, from, to) ==
  /\ state[t] \in from
  /\ state' = [state EXCEPT ![t] = to]
  /\ ran' = IF to = "RUNNING" THEN ran \cup {t} ELSE ran
  /\ UNCHANGED <<submits, result>>

Create(t) == Move(t, {"ABSENT"}, "QUEUED")

Initialize(t) == Move(t, {"QUEUED"}, "INITIALIZING")

Run(t) == Move(t, {"INITIALIZING"}, "RUNNING")

Submit(t) ==
  /\ t \in ran /\ submits[t] = 0
  /\ submits' = [submits EXCEPT ![t] = 1]
  /\ UNCHANGED <<state, ran, result>>

JobEnds(t) ==
  /\ submits[t] = 1 /\ result[t] = "none"
  /\ \E code \in {"zero", "nonzero"} : result' = [result EXCEPT ![t] = code]
  /\ UNCHANGED <<state, ran, submits>>

Complete(t) == result[t] = "zero" /\ Move(t, {"RUNNING"}, "COMPLETE")

Fail(t) == result[t] = "nonzero" /\ Move(t, {"RUNNING"}, "EXECUTOR_ERROR")

Cancel(t) == Move(t, Cancelable, "CANCELED")

GiveUp(t) == Move(t, TesTaskState \ {"SYSTEM_ERROR"}, "SYSTEM_ERROR")

Next ==
  \E t \in Task :
    \/ Create(t) \/ Initialize(t) \/ Run(t) \/ Submit(t) \/ JobEnds(t)
    \/ Complete(t) \/ Fail(t) \/ Cancel(t) \/ GiveUp(t)

Spec == Init /\ [][Next]_contractVars

=============================================================================
