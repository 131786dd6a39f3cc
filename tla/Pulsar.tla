------------------------------- MODULE Pulsar -------------------------------
(***************************************************************************)
(* The Pulsar server as the operations in pulsar_operations.py meet it:    *)
(* the jobs it holds, one per task and named after it, what it does with a *)
(* request, and how _pulsar_request reports the answer.  The server itself *)
(* is external: its part is what those operations rely on and no more.     *)
(***************************************************************************)
EXTENDS TesTask, Naturals

VARIABLES
  jobs,     \* where the job of a task is in Pulsar
  result,   \* the return code of the job's process, once it ended
  sent,     \* history: kinds of request issued for the task
  refused,  \* history: kinds of request the server refused for it
  submits   \* history: how many times its command was submitted

pulsarVars == <<jobs, result, sent, refused, submits>>

JobState == {"none", "staged", "running", "canceled", "deleted"}

JobResult == {"none", "zero", "nonzero"}

RequestKind == {"setup", "submit", "cancel", "delete"}

(***************************************************************************)
(* How a request can go.  A refused request answers a page no code looks   *)
(* at the status of; a garbled answer is not the JSON that was expected; a *)
(* lost one ends in a ClientError or a timeout after the request took      *)
(* effect, an unreachable server in the same error before it did; "failed" *)
(* is any exception that is not the client library's.                      *)
(***************************************************************************)
PulsarReply ==
  {"ok"} \cup IF "pulsar" \in Faults
                THEN {"refused", "garbled", "lost", "unreachable", "failed"}
                ELSE {}

TakesEffect(reply) == reply \in {"ok", "garbled", "lost"}

\* What the server does with a request that reaches it.
After(kind, job) ==
  CASE kind = "setup"  -> IF job = "none" THEN "staged" ELSE job
    [] kind = "submit" -> IF job = "staged" THEN "running" ELSE job
    [] kind = "cancel" -> IF job \in {"staged", "running"} THEN "canceled" ELSE job
    [] kind = "delete" -> IF job = "none" THEN "none" ELSE "deleted"

(***************************************************************************)
(* The exceptions _pulsar_request may end in, "none" for a returned value. *)
(* The HTTP status is never examined, so a request whose body is only read *)
(* (BYTES) succeeds even when it is refused; the JSON ones fail in         *)
(* response.json, by content type (a ClientError) or by content.           *)
(***************************************************************************)
RequestErrors(type, reply) ==
  CASE reply = "ok"                      -> {"none"}
    [] reply \in {"lost", "unreachable"} -> {"Connection"}
    [] reply = "failed"                  -> {"Unknown"}
    [] OTHER -> IF type = "BYTES" THEN {"none"} ELSE {"Connection", "Unknown"}

\* _reraise_custom: everything but a connection error becomes a PulsarOperationsError.
ReraiseCustom(e) == IF e = "Unknown" THEN "Operations" ELSE e

\* The history of requests grows and the server acts on what reaches it.
Request(t, kind, reply) ==
  /\ sent' = [sent EXCEPT ![t] = @ \cup {kind}]
  /\ refused' = IF reply = "refused" THEN [refused EXCEPT ![t] = @ \cup {kind}] ELSE refused
  /\ submits' = [submits EXCEPT ![t] = IF kind = "submit" THEN @ + 1 ELSE @]
  /\ jobs' = IF TakesEffect(reply) THEN [jobs EXCEPT ![t] = After(kind, @)] ELSE jobs
  /\ UNCHANGED result

(***************************************************************************)
(* The process of a submitted job ends with some return code; the process  *)
(* of a job that was canceled, if Pulsar reports one, with a nonzero one.  *)
(***************************************************************************)
JobFinishes(t, code) ==
  /\ result[t] = "none"
  /\ \/ jobs[t] = "running"
     \/ jobs[t] = "canceled" /\ submits[t] > 0 /\ code = "nonzero"
  /\ result' = [result EXCEPT ![t] = code]
  /\ UNCHANGED <<jobs, sent, refused, submits>>

InitPulsar ==
  /\ jobs = [t \in Task |-> "none"]
  /\ result = [t \in Task |-> "none"]
  /\ sent = [t \in Task |-> {}]
  /\ refused = [t \in Task |-> {}]
  /\ submits = [t \in Task |-> 0]

PulsarTypeOK ==
  /\ jobs \in [Task -> JobState]
  /\ result \in [Task -> JobResult]
  /\ sent \in [Task -> SUBSET RequestKind]
  /\ refused \in [Task -> SUBSET RequestKind]
  /\ submits \in [Task -> Nat]

=============================================================================
