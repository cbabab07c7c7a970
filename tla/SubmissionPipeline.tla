-------------------------- MODULE SubmissionPipeline --------------------------
(***************************************************************************)
(* The way of a submission from the API to its verdict.  Two API servers   *)
(* (api_server_submission in Rust, apps/api in TypeScript) insert a row    *)
(* and then publish a message; submission_processor consumes the messages  *)
(* one at a time, has the judge run the task, updates the row and only     *)
(* then acknowledges.  Row and message live in two stores and nothing      *)
(* spans both, so every crash, refused publish, broken connection and      *)
(* failed call between two steps is a step of this model.                  *)
(*                                                                         *)
(* The two servers disagree about the submissions table.  The one          *)
(* migration of the repository creates the TypeScript table                *)
(* (submission_status, an enum language, a text user_id); the Rust entity, *)
(* which the processor writes through too, has other columns.  Which table *)
(* the database has is part of the initial state, with a table that both   *)
(* can write beside the two, so that one run says what holds of the code   *)
(* as it is and what would hold once the columns agree.                    *)
(*                                                                         *)
(* External parts, from how the code uses them: the broker (durable queue, *)
(* transient messages, no publisher confirms, manual acks, no prefetch     *)
(* limit on the consuming channel) and the judge, which answers a task     *)
(* with one of Verdicts or with an error.                                  *)
(***************************************************************************)
EXTENDS Naturals, Sequences

CONSTANTS
  Submissions,  \* submissions that may be posted
  Verdicts,     \* verdicts the judge may give
  NoVerdict,    \* the row's result is NULL
  Nobody,       \* no submission in the processor's hands
  MaxFaults     \* bound: crashes, broken connections, failed calls

ASSUME PipelineAssumption ==
  /\ NoVerdict \notin Verdicts
  /\ Nobody \notin Submissions
  /\ MaxFaults \in Nat

VARIABLES
  (* API servers *)
  via,       \* which server took the submission: "none", "rust", "ts"
  handler,   \* how far its handler is
  channel,   \* each server's channel to the broker: "open" or "broken"
  (* submissions table *)
  table,     \* whose columns it has: "rust", "ts" or "both"
  row,       \* "none", "pending", "completed"
  verdict,   \* the row's result
  (* broker *)
  msg,       \* where the submission's message is
  (* submission_processor *)
  consumer,  \* "down", "open", or "broken" when its channel is lost
  inbox,     \* deliveries buffered in the consumer stream
  step,      \* what process_message is doing
  current,   \* the submission it is doing it for
  outcome,   \* the verdict it holds
  faults

apiVars    == <<via, handler, channel>>
rowVars    == <<table, row, verdict>>
workVars   == <<step, current, outcome>>
vars == <<apiVars, rowVars, msg, consumer, inbox, workVars, faults>>

Servers == {"rust", "ts"}

(* The tables that a server's entity or schema can insert into.            *)
Writes(server) == {server, "both"}

Init ==
  /\ table \in {"rust", "ts", "both"}
  /\ via = [s \in Submissions |-> "none"]
  /\ handler = [s \in Submissions |-> "new"]
  /\ channel = [v \in Servers |-> "open"]
  /\ row = [s \in Submissions |-> "none"]
  /\ verdict = [s \in Submissions |-> NoVerdict]
  /\ msg = [s \in Submissions |-> "none"]
  /\ consumer = "open"
  /\ inbox = <<>>
  /\ step = "idle"
  /\ current = Nobody
  /\ outcome = NoVerdict
  /\ faults = 0

Fault == faults < MaxFaults /\ faults' = faults + 1

-----------------------------------------------------------------------------
(* The API servers.  Each inserts the row with a function of its own ...   *)

InsertRow(s, server) ==
  /\ handler[s] = "new"
  /\ table \in Writes(server)
  /\ via' = [via EXCEPT ![s] = server]
  /\ row' = [row EXCEPT ![s] = "pending"]
  /\ handler' = [handler EXCEPT ![s] = "stored"]
  /\ UNCHANGED <<table, channel, verdict, msg, consumer, inbox, workVars, faults>>

CreatePending(s) == InsertRow(s, "rust")

SubmitSolution(s) == InsertRow(s, "ts")

(* ... (if a column is missing the database refuses, there is no row and   *)
(* the answer is an error) ...                                             *)
InsertFailed(s, server) ==
  /\ handler[s] = "new"
  /\ table \notin Writes(server)
  /\ via' = [via EXCEPT ![s] = server]
  /\ handler' = [handler EXCEPT ![s] = "rejected"]
  /\ UNCHANGED <<channel, rowVars, msg, consumer, inbox, workVars, faults>>

(* ... and the handler then publishes and answers with the id.  Without    *)
(* publisher confirms a message written to a connection that is about to   *)
(* break is lost although the client gets its id.                          *)
Publish(s) ==
  /\ handler[s] = "stored"
  /\ channel[via[s]] = "open"
  /\ handler' = [handler EXCEPT ![s] = "accepted"]
  /\ \/ msg' = [msg EXCEPT ![s] = "ready"] /\ UNCHANGED faults
     \/ msg' = [msg EXCEPT ![s] = "lost"] /\ Fault
  /\ UNCHANGED <<via, channel, rowVars, consumer, inbox, workVars>>

PublishRefusedLate(s) ==              \* slip: the message is sent, its answer is an error
  /\ handler[s] = "stored"
  /\ handler' = [handler EXCEPT ![s] = "failed"]
  /\ msg' = [msg EXCEPT ![s] = "ready"]
  /\ UNCHANGED <<via, channel, rowVars, consumer, inbox, workVars, faults>>

(* A channel that is known to be broken refuses the publish: the client    *)
(* gets an error, the row stays.                                           *)
PublishRefused(s) ==
  /\ handler[s] = "stored"
  /\ channel[via[s]] = "broken"
  /\ handler' = [handler EXCEPT ![s] = "failed"]
  /\ UNCHANGED <<via, channel, rowVars, msg, consumer, inbox, workVars, faults>>

(* The server stops between the two and is started again.                  *)
ApiRestart(v) ==
  /\ Fault
  /\ channel' = [channel EXCEPT ![v] = "open"]
  /\ handler' = [s \in Submissions |->
                   IF via[s] = v /\ handler[s] = "stored" THEN "failed" ELSE handler[s]]
  /\ UNCHANGED <<via, rowVars, msg, consumer, inbox, workVars>>

-----------------------------------------------------------------------------
(* The broker.                                                             *)

(* init sets its prefetch limit on a channel of its own; on the one that   *)
(* consumes there is none, so every ready message is pushed to it.         *)
Deliver(s) ==
  /\ consumer = "open"
  /\ msg[s] = "ready"
  /\ msg' = [msg EXCEPT ![s] = "unacked"]
  /\ inbox' = Append(inbox, s)
  /\ UNCHANGED <<apiVars, rowVars, consumer, workVars, faults>>

(* What a channel that goes away leaves unacknowledged is ready again.     *)
GiveBack == msg' = [s \in Submissions |-> IF msg[s] = "unacked" THEN "ready" ELSE msg[s]]

(* The consumer's connection breaks, or the broker closes the channel      *)
(* because a delivery has been left unacknowledged for too long.           *)
ConsumerLost ==
  /\ consumer = "open"
  /\ Fault
  /\ consumer' = "broken"
  /\ GiveBack
  /\ UNCHANGED <<apiVars, rowVars, inbox, workVars>>

DeliveryTimeout ==
  /\ consumer = "open"
  /\ \E s \in Submissions : msg[s] = "unacked"
  /\ consumer' = "broken"
  /\ GiveBack
  /\ UNCHANGED <<apiVars, rowVars, inbox, workVars, faults>>

(* The broker restarts: the messages are transient, every channel breaks.  *)
BrokerRestart ==
  /\ Fault
  /\ msg' = [s \in Submissions |->
               IF msg[s] \in {"ready", "unacked"} THEN "lost" ELSE msg[s]]
  /\ channel' = [v \in Servers |-> "broken"]
  /\ consumer' = IF consumer = "open" THEN "broken" ELSE consumer
  /\ UNCHANGED <<via, handler, rowVars, inbox, workVars>>

-----------------------------------------------------------------------------
(* submission_processor: the loop in main and process_message.             *)

(* The Rust server writes submissionId, the other one and the processor    *)
(* use submission_id: serde finds the field missing.                       *)
Readable(s) == via[s] = "ts"

(* An ack on a channel that is gone fails, and the failure is ignored. *)
Ack(s) == msg' = IF consumer = "open" THEN [msg EXCEPT ![s] = "acked"] ELSE msg

Receive(s) == step = "idle" /\ inbox # <<>> /\ Head(inbox) = s /\ inbox' = Tail(inbox)

Begin(s) ==
  /\ Receive(s)
  /\ Readable(s)
  /\ step' = "judging"
  /\ current' = s
  /\ UNCHANGED <<apiVars, rowVars, msg, consumer, outcome, faults>>

(* "failed to deserialize message, discarding" *)
Discard(s) ==
  /\ Receive(s)
  /\ ~Readable(s)
  /\ Ack(s)
  /\ UNCHANGED <<apiVars, rowVars, consumer, workVars, faults>>

JudgedAcks(v) ==                      \* slip: ack as soon as the judge has answered
  /\ step = "judging"
  /\ step' = "judged"
  /\ outcome' = v
  /\ Ack(current)
  /\ UNCHANGED <<apiVars, rowVars, consumer, inbox, current, faults>>

(* The client of the judge got a verdict ...                               *)
Judged(v) ==
  /\ step = "judging"
  /\ step' = "judged"
  /\ outcome' = v
  /\ UNCHANGED <<apiVars, rowVars, msg, consumer, inbox, current, faults>>

Finish == step' = "idle" /\ current' = Nobody /\ outcome' = NoVerdict

JudgeFailedKeeps ==                   \* slip: the error path does not drop what it held
  /\ step = "judging"
  /\ Fault
  /\ step' = "idle"
  /\ UNCHANGED <<apiVars, rowVars, msg, consumer, inbox, current, outcome>>

(* ... or an error of any kind: nothing is acknowledged.  (A code the      *)
(* client does not know is a panic: ProcessorStop.)                        *)
JudgeFailed ==
  /\ step = "judging"
  /\ Fault
  /\ Finish
  /\ UNCHANGED <<apiVars, rowVars, msg, consumer, inbox>>

(* Both servers' ids are uuids, so parsing the id does not fail.           *)
(* mark_completed: the row is looked up and overwritten, whatever it held, *)
(* through the Rust entity: a table without its columns is an error.       *)
MarkCompleted ==
  /\ step = "judged"
  /\ table \in Writes("rust")
  /\ row' = [row EXCEPT ![current] = "completed"]
  /\ verdict' = [verdict EXCEPT ![current] = outcome]
  /\ step' = "stored"
  /\ UNCHANGED <<apiVars, table, msg, consumer, inbox, current, outcome, faults>>

MarkFailedAcks ==                     \* slip: the message is acked whatever the DB said
  /\ step = "judged"
  /\ Fault
  /\ Ack(current)
  /\ Finish
  /\ UNCHANGED <<apiVars, rowVars, consumer, inbox>>

MarkFailed ==
  /\ step = "judged"
  /\ Fault \/ (table \notin Writes("rust") /\ UNCHANGED faults)
  /\ Finish
  /\ UNCHANGED <<apiVars, rowVars, msg, consumer, inbox>>

AckCompleted ==
  /\ step = "stored"
  /\ Ack(current)
  /\ Finish
  /\ UNCHANGED <<apiVars, rowVars, consumer, inbox, faults>>

StreamEndedIgnored ==                 \* slip: the loop goes on after the stream's end
  /\ consumer = "broken"
  /\ step = "idle"
  /\ inbox = <<>>
  /\ UNCHANGED vars

(* The stream of a lost channel yields what is buffered and then ends.     *)
StreamEnded ==
  /\ consumer = "broken"
  /\ step = "idle"
  /\ inbox = <<>>
  /\ consumer' = "down"
  /\ UNCHANGED <<apiVars, rowVars, msg, inbox, workVars, faults>>

(* A crash at any point, or Ctrl-C between two messages: the connection    *)
(* goes and takes the buffered deliveries with it.                         *)
ProcessorStop ==
  /\ consumer # "down"
  /\ Fault
  /\ consumer' = "down"
  /\ inbox' = <<>>
  /\ GiveBack
  /\ Finish
  /\ UNCHANGED <<apiVars, rowVars>>

ProcessorStart ==
  /\ consumer = "down"
  /\ consumer' = "open"
  /\ UNCHANGED <<apiVars, rowVars, msg, inbox, workVars, faults>>

-----------------------------------------------------------------------------
Process ==
  \/ \E s \in Submissions : Begin(s) \/ Discard(s)
  \/ \E v \in Verdicts : Judged(v)
  \/ JudgeFailed
  \/ MarkCompleted \/ MarkFailed \/ AckCompleted
  \/ StreamEnded

Next ==
  \/ \E s \in Submissions :
       \/ CreatePending(s) \/ SubmitSolution(s)
       \/ \E v \in Servers : InsertFailed(s, v)
       \/ Publish(s) \/ PublishRefused(s)
       \/ Deliver(s)
  \/ \E v \in Servers : ApiRestart(v)
  \/ ConsumerLost \/ DeliveryTimeout \/ BrokerRestart
  \/ Process
  \/ ProcessorStop \/ ProcessorStart

Spec == Init /\ [][Next]_vars

(* The broker pushes its whole backlog to every new consumer, so a message *)
(* that is ready whenever one subscribes is not passed over for ever; it   *)
(* closes stale channels; the processor works on what it is given.         *)
(* Nothing in the code starts the processor again.                         *)
Fairness ==
  /\ \A s \in Submissions :
       WF_vars(Publish(s)) /\ WF_vars(PublishRefused(s)) /\ SF_vars(Deliver(s))
  /\ WF_vars(Process)
  /\ WF_vars(DeliveryTimeout)

FairSpec == Spec /\ Fairness

(* The same with a supervisor that starts the processor whenever it ends.  *)
SupervisedSpec == FairSpec /\ WF_vars(ProcessorStart)

-----------------------------------------------------------------------------
(* Properties.                                                             *)

(* Every variable has its type, and the processor holds a submission and a *)
(* verdict exactly at the steps that need them.                            *)
TypeOK ==
  /\ table \in {"rust", "ts", "both"}
  /\ via \in [Submissions -> Servers \cup {"none"}]
  /\ handler \in [Submissions -> {"new", "rejected", "stored", "accepted", "failed"}]
  /\ channel \in [Servers -> {"open", "broken"}]
  /\ row \in [Submissions -> {"none", "pending", "completed"}]
  /\ verdict \in [Submissions -> Verdicts \cup {NoVerdict}]
  /\ msg \in [Submissions -> {"none", "ready", "unacked", "acked", "lost"}]
  /\ consumer \in {"down", "open", "broken"}
  /\ inbox \in Seq(Submissions)
  /\ step \in {"idle", "judging", "judged", "stored"}
  /\ current \in Submissions \cup {Nobody}
  /\ outcome \in Verdicts \cup {NoVerdict}
  /\ faults \in 0 .. MaxFaults
  /\ current = Nobody <=> step = "idle"
  /\ outcome = NoVerdict <=> step \in {"idle", "judging"}

(* A message the processor can read leaves the broker by an ack only when  *)
(* its verdict is in the table, whichever of the steps in between fails.   *)
AckedOnlyWhenCompleted ==
  \A s \in Submissions : msg[s] = "acked" /\ Readable(s) => row[s] = "completed"

(* A client that was told its submission failed may post it again: the     *)
(* failed one has no message and is never judged beside the second.        *)
RefusedNeverJudged ==
  \A s \in Submissions :
    handler[s] = "failed" => msg[s] = "none" /\ row[s] = "pending"

(* What the processor holds has not been acknowledged yet, so that a crash *)
(* gives it back; and it never holds a message twice.                      *)
InHand(s) == current = s \/ \E i \in DOMAIN inbox : inbox[i] = s

HandsAreBacked ==
  /\ \A s \in Submissions : InHand(s) => msg[s] # "acked" /\ row[s] # "none"
  /\ \A i, j \in DOMAIN inbox : inbox[i] = inbox[j] => i = j
  /\ \A i \in DOMAIN inbox : inbox[i] # current

(* No verdict is lost between broker, processor and table: what is not     *)
(* judged yet can be given back, and what is acknowledged was stored.      *)
NothingLost == AckedOnlyWhenCompleted /\ HandsAreBacked

(* A redelivery may judge a submission again and overwrite its verdict,    *)
(* but only until the ack has reached the broker: from then on the verdict *)
(* the user reads is final.                                                *)
AckedVerdictStands ==
  [][\A s \in Submissions : msg[s] = "acked" => verdict'[s] = verdict[s]]_vars

(* Under a supervisor, every message that reached the queue readable and   *)
(* is not lost with the broker is judged in the end: its verdict is stored *)
(* if the table has the columns mark_completed writes.  In the table of    *)
(* the repository's migration it has not, and all that holds is that the   *)
(* judge's verdict is had, again after each redelivery, and never stored.  *)
QueuedIsJudged ==
  \A s \in Submissions :
    (msg[s] = "ready" /\ Readable(s)) ~>
      \/ msg[s] = "lost"
      \/ table \in Writes("rust") /\ row[s] = "completed"
      \/ table \notin Writes("rust") /\ step = "judged" /\ current = s
=============================================================================
