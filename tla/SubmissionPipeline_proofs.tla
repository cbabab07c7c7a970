---------------------- MODULE SubmissionPipeline_proofs ----------------------
(***************************************************************************)
(* Safety of SubmissionPipeline for any submissions, verdicts and number   *)
(* of faults.  What is shown inductive relates the processor's hands, the  *)
(* broker's bookkeeping and the submissions table.                         *)
(***************************************************************************)
EXTENDS SubmissionPipeline, TLAPS

-----------------------------------------------------------------------------
(* The invariant.                                                          *)

(* What is in hand has a row and a message that is not acknowledged;       *)
(* while the channel is open the broker still waits for exactly that ack.  *)
Backed ==
  \A s \in Submissions : InHand(s) =>
    /\ row[s] # "none"
    /\ msg[s] \in {"ready", "unacked", "lost"}
    /\ consumer = "open" => msg[s] = "unacked"

(* Nothing is held twice. *)
HeldOnce ==
  /\ \A i, j \in DOMAIN inbox : inbox[i] = inbox[j] => i = j
  /\ \A i \in DOMAIN inbox : inbox[i] # current

(* Only an open channel has deliveries outstanding, only a running         *)
(* processor has anything in hand.                                         *)
ChannelState ==
  /\ \A s \in Submissions : msg[s] = "unacked" => consumer = "open"
  /\ consumer = "down" => step = "idle" /\ inbox = <<>>

(* How far the handler is, its row and its message. *)
HandlerState ==
  /\ \A s \in Submissions : row[s] = "none" <=> handler[s] \in {"new", "rejected"}
  /\ \A s \in Submissions : handler[s] \in {"stored", "failed"} => row[s] = "pending"
  /\ \A s \in Submissions : handler[s] # "accepted" => msg[s] = "none"

(* The verdict is in the table when the ack is next. *)
StoredFirst == step = "stored" => row[current] = "completed"

IInv ==
  /\ TypeOK
  /\ Backed
  /\ HeldOnce
  /\ ChannelState
  /\ HandlerState
  /\ StoredFirst
  /\ AckedOnlyWhenCompleted

-----------------------------------------------------------------------------
(* Sequences.                                                              *)

LEMMA AppendFacts ==
  ASSUME NEW S, NEW q \in Seq(S), NEW e \in S
  PROVE  /\ Append(q, e) \in Seq(S)
         /\ DOMAIN q = 1 .. Len(q)
         /\ DOMAIN Append(q, e) = 1 .. (Len(q) + 1)
         /\ \A i \in DOMAIN q : Append(q, e)[i] = q[i]
         /\ Append(q, e)[Len(q) + 1] = e
         /\ Len(q) \in Nat
  OBVIOUS

LEMMA TailFacts ==
  ASSUME NEW S, NEW q \in Seq(S), q # <<>>
  PROVE  /\ Tail(q) \in Seq(S)
         /\ Head(q) \in S
         /\ Head(q) = q[1]
         /\ 1 \in DOMAIN q
         /\ DOMAIN q = 1 .. Len(q)
         /\ DOMAIN Tail(q) = 1 .. (Len(q) - 1)
         /\ \A i \in DOMAIN Tail(q) : i + 1 \in DOMAIN q /\ Tail(q)[i] = q[i + 1]
         /\ Len(q) \in Nat \ {0}
  OBVIOUS

(* An appended submission is the only new one in hand, and taking the head *)
(* into the hands or dropping it leaves nothing new there.                 *)
LEMMA HandsAfterAppend ==
  ASSUME TypeOK, HeldOnce, NEW s \in Submissions, ~InHand(s),
         inbox' = Append(inbox, s), current' = current
  PROVE  /\ inbox' \in Seq(Submissions)
         /\ \A t \in Submissions : InHand(t)' => InHand(t) \/ t = s
         /\ HeldOnce'
<1>1. /\ inbox' \in Seq(Submissions)
      /\ DOMAIN inbox = 1 .. Len(inbox)
      /\ DOMAIN inbox' = 1 .. (Len(inbox) + 1)
      /\ \A i \in DOMAIN inbox : inbox'[i] = inbox[i]
      /\ inbox'[Len(inbox) + 1] = s
      /\ Len(inbox) \in Nat
  BY AppendFacts DEF TypeOK
<1>2. \A i \in DOMAIN inbox' : i \in DOMAIN inbox \/ i = Len(inbox) + 1
  BY <1>1
<1>3. \A t \in Submissions : InHand(t)' => InHand(t) \/ t = s
  BY <1>1, <1>2 DEF InHand
<1>4. current # s /\ \A i \in DOMAIN inbox : inbox[i] # s
  BY DEF InHand
<1>5. HeldOnce'
  BY <1>1, <1>2, <1>4 DEF HeldOnce
<1> QED BY <1>1, <1>3, <1>5

LEMMA HandsAfterReceive ==
  ASSUME TypeOK, HeldOnce, NEW s \in Submissions, Receive(s),
         current' \in {current, s}, current = Nobody
  PROVE  /\ inbox' \in Seq(Submissions)
         /\ InHand(s)
         /\ \A t \in Submissions : InHand(t)' => InHand(t)
         /\ \A i \in DOMAIN inbox' : inbox'[i] # s
         /\ HeldOnce'
<1>1. /\ inbox' \in Seq(Submissions)
      /\ inbox[1] = s
      /\ 1 \in DOMAIN inbox
      /\ DOMAIN inbox = 1 .. Len(inbox)
      /\ DOMAIN inbox' = 1 .. (Len(inbox) - 1)
      /\ \A i \in DOMAIN inbox' : i + 1 \in DOMAIN inbox /\ inbox'[i] = inbox[i + 1]
      /\ Len(inbox) \in Nat \ {0}
  BY TailFacts DEF TypeOK, Receive
<1>2. InHand(s)
  BY <1>1 DEF InHand
<1>3. \A t \in Submissions : InHand(t)' => InHand(t)
  BY <1>1, <1>2, PipelineAssumption DEF InHand
<1>4. \A i \in DOMAIN inbox' : inbox'[i] # s
  BY <1>1 DEF HeldOnce
<1>5. \A i \in DOMAIN inbox' : inbox'[i] \in Submissions
  BY <1>1
<1>6. HeldOnce'
  <2>1. \A i, j \in DOMAIN inbox' : inbox'[i] = inbox'[j] => i = j
    BY <1>1 DEF HeldOnce
  <2>2. \A i \in DOMAIN inbox' : inbox'[i] # current'
    BY <1>4, <1>5, PipelineAssumption
  <2> QED BY <2>1, <2>2 DEF HeldOnce
<1> QED BY <1>1, <1>2, <1>3, <1>4, <1>6
-----------------------------------------------------------------------------
(* Every action preserves the invariant. *)

(* The API servers touch neither the processor nor what it holds. *)
LEMMA InsertRowKeeps ==
  ASSUME IInv, NEW s \in Submissions, NEW v \in Servers, InsertRow(s, v)
  PROVE  IInv'
<1>1. TypeOK'
  BY DEF InsertRow, workVars, IInv, TypeOK, Servers
<1>2. Backed'
  BY DEF InsertRow, workVars, IInv, Backed, InHand
<1>3. HeldOnce'
  BY DEF InsertRow, workVars, IInv, HeldOnce
<1>4. ChannelState'
  BY DEF InsertRow, workVars, IInv, ChannelState
<1>5. HandlerState'
  BY DEF InsertRow, workVars, IInv, HandlerState, TypeOK
<1>6. StoredFirst'
  BY DEF InsertRow, workVars, IInv, StoredFirst, TypeOK, Backed, InHand,
     HandlerState
<1>7. AckedOnlyWhenCompleted'
  BY PipelineAssumption DEF InsertRow, workVars, IInv,
     AckedOnlyWhenCompleted, TypeOK, Readable, HandlerState, StoredFirst,
     Backed, InHand
<1> QED BY <1>1, <1>2, <1>3, <1>4, <1>5, <1>6, <1>7 DEF IInv

LEMMA InsertFailedKeeps ==
  ASSUME IInv, NEW s \in Submissions, NEW v \in Servers, InsertFailed(s, v)
  PROVE  IInv'
<1>1. TypeOK'
  BY DEF InsertFailed, rowVars, workVars, IInv, TypeOK, Servers
<1>2. Backed'
  BY DEF InsertFailed, rowVars, workVars, IInv, Backed, InHand
<1>3. HeldOnce'
  BY DEF InsertFailed, rowVars, workVars, IInv, HeldOnce
<1>4. ChannelState'
  BY DEF InsertFailed, rowVars, workVars, IInv, ChannelState
<1>5. HandlerState'
  BY DEF InsertFailed, rowVars, workVars, IInv, HandlerState, TypeOK
<1>6. StoredFirst'
  BY DEF InsertFailed, rowVars, workVars, IInv, StoredFirst, TypeOK
<1>7. AckedOnlyWhenCompleted'
  BY DEF InsertFailed, rowVars, workVars, IInv, AckedOnlyWhenCompleted,
     TypeOK, Readable, HandlerState
<1> QED BY <1>1, <1>2, <1>3, <1>4, <1>5, <1>6, <1>7 DEF IInv

LEMMA PublishKeeps ==
  ASSUME IInv, NEW s \in Submissions, Publish(s)
  PROVE  IInv'
<1>1. TypeOK'
  <2>1. UNCHANGED <<table, via, channel, row, verdict, consumer, inbox, step, current, outcome>>
    BY DEF Publish, rowVars, workVars
  <2>2. handler' \in [Submissions -> {"new", "rejected", "stored", "accepted", "failed"}]
    BY DEF Publish, IInv, TypeOK
  <2>3. msg' \in [Submissions -> {"none", "ready", "unacked", "acked", "lost"}]
    BY DEF Publish, IInv, TypeOK
  <2>4. faults' \in 0 .. MaxFaults
    BY PipelineAssumption DEF Publish, Fault, IInv, TypeOK
  <2> QED BY <2>1, <2>2, <2>3, <2>4 DEF IInv, TypeOK
<1>2. Backed'
  BY PipelineAssumption DEF Publish, Fault, rowVars, workVars, IInv, Backed,
     InHand, TypeOK, ChannelState, HandlerState
<1>3. HeldOnce'
  BY DEF Publish, Fault, rowVars, workVars, IInv, HeldOnce
<1>4. ChannelState'
  BY PipelineAssumption DEF Publish, Fault, rowVars, workVars, IInv,
     ChannelState, TypeOK, Backed, InHand
<1>5. HandlerState'
  BY DEF Publish, Fault, rowVars, workVars, IInv, HandlerState, TypeOK
<1>6. StoredFirst'
  BY DEF Publish, Fault, rowVars, workVars, IInv, StoredFirst, TypeOK
<1>7. AckedOnlyWhenCompleted'
  BY DEF Publish, Fault, rowVars, workVars, IInv, AckedOnlyWhenCompleted,
     TypeOK, Readable
<1> QED BY <1>1, <1>2, <1>3, <1>4, <1>5, <1>6, <1>7 DEF IInv

LEMMA PublishRefusedKeeps ==
  ASSUME IInv, NEW s \in Submissions, PublishRefused(s)
  PROVE  IInv'
<1>1. TypeOK'
  BY DEF PublishRefused, rowVars, workVars, IInv, TypeOK, Servers
<1>2. Backed'
  BY DEF PublishRefused, rowVars, workVars, IInv, Backed, InHand
<1>3. HeldOnce'
  BY DEF PublishRefused, rowVars, workVars, IInv, HeldOnce
<1>4. ChannelState'
  BY DEF PublishRefused, rowVars, workVars, IInv, ChannelState
<1>5. HandlerState'
  BY DEF PublishRefused, rowVars, workVars, IInv, HandlerState, TypeOK
<1>6. StoredFirst'
  BY DEF PublishRefused, rowVars, workVars, IInv, StoredFirst, TypeOK
<1>7. AckedOnlyWhenCompleted'
  BY DEF PublishRefused, rowVars, workVars, IInv, AckedOnlyWhenCompleted,
     TypeOK, Readable
<1> QED BY <1>1, <1>2, <1>3, <1>4, <1>5, <1>6, <1>7 DEF IInv

LEMMA ApiRestartKeeps ==
  ASSUME IInv, NEW v \in Servers, ApiRestart(v)
  PROVE  IInv'
<1>1. TypeOK'
  BY PipelineAssumption DEF ApiRestart, Fault, rowVars, workVars, IInv,
     TypeOK, Servers
<1>2. Backed'
  BY DEF ApiRestart, Fault, rowVars, workVars, IInv, Backed, InHand
<1>3. HeldOnce'
  BY DEF ApiRestart, Fault, rowVars, workVars, IInv, HeldOnce
<1>4. ChannelState'
  BY DEF ApiRestart, Fault, rowVars, workVars, IInv, ChannelState
<1>5. HandlerState'
  BY DEF ApiRestart, Fault, rowVars, workVars, IInv, HandlerState, TypeOK
<1>6. StoredFirst'
  BY DEF ApiRestart, Fault, rowVars, workVars, IInv, StoredFirst, TypeOK
<1>7. AckedOnlyWhenCompleted'
  BY DEF ApiRestart, Fault, rowVars, workVars, IInv, AckedOnlyWhenCompleted,
     TypeOK, Readable
<1> QED BY <1>1, <1>2, <1>3, <1>4, <1>5, <1>6, <1>7 DEF IInv

(* The broker takes back what it was owed when a channel goes. *)
LEMMA ConsumerLostKeeps ==
  ASSUME IInv, ConsumerLost
  PROVE  IInv'
<1>1. TypeOK'
  BY PipelineAssumption DEF ConsumerLost, Fault, GiveBack, apiVars, rowVars,
     workVars, IInv, TypeOK, Servers
<1>2. Backed'
  BY DEF ConsumerLost, Fault, GiveBack, apiVars, rowVars, workVars, IInv,
     Backed, InHand
<1>3. HeldOnce'
  BY DEF ConsumerLost, Fault, GiveBack, apiVars, rowVars, workVars, IInv,
     HeldOnce
<1>4. ChannelState'
  BY DEF ConsumerLost, Fault, GiveBack, apiVars, rowVars, workVars, IInv,
     ChannelState
<1>5. HandlerState'
  BY DEF ConsumerLost, Fault, GiveBack, apiVars, rowVars, workVars, IInv,
     HandlerState, TypeOK
<1>6. StoredFirst'
  BY DEF ConsumerLost, Fault, GiveBack, apiVars, rowVars, workVars, IInv,
     StoredFirst, TypeOK
<1>7. AckedOnlyWhenCompleted'
  BY DEF ConsumerLost, Fault, GiveBack, apiVars, rowVars, workVars, IInv,
     AckedOnlyWhenCompleted, TypeOK, Readable
<1> QED BY <1>1, <1>2, <1>3, <1>4, <1>5, <1>6, <1>7 DEF IInv

LEMMA DeliveryTimeoutKeeps ==
  ASSUME IInv, DeliveryTimeout
  PROVE  IInv'
<1>1. TypeOK'
  BY DEF DeliveryTimeout, GiveBack, apiVars, rowVars, workVars, IInv,
     TypeOK, Servers
<1>2. Backed'
  BY DEF DeliveryTimeout, GiveBack, apiVars, rowVars, workVars, IInv,
     Backed, InHand
<1>3. HeldOnce'
  BY DEF DeliveryTimeout, GiveBack, apiVars, rowVars, workVars, IInv,
     HeldOnce
<1>4. ChannelState'
  BY DEF DeliveryTimeout, GiveBack, apiVars, rowVars, workVars, IInv,
     ChannelState
<1>5. HandlerState'
  BY DEF DeliveryTimeout, GiveBack, apiVars, rowVars, workVars, IInv,
     HandlerState, TypeOK
<1>6. StoredFirst'
  BY DEF DeliveryTimeout, GiveBack, apiVars, rowVars, workVars, IInv,
     StoredFirst, TypeOK
<1>7. AckedOnlyWhenCompleted'
  BY DEF DeliveryTimeout, GiveBack, apiVars, rowVars, workVars, IInv,
     AckedOnlyWhenCompleted, TypeOK, Readable
<1> QED BY <1>1, <1>2, <1>3, <1>4, <1>5, <1>6, <1>7 DEF IInv

LEMMA BrokerRestartKeeps ==
  ASSUME IInv, BrokerRestart
  PROVE  IInv'
<1>1. TypeOK'
  BY PipelineAssumption DEF BrokerRestart, Fault, rowVars, workVars, IInv,
     TypeOK, Servers
<1>2. Backed'
  BY DEF BrokerRestart, Fault, rowVars, workVars, IInv, Backed, InHand
<1>3. HeldOnce'
  BY DEF BrokerRestart, Fault, rowVars, workVars, IInv, HeldOnce
<1>4. ChannelState'
  BY DEF BrokerRestart, Fault, rowVars, workVars, IInv, ChannelState
<1>5. HandlerState'
  BY DEF BrokerRestart, Fault, rowVars, workVars, IInv, HandlerState, TypeOK
<1>6. StoredFirst'
  BY DEF BrokerRestart, Fault, rowVars, workVars, IInv, StoredFirst, TypeOK
<1>7. AckedOnlyWhenCompleted'
  BY DEF BrokerRestart, Fault, rowVars, workVars, IInv,
     AckedOnlyWhenCompleted, TypeOK, Readable
<1> QED BY <1>1, <1>2, <1>3, <1>4, <1>5, <1>6, <1>7 DEF IInv

(* A delivery comes into the hands of a processor that does not hold it. *)
LEMMA DeliverKeeps ==
  ASSUME IInv, NEW s \in Submissions, Deliver(s)
  PROVE  IInv'
<1>1. ~InHand(s)
  BY PipelineAssumption DEF Deliver, IInv, Backed
<1>2. /\ inbox' \in Seq(Submissions)
      /\ \A t \in Submissions : InHand(t)' => InHand(t) \/ t = s
      /\ HeldOnce'
  BY <1>1, HandsAfterAppend DEF Deliver, apiVars, rowVars, workVars, IInv,
     HeldOnce
<1>3. TypeOK'
  BY <1>1, <1>2 DEF Deliver, apiVars, rowVars, workVars, IInv, TypeOK,
     Servers
<1>4. Backed'
  BY PipelineAssumption, <1>1, <1>2 DEF Deliver, apiVars, rowVars, workVars,
     IInv, Backed, InHand, TypeOK, ChannelState, HandlerState
<1>5. ChannelState'
  BY <1>1, <1>2 DEF Deliver, apiVars, rowVars, workVars, IInv, ChannelState
<1>6. HandlerState'
  BY <1>1, <1>2 DEF Deliver, apiVars, rowVars, workVars, IInv, HandlerState,
     TypeOK
<1>7. StoredFirst'
  BY <1>1, <1>2 DEF Deliver, apiVars, rowVars, workVars, IInv, StoredFirst,
     TypeOK
<1>8. AckedOnlyWhenCompleted'
  BY <1>1, <1>2 DEF Deliver, apiVars, rowVars, workVars, IInv,
     AckedOnlyWhenCompleted, TypeOK, Readable
<1> QED BY <1>2, <1>3, <1>4, <1>5, <1>6, <1>7, <1>8 DEF IInv

(* Taking a delivery from the stream. *)
LEMMA BeginKeeps ==
  ASSUME IInv, NEW s \in Submissions, Begin(s)
  PROVE  IInv'
<1>1. /\ inbox' \in Seq(Submissions)
      /\ InHand(s)
      /\ \A t \in Submissions : InHand(t)' => InHand(t)
      /\ \A i \in DOMAIN inbox' : inbox'[i] # s
      /\ HeldOnce'
  BY HandsAfterReceive DEF Begin, Receive, apiVars, rowVars, IInv, HeldOnce,
     TypeOK
<1>2. TypeOK'
  BY PipelineAssumption, <1>1 DEF Begin, Receive, apiVars, rowVars, IInv,
     TypeOK, Servers
<1>3. Backed'
  BY <1>1 DEF Begin, Receive, apiVars, rowVars, IInv, Backed, InHand
<1>4. ChannelState'
  BY <1>1 DEF Begin, Receive, apiVars, rowVars, IInv, ChannelState
<1>5. HandlerState'
  BY <1>1 DEF Begin, Receive, apiVars, rowVars, IInv, HandlerState, TypeOK
<1>6. StoredFirst'
  BY <1>1 DEF Begin, Receive, apiVars, rowVars, IInv, StoredFirst, TypeOK
<1>7. AckedOnlyWhenCompleted'
  BY <1>1 DEF Begin, Receive, apiVars, rowVars, IInv,
     AckedOnlyWhenCompleted, TypeOK, Readable
<1> QED BY <1>1, <1>2, <1>3, <1>4, <1>5, <1>6, <1>7 DEF IInv

LEMMA DiscardKeeps ==
  ASSUME IInv, NEW s \in Submissions, Discard(s)
  PROVE  IInv'
<1>1. /\ inbox' \in Seq(Submissions)
      /\ InHand(s)
      /\ \A t \in Submissions : InHand(t)' => InHand(t)
      /\ \A i \in DOMAIN inbox' : inbox'[i] # s
      /\ HeldOnce'
  BY HandsAfterReceive DEF Discard, Receive, apiVars, rowVars, workVars,
     IInv, HeldOnce, TypeOK
<1>2. \A t \in Submissions : InHand(t)' => t # s
  BY <1>1, PipelineAssumption DEF Discard, Receive, InHand, IInv, TypeOK,
     workVars
<1>3. TypeOK'
  BY <1>1, <1>2 DEF Discard, Receive, Ack, apiVars, rowVars, workVars, IInv,
     TypeOK, Servers
<1>4. Backed'
  BY <1>1, <1>2 DEF Discard, Receive, Ack, apiVars, rowVars, workVars, IInv,
     Backed, InHand
<1>5. ChannelState'
  BY <1>1, <1>2 DEF Discard, Receive, Ack, apiVars, rowVars, workVars, IInv,
     ChannelState
<1>6. HandlerState'
  BY PipelineAssumption, <1>1, <1>2 DEF Discard, Receive, Ack, apiVars,
     rowVars, workVars, IInv, HandlerState, TypeOK, Backed, InHand
<1>7. StoredFirst'
  BY <1>1, <1>2 DEF Discard, Receive, Ack, apiVars, rowVars, workVars, IInv,
     StoredFirst, TypeOK
<1>8. AckedOnlyWhenCompleted'
  BY <1>1, <1>2 DEF Discard, Receive, Ack, apiVars, rowVars, workVars, IInv,
     AckedOnlyWhenCompleted, TypeOK, Readable
<1> QED BY <1>1, <1>3, <1>4, <1>5, <1>6, <1>7, <1>8 DEF IInv

(* The processor's own steps change nobody's row and message but those of the submission in hand. *)
LEMMA JudgedKeeps ==
  ASSUME IInv, NEW v \in Verdicts, Judged(v)
  PROVE  IInv'
<1>1. TypeOK'
  BY PipelineAssumption DEF Judged, apiVars, rowVars, IInv, TypeOK, Servers
<1>2. Backed'
  BY DEF Judged, apiVars, rowVars, IInv, Backed, InHand
<1>3. HeldOnce'
  BY DEF Judged, apiVars, rowVars, IInv, HeldOnce
<1>4. ChannelState'
  BY DEF Judged, apiVars, rowVars, IInv, ChannelState
<1>5. HandlerState'
  BY DEF Judged, apiVars, rowVars, IInv, HandlerState, TypeOK
<1>6. StoredFirst'
  BY DEF Judged, apiVars, rowVars, IInv, StoredFirst, TypeOK
<1>7. AckedOnlyWhenCompleted'
  BY DEF Judged, apiVars, rowVars, IInv, AckedOnlyWhenCompleted, TypeOK,
     Readable
<1> QED BY <1>1, <1>2, <1>3, <1>4, <1>5, <1>6, <1>7 DEF IInv

LEMMA JudgeErrorKeeps ==
  ASSUME IInv, JudgeFailed
  PROVE  IInv'
<1>1. TypeOK'
  BY PipelineAssumption DEF JudgeFailed, Fault, Finish, apiVars, rowVars,
     IInv, TypeOK, Servers
<1>2. Backed'
  BY PipelineAssumption DEF JudgeFailed, Fault, Finish, apiVars, rowVars,
     IInv, Backed, InHand
<1>3. HeldOnce'
  BY PipelineAssumption DEF JudgeFailed, Fault, Finish, apiVars, rowVars,
     IInv, HeldOnce, TypeOK
<1>4. ChannelState'
  BY DEF JudgeFailed, Fault, Finish, apiVars, rowVars, IInv, ChannelState
<1>5. HandlerState'
  BY DEF JudgeFailed, Fault, Finish, apiVars, rowVars, IInv, HandlerState,
     TypeOK
<1>6. StoredFirst'
  BY DEF JudgeFailed, Fault, Finish, apiVars, rowVars, IInv, StoredFirst,
     TypeOK
<1>7. AckedOnlyWhenCompleted'
  BY DEF JudgeFailed, Fault, Finish, apiVars, rowVars, IInv,
     AckedOnlyWhenCompleted, TypeOK, Readable
<1> QED BY <1>1, <1>2, <1>3, <1>4, <1>5, <1>6, <1>7 DEF IInv

LEMMA MarkCompletedKeeps ==
  ASSUME IInv, MarkCompleted
  PROVE  IInv'
<1>1. TypeOK'
  BY DEF MarkCompleted, apiVars, IInv, TypeOK, Servers
<1>2. Backed'
  BY DEF MarkCompleted, apiVars, IInv, Backed, InHand
<1>3. HeldOnce'
  BY DEF MarkCompleted, apiVars, IInv, HeldOnce
<1>4. ChannelState'
  BY DEF MarkCompleted, apiVars, IInv, ChannelState
<1>5. HandlerState'
  BY PipelineAssumption DEF MarkCompleted, apiVars, IInv, HandlerState,
     TypeOK, Backed, InHand
<1>6. StoredFirst'
  BY DEF MarkCompleted, apiVars, IInv, StoredFirst, TypeOK
<1>7. AckedOnlyWhenCompleted'
  BY DEF MarkCompleted, apiVars, IInv, AckedOnlyWhenCompleted, TypeOK,
     Readable
<1> QED BY <1>1, <1>2, <1>3, <1>4, <1>5, <1>6, <1>7 DEF IInv

LEMMA MarkErrorKeeps ==
  ASSUME IInv, MarkFailed
  PROVE  IInv'
<1>1. TypeOK'
  BY PipelineAssumption DEF MarkFailed, Fault, Finish, apiVars, rowVars,
     IInv, TypeOK, Servers
<1>2. Backed'
  BY PipelineAssumption DEF MarkFailed, Fault, Finish, apiVars, rowVars,
     IInv, Backed, InHand
<1>3. HeldOnce'
  BY PipelineAssumption DEF MarkFailed, Fault, Finish, apiVars, rowVars,
     IInv, HeldOnce, TypeOK
<1>4. ChannelState'
  BY DEF MarkFailed, Fault, Finish, apiVars, rowVars, IInv, ChannelState
<1>5. HandlerState'
  BY DEF MarkFailed, Fault, Finish, apiVars, rowVars, IInv, HandlerState,
     TypeOK
<1>6. StoredFirst'
  BY DEF MarkFailed, Fault, Finish, apiVars, rowVars, IInv, StoredFirst,
     TypeOK
<1>7. AckedOnlyWhenCompleted'
  BY DEF MarkFailed, Fault, Finish, apiVars, rowVars, IInv,
     AckedOnlyWhenCompleted, TypeOK, Readable
<1> QED BY <1>1, <1>2, <1>3, <1>4, <1>5, <1>6, <1>7 DEF IInv

LEMMA AckCompletedKeeps ==
  ASSUME IInv, AckCompleted
  PROVE  IInv'
<1>1. TypeOK'
  BY DEF AckCompleted, Ack, Finish, apiVars, rowVars, IInv, TypeOK, Servers
<1>2. Backed'
  BY PipelineAssumption DEF AckCompleted, Ack, Finish, apiVars, rowVars, IInv,
     TypeOK, Backed, HeldOnce, InHand
<1>3. HeldOnce'
  BY PipelineAssumption DEF AckCompleted, Ack, Finish, apiVars, rowVars,
     IInv, HeldOnce, TypeOK
<1>4. ChannelState'
  BY DEF AckCompleted, Ack, Finish, apiVars, rowVars, IInv, ChannelState
<1>5. HandlerState'
  BY PipelineAssumption DEF AckCompleted, Ack, Finish, apiVars, rowVars,
     IInv, HandlerState, TypeOK, Backed, InHand
<1>6. StoredFirst'
  BY DEF AckCompleted, Ack, Finish, apiVars, rowVars, IInv, StoredFirst,
     TypeOK
<1>7. AckedOnlyWhenCompleted'
  BY PipelineAssumption DEF AckCompleted, Ack, Finish, apiVars, rowVars,
     IInv, AckedOnlyWhenCompleted, TypeOK, Readable, HandlerState,
     StoredFirst, Backed, InHand
<1> QED BY <1>1, <1>2, <1>3, <1>4, <1>5, <1>6, <1>7 DEF IInv

LEMMA StreamEndedKeeps ==
  ASSUME IInv, StreamEnded
  PROVE  IInv'
<1>1. TypeOK'
  BY DEF StreamEnded, apiVars, rowVars, workVars, IInv, TypeOK, Servers
<1>2. Backed'
  BY DEF StreamEnded, apiVars, rowVars, workVars, IInv, Backed, InHand
<1>3. HeldOnce'
  BY DEF StreamEnded, apiVars, rowVars, workVars, IInv, HeldOnce
<1>4. ChannelState'
  BY DEF StreamEnded, apiVars, rowVars, workVars, IInv, ChannelState
<1>5. HandlerState'
  BY DEF StreamEnded, apiVars, rowVars, workVars, IInv, HandlerState, TypeOK
<1>6. StoredFirst'
  BY DEF StreamEnded, apiVars, rowVars, workVars, IInv, StoredFirst, TypeOK
<1>7. AckedOnlyWhenCompleted'
  BY DEF StreamEnded, apiVars, rowVars, workVars, IInv,
     AckedOnlyWhenCompleted, TypeOK, Readable
<1> QED BY <1>1, <1>2, <1>3, <1>4, <1>5, <1>6, <1>7 DEF IInv

LEMMA ProcessorStopKeeps ==
  ASSUME IInv, ProcessorStop
  PROVE  IInv'
<1>1. TypeOK'
  BY PipelineAssumption DEF ProcessorStop, Fault, Finish, GiveBack, apiVars,
     rowVars, IInv, TypeOK, Servers
<1>2. Backed'
  BY PipelineAssumption DEF ProcessorStop, Fault, Finish, GiveBack, apiVars,
     rowVars, IInv, Backed, InHand
<1>3. HeldOnce'
  BY DEF ProcessorStop, Fault, Finish, GiveBack, apiVars, rowVars, IInv,
     HeldOnce
<1>4. ChannelState'
  BY DEF ProcessorStop, Fault, Finish, GiveBack, apiVars, rowVars, IInv,
     ChannelState
<1>5. HandlerState'
  BY DEF ProcessorStop, Fault, Finish, GiveBack, apiVars, rowVars, IInv,
     HandlerState, TypeOK
<1>6. StoredFirst'
  BY DEF ProcessorStop, Fault, Finish, GiveBack, apiVars, rowVars, IInv,
     StoredFirst, TypeOK
<1>7. AckedOnlyWhenCompleted'
  BY DEF ProcessorStop, Fault, Finish, GiveBack, apiVars, rowVars, IInv,
     AckedOnlyWhenCompleted, TypeOK, Readable
<1> QED BY <1>1, <1>2, <1>3, <1>4, <1>5, <1>6, <1>7 DEF IInv

LEMMA ProcessorStartKeeps ==
  ASSUME IInv, ProcessorStart
  PROVE  IInv'
<1>1. TypeOK'
  BY DEF ProcessorStart, apiVars, rowVars, workVars, IInv, TypeOK, Servers
<1>2. Backed'
  BY PipelineAssumption DEF ProcessorStart, apiVars, rowVars, workVars,
     IInv, Backed, InHand, TypeOK, ChannelState, HandlerState
<1>3. HeldOnce'
  BY DEF ProcessorStart, apiVars, rowVars, workVars, IInv, HeldOnce
<1>4. ChannelState'
  BY DEF ProcessorStart, apiVars, rowVars, workVars, IInv, ChannelState
<1>5. HandlerState'
  BY DEF ProcessorStart, apiVars, rowVars, workVars, IInv, HandlerState,
     TypeOK
<1>6. StoredFirst'
  BY DEF ProcessorStart, apiVars, rowVars, workVars, IInv, StoredFirst,
     TypeOK
<1>7. AckedOnlyWhenCompleted'
  BY DEF ProcessorStart, apiVars, rowVars, workVars, IInv,
     AckedOnlyWhenCompleted, TypeOK, Readable
<1> QED BY <1>1, <1>2, <1>3, <1>4, <1>5, <1>6, <1>7 DEF IInv

LEMMA StutterKeeps ==
  ASSUME IInv, UNCHANGED vars
  PROVE  IInv'
<1>1. TypeOK'
  BY DEF vars, apiVars, rowVars, workVars, IInv, TypeOK, Servers
<1>2. Backed'
  BY DEF vars, apiVars, rowVars, workVars, IInv, Backed, InHand
<1>3. HeldOnce'
  BY DEF vars, apiVars, rowVars, workVars, IInv, HeldOnce
<1>4. ChannelState'
  BY DEF vars, apiVars, rowVars, workVars, IInv, ChannelState
<1>5. HandlerState'
  BY DEF vars, apiVars, rowVars, workVars, IInv, HandlerState, TypeOK
<1>6. StoredFirst'
  BY DEF vars, apiVars, rowVars, workVars, IInv, StoredFirst, TypeOK
<1>7. AckedOnlyWhenCompleted'
  BY DEF vars, apiVars, rowVars, workVars, IInv, AckedOnlyWhenCompleted,
     TypeOK, Readable
<1> QED BY <1>1, <1>2, <1>3, <1>4, <1>5, <1>6, <1>7 DEF IInv

-----------------------------------------------------------------------------
(* The theorems.                                                           *)

LEMMA InitIInv == Init => IInv
  BY PipelineAssumption DEF Init, InHand, Servers, IInv, TypeOK, Backed,
     HeldOnce, ChannelState, HandlerState, StoredFirst,
     AckedOnlyWhenCompleted, Readable

LEMMA NextIInv == IInv /\ [Next]_vars => IInv'
<1> SUFFICES ASSUME IInv, [Next]_vars PROVE IInv'
  OBVIOUS
<1>1. CASE \E s \in Submissions : CreatePending(s) \/ SubmitSolution(s)
  BY <1>1, InsertRowKeeps DEF CreatePending, SubmitSolution, Servers
<1>2. CASE \E s \in Submissions : Publish(s) \/ PublishRefused(s) \/ Deliver(s)
  BY <1>2, PublishKeeps, PublishRefusedKeeps, DeliverKeeps
<1>8. CASE \E s \in Submissions, v \in Servers : InsertFailed(s, v)
  BY <1>8, InsertFailedKeeps
<1>3. CASE \E v \in Servers : ApiRestart(v)
  BY <1>3, ApiRestartKeeps
<1>4. CASE ConsumerLost \/ DeliveryTimeout \/ BrokerRestart
  BY <1>4, ConsumerLostKeeps, DeliveryTimeoutKeeps, BrokerRestartKeeps
<1>5. CASE Process
  <2>1. CASE \E s \in Submissions : Begin(s) \/ Discard(s)
    BY <2>1, BeginKeeps, DiscardKeeps
  <2>2. CASE \E v \in Verdicts : Judged(v)
    BY <2>2, JudgedKeeps
  <2>3. CASE JudgeFailed \/ MarkCompleted \/ MarkFailed \/ AckCompleted \/ StreamEnded
    BY <2>3, JudgeErrorKeeps, MarkCompletedKeeps, MarkErrorKeeps, AckCompletedKeeps,
       StreamEndedKeeps
  <2> QED BY <1>5, <2>1, <2>2, <2>3 DEF Process
<1>6. CASE ProcessorStop \/ ProcessorStart
  BY <1>6, ProcessorStopKeeps, ProcessorStartKeeps
<1>7. CASE UNCHANGED vars
  BY <1>7, StutterKeeps
<1> QED BY <1>1, <1>2, <1>3, <1>4, <1>5, <1>6, <1>7, <1>8 DEF Next

LEMMA Invariance == Spec => []IInv
  BY InitIInv, NextIInv, PTL DEF Spec

(* Types, and the processor's step agrees with what it holds. *)
THEOREM TypeCorrect == Spec => []TypeOK
<1>1. IInv => TypeOK
  BY DEF IInv
<1> QED BY <1>1, Invariance, PTL

(* No crash, failed call or lost channel makes a readable message leave    *)
(* the queue before its verdict is in the table.                           *)
THEOREM NothingAckedUnjudged == Spec => []AckedOnlyWhenCompleted
<1>1. IInv => AckedOnlyWhenCompleted
  BY DEF IInv
<1> QED BY <1>1, Invariance, PTL

(* What the processor holds can still be given back, and is held once. *)
THEOREM HandsBacked == Spec => []HandsAreBacked
<1>1. IInv => HandsAreBacked
  BY PipelineAssumption DEF IInv, HandsAreBacked, Backed, HeldOnce
<1> QED BY <1>1, Invariance, PTL

(* No verdict is lost between the broker, the processor and the table. *)
THEOREM NeverLost == Spec => []NothingLost
<1>1. AckedOnlyWhenCompleted /\ HandsAreBacked => NothingLost
  BY DEF NothingLost
<1> QED BY <1>1, NothingAckedUnjudged, HandsBacked, PTL

(* A submission that was refused is never judged. *)
THEOREM RefusedStaysPending == Spec => []RefusedNeverJudged
<1>1. IInv => RefusedNeverJudged
  BY PipelineAssumption DEF IInv, RefusedNeverJudged, HandlerState
<1> QED BY <1>1, Invariance, PTL

(* The verdict of an acknowledged submission is final: only MarkCompleted  *)
(* writes verdicts, and what it has in hand is not acknowledged.           *)
THEOREM VerdictStands == Spec => AckedVerdictStands
<1>1. ASSUME IInv, [Next]_vars, NEW s \in Submissions, msg[s] = "acked"
      PROVE  verdict'[s] = verdict[s]
  <2>1. CASE MarkCompleted
    BY <1>1, <2>1, PipelineAssumption DEF MarkCompleted, IInv, TypeOK,
       Backed, InHand
  <2>2. CASE ~MarkCompleted
    BY <1>1, <2>2 DEF Next, Process, CreatePending, SubmitSolution, InsertRow,
       InsertFailed, Publish, PublishRefused,
       ApiRestart, ConsumerLost, DeliveryTimeout, BrokerRestart, Deliver,
       Begin, Discard, Judged, JudgeFailed, MarkFailed, AckCompleted,
       StreamEnded, ProcessorStop, ProcessorStart, vars, rowVars
  <2> QED BY <2>1, <2>2
<1>2. IInv /\ [Next]_vars =>
        [\A s \in Submissions : msg[s] = "acked" => verdict'[s] = verdict[s]]_vars
  BY <1>1
<1> QED BY <1>2, Invariance, PTL DEF Spec, AckedVerdictStands
=============================================================================
