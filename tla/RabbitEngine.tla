---------------------------- MODULE RabbitEngine ----------------------------
(***************************************************************************)
(* RabbitMQSyncEngine.run: the resident consumer of one queue.  It buffers  *)
(* deliveries, writes them as a batch and acknowledges them one by one; a   *)
(* batch that cannot be written is given back, or taken apart to find the   *)
(* message at fault, which goes to the dead letter table.                  *)
(*                                                                         *)
(* A delivery is answered on the channel it came over and only once: a      *)
(* second answer, or one after the channel has broken, raises (aio_pika).   *)
(* Messages the client has prefetched count as ready until the loop takes   *)
(* them.                                                                   *)
(***************************************************************************)
EXTENDS Naturals, Sequences, FiniteSets

CONSTANTS
  Message,
  RowOf,        \* the row id of a message: a digest of routing key and body
  Poison,       \* messages the target table does not take
  Prefetch,     \* mq_prefetch_count
  BatchSize,    \* mq_batch_size
  Bound         \* how often each kind of event may happen

(* An OperationalError, another error of a write, of a write to the dead    *)
(* letter table, a lost channel, a stop, a cancelled or killed consumer.    *)
Event == {"database", "write", "burial", "channel", "stop", "kill"}

ASSUME NumberAssumption == Prefetch \in Nat \ {0} /\ BatchSize \in Nat \ {0}
ASSUME PoisonAssumption == Poison \subseteq Message
ASSUME RowAssumption    == DOMAIN RowOf = Message
ASSUME BoundAssumption  == Bound \in [Event -> Nat]

VARIABLES
  ready,      \* messages in the queue
  unacked,    \* messages delivered over the channel and not answered
  settled,    \* messages acknowledged
  channel,    \* number of the channel
  pc,         \* "down", "wait", "ingest", or in one of the Loops
  buffer,     \* deliveries taken, with their channels
  answered,   \* indices of buffer that have been answered
  k,          \* index of buffer in a loop over it
  last,       \* the batch is what was left when the loop ended
  stopping,   \* stop_event
  stored,     \* ids of rows in the target
  dead,       \* messages in mq_dead_letter
  count

brokerVars == <<ready, unacked, settled>>
loopVars   == <<buffer, answered, k, last>>
tableVars  == <<stored, dead>>
vars == <<brokerVars, channel, pc, loopVars, stopping, tableVars, count>>

(* Loops over the buffer: answering all, and message by message.            *)
Loops == {"ack", "nack", "single", "spare", "bury", "seal"}

Delivered == [message : Message, channel : Nat]
sent      == ready \cup unacked \cup settled
Kept(m)   == RowOf[m] \in stored \/ m \in dead

Happens(e) == /\ count[e] < Bound[e]
              /\ count' = [count EXCEPT ![e] = @ + 1]

Init ==
  /\ ready = {} /\ unacked = {} /\ settled = {}
  /\ channel = 0 /\ pc = "down"
  /\ buffer = <<>> /\ answered = {} /\ k = 1 /\ last = FALSE
  /\ stopping = FALSE
  /\ stored = {} /\ dead = {}
  /\ count = [e \in Event |-> 0]

-----------------------------------------------------------------------------
Send(m) ==
  /\ m \notin sent
  /\ ready' = ready \cup {m}
  /\ UNCHANGED <<unacked, settled, channel, pc, loopVars, stopping, tableVars, count>>

Start ==
  /\ pc = "down"
  /\ pc' = "wait"
  /\ channel'  = channel + 1
  /\ stopping' = FALSE
  /\ UNCHANGED <<brokerVars, loopVars, tableVars, count>>

RequestStop ==
  /\ pc # "down" /\ ~stopping
  /\ Happens("stop")
  /\ stopping' = TRUE
  /\ UNCHANGED <<brokerVars, channel, pc, loopVars, tableVars>>

-----------------------------------------------------------------------------
(* Leaving a loop over the buffer.                                         *)

\* Mutant of Clear: the index of the loop is kept.
ClearBuffer == buffer' = <<>> /\ answered' = {} /\ last' = FALSE /\ UNCHANGED k

(* batch.clear(), pending_messages.clear().                                *)
Clear == buffer' = <<>> /\ answered' = {} /\ k' = 1 /\ last' = FALSE

\* Mutant of Close: the connection stays open.
CloseOnly == pc' = "down" /\ Clear /\ UNCHANGED brokerVars

(* connection.close() in the finally block: the broker takes back what it   *)
(* has no answer for.                                                      *)
GiveBack == ready' = ready \cup unacked /\ unacked' = {}
Close ==
  /\ pc' = "down"
  /\ Clear /\ GiveBack
  /\ UNCHANGED settled

(* The next step of the consumer: a loop over the buffer, from its start.   *)
Begin(loop) == pc' = loop /\ k' = 1 /\ UNCHANGED <<buffer, answered, last>>

(* The loop over the buffer has come to its end.                           *)
Ended == k > Len(buffer)
EndLoop ==
  IF last THEN Close ELSE pc' = "wait" /\ Clear /\ UNCHANGED brokerVars

-----------------------------------------------------------------------------
(* async for message in queue_iter.                                        *)

Deliverable == ready # {} /\ Cardinality(unacked) < Prefetch

(* A message comes and completes the batch, or comes after the time of the  *)
(* batch is up: there is no other look at the clock.                        *)
Receive(m) ==
  /\ pc = "wait" /\ ~stopping
  /\ Deliverable /\ m \in ready
  /\ ready'   = ready \ {m}
  /\ unacked' = unacked \cup {m}
  /\ buffer'  = Append(buffer, [message |-> m, channel |-> channel])
  /\ \/ Len(buffer') < BatchSize /\ pc' = "wait"
     \/ pc' = "ingest"
  /\ UNCHANGED <<settled, channel, answered, k, last, stopping, tableVars, count>>

(* The loop looks at stop_event only when a message comes, which it leaves  *)
(* unanswered.                                                             *)
NoticeStop ==
  /\ pc = "wait" /\ stopping
  /\ Deliverable
  /\ IF buffer = <<>>
     THEN Close
     ELSE /\ pc' = "ingest" /\ last' = TRUE
          /\ UNCHANGED <<brokerVars, buffer, answered, k>>
  /\ UNCHANGED <<channel, stopping, tableVars, count>>

-----------------------------------------------------------------------------
(* Writing the batch.                                                      *)

Buffered == {buffer[i].message : i \in DOMAIN buffer}
Rows(S)  == {RowOf[m] : m \in S}

Ingest ==
  /\ pc = "ingest"
  /\ Buffered \cap Poison = {}
  /\ stored' = stored \cup Rows(Buffered)
  /\ Begin("ack")
  /\ UNCHANGED <<brokerVars, channel, stopping, dead, count>>

(* OperationalError: the batch goes back, five seconds later the loop goes  *)
(* on.                                                                     *)
DatabaseDown ==
  /\ pc = "ingest"
  /\ Happens("database")
  /\ Begin("nack")
  /\ UNCHANGED <<brokerVars, channel, stopping, tableVars>>

\* Mutant of IngestFails: the error is logged and the batch acknowledged.
IngestFailsAcked ==
  /\ pc = "ingest"
  /\ \/ Buffered \cap Poison # {} /\ UNCHANGED count
     \/ Happens("write")
  /\ Begin("ack")
  /\ UNCHANGED <<brokerVars, channel, stopping, tableVars>>

(* Any other error: message by message; what was left at the end goes back. *)
IngestFails ==
  /\ pc = "ingest"
  /\ \/ Buffered \cap Poison # {} /\ UNCHANGED count
     \/ Happens("write")
  /\ Begin(IF last THEN "nack" ELSE "single")
  /\ UNCHANGED <<brokerVars, channel, stopping, tableVars>>

-----------------------------------------------------------------------------
(* Answers to the broker.                                                  *)

Item == buffer[k]

(* ack() or nack() of this delivery does not raise.                        *)
Answerable == k \notin answered /\ Item.channel = channel

Ack == /\ settled' = settled \cup {Item.message}
       /\ unacked' = unacked \ {Item.message}
       /\ UNCHANGED ready
Nack == /\ ready'   = ready \cup {Item.message}
        /\ unacked' = unacked \ {Item.message}
        /\ UNCHANGED settled
Answered == /\ answered' = answered \cup {k}
            /\ k' = k + 1
            /\ UNCHANGED <<buffer, last>>

(* An error here is an error of the batch, though it has been written.      *)
AckNext ==
  /\ pc = "ack"
  /\ \/ Ended /\ EndLoop
     \/ /\ ~Ended /\ Answerable
        /\ Ack /\ Answered
        /\ UNCHANGED pc
     \/ /\ ~Ended /\ ~Answerable
        /\ Begin(IF last THEN "nack" ELSE "single")
        /\ UNCHANGED brokerVars
  /\ UNCHANGED <<channel, stopping, tableVars, count>>

(* An error here leaves the engine.                                        *)
NackNext ==
  /\ pc = "nack"
  /\ \/ Ended /\ EndLoop
     \/ /\ ~Ended /\ Answerable
        /\ Nack /\ Answered
        /\ UNCHANGED pc
     \/ ~Ended /\ ~Answerable /\ Close
  /\ UNCHANGED <<channel, stopping, tableVars, count>>

-----------------------------------------------------------------------------
(* Message by message: write and acknowledge, or bury and acknowledge.       *)

SingleNext ==
  /\ pc = "single"
  /\ \/ Ended /\ EndLoop /\ UNCHANGED stored
     \/ /\ ~Ended /\ Item.message \notin Poison
        /\ stored' = stored \cup {RowOf[Item.message]}
        /\ pc' = "spare"
        /\ UNCHANGED <<brokerVars, loopVars>>
  /\ UNCHANGED <<channel, stopping, dead, count>>

\* Mutant of SingleFails: the batch is written again, not the message.
SingleFailsForBatch ==
  /\ pc = "single" /\ ~Ended
  /\ \/ Buffered \cap Poison # {} /\ UNCHANGED count
     \/ Happens("write")
     \/ Happens("database")
  /\ pc' = "bury"
  /\ UNCHANGED <<brokerVars, channel, loopVars, stopping, tableVars>>

SingleFails ==
  /\ pc = "single" /\ ~Ended
  /\ \/ Item.message \in Poison /\ UNCHANGED count
     \/ Happens("write")
     \/ Happens("database")
  /\ pc' = "bury"
  /\ UNCHANGED <<brokerVars, channel, loopVars, stopping, tableVars>>

(* An error of the ACK counts as an error of the message.                   *)
Spare ==
  /\ pc = "spare"
  /\ \/ Answerable /\ Ack /\ Answered /\ pc' = "single"
     \/ ~Answerable /\ pc' = "bury" /\ UNCHANGED <<brokerVars, loopVars>>
  /\ UNCHANGED <<channel, stopping, tableVars, count>>

Bury ==
  /\ pc = "bury"
  /\ dead' = dead \cup {Item.message}
  /\ pc' = "seal"
  /\ UNCHANGED <<brokerVars, channel, loopVars, stopping, stored, count>>

\* Mutant of Seal: the message is not acknowledged.
SealOnly ==
  /\ pc = "seal"
  /\ \/ Answerable /\ Answered /\ pc' = "single" /\ UNCHANGED brokerVars
     \/ ~Answerable /\ Close
  /\ UNCHANGED <<channel, stopping, tableVars, count>>

(* After an error of this ACK the NACK raises too, and leaves the engine.   *)
Seal ==
  /\ pc = "seal"
  /\ \/ Answerable /\ Ack /\ Answered /\ pc' = "single"
     \/ ~Answerable /\ Close
  /\ UNCHANGED <<channel, stopping, tableVars, count>>

BuryFails ==
  /\ pc = "bury"
  /\ Happens("burial")
  /\ \/ Answerable /\ Nack /\ Answered /\ pc' = "single"
     \/ ~Answerable /\ Close
  /\ UNCHANGED <<channel, stopping, tableVars>>

-----------------------------------------------------------------------------
(* The connection is lost and restored: the buffer is not told.             *)
ChannelBreaks ==
  /\ pc # "down"
  /\ Happens("channel")
  /\ GiveBack
  /\ channel' = channel + 1
  /\ UNCHANGED <<settled, pc, loopVars, stopping, tableVars>>

(* The coroutine is cancelled, or the process dies.  A write whose thread   *)
(* goes on is as if this came right after it.                               *)
Kill ==
  /\ pc # "down"
  /\ Happens("kill")
  /\ Close
  /\ UNCHANGED <<channel, stopping, tableVars>>

-----------------------------------------------------------------------------
Flush ==
  \/ Ingest
  \/ IngestFails
  \/ AckNext
  \/ NackNext
  \/ SingleNext
  \/ SingleFails
  \/ Spare
  \/ Bury
  \/ Seal
  \/ BuryFails

Loop ==
  \/ \E m \in Message : Receive(m)
  \/ NoticeStop
  \/ Flush

Next ==
  \/ \E m \in Message : Send(m)
  \/ Start
  \/ RequestStop
  \/ Loop
  \/ DatabaseDown
  \/ ChannelBreaks
  \/ Kill

Spec == Init /\ [][Next]_vars

(* The event loop runs the coroutine on, broker and target answer, and a    *)
(* consumer that has ended is started again, by a user or at a restart.     *)
FairSpec == Spec /\ WF_vars(Loop) /\ WF_vars(Start)

-----------------------------------------------------------------------------
(* Properties.                                                             *)

(* Type invariant; the broker never has more than Prefetch answers due.     *)
TypeOK ==
  /\ ready \in SUBSET Message /\ unacked \in SUBSET Message
  /\ settled \in SUBSET Message
  /\ Cardinality(unacked) <= Prefetch
  /\ channel \in Nat
  /\ pc \in {"down", "wait", "ingest"} \cup Loops
  /\ buffer \in Seq(Delivered) /\ Len(buffer) <= BatchSize
  /\ answered \in SUBSET DOMAIN buffer
  /\ k \in 1 .. Len(buffer) + 1
  /\ pc \in {"spare", "bury", "seal"} => k <= Len(buffer)
  /\ last \in BOOLEAN /\ stopping \in BOOLEAN
  /\ stored \subseteq Rows(Message) /\ dead \in SUBSET Message
  /\ count \in [Event -> Nat]

(* The engine implements Delivery: what is acknowledged has been written,   *)
(* as a row or as a dead letter.                                           *)
Target == INSTANCE Delivery WITH kept <- {m \in sent : Kept(m)}
Delivers == Target!Spec

(* Every message whose answer is due is in the buffer, to be answered yet:  *)
(* none is forgotten, which would take up a place of the prefetch window     *)
(* until the connection ends.                                              *)
AnswerDue ==
  \A m \in unacked : \E i \in DOMAIN buffer :
    /\ buffer[i] = [message |-> m, channel |-> channel]
    /\ i \notin answered
    /\ pc \in Loops => i >= k

Never(events) == \A e \in events : count[e] = 0

(* Good messages do not become dead letters, while writes do not fail and   *)
(* the channel holds.                                                      *)
GoodNotBuried ==
  Never({"database", "write", "channel"}) => dead \subseteq Poison

(* The queue is emptied again and again, poison or not, if a batch is       *)
(* within the prefetch window.                                             *)
QueueEmptied == Prefetch >= BatchSize => []<>(ready = {})
=============================================================================
