---------------------------- MODULE KafkaEngine ----------------------------
(***************************************************************************)
(* KafkaSyncEngine.run: the resident consumer of one Kafka task, which      *)
(* fetches a batch, writes it to the target and commits the offsets.  A     *)
(* message is a pair of partition and offset; rows are keyed by them, so    *)
(* writing one twice changes nothing.                                      *)
(***************************************************************************)
EXTENDS Naturals, FiniteSets

CONSTANTS
  Partition,
  MaxOffset,     \* bounds the log of a partition
  BatchSize,     \* kafka_batch_size, max_records of a fetch
  Resets,        \* the values of kafka_auto_offset_reset considered
  Poisons,       \* the sets of refused messages considered
  Bound          \* how often each kind of event may happen

Event == {"stop", "write", "commit", "kill"}

ASSUME NumberAssumption == MaxOffset \in Nat /\ BatchSize \in Nat \ {0}
ASSUME ResetAssumption  == Resets \subseteq {"earliest", "latest"}
ASSUME BoundAssumption  == Bound \in [Event -> Nat]
ASSUME PartitionAssumption == IsFiniteSet(Partition)
ASSUME PoisonAssumption == \A s \in Poisons : s \subseteq Partition \X (1 .. MaxOffset)

VARIABLES
  reset,      \* kafka_auto_offset_reset of the task, which no step changes
  poison,     \* messages that fail each time: a tombstone has no bytes to decode,
              \* others the target refuses; no step changes which they are
  end,        \* log end of each partition
  grouped,    \* the group has committed offsets
  committed,  \* offsets of the group, where there are any
  pc,         \* "down", "poll", "ingest", "commit"
  position,   \* how far the consumer has fetched
  batch,      \* messages fetched and not yet written
  stopping,   \* stop_event
  stored,     \* messages with a row in the target
  passed,     \* history: messages a reset to the log end has passed over
  count

vars == <<reset, poison, end, grouped, committed, pc, position, batch, stopping,
          stored, passed, count>>

Offset  == 0 .. MaxOffset
Message == Partition \X (1 .. MaxOffset)

(* The messages of the partitions up to some offsets.                      *)
UpTo(f) == {m \in Message : m[2] <= f[m[1]]}

Happens(e) == /\ count[e] < Bound[e]
              /\ count' = [count EXCEPT ![e] = @ + 1]

Init ==
  /\ reset \in Resets /\ poison \in Poisons
  /\ end = [p \in Partition |-> 0]
  /\ grouped = FALSE
  /\ committed = [p \in Partition |-> 0]
  /\ pc = "down" /\ position = committed /\ batch = {} /\ stopping = FALSE
  /\ stored = {} /\ passed = {}
  /\ count = [e \in Event |-> 0]

-----------------------------------------------------------------------------
Send(p) ==
  /\ end[p] < MaxOffset
  /\ end' = [end EXCEPT ![p] = @ + 1]
  /\ UNCHANGED <<reset, poison, grouped, committed, pc, position, batch, stopping,
                 stored, passed, count>>

\* Mutant of FirstPosition: the group's offsets are not asked for.
ResetPosition ==
  IF reset = "earliest" THEN [p \in Partition |-> 0] ELSE end

(* Where a consumer that joins the group begins.                           *)
FirstPosition ==
  IF grouped THEN committed
  ELSE IF reset = "earliest" THEN [p \in Partition |-> 0] ELSE end

Start ==
  /\ pc = "down"
  /\ pc' = "poll"
  /\ position' = FirstPosition
  /\ stopping' = FALSE
  /\ passed' = passed \cup (UpTo(position') \ UpTo(committed))
  /\ UNCHANGED <<reset, poison, end, grouped, committed, batch, stored, count>>

RequestStop ==
  /\ pc # "down" /\ ~stopping
  /\ Happens("stop")
  /\ stopping' = TRUE
  /\ UNCHANGED <<reset, poison, end, grouped, committed, pc, position, batch, stored,
                 passed>>

-----------------------------------------------------------------------------
(* consumer.stop() in the finally block.                                   *)
Leave == pc' = "down" /\ batch' = {}

NoticeStop ==
  /\ pc = "poll" /\ stopping
  /\ Leave
  /\ UNCHANGED <<reset, poison, end, grouped, committed, position, stopping, stored,
                 passed, count>>

\* Mutant of Fetch: max_records is left out.
FetchAll(to) ==
  /\ pc = "poll" /\ ~stopping
  /\ \A p \in Partition : position[p] <= to[p] /\ to[p] <= end[p]
  /\ batch' = UpTo(to) \ UpTo(position)
  /\ batch' # {}
  /\ position' = to
  /\ pc' = "ingest"
  /\ UNCHANGED <<reset, poison, end, grouped, committed, stopping, stored, passed, count>>

(* getmany: up to BatchSize messages, in the order of their partitions.     *)
Fetch(to) ==
  /\ pc = "poll" /\ ~stopping
  /\ \A p \in Partition : position[p] <= to[p] /\ to[p] <= end[p]
  /\ batch' = UpTo(to) \ UpTo(position)
  /\ Cardinality(batch') \in 1 .. BatchSize
  /\ position' = to
  /\ pc' = "ingest"
  /\ UNCHANGED <<reset, poison, end, grouped, committed, stopping, stored, passed, count>>

\* Mutant of Ingest: an error of the batch is swallowed.
IngestOrNot ==
  /\ pc = "ingest" /\ batch \cap poison = {}
  /\ stored' \in {stored, stored \cup batch}
  /\ pc' = "commit"
  /\ UNCHANGED <<reset, poison, end, grouped, committed, position, batch, stopping,
                 passed, count>>

Ingest ==
  /\ pc = "ingest" /\ batch \cap poison = {}
  /\ stored' = stored \cup batch
  /\ pc' = "commit"
  /\ UNCHANGED <<reset, poison, end, grouped, committed, position, batch, stopping,
                 passed, count>>

\* Mutant of Commit: the log end instead of the position.
CommitEnd ==
  /\ pc = "commit"
  /\ committed' = end /\ grouped' = TRUE
  /\ pc' = "poll" /\ batch' = {}
  /\ UNCHANGED <<reset, poison, end, position, stopping, stored, passed, count>>

(* commit() commits the position of every partition; the loop goes on.      *)
Commit ==
  /\ pc = "commit"
  /\ committed' = position /\ grouped' = TRUE
  /\ pc' = "poll" /\ batch' = {}
  /\ UNCHANGED <<reset, poison, end, position, stopping, stored, passed, count>>

-----------------------------------------------------------------------------
(* An exception ends the consumer.                                         *)

(* One message that cannot be decoded or written fails its whole batch.  No  *)
(* dead letter is kept and nothing committed: after every restart the        *)
(* message is there again.                                                 *)
IngestRefused ==
  /\ pc = "ingest" /\ batch \cap poison # {}
  /\ Leave
  /\ UNCHANGED <<reset, poison, end, grouped, committed, position, stopping,
                 stored, passed, count>>

(* Any other failure of the target, which a later attempt does not meet.     *)
IngestFails ==
  /\ pc = "ingest"
  /\ Happens("write")
  /\ Leave
  /\ UNCHANGED <<reset, poison, end, grouped, committed, position, stopping, stored,
                 passed>>

(* The answer of the broker may be lost after it has committed.             *)
CommitFails ==
  /\ pc = "commit"
  /\ Happens("commit")
  /\ \/ UNCHANGED <<grouped, committed>>
     \/ committed' = position /\ grouped' = TRUE
  /\ Leave
  /\ UNCHANGED <<reset, poison, end, position, stopping, stored, passed>>

(* stop() gives up waiting and cancels the coroutine, or the process dies.  *)
(* The thread of a cancelled write may still write.                         *)
Kill ==
  /\ pc # "down"
  /\ Happens("kill")
  /\ \/ UNCHANGED stored
     \/ /\ pc = "ingest" /\ batch \cap poison = {}
        /\ stored' = stored \cup batch
  /\ Leave
  /\ UNCHANGED <<reset, poison, end, grouped, committed, position, stopping, passed>>

-----------------------------------------------------------------------------
Loop ==
  \/ NoticeStop
  \/ \E to \in [Partition -> Offset] : Fetch(to)
  \/ Ingest
  \/ IngestRefused
  \/ Commit

Next ==
  \/ \E p \in Partition : Send(p)
  \/ Start
  \/ RequestStop
  \/ Loop
  \/ IngestFails
  \/ CommitFails
  \/ Kill

Spec == Init /\ [][Next]_vars

(* The event loop runs the coroutine on, the broker and the target answer   *)
(* after the count, and a consumer that has ended is started again.        *)
FairSpec == Spec /\ WF_vars(Loop) /\ WF_vars(Start)

-----------------------------------------------------------------------------
(* Properties.                                                             *)

(* Type invariant; a batch is what lies between the two offsets.            *)
TypeOK ==
  /\ reset \in Resets /\ poison \in Poisons
  /\ end \in [Partition -> Offset]
  /\ grouped \in BOOLEAN
  /\ committed \in [Partition -> Offset]
  /\ pc \in {"down", "poll", "ingest", "commit"}
  /\ position \in [Partition -> Offset]
  /\ batch \in SUBSET Message /\ Cardinality(batch) <= BatchSize
  /\ pc \in {"down", "poll"} => batch = {}
  /\ stopping \in BOOLEAN
  /\ stored \in SUBSET Message /\ passed \in SUBSET Message
  /\ count \in [Event -> Nat]

(* Every message below the committed offsets is in the target, but for      *)
(* those that a group without offsets passes over by kafka_auto_offset_reset. *)
CommittedIsStored ==
  /\ UpTo(committed) \subseteq stored \cup passed
  /\ reset = "earliest" => passed = {}

(* The engine implements Delivery; in particular the group never goes back. *)
Broker == INSTANCE Delivery
            WITH sent <- UpTo(end), kept <- stored,
                 settled <- UpTo(committed) \ passed
Delivers == Broker!Spec

(* Once no message is sent any more, every message is stored, whatever fails *)
(* in between, but for those that the reset to the log end passes over, and  *)
(* provided no refused message is left to be read: a single one of those     *)
(* stops its consumer for good, and what is behind it never arrives.         *)
EveryMessageStored ==
  <>[](UpTo(end) \cap poison \subseteq passed)
    => <>[](UpTo(end) \subseteq stored \cup passed)
=============================================================================
