----------------------------- MODULE KafkaProofs -----------------------------
(* Proofs about KafkaEngine, for any partitions, batch size, resets, refused  *)
(* messages and bounds: what is committed is stored, and the engine          *)
(* implements Delivery.                                                    *)
EXTENDS KafkaEngine, FiniteSetTheorems, TLAPS

-----------------------------------------------------------------------------
(* Offsets.                                                                *)

Below(f, g) == \A p \in Partition : f[p] <= g[p]

LEMMA UpToGrows ==
  ASSUME NEW f \in [Partition -> Offset], NEW g \in [Partition -> Offset],
         Below(f, g)
  PROVE  UpTo(f) \subseteq UpTo(g)
<1> SUFFICES ASSUME NEW m \in UpTo(f) PROVE m \in UpTo(g)
  OBVIOUS
<1>1. m \in Message /\ m[1] \in Partition /\ m[2] \in 1 .. MaxOffset
  BY DEF UpTo, Message
<1>2. m[2] <= f[m[1]] /\ f[m[1]] <= g[m[1]]
  BY <1>1 DEF UpTo, Below
<1>3. f[m[1]] \in 0 .. MaxOffset /\ g[m[1]] \in 0 .. MaxOffset
  BY <1>1 DEF Offset
<1>4. m[2] <= g[m[1]]
  BY <1>1, <1>2, <1>3, NumberAssumption
<1> QED
  BY <1>1, <1>4 DEF UpTo

LEMMA UpToNone == UpTo([p \in Partition |-> 0]) = {}
<1>1. ASSUME NEW m \in UpTo([p \in Partition |-> 0]) PROVE FALSE
  <2>1. m[1] \in Partition /\ m[2] \in 1 .. MaxOffset
    BY DEF UpTo, Message
  <2>2. m[2] <= 0
    BY <2>1 DEF UpTo
  <2> QED
    BY <2>1, <2>2, NumberAssumption
<1> QED
  BY <1>1

-----------------------------------------------------------------------------
(* The inductive invariant.                                                *)

(* What of the type invariant the other parts need.                         *)
Typed ==
  /\ reset \in Resets /\ poison \in Poisons
  /\ end \in [Partition -> Offset]
  /\ grouped \in BOOLEAN
  /\ committed \in [Partition -> Offset]
  /\ pc \in {"down", "poll", "ingest", "commit"}
  /\ position \in [Partition -> Offset]
  /\ stored \in SUBSET Message /\ passed \in SUBSET Message
  /\ batch \in SUBSET Message

(* Offsets do not overtake each other; a group without offsets has none.    *)
Ordered ==
  /\ Below(committed, end) /\ Below(position, end)
  /\ pc # "down" => Below(committed, position)
  /\ ~grouped => committed = [p \in Partition |-> 0]

(* Nothing is written that has not been sent.                               *)
Sent == stored \subseteq UpTo(end) /\ batch \subseteq UpTo(end)

(* What the consumer has fetched is stored, passed over or in the batch.     *)
Accounted ==
  /\ pc = "ingest" => UpTo(position) \subseteq stored \cup passed \cup batch
  /\ pc \in {"poll", "commit"} => UpTo(position) \subseteq stored \cup passed

KafkaInv == Typed /\ Ordered /\ Sent /\ Accounted /\ CommittedIsStored

LEMMA InitInv == Init => KafkaInv
<1> SUFFICES ASSUME Init PROVE KafkaInv
  OBVIOUS
<1>1. 0 \in Offset
  BY NumberAssumption DEF Offset
<1>2. Typed
  BY <1>1 DEF Init, Typed
<1>3. Ordered
  BY DEF Init, Ordered, Below
<1>4. Sent /\ Accounted
  BY DEF Init, Sent, Accounted
<1>5. CommittedIsStored
  BY UpToNone DEF Init, CommittedIsStored
<1> QED
  BY <1>2, <1>3, <1>4, <1>5 DEF KafkaInv

-----------------------------------------------------------------------------
(* Each action preserves it.                                               *)

LEMMA SendInv ==
  ASSUME KafkaInv, NEW p \in Partition, Send(p)
  PROVE  KafkaInv'
<1>1. end' \in [Partition -> Offset] /\ Below(end, end')
  <2>1. end[p] \in 0 .. MaxOffset /\ end[p] < MaxOffset
    BY DEF KafkaInv, Typed, Send, Offset
  <2>2. end[p] + 1 \in 0 .. MaxOffset
    BY <2>1, NumberAssumption
  <2>3. end' \in [Partition -> Offset]
    BY <2>2 DEF KafkaInv, Typed, Send, Offset
  <2>4. \A q \in Partition : end[q] \in 0 .. MaxOffset /\ end'[q] \in {end[q], end[q] + 1}
    BY DEF KafkaInv, Typed, Send, Offset
  <2>5. Below(end, end')
    BY <2>4, NumberAssumption DEF Below
  <2> QED
    BY <2>3, <2>5
<1>2. Typed'
  BY <1>1 DEF KafkaInv, Typed, Send
<1>3. Ordered'
  <2>1. \A q \in Partition : /\ end[q] \in 0 .. MaxOffset /\ end'[q] \in 0 .. MaxOffset
                             /\ committed[q] \in 0 .. MaxOffset
                             /\ position[q] \in 0 .. MaxOffset
    BY <1>1 DEF KafkaInv, Typed, Offset
  <2>2. Below(committed, end') /\ Below(position, end')
    BY <1>1, <2>1, NumberAssumption DEF KafkaInv, Ordered, Below
  <2> QED
    BY <2>2 DEF KafkaInv, Ordered, Below, Send
<1>4. Sent'
  <2>1. UpTo(end) \subseteq UpTo(end')
    BY <1>1, UpToGrows DEF KafkaInv, Typed
  <2> QED
    BY <2>1 DEF KafkaInv, Sent, Send, UpTo
<1>5. Accounted' /\ CommittedIsStored'
  BY DEF KafkaInv, Accounted, CommittedIsStored, Send, UpTo
<1> QED
  BY <1>2, <1>3, <1>4, <1>5 DEF KafkaInv

LEMMA StartInv ==
  ASSUME KafkaInv, Start
  PROVE  KafkaInv'
<1> DEFINE zero == [p \in Partition |-> 0]
<1>1. position' \in {committed, zero, end}
  BY DEF Start, FirstPosition
<1>2. zero \in [Partition -> Offset]
  BY NumberAssumption DEF Offset
<1>3. position' \in [Partition -> Offset]
  BY <1>1, <1>2 DEF KafkaInv, Typed
<1>4. Typed'
  BY <1>3 DEF KafkaInv, Typed, Start, UpTo
<1>5. Below(committed, position') /\ Below(position', end)
  <2>1. \A q \in Partition : end[q] \in 0 .. MaxOffset /\ committed[q] \in 0 .. MaxOffset
    BY DEF KafkaInv, Typed, Offset
  <2>2. CASE position' = committed
    BY <2>1, <2>2, NumberAssumption DEF KafkaInv, Ordered, Below
  <2>3. CASE ~grouped /\ position' = zero
    BY <2>1, <2>3, NumberAssumption DEF KafkaInv, Ordered, Below
  <2>4. CASE position' = end
    BY <2>1, <2>4, NumberAssumption DEF KafkaInv, Ordered, Below
  <2> QED
    BY <2>2, <2>3, <2>4 DEF Start, FirstPosition
<1>6. Ordered'
  BY <1>5 DEF KafkaInv, Ordered, Start, Below
<1>7. Sent'
  BY DEF KafkaInv, Sent, Start, UpTo
<1>8. UpTo(committed) \subseteq stored \cup passed
  BY DEF KafkaInv, CommittedIsStored
<1>9. /\ passed' = passed \cup (UpTo(position') \ UpTo(committed))
      /\ stored' = stored /\ committed' = committed /\ reset' = reset
      /\ pc' = "poll"
  BY DEF Start
<1>10. UpTo(position') \subseteq stored' \cup passed'
  BY <1>8, <1>9
<1>11. UpTo(committed)' \subseteq stored' \cup passed'
  BY <1>8, <1>9 DEF UpTo
<1>12. Accounted'
  BY <1>9, <1>10 DEF Accounted, UpTo
<1>13. ASSUME reset = "earliest" PROVE passed' = {}
  <2>1. position' = committed \/ UpTo(position') = {}
    BY <1>13, UpToNone DEF Start, FirstPosition
  <2>2. passed = {}
    BY <1>13 DEF KafkaInv, CommittedIsStored
  <2> QED
    BY <1>9, <2>1, <2>2
<1>14. CommittedIsStored'
  BY <1>9, <1>11, <1>13 DEF CommittedIsStored
<1> QED
  BY <1>4, <1>6, <1>7, <1>12, <1>14 DEF KafkaInv

LEMMA FetchInv ==
  ASSUME KafkaInv, NEW to \in [Partition -> Offset], Fetch(to)
  PROVE  KafkaInv'
<1>1. /\ position' = to /\ batch' = UpTo(to) \ UpTo(position)
      /\ pc = "poll" /\ pc' = "ingest"
      /\ UNCHANGED <<reset, poison, end, grouped, committed, stored, passed>>
      /\ Below(position, to) /\ Below(to, end)
  BY DEF Fetch, Below
<1>2. Typed'
  BY <1>1 DEF KafkaInv, Typed, UpTo
<1>3. Ordered'
  <2>1. \A q \in Partition : /\ position[q] \in 0 .. MaxOffset
                             /\ committed[q] \in 0 .. MaxOffset
                             /\ to[q] \in 0 .. MaxOffset
    BY DEF KafkaInv, Typed, Offset
  <2>2. Below(committed, to)
    BY <1>1, <2>1, NumberAssumption DEF KafkaInv, Ordered, Below
  <2> QED
    BY <1>1, <2>2 DEF KafkaInv, Ordered, Below
<1>4. UpTo(to) \subseteq UpTo(end)
  BY <1>1, UpToGrows DEF KafkaInv, Typed
<1>5. Sent'
  BY <1>1, <1>4 DEF KafkaInv, Sent, UpTo
<1>6. UpTo(position) \subseteq stored \cup passed
  BY <1>1 DEF KafkaInv, Accounted
<1>7. UpTo(to) \subseteq stored' \cup passed' \cup batch'
  BY <1>1, <1>6
<1>8. Accounted'
  BY <1>1, <1>7 DEF Accounted, UpTo
<1>9. CommittedIsStored'
  BY <1>1 DEF KafkaInv, CommittedIsStored, UpTo
<1> QED
  BY <1>2, <1>3, <1>5, <1>8, <1>9 DEF KafkaInv

LEMMA IngestInv ==
  ASSUME KafkaInv, Ingest
  PROVE  KafkaInv'
<1>1. Typed'
  BY DEF KafkaInv, Typed, Ingest
<1>2. Ordered'
  BY DEF KafkaInv, Ordered, Ingest, Below
<1>3. Sent' /\ Accounted' /\ CommittedIsStored'
  BY DEF KafkaInv, Sent, Accounted, CommittedIsStored, Ingest, UpTo
<1> QED
  BY <1>1, <1>2, <1>3 DEF KafkaInv

(* A step that leaves the log, and ends the consumer or begins its next      *)
(* batch: the offsets stay or become the position that is accounted for.     *)
LEMMA TurnInv ==
  ASSUME KafkaInv,
         pc' \in {"down", "poll"}, pc' = "poll" => pc = "commit",
         batch' = {},
         stored' = stored \/ (pc = "ingest" /\ stored' = stored \cup batch),
         \/ UNCHANGED <<grouped, committed>>
         \/ pc = "commit" /\ committed' = position /\ grouped' = TRUE,
         UNCHANGED <<reset, poison, end, position, passed>>
  PROVE  KafkaInv'
<1>1. Typed'
  BY DEF KafkaInv, Typed
<1>2. Ordered'
  <2>1. \A q \in Partition : position[q] \in 0 .. MaxOffset
    BY DEF KafkaInv, Typed, Offset
  <2>2. CASE UNCHANGED <<grouped, committed>>
    BY <2>2 DEF KafkaInv, Ordered, Below
  <2>3. CASE pc = "commit" /\ committed' = position /\ grouped' = TRUE
    BY <2>1, <2>3, NumberAssumption DEF KafkaInv, Ordered, Below
  <2> QED
    BY <2>2, <2>3
<1>3. Sent'
  BY DEF KafkaInv, Sent, UpTo
<1>4. Accounted'
  BY DEF KafkaInv, Accounted, UpTo
<1>5. CommittedIsStored'
  BY DEF KafkaInv, Accounted, CommittedIsStored, UpTo
<1> QED
  BY <1>1, <1>2, <1>3, <1>4, <1>5 DEF KafkaInv

LEMMA StepInv == KafkaInv /\ [Next]_vars => KafkaInv'
<1> SUFFICES ASSUME KafkaInv, [Next]_vars PROVE KafkaInv'
  OBVIOUS
<1>1. ASSUME NEW p \in Partition, Send(p) PROVE KafkaInv'
  BY <1>1, SendInv
<1>2. CASE Start
  BY <1>2, StartInv
<1>3. CASE RequestStop
  BY <1>3 DEF RequestStop, KafkaInv, Typed, Ordered, Sent, Accounted,
              CommittedIsStored, UpTo, Below
<1>4. CASE NoticeStop
  BY <1>4, TurnInv DEF NoticeStop, Leave
<1>5. ASSUME NEW to \in [Partition -> Offset], Fetch(to) PROVE KafkaInv'
  BY <1>5, FetchInv
<1>6. CASE Ingest
  BY <1>6, IngestInv
<1>7. CASE Commit
  BY <1>7, TurnInv DEF Commit
<1>8. CASE IngestRefused \/ IngestFails
  BY <1>8, TurnInv DEF IngestRefused, IngestFails, Leave
<1>9. CASE CommitFails
  BY <1>9, TurnInv DEF CommitFails, Leave
<1>10. CASE Kill
  BY <1>10, TurnInv DEF Kill, Leave
<1>11. CASE UNCHANGED vars
  BY <1>11 DEF vars, KafkaInv, Typed, Ordered, Sent, Accounted,
               CommittedIsStored, UpTo, Below
<1> QED
  BY <1>1, <1>2, <1>3, <1>4, <1>5, <1>6, <1>7, <1>8, <1>9, <1>10, <1>11
     DEF Next, Loop

(* KafkaInv holds in every state.                                           *)
THEOREM Invariance == Spec => []KafkaInv
BY InitInv, StepInv, PTL DEF Spec

(* Every message below the committed offsets has its row, or was passed      *)
(* over by a group that began at the log end: whatever fails, stops or is    *)
(* killed, and in whatever order.                                           *)
THEOREM Committed == Spec => []CommittedIsStored
<1>1. KafkaInv => CommittedIsStored
  BY DEF KafkaInv
<1> QED
  BY <1>1, Invariance, PTL

-----------------------------------------------------------------------------
(* The type invariant.                                                     *)

LEMMA InitTyped == Init => TypeOK
<1> SUFFICES ASSUME Init PROVE TypeOK
  OBVIOUS
<1>1. Typed
  BY InitInv DEF KafkaInv
<1>2. batch = {} /\ Cardinality({}) <= BatchSize
  BY FS_EmptySet, NumberAssumption DEF Init
<1>3. stopping \in BOOLEAN /\ count \in [Event -> Nat]
  BY DEF Init
<1> QED
  BY <1>1, <1>2, <1>3 DEF Typed, TypeOK

LEMMA StepTyped == KafkaInv' /\ TypeOK /\ [Next]_vars => TypeOK'
<1> SUFFICES ASSUME KafkaInv', TypeOK, [Next]_vars PROVE TypeOK'
  OBVIOUS
<1>1. Typed'
  BY DEF KafkaInv
<1>2. count' \in [Event -> Nat]
  <2>1. count' = count \/ \E e \in Event : Happens(e)
    BY DEF Next, Loop, vars, Event, Send, Start, RequestStop, NoticeStop,
           Fetch, Ingest, Commit, IngestRefused, IngestFails, CommitFails, Kill
  <2> QED
    BY <2>1 DEF TypeOK, Happens
<1>3. stopping' \in BOOLEAN
  BY DEF TypeOK, Next, Loop, vars, Send, Start, RequestStop, NoticeStop,
         Fetch, Ingest, Commit, IngestRefused, IngestFails, CommitFails, Kill
<1>4. /\ Cardinality(batch') <= BatchSize
      /\ pc' \in {"down", "poll"} => batch' = {}
  <2>1. Cardinality({}) = 0 /\ BatchSize \in Nat
    BY FS_EmptySet, NumberAssumption
  <2>2. CASE batch' = {}
    BY <2>1, <2>2
  <2>3. CASE batch' = batch /\ (pc' = pc \/ pc = "down" \/ pc' = "commit")
    BY <2>3 DEF TypeOK
  <2>4. ASSUME NEW to \in [Partition -> Offset], Fetch(to)
        PROVE  Cardinality(batch') <= BatchSize /\ pc' = "ingest"
    BY <2>1, <2>4 DEF Fetch
  <2> QED
    BY <2>2, <2>3, <2>4
       DEF Next, Loop, vars, Send, Start, RequestStop, NoticeStop, Ingest,
           Commit, IngestRefused, IngestFails, CommitFails, Kill, Leave
<1> QED
  BY <1>1, <1>2, <1>3, <1>4 DEF Typed, TypeOK

(* Type correctness: in particular a batch is never larger than max_records. *)
THEOREM Typing == Spec => []TypeOK
BY InitTyped, StepTyped, Invariance, PTL DEF Spec

-----------------------------------------------------------------------------
(* The engine implements Delivery.                                         *)

LEMMA UpToNext ==
  ASSUME KafkaInv, NEW p \in Partition, Send(p)
  PROVE  /\ <<p, end[p] + 1>> \in Message \ UpTo(end)
         /\ UpTo(end') = UpTo(end) \cup {<<p, end[p] + 1>>}
<1>1. end[p] \in 0 .. MaxOffset /\ end[p] < MaxOffset
  BY DEF KafkaInv, Typed, Send, Offset
<1>2. \A q \in Partition :
        end'[q] = IF q = p THEN end[p] + 1 ELSE end[q]
  BY DEF KafkaInv, Typed, Send
<1>3. <<p, end[p] + 1>> \in Message
  BY <1>1, NumberAssumption DEF Message
<1>4. <<p, end[p] + 1>> \notin UpTo(end)
  BY <1>1 DEF UpTo
<1>5. ASSUME NEW m \in Message
      PROVE  m[2] <= end'[m[1]] <=> m[2] <= end[m[1]] \/ m = <<p, end[p] + 1>>
  <2>1. PICK q \in Partition, k \in 1 .. MaxOffset : m = <<q, k>>
    BY DEF Message
  <2>2. CASE q = p
    BY <1>1, <1>2, <2>1, <2>2, NumberAssumption
  <2>3. CASE q # p
    BY <1>2, <2>1, <2>3
  <2> QED
    BY <2>2, <2>3
<1> QED
  BY <1>3, <1>4, <1>5 DEF UpTo

LEMMA DeliveryInit == Init => Broker!Init
BY UpToNone DEF Init, Broker!Init

(* Sending is Send; a write, of a batch or of a cancelled thread, is Keep; a  *)
(* commit is Settle; all else changes nothing that Delivery sees.           *)
LEMMA DeliveryStep == KafkaInv /\ KafkaInv' /\ [Next]_vars => [Broker!Next]_(Broker!vars)
<1> SUFFICES ASSUME KafkaInv, KafkaInv', [Next]_vars
             PROVE  Broker!Next \/ UNCHANGED Broker!vars
  OBVIOUS
<1> DEFINE Settled == UpTo(committed) \ passed
<1>1. stored' \subseteq UpTo(end)' /\ Settled' \subseteq stored'
  BY DEF KafkaInv, Sent, CommittedIsStored
<1>2. ASSUME NEW p \in Partition, Send(p) PROVE Broker!Next
  <2>1. UpTo(end)' = UpTo(end')
    BY DEF UpTo
  <2>2. Settled' = Settled /\ stored' = stored
    BY <1>2 DEF Send, UpTo
  <2> QED
    BY <1>2, <2>1, <2>2, UpToNext DEF Broker!Next, Broker!Send
<1>3. ASSUME UNCHANGED <<end, committed, passed>>, stored \subseteq stored'
      PROVE  Broker!Next
  <2>1. UpTo(end)' = UpTo(end) /\ Settled' = Settled
    BY <1>3 DEF UpTo
  <2> QED
    BY <1>1, <1>3, <2>1 DEF Broker!Next, Broker!Keep
<1>4. ASSUME UNCHANGED <<end, stored, passed>>,
             committed' = position, Below(committed, position)
      PROVE  Broker!Next
  <2>1. UpTo(end)' = UpTo(end)
    BY <1>4 DEF UpTo
  <2>2. UpTo(committed) \subseteq UpTo(position)
    BY <1>4, UpToGrows DEF KafkaInv, Typed
  <2>3. UpTo(committed)' = UpTo(position)
    BY <1>4 DEF UpTo
  <2>4. Settled \subseteq Settled'
    BY <1>4, <2>2, <2>3
  <2> QED
    BY <1>1, <1>4, <2>1, <2>4 DEF Broker!Next, Broker!Settle
<1>5. CASE Start
  <2>1. passed' = passed \cup (UpTo(position') \ UpTo(committed))
    BY <1>5 DEF Start
  <2>2. UpTo(end)' = UpTo(end) /\ UpTo(committed)' = UpTo(committed)
    BY <1>5 DEF Start, UpTo
  <2>3. Settled' = Settled
    BY <2>1, <2>2
  <2> QED
    BY <1>5, <2>2, <2>3 DEF Start, Broker!vars
<1>6. CASE Commit
  BY <1>4, <1>6 DEF Commit, KafkaInv, Ordered
<1>7. CASE CommitFails
  BY <1>3, <1>4, <1>7 DEF CommitFails, KafkaInv, Ordered
<1>8. CASE RequestStop \/ NoticeStop \/ IngestRefused \/ IngestFails \/ UNCHANGED vars
  BY <1>3, <1>8 DEF RequestStop, NoticeStop, IngestRefused, IngestFails, vars
<1>9. CASE Ingest \/ Kill
  BY <1>3, <1>9 DEF Ingest, Kill
<1>10. ASSUME NEW to \in [Partition -> Offset], Fetch(to) PROVE Broker!Next
  BY <1>3, <1>10 DEF Fetch
<1> QED
  BY <1>2, <1>5, <1>6, <1>7, <1>8, <1>9, <1>10 DEF Next, Loop

(* KafkaEngine implements Delivery: a message settled with the broker is in   *)
(* the target, and no commit takes one back.                                *)
THEOREM Implementation == Spec => Delivers
<1>1. Init => Broker!Init
  BY DeliveryInit
<1>2. KafkaInv /\ KafkaInv' /\ [Next]_vars => [Broker!Next]_(Broker!vars)
  BY DeliveryStep
<1> QED
  BY <1>1, <1>2, Invariance, PTL DEF Spec, Delivers, Broker!Spec

(* What follows from Delivery alone: at any time, a message the group will   *)
(* not be given again is in the target or was never owed, and nothing is in   *)
(* the target that nobody sent.                                            *)
THEOREM Settled_is_kept == Spec => []Broker!NothingLost
<1>1. Broker!Init => Broker!NothingLost
  BY DEF Broker!Init, Broker!NothingLost
<1>2. Broker!NothingLost /\ [Broker!Next]_(Broker!vars) => Broker!NothingLost'
  BY DEF Broker!NothingLost, Broker!Next, Broker!vars, Broker!Send, Broker!Keep,
         Broker!Settle
<1> QED
  BY <1>1, <1>2, Implementation, PTL DEF Delivers, Broker!Spec
=============================================================================
