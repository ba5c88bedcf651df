---------------------------- MODULE RabbitProofs ----------------------------
(* Proofs about RabbitEngine, for any messages, row ids, prefetch window,     *)
(* batch size and bounds: no answer is forgotten, nothing acknowledged is    *)
(* lost, and good messages are not buried while nothing fails.               *)
EXTENDS RabbitEngine, FiniteSetTheorems, TLAPS

-----------------------------------------------------------------------------
(* The delivery a loop has come to, and the counts.                          *)

LEMMA DeliveredIs ==
  ASSUME NEW d \in Delivered
  PROVE  d.message \in Message /\ d.channel \in Nat
BY DEF Delivered

LEMMA ItemIs ==
  ASSUME TypeOK, k <= Len(buffer)
  PROVE  /\ k \in DOMAIN buffer /\ k \in Nat
         /\ Item \in Delivered /\ Item.message \in Message
         /\ Item.message \in Buffered
         /\ RowOf[Item.message] \in Rows(Message)
<1>1. k \in DOMAIN buffer /\ k \in Nat /\ buffer \in Seq(Delivered)
  BY DEF TypeOK
<1>2. Item \in Delivered /\ Item.message \in Message
  BY <1>1, DeliveredIs DEF Item
<1> QED
  BY <1>1, <1>2 DEF Item, Buffered, Rows

LEMMA BufferedMessages ==
  ASSUME TypeOK
  PROVE  \A i \in DOMAIN buffer : buffer[i] \in Delivered /\ buffer[i].message \in Message
BY DeliveredIs DEF TypeOK

LEMMA CountTyped ==
  ASSUME count \in [Event -> Nat], [Next]_vars
  PROVE  /\ count' \in [Event -> Nat]
         /\ \A e \in Event : count[e] <= count'[e]
<1>1. ASSUME NEW e \in Event, Happens(e)
      PROVE  /\ count' \in [Event -> Nat]
             /\ \A f \in Event : count[f] <= count'[f]
  BY <1>1 DEF Happens
<1>2. UNCHANGED count \/ \E e \in Event : Happens(e)
  BY DEF Next, vars, Send, Start, RequestStop, Loop, Receive, NoticeStop, Flush, Ingest,
         IngestFails, AckNext, NackNext, SingleNext, SingleFails, Spare, Bury, Seal,
         BuryFails, DatabaseDown, ChannelBreaks, Kill, Event
<1> QED
  BY <1>1, <1>2

LEMMA NeverBefore ==
  ASSUME count \in [Event -> Nat], [Next]_vars, NEW E \in SUBSET Event, Never(E)'
  PROVE  Never(E)
BY CountTyped DEF Never

-----------------------------------------------------------------------------
(* Type correctness.  The window of unanswered deliveries is finite, a batch *)
(* under way has room, and a consumer that is down holds nothing.            *)

Held ==
  /\ IsFiniteSet(unacked)
  /\ pc = "wait" => Len(buffer) < BatchSize
  /\ pc = "down" => buffer = <<>> /\ unacked = {}

LEMMA ClearTyped ==
  ASSUME Clear
  PROVE  /\ buffer' \in Seq(Delivered) /\ Len(buffer') = 0 /\ buffer' = <<>>
         /\ answered' \in SUBSET DOMAIN buffer' /\ k' \in 1 .. Len(buffer') + 1
         /\ last' \in BOOLEAN
<1>1. buffer' = <<>> /\ answered' = {} /\ k' = 1 /\ last' = FALSE
  BY DEF Clear
<1>2. buffer' \in Seq(Delivered) /\ Len(buffer') = 0
  BY <1>1
<1>3. last' \in BOOLEAN
  BY <1>1, Zenon
<1>4. answered' \in SUBSET DOMAIN buffer' /\ k' \in 1 .. Len(buffer') + 1
  BY <1>1, <1>2
<1> QED
  BY <1>1, <1>2, <1>3, <1>4

LEMMA InitTyped == Init => TypeOK /\ Held
<1> SUFFICES ASSUME Init PROVE TypeOK /\ Held
  OBVIOUS
<1>1. IsFiniteSet({}) /\ Cardinality({}) = 0
  BY FS_EmptySet
<1>2. /\ buffer \in Seq(Delivered) /\ Len(buffer) = 0
      /\ answered \in SUBSET DOMAIN buffer /\ k \in 1 .. Len(buffer) + 1
  <2>1. buffer = <<>> /\ answered = {} /\ k = 1
    BY DEF Init
  <2>2. buffer \in Seq(Delivered) /\ Len(buffer) = 0
    BY <2>1
  <2> QED
    BY <2>1, <2>2
<1>3. 0 \in Nat /\ count \in [Event -> Nat]
  BY DEF Init
<1>4. IsFiniteSet(unacked) /\ Cardinality(unacked) <= Prefetch
  BY <1>1, NumberAssumption DEF Init
<1>5. buffer = <<>> /\ unacked = {} /\ pc = "down"
  BY DEF Init
<1>6. last \in BOOLEAN /\ stopping \in BOOLEAN
  BY Zenon DEF Init
<1>7. TypeOK
  BY <1>2, <1>3, <1>4, <1>5, <1>6, NumberAssumption DEF Init, TypeOK
<1>8. Held
  BY <1>4, <1>5 DEF Held
<1> QED
  BY <1>7, <1>8

LEMMA StepTyped == TypeOK /\ Held /\ [Next]_vars => TypeOK' /\ Held'
<1> SUFFICES ASSUME TypeOK, Held, [Next]_vars PROVE TypeOK' /\ Held'
  OBVIOUS
<1>1. /\ count' \in [Event -> Nat]
      /\ Cardinality({}) = 0 /\ IsFiniteSet({})
      /\ Prefetch \in Nat /\ BatchSize \in Nat /\ 0 < BatchSize
      /\ Cardinality(unacked) \in Nat
  BY CountTyped, FS_EmptySet, FS_CardinalityType, NumberAssumption DEF TypeOK, Held
<1>2. /\ buffer \in Seq(Delivered) /\ Len(buffer) \in Nat /\ DOMAIN buffer = 1 .. Len(buffer)
      /\ k \in Nat
      /\ <<>> \in Seq(Delivered) /\ Len(<<>>) = 0
  BY DEF TypeOK
<1>3. ASSUME NEW m PROVE IsFiniteSet(unacked \ {m}) /\ Cardinality(unacked \ {m}) <= Prefetch
  <2>1. IsFiniteSet(unacked) /\ Cardinality(unacked) <= Prefetch
    BY DEF TypeOK, Held
  <2>2. /\ IsFiniteSet(unacked \ {m})
        /\ Cardinality(unacked \ {m}) \in {Cardinality(unacked), Cardinality(unacked) - 1}
    BY <2>1, FS_RemoveElement
  <2> QED
    BY <1>1, <2>1, <2>2

(* The consumer leaves, a loop ends, a loop begins, a delivery is answered.  *)
<1>4. ASSUME Close, UNCHANGED <<tableVars, channel, stopping>> PROVE TypeOK' /\ Held'
  <2>1. /\ unacked' = {} /\ ready' \in SUBSET Message /\ settled' \in SUBSET Message
        /\ pc' = "down"
    BY <1>4 DEF Close, GiveBack, TypeOK
  <2>2. Clear /\ Len(buffer') <= BatchSize
    BY <1>1, <1>4, ClearTyped DEF Close
  <2> QED
    BY <1>1, <1>4, <2>1, <2>2, ClearTyped DEF TypeOK, Held, tableVars
<1>5. ASSUME EndLoop, UNCHANGED <<tableVars, channel, stopping>> PROVE TypeOK' /\ Held'
  <2>1. CASE pc' = "wait" /\ Clear /\ UNCHANGED brokerVars
    BY <1>1, <1>5, <2>1, ClearTyped DEF TypeOK, Held, tableVars, brokerVars
  <2> QED
    BY <1>4, <1>5, <2>1 DEF EndLoop
<1>6. ASSUME NEW loop \in {"ack", "nack", "single"}, Begin(loop),
             UNCHANGED <<brokerVars, channel, stopping, dead>>,
             stored' \subseteq Rows(Message)
      PROVE  TypeOK' /\ Held'
  BY <1>1, <1>2, <1>6 DEF Begin, TypeOK, Held, brokerVars, Loops
<1>7. ASSUME k <= Len(buffer), Ack \/ Nack, Answered, pc' \in {"ack", "nack", "single"},
             UNCHANGED <<tableVars, channel, stopping>>
      PROVE  TypeOK' /\ Held'
  <2>1. /\ k \in DOMAIN buffer /\ Item.message \in Message
    BY <1>7, ItemIs
  <2>2. /\ ready' \in SUBSET Message /\ settled' \in SUBSET Message
        /\ unacked' = unacked \ {Item.message}
    BY <1>7, <2>1 DEF Ack, Nack, TypeOK
  <2>3. /\ k' \in 1 .. Len(buffer) + 1 /\ answered' \in SUBSET DOMAIN buffer
        /\ buffer' = buffer /\ last' = last
    BY <1>2, <1>7, <2>1 DEF Answered, TypeOK
  <2>4. unacked' \in SUBSET Message /\ IsFiniteSet(unacked') /\ Cardinality(unacked') <= Prefetch
    BY <1>3, <2>2 DEF TypeOK
  <2> QED
    BY <1>1, <1>7, <2>2, <2>3, <2>4 DEF TypeOK, Held, tableVars, Loops
(* The same delivery is taken one step further.                             *)
<1>8. ASSUME k <= Len(buffer), pc' \in {"spare", "bury", "seal"},
             UNCHANGED <<brokerVars, loopVars, channel, stopping>>,
             stored' \subseteq Rows(Message), dead' \in SUBSET Message
      PROVE  TypeOK' /\ Held'
  BY <1>1, <1>2, <1>8 DEF TypeOK, Held, brokerVars, loopVars, Loops

<1>9. CASE UNCHANGED vars
  BY <1>9 DEF vars, brokerVars, loopVars, tableVars, TypeOK, Held
<1>10. ASSUME NEW m \in Message, Send(m) PROVE TypeOK' /\ Held'
  BY <1>1, <1>10 DEF Send, TypeOK, Held, loopVars, tableVars
<1>11. CASE Start
  <2>1. buffer = <<>> /\ unacked = {} /\ channel' \in Nat /\ pc' = "wait"
    BY <1>11 DEF Start, TypeOK, Held
  <2> QED
    BY <1>1, <1>2, <1>11, <2>1 DEF Start, TypeOK, Held, brokerVars, loopVars, tableVars
<1>12. CASE RequestStop
  BY <1>1, <1>12 DEF RequestStop, TypeOK, Held, brokerVars, loopVars, tableVars
<1>13. ASSUME NEW m \in Message, Receive(m) PROVE TypeOK' /\ Held'
  <2>1. [message |-> m, channel |-> channel] \in Delivered
    BY DEF TypeOK, Delivered
  <2>2. /\ buffer' \in Seq(Delivered) /\ Len(buffer') = Len(buffer) + 1
        /\ DOMAIN buffer \subseteq DOMAIN buffer'
    BY <1>2, <1>13, <2>1 DEF Receive
  <2>3. /\ IsFiniteSet(unacked') /\ Cardinality(unacked') <= Prefetch
        /\ unacked' \in SUBSET Message /\ ready' \in SUBSET Message
    <3>1. IsFiniteSet(unacked) /\ Cardinality(unacked) < Prefetch /\ unacked' = unacked \cup {m}
      BY <1>13 DEF Receive, Deliverable, Held
    <3>2. /\ IsFiniteSet(unacked')
          /\ Cardinality(unacked') \in {Cardinality(unacked), Cardinality(unacked) + 1}
      BY <3>1, FS_AddElement
    <3> QED
      BY <1>1, <1>13, <3>1, <3>2 DEF Receive, TypeOK
  <2>4. Len(buffer') <= BatchSize /\ k \in 1 .. Len(buffer') + 1
    BY <1>1, <1>2, <1>13, <2>2 DEF Receive, TypeOK, Held
  <2> QED
    BY <1>1, <1>13, <2>2, <2>3, <2>4 DEF Receive, TypeOK, Held, tableVars, Loops
<1>14. CASE NoticeStop
  <2>1. CASE Close
    BY <1>4, <1>14, <2>1 DEF NoticeStop
  <2>2. CASE pc' = "ingest" /\ last' = TRUE /\ UNCHANGED <<brokerVars, buffer, answered, k>>
    BY <1>1, <1>2, <1>14, <2>2 DEF NoticeStop, TypeOK, Held, brokerVars, tableVars, Loops
  <2> QED
    BY <1>14, <2>1, <2>2 DEF NoticeStop
<1>15. CASE Ingest
  <2>1. Rows(Buffered) \subseteq Rows(Message)
    BY BufferedMessages DEF Rows, Buffered
  <2> QED
    BY <1>6, <1>15, <2>1 DEF Ingest, TypeOK
<1>16. CASE IngestFails \/ DatabaseDown
  BY <1>6, <1>16 DEF IngestFails, DatabaseDown, TypeOK, tableVars
<1>17. CASE AckNext \/ NackNext
  BY <1>2, <1>4, <1>5, <1>6, <1>7, <1>17 DEF AckNext, NackNext, Ended, TypeOK, tableVars
<1>18. CASE SingleNext
  <2>1. CASE Ended /\ EndLoop /\ UNCHANGED stored
    BY <1>5, <1>18, <2>1 DEF SingleNext, tableVars
  <2>2. CASE ~ Ended /\ stored' = stored \cup {RowOf[Item.message]} /\ pc' = "spare"
             /\ UNCHANGED <<brokerVars, loopVars>>
    BY <1>2, <1>8, <1>18, <2>2, ItemIs DEF SingleNext, Ended, TypeOK
  <2> QED
    BY <1>18, <2>1, <2>2 DEF SingleNext
<1>19. CASE SingleFails
  BY <1>2, <1>8, <1>19 DEF SingleFails, Ended, TypeOK, tableVars
<1>20. CASE Spare
  BY <1>7, <1>8, <1>20 DEF Spare, TypeOK, tableVars
<1>21. CASE Bury
  BY <1>8, <1>21, ItemIs DEF Bury, TypeOK
<1>22. CASE Seal \/ BuryFails
  BY <1>4, <1>7, <1>22 DEF Seal, BuryFails, TypeOK
<1>23. CASE ChannelBreaks
  BY <1>1, <1>23 DEF ChannelBreaks, GiveBack, TypeOK, Held, loopVars, tableVars
<1>24. CASE Kill
  BY <1>4, <1>24 DEF Kill
<1> QED
  BY <1>9, <1>10, <1>11, <1>12, <1>13, <1>14, <1>15, <1>16, <1>17, <1>18, <1>19, <1>20,
     <1>21, <1>22, <1>23, <1>24 DEF Next, Loop, Flush

(* Every variable has its type; in particular the broker never waits for     *)
(* more answers than the prefetch window allows, and no batch outgrows its   *)
(* size.                                                                    *)
THEOREM Typing == Spec => []TypeOK
<1>1. Spec => [](TypeOK /\ Held)
  BY InitTyped, StepTyped, PTL DEF Spec
<1> QED
  BY <1>1, PTL

-----------------------------------------------------------------------------
(* Every answer that is due will be given.                                  *)

(* A delivery in the buffer, unanswered and not passed by a loop.            *)
DueAt(m, i) == /\ i \in DOMAIN buffer
               /\ buffer[i].message = m /\ buffer[i].channel = channel
               /\ i \notin answered
               /\ pc \in Loops => i >= k

Due == \A m \in unacked : \E i : DueAt(m, i)

LEMMA DueIsAnswerDue == TypeOK => (AnswerDue <=> Due)
<1> SUFFICES ASSUME TypeOK, NEW i \in DOMAIN buffer, NEW m
             PROVE  /\ buffer[i] = [message |-> m, channel |-> channel] =>
                         buffer[i].message = m /\ buffer[i].channel = channel
                    /\ buffer[i].message = m /\ buffer[i].channel = channel =>
                         buffer[i] = [message |-> m, channel |-> channel]
  BY DEF AnswerDue, Due, DueAt
<1>1. buffer[i] \in Delivered
  BY BufferedMessages
<1> QED
  BY <1>1 DEF Delivered

LEMMA DueStep == TypeOK /\ Held /\ Due /\ [Next]_vars => Due'
<1> SUFFICES ASSUME TypeOK, Held, Due, [Next]_vars PROVE Due'
  OBVIOUS
<1>1. /\ buffer \in Seq(Delivered) /\ Len(buffer) \in Nat /\ DOMAIN buffer = 1 .. Len(buffer)
      /\ k \in Nat
  BY DEF TypeOK
<1>2. ASSUME unacked' = {} PROVE Due'
  BY <1>2 DEF Due
<1>3. ASSUME Close PROVE Due'
  BY <1>2, <1>3 DEF Close, GiveBack
<1>4. ASSUME UNCHANGED <<unacked, buffer, channel, answered>>,
             pc' \in Loops => \/ k' = 1
                              \/ k' = k /\ pc \in Loops
      PROVE  Due'
  <2>1. \A m, i : DueAt(m, i) => DueAt(m, i)'
    BY <1>1, <1>4 DEF DueAt
  <2> QED
    BY <1>4, <2>1 DEF Due
(* A loop that has come to its end has answered everything.                  *)
<1>5. ASSUME Ended, EndLoop, pc \in Loops PROVE Due'
  <2>1. unacked = {}
    BY <1>1, <1>5 DEF Due, DueAt, Ended
  <2> QED
    BY <1>2, <1>3, <1>5, <2>1 DEF EndLoop, brokerVars
<1>6. ASSUME Ack \/ Nack, Answered, pc \in Loops, pc' \in Loops, UNCHANGED channel
      PROVE  Due'
  <2> SUFFICES ASSUME NEW m \in unacked' PROVE \E i : DueAt(m, i)'
    BY DEF Due
  <2>1. m \in unacked /\ m # Item.message
    BY <1>6 DEF Ack, Nack
  <2>2. PICK i : DueAt(m, i)
    BY <2>1 DEF Due
  <2>3. i # k /\ i >= k /\ i \in DOMAIN buffer
    BY <1>6, <2>1, <2>2 DEF DueAt, Item
  <2>4. DueAt(m, i)'
    BY <1>1, <1>6, <2>2, <2>3 DEF DueAt, Answered
  <2> QED
    BY <2>4
<1>7. CASE UNCHANGED vars
  BY <1>4, <1>7 DEF vars, brokerVars, loopVars
<1>8. ASSUME NEW m \in Message, Send(m) PROVE Due'
  BY <1>4, <1>8 DEF Send, loopVars
<1>9. CASE Start
  BY <1>2, <1>9 DEF Start, brokerVars, Held
<1>10. CASE RequestStop
  BY <1>4, <1>10 DEF RequestStop, brokerVars, loopVars
<1>11. ASSUME NEW m \in Message, Receive(m) PROVE Due'
  <2> SUFFICES ASSUME NEW n \in unacked' PROVE \E i : DueAt(n, i)'
    BY DEF Due
  <2> DEFINE item == [message |-> m, channel |-> channel]
  <2>1. /\ item \in Delivered /\ item.message = m /\ item.channel = channel
        /\ buffer' = Append(buffer, item) /\ unacked' = unacked \cup {m}
        /\ UNCHANGED <<answered, channel>> /\ pc' \notin Loops
    BY <1>11 DEF Receive, TypeOK, Delivered, Loops
  <2> HIDE DEF item
  <2>2. /\ DOMAIN buffer' = DOMAIN buffer \cup {Len(buffer) + 1}
        /\ \A i \in DOMAIN buffer : buffer'[i] = buffer[i]
        /\ buffer'[Len(buffer) + 1] = item
        /\ Len(buffer) + 1 \notin answered
    <3>1. answered \subseteq DOMAIN buffer
      BY DEF TypeOK
    <3> QED
      BY <1>1, <2>1, <3>1
  <2>3. CASE n = m
    BY <2>1, <2>2, <2>3 DEF DueAt
  <2>4. CASE n \in unacked
    <3>1. PICK i : DueAt(n, i)
      BY <2>4 DEF Due
    <3>2. DueAt(n, i)'
      BY <2>1, <2>2, <3>1 DEF DueAt
    <3> QED
      BY <3>2
  <2> QED
    BY <2>1, <2>3, <2>4
<1>12. CASE NoticeStop
  BY <1>3, <1>4, <1>12 DEF NoticeStop, brokerVars, Loops
<1>13. CASE Ingest \/ IngestFails \/ DatabaseDown
  BY <1>4, <1>13 DEF Ingest, IngestFails, DatabaseDown, Begin, brokerVars
<1>14. CASE AckNext \/ NackNext
  BY <1>3, <1>4, <1>5, <1>6, <1>14 DEF AckNext, NackNext, Begin, brokerVars, Loops
<1>15. CASE SingleNext
  BY <1>4, <1>5, <1>15 DEF SingleNext, brokerVars, loopVars, Loops
<1>16. CASE SingleFails
  BY <1>4, <1>16 DEF SingleFails, brokerVars, loopVars, Loops
<1>17. CASE Spare
  BY <1>4, <1>6, <1>17 DEF Spare, brokerVars, loopVars, Loops
<1>18. CASE Bury
  BY <1>4, <1>18 DEF Bury, brokerVars, loopVars, Loops
<1>19. CASE Seal \/ BuryFails
  BY <1>3, <1>6, <1>19 DEF Seal, BuryFails, Loops
<1>20. CASE ChannelBreaks
  BY <1>2, <1>20 DEF ChannelBreaks, GiveBack
<1>21. CASE Kill
  BY <1>3, <1>21 DEF Kill
<1> QED
  BY <1>7, <1>8, <1>9, <1>10, <1>11, <1>12, <1>13, <1>14, <1>15, <1>16, <1>17, <1>18,
     <1>19, <1>20, <1>21 DEF Next, Loop, Flush

(* Whatever breaks, each unanswered delivery stays in the buffer ahead of the*)
(* loops that answer: no place of the prefetch window is lost until the      *)
(* connection ends.                                                         *)
THEOREM Answers_are_due == Spec => []AnswerDue
<1>1. Init => Due
  BY DEF Init, Due
<1> QED
  BY <1>1, InitTyped, StepTyped, DueStep, DueIsAnswerDue, PTL DEF Spec

-----------------------------------------------------------------------------
(* Nothing acknowledged is lost: the engine implements Delivery.             *)

KeptInv ==
  /\ \A i \in DOMAIN buffer : buffer[i].message \in sent
  /\ settled \subseteq {m \in sent : Kept(m)}
  /\ pc = "ack"   => \A i \in DOMAIN buffer : Kept(buffer[i].message)
  /\ pc = "spare" => Kept(Item.message)
  /\ pc = "seal"  => Kept(Item.message)

LEMMA KeptStays ==
  ASSUME stored \subseteq stored', dead \subseteq dead', NEW m, Kept(m)
  PROVE  Kept(m)'
BY DEF Kept

(* A step that acknowledges nothing, forgets no message and buffers none.    *)
LEMMA KeptInvKept ==
  ASSUME KeptInv, settled' = settled, sent' = sent,
         buffer' = buffer \/ Clear, stored \subseteq stored', dead \subseteq dead',
         (pc = "ack" => \A i \in DOMAIN buffer : Kept(buffer[i].message))',
         (pc \in {"spare", "seal"} => Kept(Item.message))'
  PROVE  KeptInv' /\ Target!Keep
<1>1. \A m : Kept(m) => Kept(m)'
  BY KeptStays
<1>2. \A i \in DOMAIN buffer' : buffer'[i].message \in sent'
  <2>1. CASE buffer' = buffer
    BY <2>1 DEF KeptInv
  <2>2. CASE Clear
    BY <2>2, ClearTyped
  <2> QED
    BY <2>1, <2>2
<1>3. settled' \subseteq {m \in sent : Kept(m)}'
  BY <1>1 DEF KeptInv
<1>4. Target!Keep
  BY <1>1 DEF Target!Keep
<1> QED
  BY <1>2, <1>3, <1>4 DEF KeptInv

(* The step of Delivery that every step of the engine takes.                 *)
LEMMA KeptInvStep ==
  TypeOK /\ Held /\ KeptInv /\ [Next]_vars => KeptInv' /\ [Target!Next]_(Target!vars)
<1> DEFINE Goal == KeptInv' /\ [Target!Next]_(Target!vars)
<1> SUFFICES ASSUME TypeOK, Held, KeptInv, [Next]_vars PROVE Goal
  OBVIOUS
<1>1. /\ buffer \in Seq(Delivered) /\ DOMAIN buffer = 1 .. Len(buffer) /\ k \in Nat
      /\ Len(buffer) \in Nat
  BY DEF TypeOK
<1>2. ASSUME KeptInv', Target!Keep PROVE Goal
  BY <1>2 DEF Target!Next
<1>3. ASSUME settled' = settled, sent' = sent, buffer' = buffer \/ Clear,
             stored \subseteq stored', dead \subseteq dead', pc' \notin {"ack", "spare", "seal"}
      PROVE  Goal
  BY <1>2, <1>3, KeptInvKept
<1>4. ASSUME Close, UNCHANGED tableVars PROVE Goal
  BY <1>3, <1>4 DEF Close, GiveBack, sent, tableVars
<1>5. ASSUME EndLoop, UNCHANGED tableVars PROVE Goal
  BY <1>3, <1>4, <1>5 DEF EndLoop, brokerVars, sent, tableVars
<1>6. k <= Len(buffer) => Item.message \in sent
  BY <1>1, ItemIs DEF KeptInv, Item
<1>7. ASSUME k <= Len(buffer), Nack, Answered, UNCHANGED tableVars,
             pc' \notin {"ack", "spare", "seal"}
      PROVE  Goal
  <2>1. sent' = sent /\ settled' = settled
    BY <1>6, <1>7 DEF Nack, sent
  <2> QED
    BY <1>3, <1>7, <2>1 DEF Answered, tableVars
(* What is acknowledged has been kept.                                      *)
<1>8. ASSUME k <= Len(buffer), Ack, Answered, UNCHANGED tableVars,
             Kept(Item.message), pc' \in {pc, "single"}, pc' \notin {"spare", "seal"}
      PROVE  Goal
  <2>1. sent' = sent /\ settled' = settled \cup {Item.message} /\ buffer' = buffer
    BY <1>6, <1>8 DEF Ack, Answered, sent
  <2>2. \A m : Kept(m)' <=> Kept(m)
    BY <1>8 DEF Kept, tableVars
  <2>3. {m \in sent : Kept(m)}' = {m \in sent : Kept(m)}
    BY <2>1, <2>2
  <2>4. settled' \subseteq {m \in sent : Kept(m)}
    BY <1>6, <1>8, <2>1 DEF KeptInv
  <2>5. KeptInv'
    BY <1>8, <2>1, <2>2, <2>4 DEF KeptInv
  <2>6. Target!Settle
    BY <2>1, <2>3, <2>4 DEF Target!Settle
  <2> QED
    BY <2>5, <2>6 DEF Target!Next
<1>9. ASSUME UNCHANGED <<brokerVars, buffer, dead>>, stored \subseteq stored',
             pc' \notin {"ack", "spare", "seal"}
      PROVE  Goal
  BY <1>3, <1>9 DEF brokerVars, sent
<1>10. CASE UNCHANGED vars
  <2>1. \A m : Kept(m)' <=> Kept(m)
    BY <1>10 DEF Kept, vars, tableVars
  <2>2. sent' = sent /\ Item' = Item
    BY <1>10 DEF vars, brokerVars, sent, loopVars, Item
  <2> QED
    BY <1>2, <1>10, <2>1, <2>2, KeptInvKept DEF vars, brokerVars, loopVars, tableVars, KeptInv
<1>11. ASSUME NEW m \in Message, Send(m) PROVE Goal
  <2>1. /\ m \notin sent /\ sent' = sent \cup {m}
        /\ UNCHANGED <<unacked, settled, pc, loopVars, tableVars>>
    BY <1>11 DEF Send, sent
  <2>2. \A n : Kept(n)' <=> Kept(n)
    BY <2>1 DEF Kept, tableVars
  <2>3. Item' = Item /\ buffer' = buffer
    BY <2>1 DEF Item, loopVars
  <2>4. KeptInv'
    BY <2>1, <2>2, <2>3 DEF KeptInv
  <2>5. {n \in sent : Kept(n)}'
          \in {{n \in sent : Kept(n)}, {n \in sent : Kept(n)} \cup {m}}
    BY <2>1, <2>2
  <2>6. Target!Send
    BY <2>1, <2>5 DEF Target!Send
  <2> QED
    BY <2>4, <2>6 DEF Target!Next
<1>12. CASE Start \/ RequestStop
  <2>1. CASE Start
    BY <1>9, <2>1 DEF Start, loopVars, tableVars
  <2>2. CASE RequestStop
    <3>1. UNCHANGED <<brokerVars, loopVars, tableVars, pc>>
      BY <2>2 DEF RequestStop
    <3>2. \A m : Kept(m)' <=> Kept(m)
      BY <3>1 DEF Kept, tableVars
    <3>3. sent' = sent /\ Item' = Item
      BY <3>1 DEF brokerVars, sent, loopVars, Item
    <3> QED
      BY <1>2, <3>1, <3>2, <3>3, KeptInvKept DEF brokerVars, loopVars, tableVars, KeptInv
  <2> QED
    BY <1>12, <2>1, <2>2
<1>13. ASSUME NEW m \in Message, Receive(m) PROVE Goal
  <2> DEFINE item == [message |-> m, channel |-> channel]
  <2>1. /\ item \in Delivered /\ item.message = m
        /\ buffer' = Append(buffer, item) /\ m \in ready
        /\ UNCHANGED <<settled, tableVars>> /\ pc' \in {"wait", "ingest"}
        /\ ready' = ready \ {m} /\ unacked' = unacked \cup {m}
    BY <1>13 DEF Receive, TypeOK, Delivered
  <2> HIDE DEF item
  <2>2. sent' = sent
    BY <2>1 DEF sent
  <2>3. \A i \in DOMAIN buffer' : buffer'[i].message \in sent
    <3>1. m \in sent
      BY <2>1 DEF sent
    <3>2. \A i \in DOMAIN buffer' : \/ i \in DOMAIN buffer /\ buffer'[i] = buffer[i]
                                    \/ buffer'[i] = item
      BY <1>1, <2>1
    <3> QED
      BY <2>1, <3>1, <3>2 DEF KeptInv
  <2>4. \A n : Kept(n)' <=> Kept(n)
    BY <2>1 DEF Kept, tableVars
  <2>5. KeptInv'
    BY <2>1, <2>2, <2>3, <2>4 DEF KeptInv
  <2>6. Target!Keep
    BY <2>1, <2>2, <2>4 DEF Target!Keep
  <2> QED
    BY <1>2, <2>5, <2>6
<1>14. CASE NoticeStop
  <2>1. CASE Close
    BY <1>4, <1>14, <2>1 DEF NoticeStop
  <2>2. CASE pc' = "ingest" /\ last' = TRUE /\ UNCHANGED <<brokerVars, buffer, answered, k>>
    BY <1>9, <1>14, <2>2 DEF NoticeStop, tableVars
  <2> QED
    BY <1>14, <2>1, <2>2 DEF NoticeStop
<1>15. CASE Ingest
  <2>1. /\ stored' = stored \cup Rows(Buffered) /\ dead' = dead /\ pc' = "ack"
        /\ buffer' = buffer /\ UNCHANGED brokerVars
    BY <1>15 DEF Ingest, Begin
  <2>2. \A i \in DOMAIN buffer : Kept(buffer[i].message)'
    BY <2>1 DEF Kept, Rows, Buffered
  <2>3. sent' = sent /\ settled' = settled
    BY <2>1 DEF brokerVars, sent
  <2> QED
    BY <1>2, <2>1, <2>2, <2>3, KeptInvKept
<1>16. CASE IngestFails \/ DatabaseDown
  BY <1>9, <1>16 DEF IngestFails, DatabaseDown, Begin, tableVars
<1>17. CASE AckNext
  <2>1. CASE Ended /\ EndLoop
    BY <1>5, <1>17, <2>1 DEF AckNext
  <2>2. CASE ~ Ended /\ Ack /\ Answered /\ UNCHANGED pc
    <3>1. k <= Len(buffer) /\ Kept(Item.message)
      BY <1>1, <1>17, <2>2, ItemIs DEF AckNext, Ended, KeptInv, Item
    <3> QED
      BY <1>8, <1>17, <2>2, <3>1 DEF AckNext
  <2>3. CASE Begin(IF last THEN "nack" ELSE "single") /\ UNCHANGED brokerVars
    BY <1>9, <1>17, <2>3 DEF AckNext, Begin, tableVars
  <2> QED
    BY <1>17, <2>1, <2>2, <2>3 DEF AckNext
<1>18. CASE NackNext
  BY <1>1, <1>4, <1>5, <1>7, <1>18 DEF NackNext, Ended
<1>19. CASE SingleNext
  <2>1. CASE Ended /\ EndLoop /\ UNCHANGED stored
    BY <1>5, <1>19, <2>1 DEF SingleNext, tableVars
  <2>2. CASE stored' = stored \cup {RowOf[Item.message]} /\ pc' = "spare"
             /\ UNCHANGED <<brokerVars, loopVars>>
    <3>1. Kept(Item.message)' /\ sent' = sent /\ settled' = settled /\ buffer' = buffer
      BY <2>2 DEF Kept, brokerVars, loopVars, sent, Item
    <3> QED
      BY <1>2, <1>19, <2>2, <3>1, KeptInvKept DEF SingleNext
  <2> QED
    BY <1>19, <2>1, <2>2 DEF SingleNext
<1>20. CASE SingleFails
  BY <1>9, <1>20 DEF SingleFails, loopVars, tableVars
<1>21. CASE Spare
  <2>1. CASE Ack /\ Answered /\ pc' = "single"
    <3>1. k <= Len(buffer) /\ Kept(Item.message)
      BY <1>21 DEF Spare, TypeOK, KeptInv
    <3> QED
      BY <1>8, <1>21, <2>1, <3>1 DEF Spare
  <2>2. CASE pc' = "bury" /\ UNCHANGED <<brokerVars, loopVars>>
    BY <1>9, <1>21, <2>2 DEF Spare, loopVars, tableVars
  <2> QED
    BY <1>21, <2>1, <2>2 DEF Spare
<1>22. CASE Bury
  <2>1. /\ dead' = dead \cup {Item.message} /\ stored' = stored /\ pc' = "seal"
        /\ UNCHANGED <<brokerVars, loopVars>>
    BY <1>22 DEF Bury
  <2>2. Kept(Item.message)' /\ sent' = sent /\ settled' = settled /\ buffer' = buffer
    BY <2>1 DEF Kept, brokerVars, loopVars, sent, Item
  <2> QED
    BY <1>2, <2>1, <2>2, KeptInvKept
<1>23. CASE Seal
  <2>1. CASE Ack /\ Answered /\ pc' = "single"
    <3>1. k <= Len(buffer) /\ Kept(Item.message)
      BY <1>23 DEF Seal, TypeOK, KeptInv
    <3> QED
      BY <1>8, <1>23, <2>1, <3>1 DEF Seal
  <2> QED
    BY <1>4, <1>23, <2>1 DEF Seal
<1>24. CASE BuryFails
  BY <1>4, <1>7, <1>24 DEF BuryFails, TypeOK
<1>25. CASE ChannelBreaks
  <2>1. /\ sent' = sent /\ settled' = settled /\ Item' = Item
        /\ UNCHANGED <<pc, loopVars, tableVars>>
    BY <1>25 DEF ChannelBreaks, GiveBack, sent, Item, loopVars
  <2>2. \A m : Kept(m)' <=> Kept(m)
    BY <2>1 DEF Kept, tableVars
  <2> QED
    BY <1>2, <2>1, <2>2, KeptInvKept DEF loopVars, tableVars, KeptInv
<1>26. CASE Kill
  BY <1>4, <1>26 DEF Kill
<1> QED
  BY <1>10, <1>11, <1>12, <1>13, <1>14, <1>15, <1>16, <1>17, <1>18, <1>19, <1>20, <1>21,
     <1>22, <1>23, <1>24, <1>25, <1>26 DEF Next, Loop, Flush

(* Whatever is lost and whenever the consumer dies, what the broker takes    *)
(* for answered has been written: RabbitEngine implements Delivery.          *)
THEOREM Implementation == Spec => Delivers
<1>1. Init => KeptInv /\ Target!Init
  <2> SUFFICES ASSUME Init PROVE KeptInv /\ Target!Init
    OBVIOUS
  <2>1. sent = {} /\ settled = {} /\ buffer = <<>> /\ pc = "down" /\ {m \in sent : Kept(m)} = {}
    BY DEF Init, sent
  <2> QED
    BY <2>1 DEF KeptInv, Target!Init
<1> QED
  BY <1>1, InitTyped, StepTyped, KeptInvStep, PTL DEF Spec, Delivers, Target!Spec

(* What follows from Delivery alone: at any time, a message the broker takes  *)
(* for answered has its row or its dead letter, and nothing has one that     *)
(* nobody sent.                                                            *)
THEOREM Settled_is_kept == Spec => []Target!NothingLost
<1>1. Target!Init => Target!NothingLost
  BY DEF Target!Init, Target!NothingLost
<1>2. Target!NothingLost /\ [Target!Next]_(Target!vars) => Target!NothingLost'
  BY DEF Target!NothingLost, Target!Next, Target!vars, Target!Send, Target!Keep,
         Target!Settle
<1> QED
  BY <1>1, <1>2, Implementation, PTL DEF Delivers, Target!Spec

-----------------------------------------------------------------------------
(* Good messages are not buried.                                             *)

(* While nothing fails, a loop has answered what it has passed, and nothing  *)
(* else, so that no answer is refused.                                      *)
GoodPart ==
  /\ \A i \in DOMAIN buffer : buffer[i].channel = channel
  /\ pc \in Loops    => \A i \in answered : i < k
  /\ pc \notin Loops => answered = {}
  /\ pc \in {"bury", "seal"} => Item.message \in Poison
  /\ dead \subseteq Poison

Failures == {"database", "write", "channel"}
GoodInv  == Never(Failures) => GoodPart

LEMMA GoodInvStep == TypeOK /\ Held /\ GoodInv /\ [Next]_vars => GoodInv'
<1> SUFFICES ASSUME TypeOK, Held, GoodInv, [Next]_vars, Never(Failures)'
             PROVE  GoodPart'
  BY DEF GoodInv
<1>1. /\ buffer \in Seq(Delivered) /\ DOMAIN buffer = 1 .. Len(buffer) /\ k \in Nat
      /\ Len(buffer) \in Nat /\ answered \subseteq DOMAIN buffer /\ k >= 1
  BY DEF TypeOK
<1>2. /\ Never(Failures) /\ GoodPart /\ Failures \subseteq Event
      /\ count \in [Event -> Nat] /\ count' \in [Event -> Nat]
  <2>1. Failures \in SUBSET Event /\ count \in [Event -> Nat]
    BY DEF Failures, Event, TypeOK
  <2> QED
    BY <2>1, CountTyped, NeverBefore DEF GoodInv
<1>3. ASSUME NEW e \in Failures, Happens(e) PROVE FALSE
  <2>1. e \in Event /\ count[e] = 0 /\ count'[e] = 0
    BY <1>2 DEF Never
  <2> QED
    BY <1>2, <1>3, <2>1 DEF Happens
(* No answer is refused.                                                    *)
<1>4. pc \in Loops /\ k <= Len(buffer) => Answerable
  BY <1>1, <1>2 DEF GoodPart, Answerable, Item
<1>5. ASSUME Clear, pc' \notin Loops, dead' = dead PROVE GoodPart'
  BY <1>2, <1>5, ClearTyped DEF Clear, GoodPart, Loops
<1>6. ASSUME Close, dead' = dead PROVE GoodPart'
  BY <1>5, <1>6 DEF Close, Loops
<1>7. ASSUME EndLoop, dead' = dead PROVE GoodPart'
  BY <1>5, <1>6, <1>7 DEF EndLoop, Loops
<1>8. ASSUME NEW loop \in {"ack", "nack", "single"}, Begin(loop), pc = "ingest",
             UNCHANGED <<channel, dead>>
      PROVE  GoodPart'
  BY <1>2, <1>8 DEF Begin, GoodPart, Loops
<1>9. ASSUME pc \in Loops, k <= Len(buffer), Answered, pc' \in {"ack", "nack", "single"},
             UNCHANGED <<channel, dead>>
      PROVE  GoodPart'
  BY <1>1, <1>2, <1>9 DEF Answered, GoodPart, Loops
<1>10. CASE UNCHANGED <<channel, pc, loopVars, dead>>
  BY <1>2, <1>10 DEF loopVars, GoodPart, Item
<1>11. CASE UNCHANGED vars \/ (\E m \in Message : Send(m)) \/ RequestStop
  BY <1>10, <1>11 DEF vars, Send, RequestStop, tableVars
<1>12. CASE Start
  BY <1>2, <1>12 DEF Start, Held, loopVars, tableVars, GoodPart, Loops
<1>13. ASSUME NEW m \in Message, Receive(m) PROVE GoodPart'
  <2> DEFINE item == [message |-> m, channel |-> channel]
  <2>1. /\ item \in Delivered /\ item.channel = channel
        /\ buffer' = Append(buffer, item)
        /\ UNCHANGED <<channel, answered, dead>>
        /\ pc \notin Loops /\ pc' \notin Loops
    BY <1>13 DEF Receive, TypeOK, Delivered, tableVars, Loops
  <2> HIDE DEF item
  <2>2. \A i \in DOMAIN buffer' : \/ i \in DOMAIN buffer /\ buffer'[i] = buffer[i]
                                  \/ buffer'[i] = item
    BY <1>1, <2>1
  <2> QED
    BY <1>2, <2>1, <2>2 DEF GoodPart, Loops
<1>14. CASE NoticeStop
  BY <1>2, <1>6, <1>14 DEF NoticeStop, tableVars, GoodPart, Loops
<1>15. CASE Ingest \/ IngestFails
  BY <1>8, <1>15 DEF Ingest, IngestFails, tableVars
<1>16. CASE DatabaseDown
  BY <1>3, <1>16 DEF DatabaseDown, Failures
<1>17. CASE AckNext \/ NackNext
  BY <1>1, <1>4, <1>7, <1>9, <1>17 DEF AckNext, NackNext, Ended, tableVars, Loops
<1>18. CASE SingleNext
  BY <1>2, <1>7, <1>18 DEF SingleNext, loopVars, GoodPart, Loops
<1>19. CASE SingleFails
  <2>1. Item.message \in Poison
    BY <1>3, <1>19 DEF SingleFails, Failures
  <2> QED
    BY <1>2, <1>19, <2>1 DEF SingleFails, loopVars, tableVars, GoodPart, Loops, Item
<1>20. CASE Spare
  <2>1. Answerable /\ k <= Len(buffer)
    BY <1>4, <1>20 DEF Spare, TypeOK, Loops
  <2> QED
    BY <1>9, <1>20, <2>1 DEF Spare, tableVars, Loops
<1>21. CASE Bury
  BY <1>2, <1>21 DEF Bury, loopVars, GoodPart, Loops, Item
<1>22. CASE Seal \/ BuryFails
  <2>1. k <= Len(buffer) /\ pc \in Loops
    BY <1>22 DEF Seal, BuryFails, TypeOK, Loops
  <2> QED
    BY <1>6, <1>9, <1>22, <2>1 DEF Seal, BuryFails, tableVars
<1>23. CASE ChannelBreaks
  BY <1>3, <1>23 DEF ChannelBreaks, Failures
<1>24. CASE Kill
  BY <1>6, <1>24 DEF Kill, tableVars
<1> QED
  BY <1>11, <1>12, <1>13, <1>14, <1>15, <1>16, <1>17, <1>18, <1>19, <1>20, <1>21, <1>22,
     <1>23, <1>24 DEF Next, Loop, Flush

(* A good message goes to the dead letters only after a failed write or an   *)
(* answer that a lost channel has refused: a poison message next to it in    *)
(* its batch, a stop or a restart never buries it.                          *)
THEOREM Good_messages_are_spared == Spec => []GoodNotBuried
<1>1. Init => GoodInv
  BY DEF Init, GoodInv, GoodPart, Loops
<1>2. GoodInv => GoodNotBuried
  BY DEF GoodInv, GoodPart, GoodNotBuried, Failures
<1> QED
  BY <1>1, <1>2, InitTyped, StepTyped, GoodInvStep, PTL DEF Spec
=============================================================================
