--------------------------- MODULE ConsumerProofs ---------------------------
(* Proofs about the resident consumers.  First ConsumerManager, for any       *)
(* callers, numbers of consumers and bounds: who can stop the consumers of a *)
(* task, and type correctness.  Then MqttEngine, for any messages, batch     *)
(* sizes and bounds: what it takes to lose a message.                       *)
EXTENDS ConsumerManager, MqttEngine, FiniteSetTheorems, TLAPS

-----------------------------------------------------------------------------
(* The inductive invariant.                                                *)

(* What of the type invariant the other parts need; the bound on born is of  *)
(* no concern to them.                                                     *)
Typed ==
  /\ startWaits \in BOOLEAN /\ overlapped \in BOOLEAN
  /\ born \in Nat
  /\ live \in SUBSET (1 .. born)
  /\ registered \in live \cup {0}
  /\ waiting \in [Caller -> Nat]

(* Only calls that wait can overlap, and Kafka's do not.                     *)
KafkaAlone ==
  ~startWaits => ~overlapped /\ \A c \in Caller : waiting[c] = 0

(* As long as calls do not overlap, one waits, for the only consumer.        *)
OneWaits ==
  ~overlapped =>
    \A c \in Caller : waiting[c] # 0 =>
      /\ live \subseteq {waiting[c]}
      /\ \A d \in Caller : waiting[d] # 0 => c = d

Registered == ~overlapped => live \subseteq {registered}

ManagerInv == Typed /\ KafkaAlone /\ OneWaits /\ Registered

LEMMA InitInv == Init => ManagerInv
<1> SUFFICES ASSUME Init PROVE ManagerInv
  OBVIOUS
<1>1. Typed
  <2>1. waiting = [c \in Caller |-> 0] /\ live = {} /\ registered = 0
    BY DEF Init
  <2>2. born = 0 /\ startWaits \in BOOLEAN /\ overlapped \in BOOLEAN
    BY StartAssumption DEF Init
  <2> QED
    BY <2>1, <2>2 DEF Typed
<1>2. KafkaAlone /\ OneWaits /\ Registered
  BY DEF Init, KafkaAlone, OneWaits, Registered
<1> QED
  BY <1>1, <1>2 DEF ManagerInv

-----------------------------------------------------------------------------
(* Each action preserves it.                                               *)

(* One consumer more, whose number none has had: the others have ended.      *)
LEMMA CreateTyped ==
  ASSUME Typed, Create, UNCHANGED startWaits,
         overlapped' \in BOOLEAN, waiting' \in [Caller -> Nat]
  PROVE  Typed' /\ (live = {} => live' = {registered'})
<1>1. born' = born + 1 /\ live' = live \cup {born + 1} /\ registered' = born + 1
  BY DEF Create
<1>2. born \in Nat /\ live \subseteq 1 .. born
  BY DEF Typed
<1>3. born' \in Nat /\ live' \subseteq 1 .. born'
  BY <1>1, <1>2
<1> QED
  BY <1>1, <1>3 DEF Typed

LEMMA StartInv ==
  ASSUME ManagerInv, NEW c \in Caller, Start(c)
  PROVE  ManagerInv'
<1>1. /\ overlapped' \in BOOLEAN
      /\ ~overlapped' <=> ~overlapped /\ \A d \in Caller : waiting[d] = 0
      /\ startWaits' = startWaits
  BY DEF Start, ManagerInv, Typed
<1>2. CASE ~IsRunning /\ Create /\ UNCHANGED waiting
  <2>1. Typed' /\ (live = {} => live' = {registered'})
    BY <1>1, <1>2, CreateTyped DEF ManagerInv, Typed
  <2>2. ~overlapped' => live = {}
    BY <1>1, <1>2 DEF IsRunning, ManagerInv, Registered
  <2>3. OneWaits' /\ Registered'
    BY <1>1, <1>2, <2>1, <2>2 DEF OneWaits, Registered
  <2>4. KafkaAlone'
    BY <1>1, <1>2 DEF ManagerInv, KafkaAlone
  <2> QED
    BY <2>1, <2>3, <2>4 DEF ManagerInv
<1>3. CASE /\ IsRunning /\ startWaits
           /\ waiting' = [waiting EXCEPT ![c] = registered]
           /\ UNCHANGED <<born, live, registered>>
  <2>1. registered \in Nat
    BY DEF ManagerInv, Typed
  <2>2. Typed'
    BY <1>1, <1>3, <2>1 DEF ManagerInv, Typed
  <2>3. KafkaAlone'
    BY <1>1, <1>3 DEF KafkaAlone
  <2>4. OneWaits' /\ Registered'
    BY <1>1, <1>3 DEF ManagerInv, Typed, OneWaits, Registered
  <2> QED
    BY <2>2, <2>3, <2>4 DEF ManagerInv
<1> QED
  BY <1>2, <1>3 DEF Start

LEMMA ResumeInv ==
  ASSUME ManagerInv, NEW c \in Caller, Resume(c)
  PROVE  ManagerInv'
<1>1. /\ waiting[c] # 0 /\ waiting[c] \notin live /\ Create
      /\ waiting' = [waiting EXCEPT ![c] = 0]
      /\ UNCHANGED <<startWaits, overlapped>>
  BY DEF Resume
<1>2. Typed' /\ (live = {} => live' = {registered'})
  BY <1>1, CreateTyped DEF ManagerInv, Typed
<1>3. ~overlapped => live = {} /\ \A d \in Caller : waiting[d] # 0 => d = c
  BY <1>1 DEF ManagerInv, OneWaits
<1>4. ~overlapped' => \A d \in Caller : waiting'[d] = 0
  BY <1>1, <1>3 DEF ManagerInv, Typed
<1>5. OneWaits' /\ Registered'
  BY <1>1, <1>2, <1>3, <1>4 DEF OneWaits, Registered
<1>6. KafkaAlone'
  BY <1>1 DEF ManagerInv, KafkaAlone
<1> QED
  BY <1>2, <1>5, <1>6 DEF ManagerInv

(* A consumer ends, and with it some of the calls that wait.                *)
LEMMA EndInv ==
  ASSUME ManagerInv, NEW i \in live,
         live' = live \ {i}, registered' = 0,
         waiting' \in [Caller -> Nat],
         \A c \in Caller : waiting'[c] \in {0, waiting[c]},
         UNCHANGED <<startWaits, born, overlapped>>
  PROVE  ManagerInv'
<1>1. Typed'
  BY DEF ManagerInv, Typed
<1>2. KafkaAlone'
  BY DEF ManagerInv, KafkaAlone
<1>3. OneWaits'
  BY DEF ManagerInv, OneWaits
<1>4. Registered'
  BY DEF ManagerInv, Registered
<1> QED
  BY <1>1, <1>2, <1>3, <1>4 DEF ManagerInv

LEMMA TimeOutInv ==
  ASSUME ManagerInv, NEW c \in Caller, TimeOut(c)
  PROVE  ManagerInv'
<1>1. /\ waiting[c] \in live
      /\ live' = live \ {waiting[c]} /\ registered' = 0
      /\ UNCHANGED <<startWaits, born, overlapped>>
  BY DEF TimeOut, Pop
<1>2. /\ waiting' \in [Caller -> Nat]
      /\ \A d \in Caller : waiting'[d] \in {0, waiting[d]}
  BY DEF TimeOut, ManagerInv, Typed
<1> QED
  BY <1>1, <1>2, EndInv

LEMMA RestartInv ==
  ASSUME ManagerInv, Restart
  PROVE  ManagerInv'
<1>1. /\ \A c \in Caller : waiting'[c] = 0
      /\ waiting' \in [Caller -> Nat]
      /\ UNCHANGED <<startWaits, overlapped>>
  BY DEF Restart
<1>2. /\ born' \in Nat /\ live' \subseteq 1 .. born'
      /\ registered' \in live' \cup {0} /\ live' \subseteq {registered'}
  BY DEF Restart, ManagerInv, Typed
<1>3. Typed' /\ Registered'
  BY <1>1, <1>2 DEF ManagerInv, Typed, Registered
<1>4. KafkaAlone' /\ OneWaits'
  BY <1>1 DEF ManagerInv, KafkaAlone, OneWaits
<1> QED
  BY <1>3, <1>4 DEF ManagerInv

(* Nobody starts, ends or waits: stop, status, deletion.                     *)
LEMMA QuietInv ==
  ASSUME ManagerInv,
         UNCHANGED <<startWaits, born, live, registered, waiting, overlapped>>
  PROVE  ManagerInv'
BY DEF ManagerInv, Typed, KafkaAlone, OneWaits, Registered

LEMMA StepInv == ManagerInv /\ [Next]_vars => ManagerInv'
<1> SUFFICES ASSUME ManagerInv, [Next]_vars PROVE ManagerInv'
  OBVIOUS
<1>1. ASSUME NEW c \in Caller, Start(c) PROVE ManagerInv'
  BY <1>1, StartInv
<1>2. ASSUME NEW c \in Caller, Resume(c) PROVE ManagerInv'
  BY <1>2, ResumeInv
<1>3. ASSUME NEW c \in Caller, TimeOut(c) PROVE ManagerInv'
  BY <1>3, TimeOutInv
<1>4. CASE Stop \/ Disable \/ Delete
  BY <1>4, QuietInv DEF Stop, Disable, Delete, Tell
<1>5. CASE Enable \/ FinishDelete \/ UNCHANGED vars
  BY <1>5, QuietInv DEF Enable, FinishDelete, vars
<1>6. ASSUME NEW i \in Consumer, End(i) \/ Fail(i) PROVE ManagerInv'
  BY <1>6, EndInv DEF End, Fail, Pop, ManagerInv, Typed
<1>7. CASE Restart
  BY <1>7, RestartInv
<1> QED
  BY <1>1, <1>2, <1>3, <1>4, <1>5, <1>6, <1>7 DEF Next

(* ManagerInv holds in every state.                                         *)
THEOREM Invariance == Spec => []ManagerInv
BY InitInv, StepInv, PTL DEF Spec

(* A task has at most the one consumer that is entered under its id, unless   *)
(* calls of start() overlap; with the Kafka manager they never do.           *)
THEOREM Uniqueness == Spec => []OneConsumer
<1>1. ManagerInv => OneConsumer
  BY DEF ManagerInv, KafkaAlone, Registered, OneConsumer
<1> QED
  BY <1>1, Invariance, PTL

(* Disabling a task tells every consumer of it to stop, unless calls of       *)
(* start() have overlapped.                                                 *)
THEOREM Disabling == Spec => DisableTellsAll
<1>1. ManagerInv /\ [Next]_vars => [Disable /\ ~overlapped => live \subseteq told']_vars
  <2> SUFFICES ASSUME ManagerInv, Disable, ~overlapped
               PROVE  live \subseteq told'
    OBVIOUS
  <2>1. live \subseteq {registered}
    BY DEF ManagerInv, Registered
  <2>2. CASE IsRunning
    BY <2>1, <2>2 DEF Disable, Tell
  <2>3. CASE ~IsRunning
    BY <2>1, <2>3 DEF IsRunning
  <2> QED
    BY <2>2, <2>3
<1> QED
  BY <1>1, Invariance, PTL DEF Spec, DisableTellsAll

-----------------------------------------------------------------------------
(* Type correctness.  A start() is served only if a number is left for its   *)
(* consumer: whoever waits will find one.                                   *)

Waiters == {c \in Caller : waiting[c] # 0}
Numbers == born + Cardinality(Waiters) <= MaxConsumers

LEMMA WaitersFinite ==
  /\ IsFiniteSet(Waiters) /\ Cardinality(Waiters) \in Nat
  /\ IsFiniteSet(Waiters') /\ Cardinality(Waiters') \in Nat
BY CallerAssumption, FS_Subset, FS_CardinalityType DEF Waiters

LEMMA CountTyped ==
  ASSUME count \in [Event -> Nat], [Next]_vars
  PROVE  count' \in [Event -> Nat]
BY DEF Next, vars, Start, Resume, TimeOut, Stop, Disable, Enable, Delete, FinishDelete,
       End, Fail, Restart, Happens, Event

(* One consumer more.                                                       *)
LEMMA CreateTypeOK ==
  ASSUME TypeOK, Create, born' + Cardinality(Waiters') <= MaxConsumers,
         UNCHANGED <<startWaits, task, told, deleting>>,
         waiting' \in [Caller -> 0 .. born'], overlapped' \in BOOLEAN,
         count' \in [Event -> Nat]
  PROVE  TypeOK' /\ Numbers'
<1>1. /\ born \in Nat /\ born' = born + 1 /\ registered' = born'
      /\ live' = live \cup {born'}
  BY NumberAssumption DEF TypeOK, Create
<1>2. born' \in 0 .. MaxConsumers
  BY <1>1, WaitersFinite, NumberAssumption
<1>3. /\ 1 .. born \subseteq 1 .. born' /\ 0 .. born \subseteq 0 .. born'
      /\ born' \in 1 .. born'
  BY <1>1
<1> QED
  BY <1>1, <1>2, <1>3 DEF TypeOK, Numbers

(* One consumer less, or none; and some calls no longer wait.                *)
LEMMA EndTypeOK ==
  ASSUME TypeOK, Numbers, live' \subseteq live, registered' \in live' \cup {0},
         told' \subseteq 1 .. born, deleting' \in 0 .. born,
         task' \in {"enabled", "disabled", "deleted"},
         waiting' \in [Caller -> 0 .. born],
         \A c \in Caller : waiting'[c] \in {0, waiting[c]},
         UNCHANGED <<startWaits, born, overlapped>>, count' \in [Event -> Nat]
  PROVE  TypeOK' /\ Numbers'
<1>1. Waiters' \subseteq Waiters
  BY DEF Waiters
<1>2. Cardinality(Waiters') <= Cardinality(Waiters)
  BY <1>1, WaitersFinite, FS_Subset
<1>3. born \in Nat /\ MaxConsumers \in Nat
  BY NumberAssumption DEF TypeOK
<1>4. Numbers'
  BY <1>2, <1>3, WaitersFinite DEF Numbers
<1> QED
  BY <1>4 DEF TypeOK

LEMMA StepTyped == TypeOK /\ Numbers /\ [Next]_vars => TypeOK' /\ Numbers'
<1> SUFFICES ASSUME TypeOK, Numbers, [Next]_vars PROVE TypeOK' /\ Numbers'
  OBVIOUS
<1>1. /\ count' \in [Event -> Nat] /\ born \in Nat /\ MaxConsumers \in Nat
      /\ overlapped \in BOOLEAN
      /\ waiting \in [Caller -> 0 .. born]
      /\ \A c \in Caller : waiting[c] \in {0, waiting[c]}
      /\ IsRunning => registered \in 1 .. born /\ registered # 0
  BY CountTyped, NumberAssumption DEF TypeOK, IsRunning
<1>2. ASSUME NEW c \in Caller, Start(c) PROVE TypeOK' /\ Numbers'
  <2>1. /\ overlapped' \in BOOLEAN /\ born + Cardinality(Waiters) < MaxConsumers
        /\ waiting[c] = 0
    BY <1>1, <1>2 DEF Start, Room, Waiters
  <2>2. CASE Create /\ UNCHANGED waiting
    <3>1. Waiters' = Waiters /\ born' = born + 1
      BY <2>2 DEF Waiters, Create
    <3>2. born' + Cardinality(Waiters') <= MaxConsumers
      BY <1>1, <2>1, <3>1, WaitersFinite
    <3>3. waiting' \in [Caller -> 0 .. born']
      BY <1>1, <2>2, <3>1
    <3> QED
      BY <1>1, <1>2, <2>1, <2>2, <3>2, <3>3, CreateTypeOK DEF Start
  <2>3. CASE /\ IsRunning
             /\ waiting' = [waiting EXCEPT ![c] = registered]
             /\ UNCHANGED <<born, live, registered>>
    <3>1. waiting' \in [Caller -> 0 .. born] /\ Waiters' = Waiters \cup {c}
      BY <1>1, <2>3 DEF Waiters
    <3>2. Cardinality(Waiters') <= Cardinality(Waiters) + 1
      BY <3>1, WaitersFinite, FS_AddElement
    <3>3. Numbers'
      BY <1>1, <2>1, <2>3, <3>2, WaitersFinite DEF Numbers
    <3> QED
      BY <1>1, <1>2, <2>1, <2>3, <3>1, <3>3 DEF Start, TypeOK
  <2> QED
    BY <1>2, <2>2, <2>3 DEF Start
<1>3. ASSUME NEW c \in Caller, Resume(c) PROVE TypeOK' /\ Numbers'
  <2>1. /\ waiting[c] # 0 /\ Create /\ born' = born + 1
        /\ waiting' = [waiting EXCEPT ![c] = 0]
        /\ UNCHANGED <<startWaits, task, told, deleting, overlapped>>
    BY <1>3 DEF Resume, Create
  <2>2. waiting' \in [Caller -> 0 .. born'] /\ c \in Waiters /\ Waiters' = Waiters \ {c}
    BY <1>1, <2>1 DEF Waiters
  <2>3. Cardinality(Waiters') = Cardinality(Waiters) - 1
    BY <2>2, WaitersFinite, FS_RemoveElement
  <2>4. born' + Cardinality(Waiters') <= MaxConsumers
    BY <1>1, <2>1, <2>3, WaitersFinite DEF Numbers
  <2> QED
    BY <1>1, <2>1, <2>2, <2>4, CreateTypeOK
<1>4. ASSUME NEW c \in Caller, TimeOut(c) PROVE TypeOK' /\ Numbers'
  <2>1. /\ waiting' \in [Caller -> 0 .. born]
        /\ \A d \in Caller : waiting'[d] \in {0, waiting[d]}
    BY <1>1, <1>4 DEF TimeOut
  <2> QED
    BY <1>1, <1>4, <2>1, EndTypeOK DEF TimeOut, Pop, TypeOK
<1>5. CASE Stop \/ Disable \/ Enable \/ Delete \/ FinishDelete
  <2>1. /\ live' = live /\ registered' = registered /\ told' \subseteq 1 .. born
        /\ deleting' \in 0 .. born /\ task' \in {"enabled", "disabled", "deleted"}
        /\ waiting' = waiting /\ UNCHANGED <<startWaits, born, overlapped>>
    <3>1. ASSUME IsRunning, Tell PROVE told' \subseteq 1 .. born /\ registered' = registered
      BY <1>1, <3>1 DEF Tell, TypeOK
    <3>2. told \subseteq 1 .. born /\ deleting \in 0 .. born /\ 0 \in 0 .. born
      BY <1>1 DEF TypeOK
    <3>3. task \in {"enabled", "disabled", "deleted"}
      BY DEF TypeOK
    <3>4. CASE Stop
      BY <3>1, <3>2, <3>3, <3>4 DEF Stop
    <3>5. CASE Disable
      BY <3>1, <3>2, <3>5 DEF Disable
    <3>6. CASE Enable \/ FinishDelete
      BY <3>2, <3>6 DEF Enable, FinishDelete
    <3>7. CASE Delete
      <4>1. IsRunning => registered \in 0 .. born
        BY <1>1
      <4> QED
        BY <3>1, <3>2, <3>3, <3>7, <4>1 DEF Delete
    <3> QED
      BY <1>5, <3>4, <3>5, <3>6, <3>7
  <2> QED
    BY <1>1, <2>1, EndTypeOK DEF TypeOK
<1>6. ASSUME NEW i \in Consumer, End(i) \/ Fail(i) PROVE TypeOK' /\ Numbers'
  BY <1>1, <1>6, EndTypeOK DEF End, Fail, Pop, TypeOK
<1>7. CASE Restart
  <2>1. /\ waiting' = [c \in Caller |-> 0] /\ Waiters' = {}
        /\ UNCHANGED <<startWaits, task, overlapped>> /\ told' = {} /\ deleting' = 0
    BY <1>7 DEF Restart, Waiters
  <2>2. Cardinality(Waiters') = 0
    BY <2>1, FS_EmptySet
  <2>3. \/ born' = born + 1 /\ born < MaxConsumers /\ live' = {born'} /\ registered' = born'
        \/ born' = born /\ live' = {} /\ registered' = 0
    BY <1>7 DEF Restart
  <2>4. /\ born' \in 0 .. MaxConsumers /\ live' \subseteq 1 .. born'
        /\ registered' \in live' \cup {0}
    BY <1>1, <2>3 DEF TypeOK
  <2> QED
    BY <1>1, <2>1, <2>2, <2>4 DEF TypeOK, Numbers
<1>8. CASE UNCHANGED vars
  BY <1>1, <1>8, EndTypeOK DEF vars, TypeOK
<1> QED
  BY <1>2, <1>3, <1>4, <1>5, <1>6, <1>7, <1>8 DEF Next

(* Every variable has its type: in particular the entry of a task is always  *)
(* of a consumer that has not ended, and numbers never run out on a call     *)
(* that waits.                                                              *)
THEOREM Typing == Spec => []TypeOK
<1>1. Init => TypeOK /\ Numbers
  <2> SUFFICES ASSUME Init PROVE TypeOK /\ Numbers
    OBVIOUS
  <2>1. waiting = [c \in Caller |-> 0] /\ Waiters = {} /\ born = 0 /\ Cardinality({}) = 0
    BY FS_EmptySet DEF Init, Waiters
  <2>2. overlapped \in BOOLEAN
    BY Zenon DEF Init
  <2> QED
    BY <2>1, <2>2, NumberAssumption DEF Init, TypeOK, Numbers
<1> QED
  BY <1>1, StepTyped, PTL DEF Spec

-----------------------------------------------------------------------------
(* The consumer of an MQTT task, from its connection to its end: of the      *)
(* three engines the manager starts, the one that acknowledges a message     *)
(* before it is stored.                                                    *)

(* The counts, and what has not happened.                                   *)
LEMMA MqttHappened ==
  ASSUME mqttCount \in [MqttEvent -> Nat], NEW e \in MqttEvent, MqttHappens(e)
  PROVE  /\ mqttCount' \in [MqttEvent -> Nat]
         /\ mqttCount'[e] = mqttCount[e] + 1
         /\ \A f \in MqttEvent : f # e => mqttCount'[f] = mqttCount[f]
BY DEF MqttHappens

LEMMA MqttCountGrows ==
  ASSUME mqttCount \in [MqttEvent -> Nat], [MqttNext]_mqttVars
  PROVE  /\ mqttCount' \in [MqttEvent -> Nat]
         /\ \A e \in MqttEvent : mqttCount[e] <= mqttCount'[e]
<1>1. ASSUME NEW f \in MqttEvent, MqttHappens(f)
      PROVE  /\ mqttCount' \in [MqttEvent -> Nat]
             /\ \A e \in MqttEvent : mqttCount[e] <= mqttCount'[e]
  BY <1>1, MqttHappened
<1>2. UNCHANGED mqttCount \/ \E f \in MqttEvent : MqttHappens(f)
  BY DEF MqttNext, mqttVars, Loop, Send, Arrive, Disconnect,
         Run, RequestStop, Connect, Take, NoticeStop,
         Ingest, Tail, NoticeDisconnect, WriteFails, Rescue,
         Kill, MqttEvent
<1> QED
  BY <1>1, <1>2

LEMMA MqttNeverBefore ==
  ASSUME mqttCount \in [MqttEvent -> Nat], [MqttNext]_mqttVars,
         NEW E \in SUBSET MqttEvent, Never(E)'
  PROVE  Never(E)
BY MqttCountGrows DEF Never

(* Type correctness.  A loop that waits has room in its batch, and one that  *)
(* has left its client has nothing from it.                                 *)

Roomy == IsFiniteSet(batch) /\ (pc = "wait" => Cardinality(batch) < BatchSize)

MqttLeft == pc \in {"tail", "rescue"} => inbox = {} /\ ~connected

MqttTyped == MqttTypeOK /\ Roomy /\ MqttLeft

(* The batch: it grows by one when it has room, is emptied, or stays.        *)
LEMMA MqttBatch ==
  ASSUME MqttTyped, [MqttNext]_mqttVars
  PROVE  Roomy' /\ Cardinality(batch') <= BatchSize
<1>1. /\ BatchSize \in Nat /\ 0 < BatchSize
      /\ IsFiniteSet(batch) /\ Cardinality(batch) \in Nat
      /\ Cardinality(batch) <= BatchSize
      /\ pc = "wait" => Cardinality(batch) < BatchSize
      /\ pc \in {"down", "offline"} => batch = {}
  BY FS_CardinalityType, SizeAssumption
     DEF MqttTyped, Roomy, MqttTypeOK
<1>2. CASE \E m \in Message : Take(m)
  <2>1. PICK m \in Message : Take(m)
    BY <1>2
  <2>2. batch' = batch \cup {m} /\ pc = "wait"
    BY <2>1 DEF Take
  <2>3. /\ IsFiniteSet(batch \cup {m})
        /\ Cardinality(batch \cup {m}) <= Cardinality(batch) + 1
        /\ Cardinality(batch \cup {m}) \in Nat
    <3>1. /\ IsFiniteSet(batch \cup {m})
          /\ \/ Cardinality(batch \cup {m}) = Cardinality(batch)
             \/ Cardinality(batch \cup {m}) = Cardinality(batch) + 1
      BY <1>1, FS_AddElement, Zenon
    <3> QED
      BY <1>1, <3>1
  <2>4. pc' = "wait" => Cardinality(batch') < BatchSize
    BY <2>1 DEF Take
  <2> QED
    BY <1>1, <2>2, <2>3, <2>4 DEF Roomy
<1>3. CASE batch' = {}
  <2>1. IsFiniteSet(batch') /\ Cardinality(batch') = 0
    BY <1>3, FS_EmptySet
  <2> QED
    BY <1>1, <2>1 DEF Roomy
<1>4. CASE UNCHANGED batch /\ (pc' # "wait" \/ pc = "wait" \/ batch = {})
  <2>1. Cardinality(batch') = Cardinality(batch) /\ IsFiniteSet(batch')
    BY <1>1, <1>4
  <2>2. pc' = "wait" => Cardinality(batch') < BatchSize
    BY <1>1, <1>4, <2>1, FS_EmptySet
  <2> QED
    BY <1>1, <2>1, <2>2 DEF Roomy
<1> QED
  <2>1. CASE Loop
    BY <1>1, <1>2, <1>3, <1>4, <2>1
       DEF Loop, Connect, NoticeStop, Ingest, Tail,
           NoticeDisconnect, WriteFails, Raise, Rescue
  <2> QED
    BY <1>3, <1>4, <2>1
       DEF MqttNext, mqttVars, Send, Arrive, Disconnect, Run,
           RequestStop, Kill

MqttSorts ==
  /\ unsent \in SUBSET Message /\ session \in SUBSET Message
  /\ inbox \in SUBSET Message /\ batch \in SUBSET Message
  /\ stored \in SUBSET Message /\ taken \in SUBSET Message
  /\ connected \in BOOLEAN /\ stopping \in BOOLEAN
  /\ pc \in {"down", "offline", "wait", "ingest", "tail", "rescue"}
  /\ pc \in {"down", "offline"} => batch = {} /\ inbox = {} /\ ~connected
  /\ MqttLeft

LEMMA MqttStepTyped ==
  MqttTyped /\ [MqttNext]_mqttVars => MqttTyped'
<1> SUFFICES ASSUME MqttTyped, [MqttNext]_mqttVars PROVE MqttTyped'
  OBVIOUS
<1>1. MqttSorts
  BY DEF MqttTyped, MqttTypeOK, MqttSorts
<1>2. MqttSorts'
  <2>1. ASSUME NEW m \in Message, Take(m) \/ Send(m) \/ Arrive(m)
        PROVE  MqttSorts'
    BY <1>1, <2>1 DEF Take, Send, Arrive, MqttSorts, MqttLeft
  <2>2. CASE Disconnect \/ Run \/ RequestStop
    <3>1. CASE Disconnect
      BY <1>1, <3>1 DEF Disconnect, MqttSorts, MqttLeft
    <3>2. CASE Run
      BY <1>1, <3>2 DEF Run, MqttSorts, MqttLeft
    <3>3. CASE RequestStop
      BY <1>1, <3>3 DEF RequestStop, MqttSorts, MqttLeft
    <3> QED
      BY <2>2, <3>1, <3>2, <3>3
  <2>3. CASE Connect \/ NoticeStop
    <3>1. CASE Connect
      <4>1. /\ pc' \in {"down", "wait"} /\ connected' \in BOOLEAN
            /\ pc' = "down" => batch = {} /\ inbox = {} /\ ~connected'
        <5>1. CASE stopping /\ pc' = "down" /\ UNCHANGED connected
          BY <1>1, <3>1, <5>1 DEF Connect, MqttSorts
        <5>2. CASE ~stopping /\ pc' = "wait" /\ connected' = TRUE
          BY <5>2
        <5> QED
          BY <3>1, <5>1, <5>2 DEF Connect
      <4> QED
        BY <1>1, <3>1, <4>1 DEF Connect, MqttSorts, MqttLeft
    <3>2. CASE NoticeStop
      BY <1>1, <3>2 DEF NoticeStop, LeaveClient, MqttSorts, MqttLeft
    <3> QED
      BY <2>3, <3>1, <3>2
  <2>4. CASE Ingest \/ Tail \/ Rescue
    BY <1>1, <2>4 DEF Ingest, Tail, Rescue, MqttSorts, MqttLeft
  <2>5. CASE NoticeDisconnect \/ WriteFails
    BY <1>1, <2>5
       DEF NoticeDisconnect, WriteFails, Raise, LeaveClient,
           MqttSorts, MqttLeft
  <2>6. CASE Kill
    BY <1>1, <2>6 DEF Kill, LeaveClient, MqttSorts, MqttLeft
  <2>7. CASE UNCHANGED mqttVars
    BY <1>1, <2>7 DEF mqttVars, MqttSorts, MqttLeft
  <2> QED
    BY <2>1, <2>2, <2>3, <2>4, <2>5, <2>6, <2>7 DEF MqttNext, Loop
<1>3. mqttCount' \in [MqttEvent -> Nat]
  BY MqttCountGrows DEF MqttTyped, MqttTypeOK
<1> QED
  BY <1>2, <1>3, MqttBatch DEF MqttTyped, MqttTypeOK, MqttSorts

LEMMA MqttInitTyped ==
  ASSUME MqttInit PROVE MqttTyped
<1>1. Cardinality({}) = 0 /\ IsFiniteSet({})
  BY FS_EmptySet
<1>2. BatchSize \in Nat /\ 0 < BatchSize
  BY SizeAssumption
<1>3. batch = {} /\ pc = "down" /\ mqttCount \in [MqttEvent -> Nat]
  BY DEF MqttInit
<1>4. Cardinality(batch) <= BatchSize /\ Roomy
  BY <1>1, <1>2, <1>3 DEF Roomy
<1>5. inbox = {} /\ ~connected /\ connected \in BOOLEAN /\ stopping \in BOOLEAN
  BY DEF MqttInit
<1> QED
  BY <1>3, <1>4, <1>5 DEF MqttInit, MqttTyped, MqttTypeOK, MqttLeft

(* A consumer of MQTT keeps to its batch size, and one without client has     *)
(* nothing in memory.                                                      *)
THEOREM Mqtt_typing == MqttSpec => []MqttTypeOK
<1>1. MqttInit => MqttTyped
  BY MqttInitTyped
<1>2. MqttTyped /\ [MqttNext]_mqttVars => MqttTyped'
  BY MqttStepTyped
<1>3. MqttTyped => MqttTypeOK
  BY DEF MqttTyped
<1> QED
  BY <1>1, <1>2, <1>3, PTL DEF MqttSpec

(* What the two promises of the engine rest on.                              *)

MqttStops == Never({"stop"}) => ~stopping

Disconnected == pc \in {"wait", "ingest"} /\ ~connected => mqttCount["network"] > 0

(* A batch is rescued because a write or the connection has failed.          *)
Rescuing ==
  pc = "rescue" /\ Poison \cap taken = {} =>
    mqttCount["write"] + mqttCount["network"] > 0

MqttInv ==
  /\ batch \subseteq taken
  /\ MqttStops
  /\ Disconnected
  /\ Rescuing
  /\ ConnectionLosesNothing
  /\ RescueSaves

(* What has not happened, in terms of the events; messages taken stay so.    *)
LEMMA MqttPast ==
  ASSUME MqttTyped, [MqttNext]_mqttVars
  PROVE  /\ \A e \in MqttEvent :
              /\ mqttCount[e] \in Nat /\ mqttCount'[e] \in Nat
              /\ mqttCount[e] <= mqttCount'[e]
              /\ MqttHappens(e) => mqttCount'[e] # 0
         /\ {"write", "network", "stop", "kill"} = MqttEvent
         /\ taken \subseteq taken'
<1>1. mqttCount \in [MqttEvent -> Nat] /\ mqttCount' \in [MqttEvent -> Nat]
  BY MqttCountGrows DEF MqttTyped, MqttTypeOK
<1>2. \A e \in MqttEvent : MqttHappens(e) => mqttCount'[e] # 0
  <2> SUFFICES ASSUME NEW e \in MqttEvent, MqttHappens(e) PROVE mqttCount'[e] # 0
    OBVIOUS
  <2>1. mqttCount'[e] = mqttCount[e] + 1 /\ mqttCount[e] \in Nat
    BY <1>1, MqttHappened
  <2> QED
    BY <2>1
<1>3. \A e \in MqttEvent : mqttCount[e] <= mqttCount'[e]
  BY <1>1, MqttCountGrows
<1>4. taken \subseteq taken'
  BY DEF MqttNext, mqttVars, Loop, Send, Arrive, Disconnect,
         Run, RequestStop, Connect, Take, NoticeStop,
         Ingest, Tail, NoticeDisconnect, WriteFails, Rescue,
         Kill, Raise
<1> QED
  BY <1>1, <1>2, <1>3, <1>4 DEF MqttEvent

(* The parts that are about the loop alone.                                  *)
LEMMA MqttLoopStep ==
  ASSUME MqttTyped, MqttInv, [MqttNext]_mqttVars
  PROVE  batch' \subseteq taken' /\ MqttStops' /\ Disconnected'
<1>1. batch' \subseteq taken'
  BY DEF MqttInv, MqttNext, mqttVars, Loop, Send, Arrive,
         Disconnect, Run, RequestStop, Connect, Take,
         NoticeStop, Ingest, Tail, NoticeDisconnect,
         WriteFails, Rescue, Kill, Raise
<1>2. MqttStops'
  <2> SUFFICES ASSUME Never({"stop"})' PROVE ~stopping'
    BY DEF MqttStops
  <2>1. mqttCount'["stop"] = 0 /\ mqttCount["stop"] = 0
    BY MqttPast DEF Never
  <2>2. ~stopping
    BY <2>1 DEF MqttInv, MqttStops, Never
  <2>3. ~RequestStop
    BY <2>1, MqttPast DEF RequestStop
  <2>4. CASE Run
    BY <2>4 DEF Run
  <2>5. CASE UNCHANGED stopping
    BY <2>2, <2>5
  <2> QED
    BY <2>3, <2>4, <2>5
       DEF MqttNext, mqttVars, Loop, Send, Arrive, Disconnect,
           Connect, Take, NoticeStop, Ingest, Tail,
           NoticeDisconnect, WriteFails, Rescue, Kill, Raise
<1>3. Disconnected'
  <2>1. mqttCount["network"] > 0 => mqttCount'["network"] > 0
    BY MqttPast
  <2>2. CASE Disconnect
    <3>1. mqttCount'["network"] # 0 /\ mqttCount'["network"] \in Nat
      BY <2>2, MqttPast DEF Disconnect
    <3> QED
      BY <3>1 DEF Disconnected
  <2>3. CASE Connect
    <3>1. CASE pc' = "down"
      BY <3>1 DEF Disconnected
    <3>2. CASE connected' = TRUE
      BY <3>2 DEF Disconnected
    <3> QED
      BY <2>3, <3>1, <3>2 DEF Connect
  <2>4. CASE pc' \notin {"wait", "ingest"}
    BY <2>4 DEF Disconnected
  <2>5. CASE UNCHANGED connected /\ (pc' = pc \/ pc \in {"wait", "ingest"})
    BY <2>1, <2>5 DEF MqttInv, Disconnected
  <2>6. CASE Loop
    BY <2>3, <2>4, <2>5, <2>6
       DEF Loop, Take, NoticeStop, Ingest, Tail,
           NoticeDisconnect, WriteFails, Rescue, Raise
  <2> QED
    BY <2>2, <2>4, <2>5, <2>6
       DEF MqttNext, mqttVars, Send, Arrive, Run, RequestStop,
           Kill
<1> QED
  BY <1>1, <1>2, <1>3

(* A batch without poison can be written, and an error says what failed.     *)
LEMMA MqttErrors ==
  ASSUME MqttTyped, MqttInv, [MqttNext]_mqttVars, Poison \cap taken = {}
  PROVE  /\ Writable
         /\ WriteFails => mqttCount'["write"] > 0
         /\ NoticeDisconnect => mqttCount'["network"] > 0
         /\ Rescue => stored' = stored \cup batch
                           \/ mqttCount'["write"] + mqttCount'["network"] > 1
<1>1. Writable
  BY DEF MqttInv, Writable
<1>2. /\ mqttCount["write"] \in Nat /\ mqttCount'["write"] \in Nat
      /\ mqttCount["network"] \in Nat /\ mqttCount'["network"] \in Nat
      /\ mqttCount["network"] <= mqttCount'["network"]
      /\ MqttHappens("write") => mqttCount'["write"] # 0
  BY MqttPast
<1>3. WriteFails => mqttCount'["write"] > 0
  BY <1>1, <1>2 DEF WriteFails
<1>4. NoticeDisconnect => mqttCount'["network"] > 0
  BY <1>2 DEF NoticeDisconnect, MqttInv, Disconnected
<1>5. ASSUME Rescue, stored' # stored \cup batch
      PROVE  mqttCount'["write"] + mqttCount'["network"] > 1
  <2>1. MqttHappens("write") /\ pc = "rescue"
    BY <1>1, <1>5 DEF Rescue
  <2>2. mqttCount'["write"] = mqttCount["write"] + 1
    BY <2>1, MqttHappened DEF MqttTyped, MqttTypeOK, MqttEvent
  <2>3. mqttCount["write"] + mqttCount["network"] > 0
    BY <2>1 DEF MqttInv, Rescuing
  <2> QED
    BY <1>2, <2>2, <2>3
<1> QED
  BY <1>1, <1>3, <1>4, <1>5

LEMMA MqttRescuing ==
  ASSUME MqttTyped, MqttInv, [MqttNext]_mqttVars PROVE Rescuing'
<1> SUFFICES ASSUME pc' = "rescue", Poison \cap taken' = {}
             PROVE  mqttCount'["write"] + mqttCount'["network"] > 0
  BY DEF Rescuing
<1>1. /\ mqttCount["write"] \in Nat /\ mqttCount'["write"] \in Nat
      /\ mqttCount["network"] \in Nat /\ mqttCount'["network"] \in Nat
      /\ mqttCount["network"] <= mqttCount'["network"]
      /\ mqttCount["write"] <= mqttCount'["write"]
      /\ Poison \cap taken = {}
  BY MqttPast
<1>2. CASE pc = "rescue"
  BY <1>1, <1>2 DEF MqttInv, Rescuing
<1>3. CASE WriteFails \/ NoticeDisconnect
  BY <1>1, <1>3, MqttErrors
<1> QED
  BY <1>2, <1>3
     DEF MqttNext, mqttVars, Loop, Send, Arrive, Disconnect,
         Run, RequestStop, Connect, Take, NoticeStop,
         Ingest, Tail, Rescue, Kill

LEMMA MqttRescueStep ==
  ASSUME MqttTyped, MqttInv, [MqttNext]_mqttVars PROVE RescueSaves'
<1> SUFFICES ASSUME Poison \cap taken' = {}, Never({"stop", "kill"})',
                    mqttCount'["write"] + mqttCount'["network"] < 2
             PROVE  taken' \subseteq stored' \cup batch'
  BY DEF RescueSaves
<1>1. /\ mqttCount["write"] \in Nat /\ mqttCount'["write"] \in Nat
      /\ mqttCount["network"] \in Nat /\ mqttCount'["network"] \in Nat
      /\ mqttCount["network"] <= mqttCount'["network"]
      /\ mqttCount["write"] <= mqttCount'["write"]
      /\ mqttCount["stop"] = 0 /\ mqttCount["kill"] = 0
      /\ ~RequestStop /\ ~Kill
      /\ Poison \cap taken = {}
  BY MqttPast DEF Never, RequestStop, Kill
<1>2. taken \subseteq stored \cup batch
  BY <1>1 DEF MqttInv, RescueSaves, Never
<1>3. ~stopping
  BY <1>1 DEF MqttInv, MqttStops, Never
<1>4. CASE UNCHANGED <<stored, batch, taken>>
  BY <1>2, <1>4
<1>5. CASE stored' = stored \cup batch /\ batch' = {} /\ UNCHANGED taken
  BY <1>2, <1>5
<1>6. CASE \E m \in Message : Take(m)
  BY <1>2, <1>6 DEF Take
<1>7. CASE Rescue
  <2>1. stored' = stored \cup batch
    BY <1>1, <1>7, MqttErrors
  <2> QED
    BY <1>5, <1>7, <2>1 DEF Rescue
<1>8. CASE Loop
  BY <1>3, <1>4, <1>5, <1>6, <1>7, <1>8
     DEF Loop, Connect, NoticeStop, Ingest, Tail,
         NoticeDisconnect, WriteFails, Raise
<1> QED
  BY <1>1, <1>4, <1>8
     DEF MqttNext, mqttVars, Send, Arrive, Disconnect, Run

LEMMA MqttConnectionStep ==
  ASSUME MqttTyped, MqttInv, [MqttNext]_mqttVars
  PROVE  ConnectionLosesNothing'
<1> SUFFICES ASSUME Poison \cap taken' = {}, Never({"write", "stop", "kill"})'
             PROVE  Acknowledged' \subseteq Held'
  BY DEF ConnectionLosesNothing
<1>1. /\ mqttCount["stop"] = 0 /\ mqttCount["kill"] = 0 /\ mqttCount["write"] = 0
      /\ mqttCount'["write"] = 0
      /\ ~RequestStop /\ ~Kill /\ ~MqttHappens("write")
      /\ Poison \cap taken = {}
  BY MqttPast DEF Never, RequestStop, Kill
<1>2. Acknowledged \subseteq Held
  BY <1>1 DEF MqttInv, ConnectionLosesNothing, Never
<1>3. ~stopping
  BY <1>1 DEF MqttInv, MqttStops, Never
<1>4. Writable /\ ~WriteFails
  BY <1>1, MqttErrors
<1>5. CASE \E m \in Message : Send(m) \/ Arrive(m)
  BY <1>2, <1>5 DEF Send, Arrive, Acknowledged, Held
<1>6. CASE \E m \in Message : Take(m)
  BY <1>2, <1>6 DEF Take, Acknowledged, Held
<1>7. CASE Ingest \/ Tail \/ Rescue
  <2>1. /\ stored' = stored \cup batch
        /\ UNCHANGED <<unsent, session, inbox>>
    BY <1>1, <1>4, <1>7 DEF Ingest, Tail, Rescue
  <2> QED
    BY <1>2, <2>1 DEF Acknowledged, Held
<1>8. CASE NoticeDisconnect
  <2>1. inbox = {} /\ UNCHANGED <<batch, stored, unsent, session>>
    BY <1>3, <1>8 DEF NoticeDisconnect, Raise
  <2> QED
    BY <1>2, <2>1 DEF Acknowledged, Held
<1>9. CASE UNCHANGED <<unsent, session, inbox, batch, stored>>
  BY <1>2, <1>9 DEF Acknowledged, Held
<1>10. CASE Loop
  BY <1>3, <1>4, <1>6, <1>7, <1>8, <1>9, <1>10
     DEF Loop, Connect, NoticeStop
<1> QED
  BY <1>1, <1>5, <1>9, <1>10 DEF MqttNext, mqttVars, Disconnect, Run

LEMMA MqttInvariant ==
  MqttSpec => [](MqttTyped /\ MqttInv)
<1>1. MqttInit => MqttTyped /\ MqttInv
  <2> SUFFICES ASSUME MqttInit PROVE MqttInv
    BY MqttInitTyped
  <2>1. batch \subseteq taken /\ MqttStops /\ Disconnected /\ Rescuing
    BY DEF MqttInit, MqttStops, Disconnected, Rescuing
  <2>2. ConnectionLosesNothing /\ RescueSaves
    BY DEF MqttInit, ConnectionLosesNothing, RescueSaves, Acknowledged
  <2> QED
    BY <2>1, <2>2 DEF MqttInv
<1>2. MqttTyped /\ MqttInv /\ [MqttNext]_mqttVars => (MqttTyped /\ MqttInv)'
  BY MqttStepTyped, MqttLoopStep, MqttRescuing, MqttRescueStep, MqttConnectionStep
     DEF MqttInv
<1> QED
  BY <1>1, <1>2, PTL DEF MqttSpec

(* A lost connection of an MQTT consumer loses no message: without a failed   *)
(* write, a stop, a kill and a poisoned message, every message acknowledged  *)
(* to the broker is stored, in the batch or with the client.                *)
THEOREM Connection_loses_nothing == MqttSpec => []ConnectionLosesNothing
<1>1. MqttInv => ConnectionLosesNothing
  BY DEF MqttInv
<1> QED
  BY <1>1, MqttInvariant, PTL

(* The rescue keeps a batch through one failure, of a write or of the         *)
(* connection: it takes a second one, a stop or a kill to lose a message the *)
(* loop has taken.                                                         *)
THEOREM Rescue_saves == MqttSpec => []RescueSaves
<1>1. MqttInv => RescueSaves
  BY DEF MqttInv
<1> QED
  BY <1>1, MqttInvariant, PTL
=============================================================================
