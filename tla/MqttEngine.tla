----------------------------- MODULE MqttEngine -----------------------------
(***************************************************************************)
(* MqttSyncEngine.run: the resident subscription of one MQTT task, with a   *)
(* persistent session at QoS 1.  The client acknowledges a message when it  *)
(* comes, long before it is in the target, so unlike KafkaEngine and        *)
(* RabbitEngine this one does not implement Delivery; what it does promise  *)
(* is that a connection may be lost without losing messages.               *)
(*                                                                         *)
(* ConsumerManager starts and stops this consumer; what both modules would   *)
(* call by one name has the prefix Mqtt here.                               *)
(***************************************************************************)
EXTENDS Naturals, FiniteSets

CONSTANTS
  Message,
  Poison,       \* messages the target table does not take
  BatchSize,    \* mqtt_batch_size
  MqttBound     \* how often each kind of event may happen

(* A failed write, a lost connection, a stop, a cancelled or killed consumer. *)
MqttEvent == {"write", "network", "stop", "kill"}

ASSUME SizeAssumption == BatchSize \in Nat \ {0}
ASSUME PoisonAssumption == Poison \subseteq Message
ASSUME MqttBoundAssumption == MqttBound \in [MqttEvent -> Nat]

VARIABLES
  unsent,     \* messages not sent yet
  session,    \* messages the broker has for the session
  connected,  \* the client has its connection
  inbox,      \* client.messages: acknowledged, and not taken by the loop
  pc,         \* "down", "offline", "wait", "ingest", "tail", "rescue"
  batch,
  stopping,   \* stop_event
  stored,     \* messages with a row in the target
  taken,      \* history: messages the loop has put into a batch
  mqttCount

mqttVars == <<unsent, session, connected, inbox, pc, batch, stopping, stored,
              taken, mqttCount>>

MqttHappens(e) == /\ mqttCount[e] < MqttBound[e]
                  /\ mqttCount' = [mqttCount EXCEPT ![e] = @ + 1]

Writable == batch \cap Poison = {}

MqttInit ==
  /\ unsent = Message /\ session = {}
  /\ connected = FALSE /\ inbox = {}
  /\ pc = "down" /\ batch = {} /\ stopping = FALSE
  /\ stored = {} /\ taken = {}
  /\ mqttCount = [e \in MqttEvent |-> 0]

-----------------------------------------------------------------------------
(* The broker: messages are sent to the session, there from the first       *)
(* connection on, and over the connection to the client.                   *)

Send(m) ==
  /\ m \in unsent
  /\ unsent'  = unsent \ {m}
  /\ session' = session \cup {m}
  /\ UNCHANGED <<connected, inbox, pc, batch, stopping, stored, taken,
                 mqttCount>>

Arrive(m) ==
  /\ connected /\ m \in session
  /\ session' = session \ {m}
  /\ inbox'   = inbox \cup {m}
  /\ UNCHANGED <<unsent, connected, pc, batch, stopping, stored, taken,
                 mqttCount>>

Disconnect ==
  /\ connected
  /\ MqttHappens("network")
  /\ connected' = FALSE
  /\ UNCHANGED <<unsent, session, inbox, pc, batch, stopping, stored, taken>>

-----------------------------------------------------------------------------
Run ==
  /\ pc = "down"
  /\ pc' = "offline" /\ stopping' = FALSE
  /\ UNCHANGED <<unsent, session, connected, inbox, batch, stored, taken,
                 mqttCount>>

RequestStop ==
  /\ pc # "down" /\ ~stopping
  /\ MqttHappens("stop")
  /\ stopping' = TRUE
  /\ UNCHANGED <<unsent, session, connected, inbox, pc, batch, stored, taken>>

(* The client is left, and with it what it has not handed over.             *)
LeaveClient == connected' = FALSE /\ inbox' = {}

(* while not stop_event.is_set(): connect and subscribe.                    *)
Connect ==
  /\ pc = "offline"
  /\ \/ stopping /\ pc' = "down" /\ UNCHANGED connected
     \/ ~stopping /\ pc' = "wait" /\ connected' = TRUE
  /\ UNCHANGED <<unsent, session, inbox, batch, stopping, stored, taken,
                 mqttCount>>

(* async for message in client.messages.                                   *)
Take(m) ==
  /\ pc = "wait" /\ ~stopping
  /\ m \in inbox
  /\ inbox' = inbox \ {m}
  /\ batch' = batch \cup {m}
  /\ \/ Cardinality(batch') < BatchSize /\ pc' = "wait"
     \/ pc' = "ingest"
  /\ taken' = taken \cup {m}
  /\ UNCHANGED <<unsent, session, connected, stopping, stored, mqttCount>>

(* stop_event is looked at when a message has come; the message is dropped. *)
NoticeStop ==
  /\ pc = "wait" /\ stopping
  /\ inbox # {}
  /\ IF batch = {} THEN pc' = "down" ELSE pc' = "tail"
  /\ LeaveClient
  /\ UNCHANGED <<unsent, session, batch, stopping, stored, taken, mqttCount>>

Ingest ==
  /\ pc = "ingest" /\ Writable
  /\ stored' = stored \cup batch
  /\ batch' = {}
  /\ pc' = "wait"
  /\ UNCHANGED <<unsent, session, connected, inbox, stopping, taken,
                 mqttCount>>

(* What is left is written when the loop has ended.                        *)
Tail ==
  /\ pc = "tail" /\ Writable
  /\ stored' = stored \cup batch
  /\ batch' = {}
  /\ pc' = "down"
  /\ UNCHANGED <<unsent, session, connected, inbox, stopping, taken,
                 mqttCount>>

-----------------------------------------------------------------------------
(* except Exception: a stopping consumer ends, another rescues its batch.   *)

\* Mutant of Raise: the batch is cleared before the rescue.
RaiseAndClear ==
  /\ LeaveClient
  /\ batch' = {}
  /\ IF stopping THEN pc' = "down" ELSE pc' = "rescue"
  /\ UNCHANGED <<unsent, session, stopping, stored, taken>>

Raise ==
  /\ LeaveClient
  /\ IF stopping THEN pc' = "down" /\ batch' = {}
                 ELSE pc' = "rescue" /\ UNCHANGED batch
  /\ UNCHANGED <<unsent, session, stopping, stored, taken>>

(* The iterator raises when it has handed over what came before.            *)
NoticeDisconnect ==
  /\ pc = "wait" /\ ~connected /\ inbox = {}
  /\ Raise
  /\ UNCHANGED mqttCount

WriteFails ==
  /\ pc \in {"ingest", "tail"}
  /\ \/ ~Writable /\ UNCHANGED mqttCount
     \/ MqttHappens("write")
  /\ Raise

\* Mutant of Rescue: the batch is cleared and not written.
RescueNothing ==
  /\ pc = "rescue"
  /\ UNCHANGED <<stored, mqttCount>>
  /\ batch' = {}
  /\ pc' = "offline"
  /\ UNCHANGED <<unsent, session, connected, inbox, stopping, taken>>

\* Mutant of Rescue: break instead of the next round of the loop.
RescueAndEnd ==
  /\ pc = "rescue" /\ Writable
  /\ stored' = stored \cup batch
  /\ batch' = {}
  /\ pc' = "down"
  /\ UNCHANGED <<unsent, session, connected, inbox, stopping, taken,
                 mqttCount>>

Rescue ==
  /\ pc = "rescue"
  /\ \/ Writable /\ stored' = stored \cup batch /\ UNCHANGED mqttCount
     \/ ~Writable /\ UNCHANGED <<stored, mqttCount>>
     \/ MqttHappens("write") /\ UNCHANGED stored
  /\ batch' = {}
  /\ pc' = "offline"
  /\ UNCHANGED <<unsent, session, connected, inbox, stopping, taken>>

\* Mutant of Kill: the batch outlives its consumer.
KillBatch ==
  /\ pc # "down"
  /\ MqttHappens("kill")
  /\ pc' = "down"
  /\ LeaveClient
  /\ UNCHANGED <<unsent, session, batch, stopping, stored, taken>>

Kill ==
  /\ pc # "down"
  /\ MqttHappens("kill")
  /\ pc' = "down" /\ batch' = {}
  /\ LeaveClient
  /\ UNCHANGED <<unsent, session, stopping, stored, taken>>

-----------------------------------------------------------------------------
Loop ==
  \/ Connect
  \/ \E m \in Message : Take(m)
  \/ NoticeStop
  \/ Ingest
  \/ Tail
  \/ NoticeDisconnect
  \/ WriteFails
  \/ Rescue

MqttNext ==
  \/ \E m \in Message : Send(m)
  \/ \E m \in Message : Arrive(m)
  \/ Disconnect
  \/ Run
  \/ RequestStop
  \/ Loop
  \/ Kill

MqttSpec == MqttInit /\ [][MqttNext]_mqttVars

(* The event loop runs the coroutine on, the broker delivers.               *)
MqttFairSpec ==
  MqttSpec /\ WF_mqttVars(Loop) /\ WF_mqttVars(\E m \in Message : Arrive(m))

-----------------------------------------------------------------------------
(* Properties.                                                             *)

(* Type invariant; a consumer without client has nothing in memory.         *)
MqttTypeOK ==
  /\ unsent \in SUBSET Message /\ session \in SUBSET Message
  /\ inbox \in SUBSET Message
  /\ stored \in SUBSET Message /\ taken \in SUBSET Message
  /\ batch \in SUBSET Message /\ Cardinality(batch) <= BatchSize
  /\ connected \in BOOLEAN /\ stopping \in BOOLEAN
  /\ pc \in {"down", "offline", "wait", "ingest", "tail", "rescue"}
  /\ pc \in {"down", "offline"} => batch = {} /\ inbox = {} /\ ~connected
  /\ mqttCount \in [MqttEvent -> Nat]

Never(events) == \A e \in events : mqttCount[e] = 0

(* Messages acknowledged to the broker.                                    *)
Acknowledged == Message \ (unsent \cup session)

Held == stored \cup batch \cup inbox

(* Losing the connection loses no message: only a stop, a failed write or   *)
(* a kill does.                                                            *)
ConnectionLosesNothing ==
  Poison \cap taken = {} /\ Never({"write", "stop", "kill"}) =>
    Acknowledged \subseteq Held

(* One failure, of a write or of the connection, loses no message of a      *)
(* batch: it takes a second one, of the rescue, or a stop or a kill.  (The   *)
(* messages of the inbox go with the client.)                               *)
RescueSaves ==
  /\ Poison \cap taken = {}
  /\ Never({"stop", "kill"})
  /\ mqttCount["write"] + mqttCount["network"] < 2
  => taken \subseteq stored \cup batch

(* After an exception the consumer subscribes again, unless it is stopped   *)
(* or killed: a message the table does not take does not end it.            *)
Reconnects ==
  [](Never({"kill"})) => (pc = "rescue" ~> (pc = "wait" \/ stopping))
=============================================================================
