--------------------------- MODULE ConsumerManager ---------------------------
(***************************************************************************)
(* KafkaConsumerManager, MqttConsumerManager and RabbitMQConsumerManager:   *)
(* who may start and stop the resident consumer of one task.  They share    *)
(* their state, two dictionaries by task id that are always written         *)
(* together, and differ in who waits: stop() of Kafka waits for the old     *)
(* consumer to end, with MQTT and RabbitMQ the next start() does.           *)
(*                                                                         *)
(* All of it runs on one event loop: a handler is interrupted only where it  *)
(* awaits something that is not ready.  What the consumer does is the       *)
(* subject of KafkaEngine, MqttEngine and RabbitEngine.                     *)
(***************************************************************************)
EXTENDS Naturals, FiniteSets

CONSTANTS
  Caller,         \* requests that may be in start() at one time
  StartWaits,     \* the values of startWaits considered
  MaxConsumers,   \* bounds the consumers ever created
  Bound           \* how often each kind of event may happen

Event == {"failure", "restart"}

ASSUME CallerAssumption == IsFiniteSet(Caller)
ASSUME StartAssumption  == StartWaits \subseteq BOOLEAN
ASSUME NumberAssumption == MaxConsumers \in Nat
ASSUME BoundAssumption  == Bound \in [Event -> Nat]

VARIABLES
  startWaits,   \* MQTT and RabbitMQ, and not Kafka; no step changes it
  task,         \* "enabled", "disabled" or "deleted"
  born,         \* consumers created so far: they are 1 .. born
  live,         \* consumers whose coroutine has not ended
  told,         \* consumers whose stop_event is set
  registered,   \* the consumer in _tasks and _stop_events, or 0
  waiting,      \* which consumer's end a start() waits for, or 0
  deleting,     \* which consumer's end /delete waits for, or 0
  overlapped,   \* history: a start() came while another was waiting
  count

vars == <<startWaits, task, born, live, told, registered, waiting, deleting,
          overlapped, count>>

Consumer == 1 .. MaxConsumers

\* Bound: a start() is served only if there is a number left for its consumer.
Room == born + Cardinality({c \in Caller : waiting[c] # 0}) < MaxConsumers

Happens(e) == /\ count[e] < Bound[e]
              /\ count' = [count EXCEPT ![e] = @ + 1]

Init ==
  /\ startWaits \in StartWaits
  /\ task = "enabled"
  /\ born = 0 /\ live = {} /\ told = {} /\ registered = 0
  /\ waiting = [c \in Caller |-> 0] /\ deleting = 0
  /\ overlapped = FALSE
  /\ count = [e \in Event |-> 0]

-----------------------------------------------------------------------------
\* Mutant of Create: the task is not entered into the dictionaries.
CreateUnregistered ==
  /\ born' = born + 1
  /\ live' = live \cup {born'}
  /\ UNCHANGED registered

(* asyncio.create_task(_wrapped()), entered under the task id.              *)
Create ==
  /\ born' = born + 1
  /\ live' = live \cup {born'}
  /\ registered' = born'

\* Mutant of Pop: a consumer removes only its own entry, if it was not told.
PopUntold(i) == registered' = IF i \in told THEN registered ELSE 0

(* The finally block of _wrapped: whatever is entered under the task id.    *)
Pop(i) == registered' = 0

(* is_running()                                                            *)
IsRunning == registered \in live

-----------------------------------------------------------------------------
(* /kafka/start, /mqtt/start, /rabbitmq/start: none looks at the status.    *)
(* Nothing changes where a running consumer turns a start down.             *)
Start(c) ==
  /\ task # "deleted"
  /\ waiting[c] = 0
  /\ Room
  /\ \/ /\ ~IsRunning
        /\ Create
        /\ UNCHANGED waiting
     \/ /\ IsRunning /\ startWaits /\ registered \in told
        /\ waiting' = [waiting EXCEPT ![c] = registered]
        /\ UNCHANGED <<born, live, registered>>
  /\ overlapped' = (overlapped \/ \E d \in Caller : waiting[d] # 0)
  /\ UNCHANGED <<startWaits, task, told, deleting, count>>

\* Mutant of Resume: the end that is waited for is that of the entry.
ResumeStill(c) ==
  /\ waiting[c] # 0 /\ registered \notin live
  /\ Create
  /\ waiting' = [waiting EXCEPT ![c] = 0]
  /\ UNCHANGED <<startWaits, task, told, deleting, overlapped, count>>

(* The consumer has ended: the entry, of whomever it is by now, is removed, *)
(* and a new consumer is created.                                          *)
Resume(c) ==
  /\ waiting[c] # 0 /\ waiting[c] \notin live
  /\ Create
  /\ waiting' = [waiting EXCEPT ![c] = 0]
  /\ UNCHANGED <<startWaits, task, told, deleting, overlapped, count>>

(* wait_for gives up after five seconds and cancels the consumer.  Another   *)
(* start() that waits for it is thrown out by the cancellation.             *)
TimeOut(c) ==
  /\ waiting[c] \in live
  /\ live' = live \ {waiting[c]}
  /\ Pop(waiting[c])
  /\ waiting' = [d \in Caller |->
                   IF d # c /\ waiting[d] = waiting[c] THEN 0 ELSE waiting[d]]
  /\ UNCHANGED <<startWaits, task, born, told, deleting, overlapped, count>>

\* Mutant of Tell: stop() removes the entry itself.
TellAndPop == told' = told \cup {registered} /\ registered' = 0

(* stop() sets the stop_event.                                             *)
Tell == told' = told \cup {registered} /\ UNCHANGED registered

Stop ==
  /\ IsRunning /\ registered \notin told
  /\ Tell
  /\ UNCHANGED <<startWaits, task, born, live, waiting, deleting, overlapped,
                 count>>

(* /change_status                                                          *)
Disable ==
  /\ task = "enabled"
  /\ task' = "disabled"
  /\ IF IsRunning THEN Tell ELSE UNCHANGED <<told, registered>>
  /\ UNCHANGED <<startWaits, born, live, waiting, deleting, overlapped,
                 count>>

Enable ==
  /\ task = "disabled"
  /\ task' = "enabled"
  /\ UNCHANGED <<startWaits, born, live, told, registered, waiting, deleting,
                 overlapped, count>>

(* /delete: stop the consumer, with Kafka wait for it, delete the task.     *)
Delete ==
  /\ task # "deleted" /\ deleting = 0
  /\ IF IsRunning THEN Tell ELSE UNCHANGED <<told, registered>>
  /\ IF IsRunning /\ ~startWaits
     THEN deleting' = registered /\ UNCHANGED task
     ELSE task' = "deleted" /\ UNCHANGED deleting
  /\ UNCHANGED <<startWaits, born, live, waiting, overlapped, count>>

FinishDelete ==
  /\ deleting # 0 /\ deleting \notin live
  /\ deleting' = 0 /\ task' = "deleted"
  /\ UNCHANGED <<startWaits, born, live, told, registered, waiting,
                 overlapped, count>>

-----------------------------------------------------------------------------
(* A consumer that has been told ends; after 30 seconds stop() of Kafka     *)
(* cancels it, with the same effect.                                       *)
End(i) ==
  /\ i \in live \cap told
  /\ live' = live \ {i}
  /\ Pop(i)
  /\ UNCHANGED <<startWaits, task, born, told, waiting, deleting, overlapped,
                 count>>

(* run() raises.                                                           *)
Fail(i) ==
  /\ i \in live
  /\ Happens("failure")
  /\ live' = live \ {i}
  /\ Pop(i)
  /\ UNCHANGED <<startWaits, task, born, told, waiting, deleting,
                 overlapped>>

(* The process ends, after stop_all() or not; at startup the consumers of   *)
(* enabled tasks are started before the first request.                     *)
Restart ==
  /\ Happens("restart")
  /\ told' = {}
  /\ waiting' = [c \in Caller |-> 0] /\ deleting' = 0
  /\ \/ /\ task = "enabled" /\ born < MaxConsumers
        /\ born' = born + 1 /\ live' = {born'} /\ registered' = born'
     \/ /\ task # "enabled"
        /\ live' = {} /\ registered' = 0 /\ UNCHANGED born
  /\ UNCHANGED <<startWaits, task, overlapped>>

-----------------------------------------------------------------------------
Next ==
  \/ \E c \in Caller : Start(c)
  \/ \E c \in Caller : Resume(c)
  \/ \E c \in Caller : TimeOut(c)
  \/ Stop
  \/ Disable
  \/ Enable
  \/ Delete
  \/ FinishDelete
  \/ \E i \in Consumer : End(i)
  \/ \E i \in Consumer : Fail(i)
  \/ Restart

Spec == Init /\ [][Next]_vars

(* Consumers that are told end, and handlers that wait go on.               *)
FairSpec ==
  /\ Spec
  /\ \A i \in Consumer : WF_vars(End(i))
  /\ \A c \in Caller : WF_vars(Resume(c))
  /\ WF_vars(FinishDelete)

-----------------------------------------------------------------------------
(* Properties.                                                             *)

(* Type invariant; the entry is of a consumer that has not ended.           *)
TypeOK ==
  /\ startWaits \in StartWaits
  /\ task \in {"enabled", "disabled", "deleted"}
  /\ born \in 0 .. MaxConsumers
  /\ live \in SUBSET (1 .. born) /\ told \in SUBSET (1 .. born)
  /\ registered \in live \cup {0}
  /\ waiting \in [Caller -> 0 .. born] /\ deleting \in 0 .. born
  /\ overlapped \in BOOLEAN
  /\ count \in [Event -> Nat]

(* A task has one consumer, which is the one entered under its id, and so   *)
(* can be stopped: unless two calls of start() overlap, which those of the   *)
(* Kafka manager never do.                                                 *)
OneConsumer ==
  /\ ~overlapped => live \subseteq {registered}
  /\ ~startWaits => ~overlapped

(* Disabling a task tells all its consumers to stop.                        *)
DisableTellsAll == [][Disable /\ ~overlapped => live \subseteq told']_vars

(* A start() that waits comes to its end, and with the consumer it waited   *)
(* for: no handler hangs.                                                  *)
StartEnds == \A c \in Caller : waiting[c] # 0 ~> waiting[c] = 0
=============================================================================
