------------------------------ MODULE Delivery ------------------------------
(***************************************************************************)
(* What a stream engine of dataflux owes its broker, whichever broker it    *)
(* is: a message that will not be delivered again has been kept, as a row   *)
(* of the target table or as a dead letter.  KafkaEngine and RabbitEngine   *)
(* implement this specification; MqttEngine does not.                      *)
(***************************************************************************)
CONSTANT Message

VARIABLES
  sent,     \* messages producers have sent
  kept,     \* messages with a row in the target or the dead letter table
  settled   \* messages the broker will not deliver again

vars == <<sent, kept, settled>>

Init == sent = {} /\ kept = {} /\ settled = {}

(* A message that equals an earlier one may have its row already.           *)
Send ==
  /\ \E m \in Message \ sent :
       /\ sent' = sent \cup {m}
       /\ kept' \in {kept, kept \cup {m}}
  /\ UNCHANGED settled

(* A transaction of the target commits.                                    *)
Keep ==
  /\ kept \subseteq kept' /\ kept' \subseteq sent
  /\ UNCHANGED <<sent, settled>>

(* A commit of offsets, or an ACK.                                         *)
Settle ==
  /\ settled \subseteq settled' /\ settled' \subseteq kept
  /\ UNCHANGED <<sent, kept>>

Next == Send \/ Keep \/ Settle

Spec == Init /\ [][Next]_vars

NothingLost == settled \subseteq kept /\ kept \subseteq sent
=============================================================================
