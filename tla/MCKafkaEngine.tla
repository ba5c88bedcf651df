--------------------------- MODULE MCKafkaEngine ---------------------------
(* Instances of KafkaEngine for TLC.                                       *)
EXTENDS KafkaEngine

CONSTANTS p1, p2

TwoPartitions == {p1, p2}

(* Every message can be written, or one in the middle of a log cannot.       *)
NoneOrOne == {{}, {<<p1, 2>>}}

Once == [e \in Event |-> 1]
=============================================================================
