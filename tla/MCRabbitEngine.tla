--------------------------- MODULE MCRabbitEngine ---------------------------
(* Instances of RabbitEngine for TLC.                                      *)
EXTENDS RabbitEngine

CONSTANTS m1, m2, m3

Three == {m1, m2, m3}

(* m3 has the body and routing key of m2, and so its row id.                *)
TwinRowOf == [m \in Message |-> IF m = m3 THEN m2 ELSE m]

OnePoison == {m1}

Once == [e \in Event |-> 1]
=============================================================================
