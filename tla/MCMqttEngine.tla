---------------------------- MODULE MCMqttEngine ----------------------------
(* Instances of MqttEngine for TLC.                                        *)
EXTENDS MqttEngine

CONSTANTS m1, m2, m3

Three     == {m1, m2, m3}
OnePoison == {m3}

Disturbed == [e \in MqttEvent |-> IF e \in {"write", "network"} THEN 2 ELSE 1]
=============================================================================
