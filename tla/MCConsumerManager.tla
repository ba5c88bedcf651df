-------------------------- MODULE MCConsumerManager --------------------------
(* Instances of ConsumerManager for TLC.                                   *)
EXTENDS ConsumerManager

CONSTANTS c1, c2, c3

Three == {c1, c2, c3}

Twice == [e \in Event |-> 2]
=============================================================================
