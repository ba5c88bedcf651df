---------------------------- MODULE MCPollEngines ----------------------------
(* Instances of PollEngines for TLC.                                       *)
EXTENDS PollEngines

CONSTANTS d1, d2

(* Each engine, with what it measures and stores.                           *)
AllTasks == {t \in Task : t.mode # "both" => t.engine = "snmp"}

Events == [run |-> 2, signal |-> 1, change |-> 1, fault |-> 1, influx |-> 1,
           clean |-> 1]
=============================================================================
