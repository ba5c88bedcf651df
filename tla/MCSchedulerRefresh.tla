------------------------- MODULE MCSchedulerRefresh -------------------------
(* Instances of SchedulerRefresh for TLC.                                  *)
EXTENDS SchedulerRefresh

CONSTANTS t1, t2, h1, h2

TwoTasks   == {t1, t2}
TwoThreads == {h1, h2}

Daily == {"daily"}

Events == [write |-> 3, failure |-> 1, restart |-> 1]
=============================================================================
