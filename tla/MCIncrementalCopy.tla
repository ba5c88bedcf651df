-------------------------- MODULE MCIncrementalCopy --------------------------
(* Instances of IncrementalCopy for TLC.                                   *)
EXTENDS IncrementalCopy

OneTable  == <<"orders">>
TwoTables == <<"orders", "users">>

(* The SQL engine, MongoDB to PostgreSQL and MongoDB to MongoDB in the order *)
(* of _id; MongoDB by update time, which is not that order; and a full copy  *)
(* of two collections.                                                     *)
Sql     == [order |-> OneTable, commit |-> "job", sorted |-> FALSE,
            incremental |-> TRUE]
ToPg    == [Sql EXCEPT !.commit = "table", !.sorted = TRUE]
ToMongo == [ToPg EXCEPT !.commit = "batch"]
ByTime  == [ToMongo EXCEPT !.sorted = FALSE]
Full    == [ToMongo EXCEPT !.order = TwoTables, !.incremental = FALSE]

AllTasks == {Sql, ToPg, ToMongo, ByTime, Full}
SqlTasks == {Sql}

(* Each kind of event once, and two kinds together: a signal and the         *)
(* resumption behind it are one.                                           *)
FaultEvents(c) ==
  /\ \A e \in Event : c[e] <= 1
  /\ Cardinality({e \in Event \ {"signal"} : c[e] = 1}) <=
       IF c["signal"] > c["resume"] THEN 1 ELSE 2

PauseEvents(c) == \A e \in Event : c[e] <= IF e \in {"signal", "resume"} THEN 2 ELSE 0
=============================================================================
