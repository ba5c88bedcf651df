--------------------------- MODULE MCTaskExecution ---------------------------
(* Instances of TaskExecution for TLC.                                     *)
EXTENDS TaskExecution, TLC, FiniteSetsExt

CONSTANTS s1, s2, r1, r2

Symmetry == Permutations({s1, s2}) \cup Permutations({r1, r2})

(* Two requests and one trigger; at most one event of each of the kinds, and *)
(* no more than two of them together; a lock may expire when a job is        *)
(* cancelled.                                                              *)
Limited(c, kinds) ==
  /\ c["request"] <= 2
  /\ c["trigger"] <= 1
  /\ \A e \in Event \ {"request", "trigger"} :
       c[e] <= IF e \in kinds \cup {"lockExpiry"} THEN 1 ELSE 0
  /\ MapThenSumSet(LAMBDA e : c[e], kinds) <= 2

(* What users and operators do to runs, beside a timeout and a database that *)
(* fails.                                                                  *)
ManualEvents(c) == Limited(c, {"signal", "unlock", "cancelJob", "dbError", "clean"})

(* What fails by itself: Redis, database, worker, main process, timeouts; and*)
(* a task that is disabled or deleted meanwhile.                            *)
FaultEvents(c) == Limited(c, {"toggle", "cancelJob", "redisError", "dbError",
                              "enqueueExpiry", "workerDeath", "restart"})
=============================================================================
