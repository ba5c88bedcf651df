------------------------------ MODULE TaskLog -------------------------------
(***************************************************************************)
(* What sys_task_log tells of one batch task, whatever locks, keys, queues *)
(* and processes bring it about: each order of a run inserts a row, one    *)
(* run at a time takes a row, settles it once, and a cleaning deletes it.   *)
(* Some things disturb this, each in its own way.  TaskExecution implements *)
(* this specification.                                                     *)
(***************************************************************************)
EXTENDS Naturals, Sequences

VARIABLES
  log,     \* the states of the rows, in the order of their insertion
  faults   \* what has disturbed the task so far

Fault == {"unlock", "lockExpiry", "restart", "redisError", "dbError", "workerDeath"}

(* What lets a second run begin, or leaves the row of an ended one running. *)
Breach == {"unlock", "lockExpiry", "dbError", "workerDeath"}

Open   == {"pending", "running"}
Closed == {"success", "failed", "paused", "cancelled"}

vars == <<log, faults>>

(* Nothing of these kinds has happened.                                    *)
Calm(kinds) == faults \cap kinds = {}

(* The rows in one of the states are given the state s.                     *)
Moved(states, s) == [i \in DOMAIN log |-> IF log[i] \in states THEN s ELSE log[i]]

Init == log = << >> /\ faults = {}

-----------------------------------------------------------------------------
(* A run is ordered; orders nobody has taken may be dropped.                *)
Order ==
  /\ \E kept \in {log, Moved({"pending"}, "deleted")} : log' = Append(kept, "pending")
  /\ UNCHANGED faults

(* A run takes the newest order, or is one that nobody has ordered here.  It *)
(* is the only one, unless an operator has unlocked the task, a run that was *)
(* too long lost its lock, or a row was left behind.                        *)
Begin ==
  /\ Calm(Breach) => \A i \in DOMAIN log : log[i] # "running"
  /\ \/ \E i \in DOMAIN log :
          /\ log[i] = "pending"
          /\ \A j \in DOMAIN log : log[j] = "pending" => j <= i
          /\ log' = [log EXCEPT ![i] = "running"]
     \/ /\ \A i \in DOMAIN log : log[i] # "pending"
        /\ log' = Append(log, "running")
  /\ UNCHANGED faults

(* A run ends.  Its row may have been settled from outside by a restart or   *)
(* by a handler that did not reach Redis.                                  *)
End ==
  /\ \E i \in DOMAIN log, s \in Closed :
       /\ \/ log[i] = "running"
          \/ log[i] \in Closed /\ ~Calm({"restart", "redisError"})
       /\ log' = [log EXCEPT ![i] = s]
  /\ UNCHANGED faults

(* Old rows are deleted, when they are settled.                             *)
Clean ==
  /\ \E i \in DOMAIN log : log[i] \in Closed /\ log' = [log EXCEPT ![i] = "deleted"]
  /\ UNCHANGED faults

-----------------------------------------------------------------------------
(* An operator unlocks the task, and some time later its open rows go.       *)
Unlock == faults' = faults \cup {"unlock"} /\ UNCHANGED log

DropOpen ==
  /\ ~Calm({"unlock"})
  /\ log' = Moved(Open, "deleted")
  /\ UNCHANGED faults

(* The main process starts again and fails what it finds open.              *)
Restart ==
  /\ faults' = faults \cup {"restart"}
  /\ log' = Moved(Open, "failed")

(* A handler or a job does not reach Redis; a handler fails its own row.     *)
RedisFails ==
  /\ faults' = faults \cup {"redisError"}
  /\ \/ UNCHANGED log
     \/ log' = Moved({"pending"}, "deleted")
     \/ \E i \in DOMAIN log : log[i] # "deleted" /\ log' = [log EXCEPT ![i] = "failed"]

(* The database refuses to settle a row or to insert one: a handler may have *)
(* dropped the orders before it.                                            *)
CommitFails ==
  /\ faults' = faults \cup {"dbError"}
  /\ log' \in {log, Moved({"pending"}, "deleted")}

(* A worker dies under its runs, or a run that is too long loses its lock.   *)
RunLeft ==
  /\ \E f \in {"workerDeath", "lockExpiry"} : faults' = faults \cup {f}
  /\ UNCHANGED log

-----------------------------------------------------------------------------
Next ==
  \/ Order
  \/ Begin
  \/ End
  \/ Clean
  \/ Unlock
  \/ DropOpen
  \/ Restart
  \/ RedisFails
  \/ CommitFails
  \/ RunLeft

Spec == Init /\ [][Next]_vars

(* No two rows say running, unless the lock was lost, by /unlock or to its    *)
(* expiry, a commit failed or a worker died.                                *)
OneRunning ==
  Calm(Breach) =>
    \A i, j \in DOMAIN log : log[i] = "running" /\ log[j] = "running" => i = j

(* How far a row has come.  No step takes a row back, whatever disturbs it.  *)
Rank(state) == IF state = "pending" THEN 0
               ELSE IF state = "running" THEN 1
               ELSE IF state \in Closed THEN 2 ELSE 3

OnlyForward ==
  [][\A i \in DOMAIN log : i \in DOMAIN log' /\ Rank(log[i]) <= Rank(log'[i])]_vars
=============================================================================
