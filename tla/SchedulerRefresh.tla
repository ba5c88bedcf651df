-------------------------- MODULE SchedulerRefresh --------------------------
(***************************************************************************)
(* The timers of APScheduler as a copy of the task table.                  *)
(* /add, /update, /delete and /change_status commit their change and then   *)
(* rebuild all timers: remove_all_jobs(), one SELECT, and one add_job() for   *)
(* each timer.  /add and /update are plain functions, which the framework   *)
(* runs in threads; /delete and /change_status are coroutines and hold the  *)
(* event loop for the whole of it.  No lock spans a refresh.                *)
(***************************************************************************)
EXTENDS Naturals, FiniteSets

CONSTANTS
  Task,
  Thread,       \* threads that serve requests
  EventLoop,    \* the event loop, which serves one coroutine at a time
  Cron,         \* cron expressions
  Bound         \* how often each kind of event may happen

Handler == Thread \cup {EventLoop}
Event   == {"write", "failure", "restart"}

NoCron == ""
Kind   == {"sync", "clean"}    \* job_{id} and clean_job_{id}
Timer  == Task \X Kind

ASSUME LoopAssumption  == EventLoop \notin Thread
ASSUME CronAssumption  == NoCron \notin Cron
ASSUME BoundAssumption == Bound \in [Event -> Nat]

VARIABLES
  config,      \* rows of the task table
  timers,      \* the cron expression of each timer, or NoCron
  pc,          \* "idle", or the next step of the handler's refresh
  selected,    \* timers the handler has selected and not added yet
  overlapped,  \* history: a refresh of this bout met another
  failed,      \* history: a SELECT failed after the last remove_all_jobs()
  count

vars == <<config, timers, pc, selected, overlapped, failed, count>>

Row == [row : {"unused", "stored", "deleted"}, on : BOOLEAN,
        sync : Cron \cup {NoCron}, clean : Cron \cup {NoCron}]

Happens(e) == /\ count[e] < Bound[e]
              /\ count' = [count EXCEPT ![e] = @ + 1]

Init ==
  /\ config = [t \in Task |-> [row |-> "unused", on |-> FALSE,
                               sync |-> NoCron, clean |-> NoCron]]
  /\ timers = [j \in Timer |-> NoCron]
  /\ pc = [h \in Handler |-> "idle"]
  /\ selected = [h \in Handler |-> {}]
  /\ overlapped = FALSE /\ failed = FALSE
  /\ count = [e \in Event |-> 0]

-----------------------------------------------------------------------------
(* WHERE status = 1 AND schedule_cron IS NOT NULL AND schedule_cron != ''   *)
Chosen(t) == config[t].row = "stored" /\ config[t].on /\ config[t].sync # NoCron

(* The timer a task should have: none without a clean_policy or clean_cron,  *)
(* which is NoCron here.                                                   *)
Expression(j) == IF Chosen(j[1]) THEN config[j[1]][j[2]] ELSE NoCron

Wanted == {j \in Timer : Expression(j) # NoCron}

-----------------------------------------------------------------------------
(* A handler commits its change of a row and goes on to the refresh.        *)
Write(h, t, r) ==
  /\ pc[h] = "idle"
  /\ Happens("write")
  /\ config' = [config EXCEPT ![t] = r]
  /\ pc' = [pc EXCEPT ![h] = "clear"]
  /\ overlapped' = \E g \in Handler \ {h} : pc[g] # "idle"
  /\ UNCHANGED <<timers, selected, failed>>

AddTask(h, t) ==
  /\ h \in Thread
  /\ config[t].row = "unused"
  /\ \E r \in Row : r.row = "stored" /\ Write(h, t, r)

UpdateTask(h, t) ==
  /\ h \in Thread
  /\ config[t].row = "stored"
  /\ \E s, c \in Cron \cup {NoCron} :
        Write(h, t, [config[t] EXCEPT !.sync = s, !.clean = c])

DeleteTask(t) ==
  /\ config[t].row = "stored"
  /\ Write(EventLoop, t, [config[t] EXCEPT !.row = "deleted"])

ChangeStatus(t) ==
  /\ config[t].row = "stored"
  /\ \E b \in BOOLEAN : Write(EventLoop, t, [config[t] EXCEPT !.on = b])

-----------------------------------------------------------------------------
\* Mutant of Clear: a refresh leaves its work to one that is running.
ClearUnlessRunning(h) ==
  /\ pc[h] = "clear"
  /\ IF \E g \in Handler \ {h} : pc[g] # "idle"
     THEN UNCHANGED timers /\ pc' = [pc EXCEPT ![h] = "idle"]
     ELSE timers' = [j \in Timer |-> NoCron] /\ pc' = [pc EXCEPT ![h] = "read"]
  /\ failed' = FALSE
  /\ UNCHANGED <<config, selected, overlapped, count>>

\* Mutant of Clear: the old timers stay.
ClearNothing(h) ==
  /\ pc[h] = "clear"
  /\ pc' = [pc EXCEPT ![h] = "read"]
  /\ failed' = FALSE
  /\ UNCHANGED <<config, timers, selected, overlapped, count>>

(* remove_all_jobs()                                                       *)
Clear(h) ==
  /\ pc[h] = "clear"
  /\ timers' = [j \in Timer |-> NoCron]
  /\ pc' = [pc EXCEPT ![h] = "read"]
  /\ failed' = FALSE
  /\ UNCHANGED <<config, selected, overlapped, count>>

(* The SELECT, which sees what is committed.                                *)
Read(h) ==
  /\ pc[h] = "read"
  /\ selected' = [selected EXCEPT ![h] = {<<j, Expression(j)>> : j \in Wanted}]
  /\ pc' = [pc EXCEPT ![h] = IF Wanted = {} THEN "idle" ELSE "add"]
  /\ UNCHANGED <<config, timers, overlapped, failed, count>>

(* It raises, and so does the handler, whose change stays committed.        *)
ReadFails(h) ==
  /\ pc[h] = "read"
  /\ Happens("failure")
  /\ pc' = [pc EXCEPT ![h] = "idle"]
  /\ failed' = TRUE
  /\ UNCHANGED <<config, timers, selected, overlapped>>

\* Mutant of AddTimer: the first timer ends the refresh.
AddOneTimer(h) ==
  \E x \in selected[h] :
    /\ timers' = [timers EXCEPT ![x[1]] = x[2]]
    /\ selected' = [selected EXCEPT ![h] = @ \ {x}]
    /\ pc' = [pc EXCEPT ![h] = "idle"]
    /\ UNCHANGED <<config, overlapped, failed, count>>

(* add_job(replace_existing=True), in the order of the rows.                *)
AddTimer(h) ==
  \E x \in selected[h] :
    /\ timers' = [timers EXCEPT ![x[1]] = x[2]]
    /\ selected' = [selected EXCEPT ![h] = @ \ {x}]
    /\ pc' = [pc EXCEPT ![h] = IF selected'[h] = {} THEN "idle" ELSE "add"]
    /\ UNCHANGED <<config, overlapped, failed, count>>

(* The process ends; the next one refreshes once before it serves requests.  *)
(* A refresh that fails is logged.                                         *)
Restart ==
  /\ Happens("restart")
  /\ pc' = [h \in Handler |-> "idle"]
  /\ selected' = [h \in Handler |-> {}]
  /\ overlapped' = FALSE
  /\ \/ timers' = [j \in Timer |-> Expression(j)] /\ failed' = FALSE
     \/ timers' = [j \in Timer |-> NoCron] /\ failed' = TRUE
  /\ UNCHANGED config

-----------------------------------------------------------------------------
Next ==
  \/ \E h \in Handler, t \in Task : AddTask(h, t)
  \/ \E h \in Handler, t \in Task : UpdateTask(h, t)
  \/ \E t \in Task : DeleteTask(t)
  \/ \E t \in Task : ChangeStatus(t)
  \/ \E h \in Handler : Clear(h)
  \/ \E h \in Handler : Read(h)
  \/ \E h \in Handler : ReadFails(h)
  \/ \E h \in Handler : AddTimer(h)
  \/ Restart

Spec == Init /\ [][Next]_vars

-----------------------------------------------------------------------------
(* Properties.                                                             *)

(* Type invariant; a handler is adding exactly while it has timers to add.   *)
TypeOK ==
  /\ config \in [Task -> Row]
  /\ timers \in [Timer -> Cron \cup {NoCron}]
  /\ pc \in [Handler -> {"idle", "clear", "read", "add"}]
  /\ selected \in [Handler -> SUBSET (Timer \X Cron)]
  /\ \A h \in Handler : pc[h] = "add" <=> selected[h] # {}
  /\ overlapped \in BOOLEAN /\ failed \in BOOLEAN
  /\ count \in [Event -> Nat]

Quiet == \A h \in Handler : pc[h] = "idle"

(* However refreshes overlap, when they are over no task is without a timer  *)
(* it should have: remove_all_jobs() comes before the SELECT.               *)
NoTimerLost == Quiet /\ ~failed => \A j \in Wanted : timers[j] # NoCron

(* Refreshes one after the other leave exactly the timers of the table.      *)
TimersExact ==
  Quiet /\ ~failed /\ ~overlapped => \A j \in Timer : timers[j] = Expression(j)
=============================================================================
