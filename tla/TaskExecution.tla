---------------------------- MODULE TaskExecution ----------------------------
(***************************************************************************)
(* One batch task of dataflux, from the HTTP handlers that order a run of  *)
(* it to the ARQ worker that carries the run out.  The actors share three  *)
(* Redis keys, the ARQ queue and the rows of sys_task_log:                 *)
(*                                                                         *)
(*   - API handlers /run, /resume, /retry, /backfill, /unlock, coroutines  *)
(*     of one event loop: what lies between two awaits is one step;        *)
(*   - /pause, /cancel and the cleaning of old rows, in the thread pool;    *)
(*   - the APScheduler trigger;                                            *)
(*   - the job slots of the ARQ worker process (WorkerSettings.max_jobs),  *)
(*     each of which runs run_sync_job, and the engine thread it awaits.   *)
(*                                                                         *)
(* Tasks have disjoint keys and rows, so one task is modelled.  What an    *)
(* engine does to the data is left to the engine modules: here it ends     *)
(* with one of the results run_sync_job tells apart.                       *)
(***************************************************************************)
EXTENDS Naturals, Sequences, FiniteSets

CONSTANTS
  Slots,      \* job slots of the worker, max_jobs of them
  Requests,   \* API requests that can be in flight at the same time
  Within(_),  \* which counts of events are allowed; bounds the model
  Free,       \* the key sync_task_lock:{id} does not exist
  Orphan      \* it exists, and the job that set it is gone

Event == {"request", "trigger", "signal", "toggle", "unlock", "cancelJob",
          "lockExpiry", "redisError", "dbError", "enqueueExpiry", "workerDeath",
          "restart", "clean"}

ASSUME SlotsAssumption == IsFiniteSet(Slots)
ASSUME LockAssumption  == Free # Orphan /\ Free \notin Slots /\ Orphan \notin Slots

VARIABLES
  task,       \* the CollectTask row: "enabled", "disabled" or "deleted"
  lock,       \* sync_task_lock:{id}.  Redis stores a fixed string; the slot
              \* kept here says which job set it and is read by no action that
              \* models code, only by the key's expiries and by the properties
  enqueued,   \* whether sync_enqueue_lock:{id} exists
  control,    \* task_control:{id}, "none" when the key does not exist
  queue,      \* number of run_sync_job entries of this task in the ARQ queue
  stalled,    \* entries whose worker died under them, until ARQ redelivers
  alive,      \* whether a worker process is up
  log,        \* rows of sys_task_log in the order they were inserted
  jobAt,      \* where each slot is in run_sync_job
  jobRow,     \* the TaskLog row of the slot's job, 0 before it has one
  jobResult,  \* what the engine returned or raised
  zombies,    \* engine threads whose job was cancelled
  reqAt,      \* where each API request is in its handler
  reqKind,    \* which handler it is
  reqRow,     \* the pending row it inserted, or the row it is to delete; 0
              \* before it has one
  count       \* how often each kind of event has happened

keys == <<lock, enqueued, control>>
arq  == <<queue, stalled, alive>>
job  == <<jobAt, jobRow, jobResult, zombies>>
req  == <<reqAt, reqKind, reqRow>>
vars == <<task, keys, arq, log, job, req, count>>

-----------------------------------------------------------------------------
Signal  == {"paused", "cancelled"}
Settled == {"success", "failed", "deleted"} \cup Signal
Status  == {"pending", "running"} \cup Settled

(* The handlers that end in enqueue_job, and in what their guards differ.   *)
Kind == {"run", "resume", "retry", "backfill"}
NeedsEnabled(k) == k # "resume"
DropsPending(k) == k \in {"run", "resume"}

(* The rows with one of the given states.                                  *)
Rows(states) == {i \in DOMAIN log : log[i] \in states}

\* Mutant of SetRow: the row is written back even when it was deleted.
SetRowAnyway(l, i, s) == [l EXCEPT ![i] = s]

(* UPDATE of one row: it changes nothing when the row has been deleted.     *)
SetRow(l, i, s) == IF l[i] = "deleted" THEN l ELSE [l EXCEPT ![i] = s]

(* UPDATE or DELETE of every unfinished row.                               *)
SetUnfinished(l, states, s) ==
  [i \in DOMAIN l |-> IF l[i] \in states THEN s ELSE l[i]]

Happens(e) == /\ count' = [count EXCEPT ![e] = @ + 1]
              /\ Within(count')

-----------------------------------------------------------------------------
Init ==
  /\ task      = "enabled"
  /\ lock      = Free
  /\ enqueued  = FALSE
  /\ control   = "none"
  /\ queue     = 0
  /\ stalled   = 0
  /\ alive     = TRUE
  /\ log       = << >>
  /\ jobAt     = [s \in Slots |-> "idle"]
  /\ jobRow    = [s \in Slots |-> 0]
  /\ jobResult = [s \in Slots |-> "none"]
  /\ zombies   = 0
  /\ reqAt     = [r \in Requests |-> "idle"]
  /\ reqKind   = [r \in Requests |-> "none"]
  /\ reqRow    = [r \in Requests |-> 0]
  /\ count     = [e \in Event |-> 0]

-----------------------------------------------------------------------------
(* API handlers that enqueue.                                              *)

(* A request arrives and its first checks pass: the task exists, is enabled *)
(* (not asked by /resume) and, for /retry, the row named in it has failed.  *)
Submit(r, k) ==
  /\ reqAt[r] = "idle"
  /\ task # "deleted"
  /\ NeedsEnabled(k) => task = "enabled"
  /\ k = "retry" => Rows({"failed"}) # {}
  /\ Happens("request")
  /\ reqAt'   = [reqAt EXCEPT ![r] = "check"]
  /\ reqKind' = [reqKind EXCEPT ![r] = k]
  /\ UNCHANGED <<task, keys, arq, log, job, reqRow>>

(* exists(sync_task_lock): the handler rejects the request or goes on.      *)
CheckLock(r) ==
  /\ reqAt[r] = "check"
  /\ \/ /\ lock # Free
        /\ reqAt'   = [reqAt EXCEPT ![r] = "idle"]
        /\ reqKind' = [reqKind EXCEPT ![r] = "none"]
     \/ /\ lock = Free
        /\ reqAt'   = [reqAt EXCEPT ![r] = "reserve"]
        /\ UNCHANGED reqKind
  /\ UNCHANGED <<task, keys, arq, log, job, reqRow, count>>

\* Mutant of Reserve: SET without NX.
ReserveWithoutNX(r) ==
  /\ reqAt[r] = "reserve"
  /\ enqueued' = TRUE
  /\ reqAt'    = [reqAt EXCEPT ![r] = "prepare"]
  /\ UNCHANGED <<task, lock, control, arq, log, job, reqKind, reqRow, count>>

(* exists(sync_enqueue_lock) followed by SET NX EX 600 on it: a request is  *)
(* rejected by the first exactly when it would be by the second.            *)
Reserve(r) ==
  /\ reqAt[r] = "reserve"
  /\ \/ /\ enqueued
        /\ reqAt'   = [reqAt EXCEPT ![r] = "idle"]
        /\ reqKind' = [reqKind EXCEPT ![r] = "none"]
        /\ UNCHANGED enqueued
     \/ /\ ~enqueued
        /\ enqueued' = TRUE
        /\ reqAt'    = [reqAt EXCEPT ![r] = "prepare"]
        /\ UNCHANGED reqKind
  /\ UNCHANGED <<task, lock, control, arq, log, job, reqRow, count>>

(* The control key is reset, old pending rows are deleted (/run, /resume)   *)
(* and the request's own pending row is inserted.  /retry and /backfill     *)
(* reset the key after the insert and an await; only the last of these      *)
(* effects matters to what comes next, so they are one step as well.        *)
Prepare(r) ==
  /\ reqAt[r] = "prepare"
  /\ control' = "running"
  /\ log' = LET kept == IF DropsPending(reqKind[r])
                        THEN SetUnfinished(log, {"pending"}, "deleted")
                        ELSE log
            IN  Append(kept, "pending")
  /\ reqRow' = [reqRow EXCEPT ![r] = Len(log) + 1]
  /\ reqAt'  = [reqAt EXCEPT ![r] = "enqueue"]
  /\ UNCHANGED <<task, lock, enqueued, arq, job, reqKind, count>>

FinishRequest(r) ==
  /\ reqAt'   = [reqAt EXCEPT ![r] = "idle"]
  /\ reqKind' = [reqKind EXCEPT ![r] = "none"]
  /\ reqRow'  = [reqRow EXCEPT ![r] = 0]

Enqueue(r) ==
  /\ reqAt[r] = "enqueue"
  /\ queue' = queue + 1
  /\ FinishRequest(r)
  /\ UNCHANGED <<task, keys, stalled, alive, log, job, count>>

(* Redis refuses the reset, or the answer to SET NX was lost: the handler   *)
(* ends with its reservation in place.  /resume has dropped the old rows.   *)
PrepareFails(r) ==
  /\ reqAt[r] = "prepare"
  /\ Happens("redisError")
  /\ log' = IF reqKind[r] = "resume"
            THEN SetUnfinished(log, {"pending"}, "deleted")
            ELSE log
  /\ FinishRequest(r)
  /\ UNCHANGED <<task, keys, arq, job>>

(* The metadata database refuses a commit of the handler.  /run and /resume  *)
(* raise, with the reservation in place and the key perhaps reset; /retry    *)
(* and /backfill roll back and delete both keys.                            *)
InsertFails(r) ==
  /\ reqAt[r] = "prepare"
  /\ Happens("dbError")
  /\ \/ /\ DropsPending(reqKind[r])
        /\ log' \in {log, SetUnfinished(log, {"pending"}, "deleted")}
        /\ control' \in {control, "running"}
        /\ UNCHANGED enqueued
     \/ /\ ~DropsPending(reqKind[r])
        /\ enqueued' = FALSE
        /\ control'  = "none"
        /\ UNCHANGED log
  /\ FinishRequest(r)
  /\ UNCHANGED <<task, lock, arq, job>>

(* enqueue_job raises.  The entry may have reached Redis all the same, and  *)
(* Redis may still refuse the DELs of the handler.  /run and /resume delete *)
(* the enqueue key first and never get to it when the row they want to mark *)
(* is gone: the flush of the UPDATE raises out of the except block.         *)
EnqueueFails(r) ==
  /\ reqAt[r] = "enqueue"
  /\ Happens("redisError")
  /\ queue' \in {queue, queue + 1}
  /\ log' = SetRow(log, reqRow[r], "failed")
  /\ enqueued' \in {enqueued, FALSE}
  /\ control'  \in {control, "none"}
  /\ DropsPending(reqKind[r]) =>
       /\ log[reqRow[r]] = "deleted" => UNCHANGED <<enqueued, control>>
       /\ enqueued' => UNCHANGED control
  /\ FinishRequest(r)
  /\ UNCHANGED <<task, lock, stalled, alive, job>>

-----------------------------------------------------------------------------
(* API handlers that do not enqueue.                                       *)

(* /pause and /cancel ask nothing about the task.                           *)
SendSignal(c) ==
  /\ Happens("signal")
  /\ control' = c
  /\ UNCHANGED <<task, lock, enqueued, arq, log, job, req>>

(* /unlock, first half: DEL of the lock and of the control key.             *)
UnlockKeys(r) ==
  /\ reqAt[r] = "idle"
  /\ Happens("unlock")
  /\ lock'    = Free
  /\ control' = "none"
  /\ reqAt'   = [reqAt EXCEPT ![r] = "unlock"]
  /\ UNCHANGED <<task, enqueued, arq, log, job, reqKind, reqRow>>

(* /unlock, second half: DELETE of the unfinished rows.                     *)
UnlockRows(r) ==
  /\ reqAt[r] = "unlock"
  /\ log'   = SetUnfinished(log, {"pending", "running"}, "deleted")
  /\ reqAt' = [reqAt EXCEPT ![r] = "idle"]
  /\ UNCHANGED <<task, keys, arq, job, reqKind, reqRow, count>>

(* /log/clean, first half: SELECT of closed rows older than some date.  A   *)
(* cleaning of many rows is as many requests for one.                       *)
SelectClosed(r) ==
  /\ reqAt[r] = "idle"
  /\ Happens("clean")
  /\ \E i \in Rows(Settled \ {"deleted"}) : reqRow' = [reqRow EXCEPT ![r] = i]
  /\ reqAt' = [reqAt EXCEPT ![r] = "clean"]
  /\ UNCHANGED <<task, keys, arq, log, job, reqKind>>

(* Second half: DELETE by id, whatever the row says by now, and of the rows  *)
(* of sync_execution_log that belong to it.                                 *)
DeleteClosed(r) ==
  /\ reqAt[r] = "clean"
  /\ log' = [log EXCEPT ![reqRow[r]] = "deleted"]
  /\ FinishRequest(r)
  /\ UNCHANGED <<task, keys, arq, job, count>>

ChangeStatus ==
  /\ task # "deleted"
  /\ Happens("toggle")
  /\ task' = IF task = "enabled" THEN "disabled" ELSE "enabled"
  /\ UNCHANGED <<keys, arq, log, job, req>>

DeleteTask ==
  /\ task # "deleted"
  /\ Happens("toggle")
  /\ task' = "deleted"
  /\ UNCHANGED <<keys, arq, log, job, req>>

(* A cron trigger fires: enqueue_job and nothing else.                      *)
Trigger ==
  /\ task = "enabled"
  /\ Happens("trigger")
  /\ queue' = queue + 1
  /\ UNCHANGED <<task, keys, stalled, alive, log, job, req>>

-----------------------------------------------------------------------------
(* The worker: run_sync_job.                                               *)

Goto(s, label) == jobAt' = [jobAt EXCEPT ![s] = label]

\* Mutant of Acquire: SET without NX.
AcquireWithoutNX(s) ==
  /\ alive
  /\ jobAt[s] = "idle"
  /\ queue > 0
  /\ queue' = queue - 1
  /\ lock'  = s
  /\ Goto(s, "clear")
  /\ UNCHANGED <<task, enqueued, control, stalled, alive, log, jobRow,
                 jobResult, zombies, req, count>>

(* A free slot takes an entry and wins SET NX on the lock.                  *)
Acquire(s) ==
  /\ alive
  /\ jobAt[s] = "idle"
  /\ queue > 0
  /\ lock = Free
  /\ queue' = queue - 1
  /\ lock'  = s
  /\ Goto(s, "clear")
  /\ UNCHANGED <<task, enqueued, control, stalled, alive, log, jobRow,
                 jobResult, zombies, req, count>>

(* It loses SET NX: the entry is dropped, and so is what was queued with it:*)
(* neither the enqueue key nor the pending row is touched.                  *)
DropEntry(s) ==
  /\ alive
  /\ jobAt[s] = "idle"
  /\ queue > 0
  /\ lock # Free
  /\ queue' = queue - 1
  /\ UNCHANGED <<task, keys, stalled, alive, log, job, req, count>>

(* DEL of the enqueue key, whoever set it.                                  *)
ClearEnqueued(s) ==
  /\ jobAt[s] = "clear"
  /\ enqueued' = FALSE
  /\ Goto(s, "load")
  /\ UNCHANGED <<task, lock, control, arq, log, jobRow, jobResult, zombies,
                 req, count>>

(* Redis refuses that DEL.  It stands before the try block: the job ends    *)
(* with its lock in place.                                                  *)
ClearFails(s) ==
  /\ jobAt[s] = "clear"
  /\ Happens("redisError")
  /\ lock' = IF lock = s THEN Orphan ELSE lock
  /\ Goto(s, "idle")
  /\ UNCHANGED <<task, enqueued, control, arq, log, jobRow, jobResult,
                 zombies, req>>

\* Mutant of LoadFails: the early return stands outside the try block.
LoadFailsLocked(s) ==
  /\ jobAt[s] = "load"
  /\ Goto(s, "idle")
  /\ UNCHANGED <<task, keys, arq, log, jobRow, jobResult, zombies, req, count>>

\* Mutant of LoadFails: the job raises Retry, and its entry is queued again.
LoadFailsRetry(s) ==
  /\ jobAt[s] = "load"
  /\ queue' = queue + 1
  /\ Goto(s, "release")
  /\ UNCHANGED <<task, keys, stalled, alive, log, jobRow, jobResult, zombies,
                 req, count>>

(* The task is gone, or its source is or lacks a db_name: return.           *)
LoadFails(s) ==
  /\ jobAt[s] = "load"
  /\ Goto(s, "release")
  /\ UNCHANGED <<task, keys, arq, log, jobRow, jobResult, zombies, req, count>>

\* Mutant of StartEngine: a running row is adopted like a pending one.
StartEngineOnAny(s) ==
  /\ jobAt[s] = "load"
  /\ task # "deleted"
  /\ \E i \in Rows({"pending", "running"}) :
       /\ log'    = [log EXCEPT ![i] = "running"]
       /\ jobRow' = [jobRow EXCEPT ![s] = i]
  /\ Goto(s, "engine")
  /\ UNCHANGED <<task, keys, arq, jobResult, zombies, req, count>>

(* The newest pending row becomes the job's row, or a new one is inserted;  *)
(* then the engine's thread starts.                                         *)
StartEngine(s) ==
  /\ jobAt[s] = "load"
  /\ task # "deleted"
  /\ \/ \E i \in Rows({"pending"}) :
          /\ \A j \in Rows({"pending"}) : j <= i
          /\ log'    = [log EXCEPT ![i] = "running"]
          /\ jobRow' = [jobRow EXCEPT ![s] = i]
     \/ /\ Rows({"pending"}) = {}
        /\ log'    = Append(log, "running")
        /\ jobRow' = [jobRow EXCEPT ![s] = Len(log) + 1]
  /\ Goto(s, "engine")
  /\ UNCHANGED <<task, keys, arq, jobResult, zombies, req, count>>

\* Mutant of EngineEnds: the result lacks a status.
EngineEndsUnknown(s) ==
  /\ jobAt[s] = "engine"
  /\ Goto(s, "record")
  /\ UNCHANGED <<task, keys, arq, log, jobRow, jobResult, zombies, req, count>>

(* The engine's thread ends: it finishes, raises, or has read a signal from *)
(* the control key at a batch boundary.                                     *)
EngineEnds(s) ==
  /\ jobAt[s] = "engine"
  /\ \E result \in {"success", "failed"} \cup ({control} \cap Signal) :
       jobResult' = [jobResult EXCEPT ![s] = result]
  /\ Goto(s, "record")
  /\ UNCHANGED <<task, keys, arq, log, jobRow, zombies, req, count>>

(* What the row is to say.  On success the task's row is read again, which   *)
(* raises when it has been deleted.                                         *)
Verdict(s) == IF jobAt[s] = "abort" \/ (jobResult[s] = "success" /\ task = "deleted")
              THEN "failed" ELSE jobResult[s]

(* The job is done with its row and goes on to its finally block.           *)
LeaveRow(s) ==
  /\ jobRow'    = [jobRow EXCEPT ![s] = 0]
  /\ jobResult' = [jobResult EXCEPT ![s] = "none"]
  /\ Goto(s, IF jobAt[s] = "abort" THEN "late" ELSE "release")

\* Mutant of Record: an engine that raised leaves its row as it is.
RecordUnlessFailed(s) ==
  /\ jobAt[s] \in {"record", "abort"}
  /\ log' = IF Verdict(s) = "failed" THEN log
            ELSE SetRow(log, jobRow[s], Verdict(s))
  /\ LeaveRow(s)
  /\ UNCHANGED <<task, keys, arq, zombies, req, count>>

(* The verdict is committed to the row.                                     *)
Record(s) ==
  /\ jobAt[s] \in {"record", "abort"}
  /\ log' = SetRow(log, jobRow[s], Verdict(s))
  /\ LeaveRow(s)
  /\ UNCHANGED <<task, keys, arq, zombies, req, count>>

(* That commit raises.  The except block commits once more on the session    *)
(* that failed, which raises too and is rolled back; the commit of a         *)
(* cancelled job stands in no try.  The row stays as it is, and the finally  *)
(* block is reached.  (A commit of StartEngine that is carried out and       *)
(* raises all the same leaves the same state behind.)                        *)
RecordFails(s) ==
  /\ jobAt[s] \in {"record", "abort"}
  /\ Happens("dbError")
  /\ LeaveRow(s)
  /\ UNCHANGED <<task, keys, arq, log, zombies, req>>

(* job_timeout, or SIGTERM, cancels the coroutine while it awaits the       *)
(* engine: the row is still to be marked and the thread goes on by itself.  *)
CancelJob(s) ==
  /\ jobAt[s] = "engine"
  /\ Happens("cancelJob")
  /\ zombies' = zombies + 1
  /\ Goto(s, "abort")
  /\ UNCHANGED <<task, keys, arq, log, jobRow, jobResult, req>>

ZombieEnds ==
  /\ zombies > 0
  /\ zombies' = zombies - 1
  /\ UNCHANGED <<task, keys, arq, log, jobAt, jobRow, jobResult, req, count>>

(* finally: DEL of the lock, whoever holds it by now.                       *)
Release(s) ==
  /\ jobAt[s] \in {"release", "late"}
  /\ lock' = Free
  /\ Goto(s, "idle")
  /\ UNCHANGED <<task, enqueued, control, arq, log, jobRow, jobResult,
                 zombies, req, count>>

(* Redis refuses that DEL.                                                  *)
ReleaseFails(s) ==
  /\ jobAt[s] \in {"release", "late"}
  /\ Happens("redisError")
  /\ lock' = IF lock = s THEN Orphan ELSE lock
  /\ Goto(s, "idle")
  /\ UNCHANGED <<task, enqueued, control, arq, log, jobRow, jobResult,
                 zombies, req>>

-----------------------------------------------------------------------------
(* Expiries, crashes and restarts.                                         *)

\* Mutant of LockExpires: the lock lives shorter than job_timeout.
LockExpiresEarly ==
  /\ lock # Free
  /\ lock' = Free
  /\ UNCHANGED <<task, enqueued, control, arq, log, job, req, count>>

(* The lock of a job that is gone expires.                                  *)
LockExpires ==
  /\ lock = Orphan
  /\ lock' = Free
  /\ UNCHANGED <<task, enqueued, control, arq, log, job, req, count>>

(* So may the lock of a job that is late.  Its 7200 s are as long as         *)
(* job_timeout and begin a moment later: when they pass, the job has been    *)
(* cancelled, but it may still be committing, closing or on its way to the   *)
(* DEL of a key that is another job's by then.                              *)
LockRunsOut(s) ==
  /\ lock = s
  /\ jobAt[s] \in {"abort", "late"}
  /\ Happens("lockExpiry")
  /\ lock' = Free
  /\ UNCHANGED <<task, enqueued, control, arq, log, job, req>>

(* The 600 s of the enqueue key may pass while the entry still waits for    *)
(* one of max_jobs slots.                                                   *)
EnqueuedExpires ==
  /\ enqueued
  /\ Happens("enqueueExpiry")
  /\ enqueued' = FALSE
  /\ UNCHANGED <<task, lock, control, arq, log, job, req>>

ControlExpires ==
  /\ control # "none"
  /\ control' = "none"
  /\ UNCHANGED <<task, lock, enqueued, arq, log, job, req, count>>

(* The worker process is killed: its jobs and all engine threads stop.  The *)
(* entries stay in ARQ's queue, marked as in progress.                      *)
WorkerDies ==
  /\ alive
  /\ Happens("workerDeath")
  /\ alive'     = FALSE
  /\ stalled'   = stalled + Cardinality({s \in Slots : jobAt[s] # "idle"})
  /\ lock'      = IF lock = Free THEN Free ELSE Orphan
  /\ jobAt'     = [s \in Slots |-> "idle"]
  /\ jobRow'    = [s \in Slots |-> 0]
  /\ jobResult' = [s \in Slots |-> "none"]
  /\ zombies'   = 0
  /\ UNCHANGED <<task, enqueued, control, queue, log, req>>

(* ARQ delivers such an entry again once its in-progress mark has expired,  *)
(* 10 s after the lock its job had set.                                     *)
Redeliver ==
  /\ stalled > 0
  /\ lock # Orphan
  /\ stalled' = stalled - 1
  /\ queue'   = queue + 1
  /\ UNCHANGED <<task, keys, alive, log, job, req, count>>

(* The main process is started again.  Its requests are lost; it starts a   *)
(* worker, fails every unfinished row and leaves the Redis keys alone.  A   *)
(* worker that outlived its parent, which a killed parent cannot take along,*)
(* goes on with its jobs.                                                   *)
Restart ==
  /\ Happens("restart")
  /\ alive'   = TRUE
  /\ log'     = SetUnfinished(log, {"pending", "running"}, "failed")
  /\ reqAt'   = [r \in Requests |-> "idle"]
  /\ reqKind' = [r \in Requests |-> "none"]
  /\ reqRow'  = [r \in Requests |-> 0]
  /\ UNCHANGED <<task, keys, queue, stalled, job>>

-----------------------------------------------------------------------------
Api(r) ==
  \/ \E k \in Kind : Submit(r, k)
  \/ CheckLock(r)
  \/ Reserve(r)
  \/ Prepare(r)
  \/ PrepareFails(r)
  \/ InsertFails(r)
  \/ Enqueue(r)
  \/ EnqueueFails(r)
  \/ UnlockKeys(r)
  \/ UnlockRows(r)
  \/ SelectClosed(r)
  \/ DeleteClosed(r)

Worker(s) ==
  \/ Acquire(s)
  \/ DropEntry(s)
  \/ ClearEnqueued(s)
  \/ ClearFails(s)
  \/ LoadFails(s)
  \/ StartEngine(s)
  \/ EngineEnds(s)
  \/ Record(s)
  \/ RecordFails(s)
  \/ CancelJob(s)
  \/ LockRunsOut(s)
  \/ Release(s)
  \/ ReleaseFails(s)

Environment ==
  \/ \E c \in Signal : SendSignal(c)
  \/ ChangeStatus
  \/ DeleteTask
  \/ Trigger
  \/ ZombieEnds
  \/ LockExpires
  \/ EnqueuedExpires
  \/ ControlExpires
  \/ WorkerDies
  \/ Redeliver
  \/ Restart

Next ==
  \/ \E r \in Requests : Api(r)
  \/ \E s \in Slots : Worker(s)
  \/ Environment

Spec == Init /\ [][Next]_vars

(* A worker that is up takes entries and carries its jobs through: every    *)
(* await of run_sync_job returns, the one of the engine because job_timeout *)
(* bounds it.  Redis expires keys, ARQ redelivers.  Handlers, users, the    *)
(* clock of the scheduler and operators owe nothing.                        *)
Progress(s) ==
  \/ Acquire(s)
  \/ DropEntry(s)
  \/ ClearEnqueued(s)
  \/ LoadFails(s)
  \/ StartEngine(s)
  \/ EngineEnds(s)
  \/ Record(s)
  \/ Release(s)

Fairness ==
  /\ \A s \in Slots : WF_vars(Progress(s))
  /\ WF_vars(LockExpires)
  /\ WF_vars(Redeliver)

FairSpec == Spec /\ Fairness

-----------------------------------------------------------------------------
(* Properties.                                                             *)

(* None of the given kinds of events has happened.                          *)
Never(events) == \A e \in events : count[e] = 0

JobLabel == {"idle", "clear", "load", "engine", "record", "abort", "release", "late"}
HasRow   == {"engine", "record", "abort"}
ReqLabel == {"idle", "check", "reserve", "prepare", "enqueue", "unlock", "clean"}

(* Type invariant; a row a handler or a job refers to is in the table.      *)
TypeOK ==
  /\ task \in {"enabled", "disabled", "deleted"}
  /\ lock \in Slots \cup {Free, Orphan}
  /\ enqueued \in BOOLEAN
  /\ control \in {"none", "running"} \cup Signal
  /\ queue \in Nat /\ stalled \in Nat /\ alive \in BOOLEAN
  /\ log \in Seq(Status)
  /\ jobAt \in [Slots -> JobLabel]
  /\ jobRow \in [Slots -> 0 .. Len(log)]
  /\ \A s \in Slots : jobAt[s] \in HasRow => jobRow[s] # 0
  /\ jobResult \in [Slots -> {"none", "success", "failed"} \cup Signal]
  /\ \A s \in Slots : jobAt[s] = "record" => jobResult[s] # "none"
  /\ zombies \in Nat
  /\ reqAt \in [Requests -> ReqLabel]
  /\ reqKind \in [Requests -> Kind \cup {"none"}]
  /\ reqRow \in [Requests -> 0 .. Len(log)]
  /\ \A r \in Requests : reqAt[r] \in {"enqueue", "clean"} => reqRow[r] # 0
  /\ count \in [Event -> Nat]

(* Threads running the engine for this task, awaited or not.                *)
Engines == Cardinality({s \in Slots : jobAt[s] = "engine"}) + zombies

(* Jobs between their SET NX and their DEL.                                 *)
Busy == {s \in Slots : jobAt[s] # "idle"}

(* How often the lock was taken from a job: by /unlock, or by its expiry     *)
(* under a job that is late.                                                *)
Losses == count["unlock"] + count["lockExpiry"]

(* From its SET NX to its DEL a job owns the lock, but for as many jobs as   *)
(* there were losses.  A job that has lost it deletes the lock of the next   *)
(* one, which deletes that of a third: the damage is passed on and does not  *)
(* grow.  Without a loss no job, handler, expiry or restart takes the lock.  *)
LockOwned == Cardinality({s \in Busy : lock # s}) <= Losses

(* Two engines run at the same time only because a job was cancelled and its *)
(* thread left behind, or because the lock was lost: each time adds at most  *)
(* one engine, whatever fails besides.                                      *)
EngineLimit == Engines <= 1 + count["cancelJob"] + Losses

(* A request past SET NX, an entry in the queue, a job before its DEL of    *)
(* the enqueue key.                                                         *)
Reserved == {r \in Requests : reqAt[r] \in {"prepare", "enqueue"}}
Clearing == {s \in Slots : jobAt[s] = "clear"}

(* For a task without cron trigger the enqueue key is a second lock, held   *)
(* by a request and handed to the queue entry and to its job: at most one   *)
(* of them exists while Redis answers, the key lives and no worker dies.    *)
OneReservation ==
  Never({"trigger", "redisError", "enqueueExpiry", "workerDeath"}) =>
    /\ Cardinality(Reserved) + queue + Cardinality(Clearing) <= 1
    /\ (Reserved # {} \/ queue > 0 \/ Clearing # {}) => enqueued

(* Rows that say running although no job will settle them.                  *)
Stale == {i \in Rows({"running"}) :
            ~\E s \in Slots : jobRow[s] = i /\ jobAt[s] \in HasRow}

(* A row that says running is the row of a job that is running: jobs that    *)
(* fail, are cancelled or lose their task settle their row.  A commit that   *)
(* fails leaves one row behind, and the death of the worker those of the     *)
(* jobs that ran: one, and one more for each loss of the lock.              *)
RunningRowsLive ==
  Cardinality(Stale) <= count["dbError"] + (1 + Losses) * count["workerDeath"]

(* No two jobs write the same row, whatever happens, and no cleaning takes   *)
(* the row of a job that runs: rows are settled for good when it selects     *)
(* them, except those a restart or a failed handler settles beside a job.    *)
RowsDisjoint ==
  /\ \A s, t \in Slots : jobRow[s] # 0 /\ jobRow[s] = jobRow[t] => s = t
  /\ Never({"restart", "redisError"}) =>
       \A s \in Slots, r \in Requests : reqAt[r] = "clean" => jobRow[s] # reqRow[r]

(* A settled row keeps its state until it is cleaned, and a deleted one      *)
(* stays deleted, except that a job which outlives a restart overwrites the  *)
(* verdict of startup, and that a handler whose enqueue_job raised marks a   *)
(* row a job may have taken.                                               *)
SettledIsFinal ==
  [][Never({"restart", "redisError"})' =>
       \A i \in Rows(Settled) :
         \/ log'[i] = log[i]
         \/ log'[i] = "deleted" /\ \E r \in Requests : reqAt[r] = "clean"]_vars

(* What has disturbed the task, of the kinds TaskLog knows of.               *)
Faults == {e \in {"unlock", "lockExpiry", "restart", "redisError", "dbError", "workerDeath"} :
             count[e] > 0}

Table == INSTANCE TaskLog WITH faults <- Faults

(* The table of runs keeps to its specification: requests, entries and jobs  *)
(* change a row only from ordered to running, settled and deleted, and take  *)
(* rows one at a time, but for what each disturbance adds.                   *)
KeepsTaskLog == Table!Spec

(* Once the worker is up and stays up, it empties the queue and no lock     *)
(* remains: not even one left by a job that could not release it.           *)
QueueDrains  == queue > 0 ~> queue = 0 \/ ~alive
LockReleased == lock # Free ~> lock = Free
=============================================================================
