----------------------------- MODULE PollEngines -----------------------------
(***************************************************************************)
(* The engines that ask a device once per run and store its answer:          *)
(* ApiSyncEngine, SnmpSyncEngine and SocketSyncEngine (TCP and UDP), and    *)
(* CleanService, which deletes rows of the same table while they run.       *)
(*                                                                         *)
(* A run writes a point about the request to InfluxDB, and the rows of the   *)
(* answer to PostgreSQL in one transaction.  The id of a row is the MD5 of   *)
(* its content and a second insertion does nothing, except for ApiSyncEngine,*)
(* whose ids are random.  collected_at is represented by the number of the   *)
(* run, and the batch size is 1.                                            *)
(***************************************************************************)
EXTENDS Naturals, FiniteSets

CONSTANTS
  Doc,        \* documents of the device, or rows of its tables
  Tasks,      \* the configurations of the task that are considered
  Bound       \* how often each kind of event may happen

Event  == {"run", "signal", "change", "fault", "influx", "clean"}
Signal == {"paused", "cancelled"}
Task   == [engine : {"api", "snmp", "tcp", "udp"},
           mode : {"monitor", "data", "both"}]

ASSUME TaskAssumption  == Tasks \subseteq Task
ASSUME BoundAssumption == Bound \in [Event -> Nat]

VARIABLES
  task,       \* the configuration, one of Tasks, which no step changes
  source,     \* the documents the device has now
  control,    \* task_control:{id}
  at,         \* where the engine is
  run,        \* number of the current or last run
  reply,      \* the rows the answer is parsed into
  ok,         \* is_success of the request
  todo, tx,   \* rows to be inserted; rows inserted and not committed
  exists,     \* whether the target table exists
  table,      \* its rows
  points,     \* the measurement of this task in InfluxDB
  result,     \* how the engine ended each run
  answer,     \* history: what each run set out to store
  troubled,   \* history: runs in which the device or the network failed
  unmeasured, \* history: runs whose point InfluxDB refused
  spared,     \* history: runs whose rows each cleaning promised to keep
  count

Run     == 1 .. Bound["run"]
device  == <<source, control>>
engine  == <<at, run, reply, ok, todo, tx, answer, result>>
store   == <<exists, table, spared>>
monitor == <<points, troubled, unmeasured>>
vars    == <<task, device, engine, store, monitor, count>>

Happens(e) == /\ count[e] < Bound[e]
              /\ count' = [count EXCEPT ![e] = @ + 1]

None == "none"

(* main() returns status "success" or "failed", or raises.                  *)
Result == {"success", "failed", "raised"}

(* run_sync_job fails the log row for an exception and looks at a returned   *)
(* status for "paused" and "cancelled" only, which no engine returns here.   *)
LogStatus(n) == IF result[n] = "raised" THEN "failed" ELSE "success"

Measures  == task.mode # "data"
Stores    == task.mode # "monitor"
HashesIds == task.engine # "api"

(* A row of the table holds a document, or the part of it that arrived.      *)
Whole(d) == [doc |-> d, whole |-> TRUE]
Part(d)  == [doc |-> d, whole |-> FALSE]
Row == [doc : Doc \cup {None}, whole : BOOLEAN]
WholeRows == {Whole(d) : d \in source}

Init ==
  /\ task \in Tasks
  /\ source \in SUBSET Doc /\ control = None
  /\ at = "idle" /\ run = 0 /\ reply = {} /\ ok = FALSE
  /\ todo = {} /\ tx = {}
  /\ exists = FALSE /\ table = {}
  /\ points = {} /\ troubled = {} /\ unmeasured = {}
  /\ result = [n \in Run |-> None] /\ answer = [n \in Run |-> {}]
  /\ spared = Run
  /\ count = [e \in Event |-> 0]

-----------------------------------------------------------------------------
Change(S) ==
  /\ S # source
  /\ Happens("change")
  /\ source' = S
  /\ UNCHANGED <<task, control, engine, store, monitor>>

(* /pause, /cancel                                                         *)
SendSignal(s) ==
  /\ Happens("signal")
  /\ control' = s
  /\ UNCHANGED <<task, source, engine, store, monitor>>

(* The key lives for a day.                                                *)
ControlExpires ==
  /\ control # None
  /\ control' = None
  /\ UNCHANGED <<task, source, engine, store, monitor, count>>

(* A job starts; one a user runs or resumes takes the signal back.          *)
StartRun(c) ==
  /\ at = "idle"
  /\ Happens("run")
  /\ c \in {control, None}
  /\ control' = c
  /\ run' = run + 1
  /\ at' = "start" /\ reply' = {} /\ ok' = FALSE
  /\ UNCHANGED <<task, source, todo, tx, answer, result, store, monitor>>

(* A result is returned or an exception raised: what is not committed is     *)
(* rolled back.                                                            *)
End(status) ==
  /\ at' = "idle" /\ todo' = {} /\ tx' = {}
  /\ result' = [result EXCEPT ![run] = status]
  /\ UNCHANGED run

\* Mutant of Interrupt: the transaction is not rolled back.
InterruptOpen ==
  /\ at \in {"start", "extract", "insert"}
  /\ control # None
  /\ at' = "idle" /\ todo' = {}
  /\ result' = [result EXCEPT ![run] = "raised"]
  /\ UNCHANGED <<task, device, run, reply, ok, tx, answer, store, monitor,
                 count>>

(* _check_task_status: first of all, before every OID, before the answer is  *)
(* parsed and before every batch.                                           *)
Interrupt ==
  /\ \/ at \in {"start", "extract", "insert"}
     \/ at = "request" /\ task.engine = "snmp"
  /\ control # None
  /\ at = "insert" => todo # {}
  /\ End("raised")
  /\ UNCHANGED <<task, device, reply, ok, answer, store, monitor, count>>

Start ==
  /\ at = "start" /\ control = None
  /\ at' = IF task.engine = "snmp" /\ ~Measures THEN "extract" ELSE "request"
  /\ UNCHANGED <<task, device, run, reply, ok, todo, tx, answer, result,
                 store, monitor, count>>

-----------------------------------------------------------------------------
(* The request.                                                            *)

Answered(rows, success) ==
  /\ reply' = rows /\ ok' = success
  /\ at' = "point"
  /\ UNCHANGED <<run, todo, tx, answer, result>>

(* The answer of a TCP device is read piece by piece.                       *)
Request ==
  /\ at = "request"
  /\ task.engine = "snmp" => control = None
  /\ IF task.engine = "tcp"
     THEN /\ at' = "receive"
          /\ UNCHANGED <<run, reply, ok, todo, tx, answer, result>>
     ELSE Answered(WholeRows, TRUE)
  /\ UNCHANGED <<task, device, store, monitor, count>>

(* Connection refused, no answer, an HTTP error, an OID not answered; Redis  *)
(* failing while a TCP answer is read.                                      *)
RequestFails ==
  /\ at \in {"request", "receive"} /\ (control = None \/ at = "request")
  /\ task.engine = "snmp" => control = None
  /\ Happens("fault")
  /\ troubled' = troubled \cup {run}
  /\ Answered({}, FALSE)
  /\ UNCHANGED <<task, device, store, points, unmeasured>>

(* The last piece arrives: one that ends in the terminator, or any piece     *)
(* when there is none.  Pieces before it change nothing and may come for     *)
(* ever.                                                                   *)
Receive ==
  /\ at = "receive" /\ control = None
  /\ Answered(WholeRows, TRUE)
  /\ UNCHANGED <<task, device, store, monitor, count>>

(* Silence, the end of the connection, or, when no terminator is configured, *)
(* an answer in several pieces: what has come counts as the answer, and as   *)
(* it is no JSON it is stored as text.                                      *)
ReceiveCut ==
  /\ at = "receive" /\ control = None
  /\ Happens("fault")
  /\ troubled' = troubled \cup {run}
  /\ Answered({Part(None)}, TRUE)
  /\ UNCHANGED <<task, device, store, points, unmeasured>>

\* Mutant of ReceiveInterrupted: the loop does not look at the signal.
ReceiveOn ==
  /\ at = "receive" /\ control # None
  /\ UNCHANGED vars

(* A signal raises inside the try block of _request, whose except clause     *)
(* takes it for a failed request.                                          *)
ReceiveInterrupted ==
  /\ at = "receive" /\ control # None
  /\ Answered({}, FALSE)
  /\ UNCHANGED <<task, device, store, monitor, count>>

-----------------------------------------------------------------------------
(* InfluxDB.                                                               *)

Measured ==
  IF Measures THEN points \cup {[run |-> run, ok |-> ok]} ELSE points

(* A failed request ends the run, unless it was one of SNMP's.               *)
AfterPoint ==
  IF ~ok /\ task.engine # "snmp" THEN End("failed")
  ELSE IF ~Stores THEN End("success")
  ELSE at' = "extract" /\ UNCHANGED <<run, todo, tx, result>>

\* Mutant of Point: a failed request is only logged.
PointGoesOn ==
  /\ at = "point"
  /\ points' = Measured
  /\ IF Stores THEN at' = "extract" /\ UNCHANGED <<run, todo, tx, result>>
     ELSE End("success")
  /\ UNCHANGED <<task, device, reply, ok, answer, store, troubled, unmeasured,
                 count>>

Point ==
  /\ at = "point"
  /\ points' = Measured
  /\ AfterPoint
  /\ UNCHANGED <<task, device, reply, ok, answer, store, troubled, unmeasured,
                 count>>

(* A point that cannot be written is logged and forgotten.                  *)
PointFails ==
  /\ at = "point" /\ Measures
  /\ Happens("influx")
  /\ unmeasured' = unmeasured \cup {run}
  /\ AfterPoint
  /\ UNCHANGED <<task, device, reply, ok, answer, store, points, troubled>>

-----------------------------------------------------------------------------
(* PostgreSQL.                                                             *)

(* The target table is created unless there is nothing to store.            *)
Extracted(rows) ==
  /\ at = "extract" /\ control = None
  /\ answer' = [answer EXCEPT ![run] = rows]
  /\ IF rows = {}
     THEN End("success") /\ UNCHANGED exists
     ELSE /\ exists' = TRUE
          /\ at' = "insert" /\ todo' = rows
          /\ UNCHANGED <<run, tx, result>>
  /\ UNCHANGED <<task, device, reply, ok, table, spared, points, unmeasured>>

Extract ==
  /\ Extracted(IF task.engine = "snmp" THEN WholeRows ELSE reply)
  /\ UNCHANGED <<troubled, count>>

(* The walk of a column breaks off, with a warning only: rows are missing,   *)
(* or lack the column.                                                     *)
ExtractBroken(parts, missing) ==
  /\ task.engine = "snmp"
  /\ Happens("fault")
  /\ troubled' = troubled \cup {run}
  /\ Extracted({Whole(d) : d \in source \ (parts \cup missing)} \cup
               {Part(d)  : d \in (source \cap parts) \ missing})

\* Mutant of Insert: every batch is a transaction of its own.
InsertCommitted(r) ==
  /\ at = "insert" /\ r \in todo /\ control = None /\ exists
  /\ todo' = todo \ {r}
  /\ table' = table \cup {[row |-> r, run |-> run]}
  /\ UNCHANGED <<task, device, at, run, reply, ok, tx, answer, result, exists,
                 spared, monitor, count>>

(* INSERT ... ON CONFLICT (id) DO NOTHING                                  *)
Insert(r) ==
  /\ at = "insert" /\ r \in todo /\ control = None /\ exists
  /\ todo' = todo \ {r}
  /\ tx' = IF HashesIds /\ r \in {x.row : x \in table} THEN tx ELSE tx \cup {r}
  /\ UNCHANGED <<task, device, at, run, reply, ok, answer, result, store,
                 monitor, count>>

Commit ==
  /\ at = "insert" /\ todo = {}
  /\ table' = table \cup {[row |-> r, run |-> run] : r \in tx}
  /\ End("success")
  /\ UNCHANGED <<task, device, reply, ok, answer, exists, spared, monitor,
                 count>>

(* The table has been dropped since it was created.                         *)
InsertFails ==
  /\ at = "insert" /\ todo # {} /\ control = None /\ ~exists
  /\ End("raised")
  /\ UNCHANGED <<task, device, reply, ok, answer, store, monitor, count>>

(* PostgreSQL or Redis fails, an answer cannot be decoded, or the worker     *)
(* dies, in which case the next start of the main process fails the row.    *)
Fail ==
  /\ at # "idle"
  /\ Happens("fault")
  /\ End("raised")
  /\ UNCHANGED <<task, device, reply, ok, answer, store, monitor>>

-----------------------------------------------------------------------------
(* CleanService, ordered by /clean or by the task's clean_cron.              *)

(* Once it has inserted, the engine's transaction holds off what needs the   *)
(* table for itself.                                                       *)
Holding == at = "insert" /\ todo # answer[run]

Unfinished(n) == n > run \/ (n = run /\ at # "idle")

Truncate ==
  /\ exists /\ ~Holding
  /\ Happens("clean")
  /\ table' = {} /\ spared' = {n \in spared : Unfinished(n)}
  /\ UNCHANGED <<task, device, engine, exists, monitor>>

Drop ==
  /\ ~Holding
  /\ Happens("clean")
  /\ table' = {} /\ spared' = {n \in spared : Unfinished(n)}
  /\ exists' = FALSE
  /\ UNCHANGED <<task, device, engine, monitor>>

(* Rows with a collected_at before the cutoff.                              *)
DeleteByDays(cutoff) ==
  /\ exists
  /\ Happens("clean")
  /\ table' = {x \in table : x.run >= cutoff}
  /\ spared' = {n \in spared : n >= cutoff}
  /\ UNCHANGED <<task, device, engine, exists, monitor>>

\* Mutant of DeleteByCount: the oldest rows are kept.
DeleteNewest(keep) ==
  /\ exists /\ Cardinality(table) > keep
  /\ Happens("clean")
  /\ \E kept \in SUBSET table :
       /\ Cardinality(kept) = keep
       /\ \A x \in kept, y \in table \ kept : x.run <= y.run
       /\ table' = kept
  /\ spared' = {n \in spared : Cardinality({x \in table : x.run >= n}) <= keep}
  /\ UNCHANGED <<task, device, engine, exists, monitor>>

(* Rows beyond the newest ones, in the order of collected_at.               *)
DeleteByCount(keep) ==
  /\ exists /\ Cardinality(table) > keep
  /\ Happens("clean")
  /\ \E kept \in SUBSET table :
       /\ Cardinality(kept) = keep
       /\ \A x \in kept, y \in table \ kept : x.run >= y.run
       /\ table' = kept
  /\ spared' = {n \in spared : Cardinality({x \in table : x.run >= n}) <= keep}
  /\ UNCHANGED <<task, device, engine, exists, monitor>>

(* The action a user asks for, or the task's clean_policy.                  *)
Clean ==
  \/ Truncate
  \/ Drop
  \/ \E cutoff \in 1 .. run + 1 : DeleteByDays(cutoff)
  \/ \E keep \in 0 .. Cardinality(table) : DeleteByCount(keep)

-----------------------------------------------------------------------------
(* What the engine does by itself.  The last piece of a TCP answer is up to  *)
(* the device.                                                             *)
Worker ==
  \/ Interrupt
  \/ Start
  \/ Request
  \/ ReceiveInterrupted
  \/ Point
  \/ Extract
  \/ \E r \in todo : Insert(r)
  \/ InsertFails
  \/ Commit

Next ==
  \/ \E S \in SUBSET Doc : Change(S)
  \/ \E s \in Signal : SendSignal(s)
  \/ ControlExpires
  \/ \E c \in Signal \cup {None} : StartRun(c)
  \/ RequestFails
  \/ Receive
  \/ ReceiveCut
  \/ PointFails
  \/ \E parts, missing \in SUBSET Doc : ExtractBroken(parts, missing)
  \/ Fail
  \/ Clean
  \/ Worker

Spec == Init /\ [][Next]_vars

FairSpec == Spec /\ WF_vars(Worker)

-----------------------------------------------------------------------------
(* Properties.                                                             *)

Place == {"idle", "start", "request", "receive", "point", "extract", "insert"}

(* Type invariant; a transaction is open only while rows are inserted, and   *)
(* holds rows of the answer.                                               *)
TypeOK ==
  /\ task \in Tasks
  /\ source \in SUBSET Doc
  /\ control \in Signal \cup {None}
  /\ at \in Place
  /\ run \in 0 .. Bound["run"]
  /\ reply \in SUBSET Row /\ ok \in BOOLEAN
  /\ (todo \cup tx) \subseteq IF at = "insert" THEN answer[run] ELSE {}
  /\ exists \in BOOLEAN /\ table \in SUBSET [row : Row, run : Run]
  /\ ~exists => table = {}
  /\ points \in SUBSET [run : Run, ok : BOOLEAN]
  /\ result \in [Run -> Result \cup {None}]
  /\ answer \in [Run -> SUBSET Row]
  /\ troubled \in SUBSET Run /\ unmeasured \in SUBSET Run
  /\ spared \in SUBSET Run
  /\ count \in [Event -> Nat]

(* An answer is stored whole or not at all: the rows of the table are those  *)
(* of runs that succeeded, and whatever a successful run has read is there   *)
(* as long as nothing is cleaned.  Where ids are random this holds for every *)
(* run a cleaning promises to keep; where they are hashes a row keeps the    *)
(* date it was first seen at, and a run may rely on one that is deleted.     *)
Kept(n) == count["clean"] = 0 \/ (~HashesIds /\ n \in spared)

AllOrNothing ==
  /\ \A x \in table : result[x.run] = "success"
  /\ \A n \in Run : result[n] = "success" /\ Kept(n) =>
       answer[n] \subseteq {x.row : x \in table}

(* What the measurement says: a failure only when device or network failed,  *)
(* or a TCP run was told to stop, and such a run is no success unless it is  *)
(* one of SNMP; and every run that succeeded has its point, as long as       *)
(* InfluxDB took it.                                                       *)
PointsTell ==
  /\ \A p \in points : ~p.ok =>
       /\ p.run \in troubled \/ (task.engine = "tcp" /\ count["signal"] > 0)
       /\ result[p.run] = "success" => task.engine = "snmp"
  /\ \A n \in Run : result[n] = "success" /\ Measures /\ n \notin unmeasured =>
       \E p \in points : p.run = n

(* A run that is told to stop ends, though the device go on sending.         *)
SignalEnds == at # "idle" /\ control # None ~> at = "idle" \/ control = None

(* api_sync_engine.py: a run whose request failed is recorded as failed.     *)
FailureRecorded ==
  \A n \in Run : result[n] = "failed" => LogStatus(n) = "failed"
=============================================================================
