--------------------------- MODULE IncrementalCopy ---------------------------
(***************************************************************************)
(* What the table engines of dataflux do to the data of one task:          *)
(* DatabaseSyncEngine (relational source) and MongoSyncEngine, the         *)
(* watermark the worker records, and /pause, /cancel, /resume, /backfill   *)
(* and /watermark/reset, which read or write it.                           *)
(*                                                                         *)
(* A row is its table, its value in the incremental column and a number that *)
(* tells rows with the same value apart.  0 stands for None and for the     *)
(* number zero, which the engines' tests of a watermark do not tell apart.  *)
(* One job of the task runs at a time, as it does while its lock lasts:     *)
(* that is TaskExecution's subject.  One request at a time writes the       *)
(* watermark.                                                              *)
(***************************************************************************)
EXTENDS Naturals, Sequences, FiniteSets

CONSTANTS
  Table,        \* tables or collections of the source
  MaxValue,     \* bounds the incremental column
  MaxTies,      \* bounds the rows of a table that share a value
  MaxRows,      \* bounds the rows of the source
  Choice,       \* the watermarks users choose
  BatchSize,
  Tasks,        \* the configurations of the task that are considered
  Within(_)     \* which counts of events are allowed; bounds the model

(* order: the tables, in the order the job copies them.  commit: what a      *)
(* transaction of the target spans: the job (SQL engine), a table (MongoDB   *)
(* to PostgreSQL) or a batch (to MongoDB).  sorted: whether the cursor is    *)
(* sorted by the incremental column.  incremental: collect_mode is inc_id    *)
(* or inc_time, and not full.                                              *)
Config == [order : Seq(Table), commit : {"job", "table", "batch"},
           sorted : BOOLEAN, incremental : BOOLEAN]

Event == {"signal", "resume", "reset", "fault", "recordFault", "late"}

ASSUME NumberAssumption ==
  MaxValue \in Nat /\ MaxTies \in Nat /\ BatchSize \in Nat \ {0}
  /\ Choice \subseteq 0 .. MaxValue
ASSUME TaskAssumption ==
  \A c \in Tasks : /\ c \in Config
                  /\ \A i, j \in DOMAIN c.order : c.order[i] = c.order[j] => i = j

VARIABLES
  task,       \* the configuration, one of Tasks, which no step changes
  source,     \* rows of the source
  copies,     \* how often each row is in the target, as committed
  watermark,  \* CollectTask.last_watermark
  saved,      \* the breakpoint in Redis, task:{id}:watermark
  control,    \* task_control:{id}; a missing key reads "running"
  at,         \* where the job is: "idle", "table", "read", "record"
  from,       \* the watermark the job was given
  next,       \* index of the table it copies or is about to copy
  unread,     \* rows its cursor has still to return
  staged,     \* rows written in the open transaction
  tableMax, globalMax,
  handler,    \* the request that is writing the watermark, or "none"
  step,       \* what that request does next
  before,     \* the watermark it has read
  put,        \* the watermark a /backfill has written
  chosen,     \* history: the highest watermark a user ever chose
  seen,       \* history: the highest value of each table a cursor ever reached
  late,       \* history: rows that got a value when a cursor had reached it
  count

jobVars == <<at, from, next, unread, staged, tableMax, globalMax>>
reqVars == <<handler, step, before, put>>
history == <<chosen, seen, late>>
vars == <<task, source, copies, watermark, saved, control, jobVars, reqVars,
          history, count>>

Values == 1 .. MaxValue
Tables == {task.order[i] : i \in DOMAIN task.order}
Row    == Table \X Values \X (1 .. MaxTies)
Signal == {"paused", "cancelled"}
Handler == {"resume", "reset", "backfill"}

Larger(m, n) == IF m > n THEN m ELSE n

(* The largest value among the rows of S, or m if that is larger: a set of   *)
(* one watermark.  A full copy has none.                                   *)
Highest(m, S) ==
  IF ~task.incremental THEN {m}
  ELSE {n \in 0 .. MaxValue : /\ n >= m
                              /\ n = m \/ \E r \in S : r[2] = n
                              /\ \A r \in S : r[2] <= n}

Happens(e) == /\ count' = [count EXCEPT ![e] = @ + 1]
              /\ Within(count')

-----------------------------------------------------------------------------
Init ==
  /\ task \in Tasks
  /\ source = {}
  /\ copies = [r \in Row |-> 0]
  /\ watermark = 0 /\ saved = 0 /\ control = "running"
  /\ at = "idle" /\ from = 0 /\ next = 1
  /\ unread = {} /\ staged = {} /\ tableMax = 0 /\ globalMax = 0
  /\ handler = "none" /\ step = "check" /\ before = 0 /\ put = 0
  /\ chosen = 0 /\ seen = [t \in Table |-> 0] /\ late = {}
  /\ count = [e \in Event |-> 0]

-----------------------------------------------------------------------------
(* The source.                                                             *)

\* Mutant of Extract: ">=" instead of ">".
ExtractFrom(t) ==
  {r \in source : r[1] = t /\ (task.incremental => r[2] >= from)}

(* SELECT ... WHERE column > watermark, or find({column: {$gt: ...}}).      *)
Extract(t) ==
  {r \in source : r[1] = t /\ (task.incremental => r[2] > from)}

(* A row appears, or is updated under a new value, at any place of the       *)
(* column: transactions commit in another order than they take ids or times, *)
(* and two rows may have one time.  An _id is unique.  A cursor of MongoDB   *)
(* is no snapshot and may still return a row its query is about; one sorted  *)
(* by the column only ahead of where it is, with everything before it.       *)
Insert(t, v) ==
  LET ties == {r \in source : r[1] = t /\ r[2] = v}
      row  == <<t, v, Cardinality(ties) + 1>>
  IN
  /\ Cardinality(source) < MaxRows /\ Cardinality(ties) < MaxTies
  /\ task.sorted => ties = {}
  /\ source' = source \cup {row}
  /\ IF task.incremental /\ v <= seen[t]
     THEN Happens("late") /\ late' = late \cup {row}
     ELSE UNCHANGED <<late, count>>
  /\ \/ UNCHANGED <<unread, seen>>
     \/ /\ task.commit # "job" /\ at = "read" /\ task.order[next] = t
        /\ task.incremental => v > from
        /\ task.sorted =>
             /\ v > tableMax
             /\ \A r \in Extract(t) : \/ r[2] <= tableMax
                                      \/ r \in unread \cup late
        /\ unread' = unread \cup {row}
        /\ seen' = IF task.incremental
                   THEN [seen EXCEPT ![t] = Larger(@, v)] ELSE seen
  /\ UNCHANGED <<task, copies, watermark, saved, control, at, from, next,
                 staged, tableMax, globalMax, reqVars, chosen>>

-----------------------------------------------------------------------------
(* Handlers.                                                               *)

(* What a user has skipped: with a watermark that was chosen, or with one that*)
(* a /backfill has written and may still withdraw.                          *)
Skipped == IF put = before THEN chosen ELSE Larger(chosen, put)

(* An entry of the queue becomes a job.  Its watermark is the task's as the  *)
(* worker reads it, be it a choice that is withdrawn later.  /run and /retry *)
(* have reset the signal, the cron trigger has not.                         *)
Run ==
  /\ at = "idle"
  /\ at' = "table"
  /\ from' = watermark
  /\ next' = 1
  /\ globalMax' = 0
  /\ control' \in {"running", control}
  /\ chosen' = Skipped
  /\ UNCHANGED <<task, source, copies, watermark, saved, unread, staged, tableMax,
                 reqVars, seen, late, count>>

(* /resume, /watermark/reset or /backfill reads the task's row ...           *)
Ask(h) ==
  /\ handler = "none"
  /\ h # "resume" => task.incremental
  /\ Happens(IF h = "resume" THEN "resume" ELSE "reset")
  /\ handler' = h
  /\ before'  = IF h = "resume" THEN 0 ELSE watermark
  /\ UNCHANGED <<task, source, copies, watermark, saved, control, jobVars, step, put,
                 history>>

(* ... and goes on if no job runs, as /backfill asks once more before it     *)
(* orders its own: some awaits later one may.                               *)
CheckIdle ==
  /\ handler # "none" /\ step \in {"check", "order"}
  /\ at = "idle"
  /\ step' = IF step = "check" THEN "commit" ELSE "enqueue"
  /\ UNCHANGED <<task, source, copies, watermark, saved, control, jobVars, handler,
                 before, put, history, count>>

EndRequest == handler' = "none" /\ step' = "check" /\ before' = 0 /\ put' = 0

Refuse ==
  /\ handler # "none" /\ step = "check"
  /\ EndRequest
  /\ UNCHANGED <<task, source, copies, watermark, saved, control, jobVars, history, count>>

(* /resume takes over the breakpoint, which it leaves in Redis, and orders a  *)
(* job.                                                                    *)
Resume ==
  /\ handler = "resume" /\ step = "commit"
  /\ watermark' = IF saved # 0 THEN saved ELSE watermark
  /\ control' = "running"
  /\ EndRequest
  /\ UNCHANGED <<task, source, copies, saved, jobVars, history, count>>

(* The UPDATE of a watermark is left out when it is the one that was read.   *)
Assign(w) == watermark' = IF w = before THEN watermark ELSE w

(* The commit of /watermark/reset.                                         *)
Reset(w) ==
  /\ handler = "reset" /\ step = "commit"
  /\ Assign(w)
  /\ chosen' = IF w = before THEN chosen ELSE Larger(chosen, w)
  /\ step' = "drop"
  /\ UNCHANGED <<task, source, copies, saved, control, jobVars, handler, before, put,
                 seen, late, count>>

(* The commit of /backfill from w.                                         *)
Choose(w) ==
  /\ handler = "backfill" /\ step = "commit"
  /\ Assign(w)
  /\ put' = w
  /\ step' = "drop"
  /\ UNCHANGED <<task, source, copies, saved, control, jobVars, handler, before, history,
                 count>>

(* The DEL of the breakpoint behind each of them.                           *)
DropBreakpoint ==
  /\ step = "drop"
  /\ saved' = 0
  /\ IF handler = "reset" THEN EndRequest
     ELSE step' = "order" /\ UNCHANGED <<handler, before, put>>
  /\ UNCHANGED <<task, source, copies, watermark, control, jobVars, history, count>>

(* /backfill orders its job: the choice stands.                             *)
Backfill ==
  /\ step = "enqueue"
  /\ control' = "running"
  /\ chosen' = Skipped
  /\ EndRequest
  /\ UNCHANGED <<task, source, copies, watermark, saved, jobVars, seen, late, count>>

(* Redis fails where nothing catches it, or the process dies: the request is *)
(* over, the watermark that was written stays.                             *)
Abandon ==
  /\ step \in {"drop", "order", "enqueue"}
  /\ chosen' = Skipped
  /\ EndRequest
  /\ UNCHANGED <<task, source, copies, watermark, saved, control, jobVars, seen, late, count>>

(* /backfill fails to order its job: another one has begun, the task is      *)
(* disabled, or Redis or the database refuse.  The watermark is put back,    *)
(* whoever has read or written it since; when it was the one chosen, the     *)
(* UPDATE may be left out.                                                 *)
Withdraw ==
  /\ step \in {"order", "enqueue"}
  /\ watermark' \in {before} \cup (IF put = before THEN {watermark} ELSE {})
  /\ control' \in {control, "running"}
  /\ EndRequest
  /\ UNCHANGED <<task, source, copies, saved, jobVars, history, count>>

Request ==
  \/ \E h \in Handler : Ask(h)
  \/ CheckIdle
  \/ Refuse
  \/ Resume
  \/ \E w \in Choice : Reset(w) \/ Choose(w)
  \/ DropBreakpoint
  \/ Backfill
  \/ Abandon
  \/ Withdraw

SendSignal(c) ==
  /\ Happens("signal")
  /\ control' = c
  /\ UNCHANGED <<task, source, copies, watermark, saved, jobVars, reqVars,
                 history>>

\* Mutant of KeysExpire: the control key is set without EX.
BreakpointExpires ==
  /\ saved # 0 /\ saved' = 0
  /\ UNCHANGED <<task, source, copies, watermark, control, jobVars,
                 reqVars, history, count>>

KeysExpire ==
  /\ control' \in {control, "running"} /\ saved' \in {saved, 0}
  /\ <<control, saved>> # <<control', saved'>>
  /\ UNCHANGED <<task, source, copies, watermark, jobVars, reqVars, history,
                 count>>

-----------------------------------------------------------------------------
(* The engine.                                                             *)

(* Rows are committed: MongoDB documents under their _id, rows of the SQL   *)
(* engine always with a plain INSERT, since the table objects it builds     *)
(* have no primary key whatever sync_mode says.                            *)
CommitRows(S) ==
  copies' = [r \in Row |-> IF r \notin S THEN copies[r]
                           ELSE IF task.commit = "job" THEN copies[r] + 1 ELSE 1]

\* Mutant of Leave: the transaction is left open.
LeaveOpen ==
  /\ at' = "idle" /\ from' = 0 /\ next' = 1
  /\ unread' = {} /\ tableMax' = 0 /\ globalMax' = 0
  /\ UNCHANGED staged

(* The job ends, and what it kept with it.                                  *)
Leave ==
  /\ at' = "idle" /\ from' = 0 /\ next' = 1
  /\ unread' = {} /\ staged' = {} /\ tableMax' = 0 /\ globalMax' = 0

(* _check_task_status finds a signal: the exception leaves the engine, the  *)
(* open transaction is rolled back, and a pause has saved the watermark.    *)
Interrupt(w) ==
  /\ control \in Signal
  /\ saved' = IF control = "paused" /\ w # 0 THEN w ELSE saved
  /\ Leave

InterruptAtTable ==
  /\ at = "table" /\ next <= Len(task.order)
  /\ Interrupt(globalMax)
  /\ UNCHANGED <<task, source, copies, watermark, control, reqVars, history, count>>

OpenTable ==
  /\ at = "table" /\ next <= Len(task.order)
  /\ control \notin Signal
  /\ unread' = Extract(task.order[next])
  /\ \E n \in Highest(seen[task.order[next]], unread') :
       seen' = [seen EXCEPT ![task.order[next]] = n]
  /\ tableMax' = 0
  /\ at' = "read"
  /\ UNCHANGED <<task, source, copies, watermark, saved, control, from, next,
                 staged, globalMax, reqVars, chosen, late, count>>

(* The next BatchSize rows the cursor may return.                          *)
Batches ==
  {B \in SUBSET unread :
     /\ Cardinality(B) = BatchSize
     /\ task.sorted => \A r \in B, u \in unread \ B : r[2] < u[2]}

(* A full batch is written, then the signal is read.                        *)
CopyBatch(B) ==
  /\ at = "read"
  /\ B \in Batches
  /\ CommitRows(IF task.commit = "batch" THEN B ELSE {})
  /\ \E w \in Highest(tableMax, B) :
       \/ /\ control \notin Signal
          /\ tableMax' = w
          /\ unread' = unread \ B
          /\ staged' = IF task.commit = "batch" THEN staged ELSE staged \cup B
          /\ UNCHANGED <<at, from, next, saved, globalMax>>
       \/ Interrupt(w)
  /\ UNCHANGED <<task, source, watermark, control, reqVars, history, count>>

\* Mutant of FinishTable: the last batch, which is not full, is forgotten.
FinishTableEarly ==
  /\ at = "read"
  /\ Cardinality(unread) < BatchSize
  /\ CommitRows(IF task.commit = "table" THEN staged ELSE {})
  /\ staged' = IF task.commit = "job" THEN staged ELSE {}
  /\ \E w \in Highest(tableMax, unread) : globalMax' = Larger(globalMax, w)
  /\ unread' = {} /\ tableMax' = 0
  /\ next' = next + 1
  /\ at' = "table"
  /\ UNCHANGED <<task, source, watermark, saved, control, from, reqVars,
                 history, count>>

(* The last rows of a table are written without looking for a signal.       *)
FinishTable ==
  /\ at = "read"
  /\ Cardinality(unread) < BatchSize
  /\ CommitRows(IF task.commit = "job" THEN {} ELSE staged \cup unread)
  /\ staged' = IF task.commit = "job" THEN staged \cup unread ELSE {}
  /\ \E w \in Highest(tableMax, unread) : globalMax' = Larger(globalMax, w)
  /\ unread' = {} /\ tableMax' = 0
  /\ next' = next + 1
  /\ at' = "table"
  /\ UNCHANGED <<task, source, watermark, saved, control, from, reqVars,
                 history, count>>

(* After the last table the SQL engine commits.                            *)
FinishJob ==
  /\ at = "table" /\ next > Len(task.order)
  /\ CommitRows(staged)
  /\ staged' = {}
  /\ at' = "record"
  /\ UNCHANGED <<task, source, watermark, saved, control, from, next, unread,
                 tableMax, globalMax, reqVars, history, count>>

(* The engine raises, or its process dies: the open transaction is lost.    *)
(* A bulk_write to MongoDB may have written some of its batch.              *)
Fail ==
  /\ at \in {"table", "read"}
  /\ Happens("fault")
  /\ \E S \in SUBSET unread :
       /\ S # {} => task.commit = "batch" /\ Cardinality(S) <= BatchSize
       /\ CommitRows(S)
  /\ Leave
  /\ UNCHANGED <<task, source, watermark, saved, control, reqVars, history>>

(* The worker stores the new watermark with the result.                    *)
Record ==
  /\ at = "record"
  /\ watermark' = IF globalMax # 0 THEN globalMax ELSE watermark
  /\ Leave
  /\ UNCHANGED <<task, source, copies, saved, control, reqVars, history, count>>

(* It does not: the row of the run is gone, or the worker dies before.      *)
RecordFails ==
  /\ at = "record"
  /\ Happens("recordFault")
  /\ Leave
  /\ UNCHANGED <<task, source, copies, watermark, saved, control, reqVars, history>>

-----------------------------------------------------------------------------
Engine ==
  \/ InterruptAtTable
  \/ OpenTable
  \/ \E B \in SUBSET unread : CopyBatch(B)
  \/ FinishTable
  \/ FinishJob
  \/ Record

Next ==
  \/ \E t \in Tables, v \in Values : Insert(t, v)
  \/ Run
  \/ Request
  \/ \E c \in Signal : SendSignal(c)
  \/ KeysExpire
  \/ Engine
  \/ Fail
  \/ RecordFails

Spec == Init /\ [][Next]_vars

(* A started job goes on (job_timeout bounds it), the scheduler starts the  *)
(* task again and again, and Redis expires the control key.                 *)
Expire == control' = "running" /\ KeysExpire

FairSpec == /\ Spec
            /\ WF_vars(Engine)
            /\ WF_vars(Run)
            /\ WF_vars(Expire)

-----------------------------------------------------------------------------
(* Properties.                                                             *)

Never(events) == \A e \in events : count[e] = 0

(* Type invariant; no cursor stays open behind a table and no transaction    *)
(* behind a job.                                                           *)
TypeOK ==
  /\ task \in Tasks
  /\ source \in SUBSET Row
  /\ copies \in [Row -> Nat]
  /\ watermark \in 0 .. MaxValue /\ saved \in 0 .. MaxValue
  /\ control \in {"running"} \cup Signal
  /\ at \in {"idle", "table", "read", "record"}
  /\ from \in 0 .. MaxValue
  /\ next \in 1 .. Len(task.order) + 1
  /\ at = "read" => next <= Len(task.order)
  /\ at # "read" => unread = {} /\ tableMax = 0
  /\ at \in {"idle", "record"} => staged = {}
  /\ unread \in SUBSET source /\ staged \in SUBSET source
  /\ tableMax \in 0 .. MaxValue /\ globalMax \in 0 .. MaxValue
  /\ handler \in Handler \cup {"none"}
  /\ step \in {"check", "commit", "drop", "order", "enqueue"}
  /\ handler = "none" => step = "check" /\ before = 0
  /\ put # 0 => handler = "backfill" /\ step \notin {"check", "commit"}
  /\ before \in 0 .. MaxValue /\ put \in 0 .. MaxValue /\ chosen \in 0 .. MaxValue
  /\ seen \in [Table -> 0 .. MaxValue] /\ late \in SUBSET source
  /\ count \in [Event -> Nat]

(* The rows up to the watermark, which no later job reads again, are in the *)
(* target: except those a user skipped by choosing a watermark, those that   *)
(* got their value when a job had already read as far, and, when a /backfill *)
(* fails, those its watermark skipped if a job began before it was put back. *)
Complete ==
  \A r \in source \ late :
    Skipped < r[2] /\ r[2] <= watermark => copies[r] > 0

(* The job copies one table from a snapshot or in the order of the column.  *)
Orderly == \/ ~task.incremental
           \/ Len(task.order) = 1 /\ (task.commit = "job" \/ task.sorted)

(* /resume is not used, or the batches below the watermark that a pause      *)
(* saves are durable.                                                      *)
Durable == \/ ~task.incremental
           \/ Never({"resume"})
           \/ task.commit = "batch" /\ task.sorted

(* Nothing is skipped, whatever signals, failures, resets and restarts come *)
(* between.                                                                *)
NothingSkipped == Orderly /\ Durable => Complete

(* The watermark is where the engine put it.                                *)
Calm == task.incremental /\ Never({"resume", "reset"})

(* A row is inserted once, and once more at most for each run that committed *)
(* its rows and lost its watermark, unless a user moves the watermark.       *)
NothingRepeated == Calm => \A r \in Row : copies[r] <= 1 + count["recordFault"]

(* The engine implements TableCopy, in every step: a row is written only      *)
(* above the watermark, once and once more for each record that was lost, as *)
(* long as nobody moves the watermark; a watermark is recorded only behind   *)
(* rows that are in the target, and does not go back; what a user skips lies *)
(* below the watermark chosen, and is owed again when the choice is          *)
(* withdrawn in time.                                                      *)
Target == INSTANCE TableCopy WITH
            owed    <- {r \in source \ late : Skipped < r[2]},
            orderly <- Orderly /\ Durable,
            calm    <- Calm,
            lost    <- count["recordFault"]

KeepsTableCopy == Target!Spec

(* Once the source stops growing, every row of it gets to the target that    *)
(* was not late.                                                           *)
EveryRowArrives ==
  [](Orderly /\ Durable /\ Never({"reset"})) =>
    <>[](\A r \in source \ late : copies[r] > 0)

(* README.md: pause, cancel, resume at any batch boundary, no data is lost. *)
PauseLosesNothing == Orderly => Complete
=============================================================================
