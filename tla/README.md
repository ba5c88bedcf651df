# Verification of dataflux

TLA+ models of dataflux, a platform that collects data from databases, files,
interfaces and message brokers into PostgreSQL.  TLC checks the models on small
instances, TLAPS proves theorems of them for every value of the constants.
`PROJECT.json` maps every definition to the lines it models.

- [System](#system): the parts, their state and how they interact
- [Modules](#modules): which module models what
- [Runs](#runs): what TLC checks, with which bounds
- [Fairness](#fairness)
- [Theorems](#theorems): what is proved, and how
- [Divergences](#divergences): where documents and code disagree, and faults met on the way
- [Not modelled](#not-modelled)
- [What is left](#what-is-left)

## System

Three processes: the main process (FastAPI on one event loop, with a thread pool
for plain handlers and an APScheduler on the loop), the ARQ worker it starts as a
child process, and the services outside: PostgreSQL for metadata and for collected
data, Redis, brokers, sources.

| Part | State it keeps | Operations | What is hard |
|---|---|---|---|
| Worker (`worker.py`) | lock `sync_task_lock:{id}`, row of `sys_task_log`, engine thread | `run_sync_job`, cancelled after `job_timeout` | the lock is shared with handlers, expires when a job is just being cancelled, and is deleted by whoever ends; the thread survives cancellation; a commit that fails leaves the row as it is |
| Task API (`tsync.py`, `task_operations.py`) | `sync_enqueue_lock:{id}`, `task_control:{id}`, pending rows, `last_watermark` | `/run`, `/resume`, `/retry`, `/backfill`, `/watermark/reset`, `/pause`, `/cancel`, `/unlock`, `/change_status`, `/delete` | every `await` lets another handler or the worker in; Redis may fail between any two; `/backfill` writes a watermark it may have to take back |
| Scheduler (`scheduler_service.py`) | timers in memory | `refresh_scheduler_jobs`, triggers | a refresh is remove, SELECT, add, in threads and on the loop, without a lock |
| Control (`task_control.py`) | control key and breakpoint, both for 24 h | set, get, save | a signal or breakpoint outlives the run it was for |
| Table engines (`sync_service.py`, `mongo_sync_engine.py`) | open cursor, open transaction, watermarks | extract, batch, write, look for signals | watermark and rows are made durable by different actors at different times |
| File engines (`ftp_sync_engine.py`, `oss_sync_engine.py`, `file_client_factory.py`) | local files, `ftp_file_record`, `oss_file_record` | list, compare, download, record, parse | files change meanwhile, a download empties the copy it replaces and may break off, one session for all files |
| Polling engines (`api_`, `snmp_`, `socket_sync_engine.py`) | one answer, one transaction, a point in InfluxDB | ask, measure, store | signals and failures at every step, a table that is cleaned meanwhile, failures that are swallowed |
| Stream engines (`kafka_`, `rabbitmq_`, `mqtt_sync_engine.py`) | batch in memory, position or unanswered deliveries | receive, write, acknowledge | the broker's and the target's state change separately; stop, cancel, redelivery, messages that fail every time |
| Consumer managers (`*_manager.py`) | `_tasks`, `_stop_events` by task id | start, stop, end of the coroutine | handlers wait for a consumer while others act on the same entry |
| Startup, shutdown (`main.py`) | worker process | fail unfinished rows, refresh timers, start consumers | a worker or an entry may be older than the main process |
| Cleaning (`clean_service.py`, `run_clean_job`, `/clean`) | none of its own | truncate, drop, delete by days or count, delete records and files | deletes what a job is writing or relies on, without the job's lock |
| Log maintenance (`log_maintenance.py`) | none of its own | preview, delete log rows | deletes rows a job may be writing |

A handler that orders a run asks for the lock, reserves the task with the enqueue
key, inserts a pending row and puts an entry into the ARQ queue; the scheduler
only puts the entry.  A worker slot takes the entry, sets the lock or drops the
entry, deletes the enqueue key, adopts a pending row or inserts one, runs the
engine in a thread and records its result.  The engine reads the control key at
batch boundaries.  Resident consumers live in the main process and have nothing
to do with the queue.

What makes each part correct: one engine per task at a time, no row of the log
with two writers and none left behind (execution); no row of the source skipped
or doubled (table engines); records that name the content of files (file engines);
an answer stored whole or not at all (polling engines);
nothing acknowledged before it is kept, nothing left waiting (stream engines); one
consumer per task that can be stopped (managers); timers that equal the table
(scheduler).  `PROJECT.json` lists the hazards at their lines with the properties
that watch over them.

## Modules

| Module | Models | Composes with |
|---|---|---|
| `TaskLog` | abstract: what `sys_task_log` tells of a task's runs | implemented by `TaskExecution` (`INSTANCE ... WITH`) |
| `TaskExecution` | a batch task from the handlers to the end of its job, beside cleanings of the log | the engine is one step with a result; the engine modules refine what happens to the data |
| `TableCopy` | abstract: what a copy of tables promises of its rows and its watermark | implemented by `IncrementalCopy` (`INSTANCE ... WITH`) |
| `IncrementalCopy` | SQL and MongoDB engines, watermark and breakpoint, over many jobs, beside the requests that move the watermark | one job at a time, as `TaskExecution` has it while no lock is lost |
| `FileCollect` | FTP, FTPS, SFTP and OSS engines, over many jobs, beside cleanings of records and files | the same |
| `PollEngines` | API, SNMP, TCP and UDP engines, over many runs, beside cleanings of their table | the same |
| `Delivery` | abstract: what a consumer owes its broker | implemented by `KafkaEngine` and `RabbitEngine` (`INSTANCE ... WITH`) |
| `KafkaEngine`, `RabbitEngine`, `MqttEngine` | the resident consumer loops with their brokers | `ConsumerManager` starts and stops them |
| `ConsumerManager` | the three managers, their callers and restart | the consumer is one coroutine that ends |
| `SchedulerRefresh` | the timers as a copy of the task table | its timers are `TaskExecution`'s triggers and the cleanings |
| `MC...` | instances of each for TLC | |
| `TaskExecutionProofs`, `CopyProofs`, `KafkaProofs`, `RabbitProofs`, `ConsumerProofs`, `SchedulerProofs`, `FileProofs`, `PollProofs` | theorems about the module of the name, `ConsumerProofs` also about `MqttEngine` | |

### How state and actions correspond to the code

**Steps.**  In a coroutine, what lies between two awaits is one action; in a
thread, one call of Redis, the database or the scheduler.  A `pc`, `jobAt`,
`reqAt` or `at` says where an actor stands, by the name of what comes next.  What
can go wrong is an action of its own (`...Fails`, `Kill`, `WorkerDies`), placed
where the exception handlers of the code tell it apart.

**Configurations.**  Where engines differ in a few places, the configuration is a
variable that no step changes (`task`, `reset`, `startWaits`), chosen in `Init`
from a constant set.  One run then covers every engine.

**TaskExecution.**  `lock`, `enqueued` and `control` are the three Redis keys.
Redis keeps a fixed string under the lock; `lock` remembers whose it is, for the
properties and the expiries, and no action of a handler or job reads the owner.  The
key lives 7200 s, and so long is `job_timeout`, which begins a moment earlier: a job
that runs its engine keeps the lock, but one that has been cancelled may still be
committing, closing or about to delete the key when it expires (`LockRunsOut`), and
then deletes the key of the job that took it (`Release` asks for no owner).  `queue` and `stalled` count the entries ARQ holds
and those whose worker died.  `log` is the history of a task's rows in
`sys_task_log`; a deleted row stays as `"deleted"` so that a later write to it can
be seen to do nothing.  `zombies` are engine threads whose job was cancelled.
`jobAt` goes `idle, clear, load, engine, record, release` as `run_sync_job` does,
and `abort, late` in place of the last two when it is cancelled.  A commit may fail:
`InsertFails` is that of a handler, `RecordFails` that of a job, whose `except` block
then commits on the session that has just failed and rolls back, so that the row stays
as it is and the lock is released.
`reqAt` goes `check, reserve, prepare, enqueue` as `/run`, `/resume` and
`_enqueue_task` do, or through `unlock`.  `/log/clean` is a request of its own with
two steps, the SELECT of closed rows and the DELETE by their ids (`SelectClosed`,
`DeleteClosed`); a cleaning of many rows is as many requests for one.

**TaskLog.**  What a user sees of all this: the rows, and which disturbances there
have been (`Faults` of `TaskExecution`, read off its counts).  `Order` is the
insertion of a pending row by a handler, `Begin` the adoption of the newest one or
the insertion of a running row by a job, `End` the result, `Clean` the deletion of
one closed row; no lock, key, queue or process is left.  `Unlock` and `DropOpen` are
the two halves of `/unlock`, `Restart` the update of `lifespan`, `RedisFails` every
handler or job whose Redis command raises, with what that handler does to its row,
`CommitFails` a commit that raises, `RunLeft` the death of a worker or the expiry of
the lock of a late job.
What each disturbance allows is said where it is allowed: a second running row
after one of `Breach` (`/unlock`, a lock that expired under a job, a failed commit, the
death of a worker), an end that overwrites a verdict after a restart or a failed
handler.  All other steps of `TaskExecution` stutter.

**IncrementalCopy.**  A row is its table, its value in the incremental column and a
number that tells rows with the same value apart.  Rows appear anywhere in the
column, since a source commits in another order than it takes ids or times: `late`
remembers those that appear at or below a value a cursor has already reached, which
no later extraction finds.  A MongoDB cursor is no snapshot: it may still return a row
its query is about that appears while it is open.
`staged` is what the open transaction has written, `copies` what is committed,
`unread` what the cursor will return.  `commit` says what a transaction spans: the
job (SQL engine), a table (MongoDB to PostgreSQL), a batch (MongoDB to MongoDB).
`sorted` says whether the cursor follows the column: not for a SELECT without
ORDER BY, nor for `inc_time` on MongoDB.  0 is `None`, which is what the tests of a
watermark in the code cannot tell from zero.

Requests that write the watermark run step by step beside the job (`handler`, `step`):
`/resume`, `/watermark/reset` and `/backfill` read the row (`Ask`), find the task idle
(`CheckIdle`), commit (`Resume`, `Reset`, `Choose`) and delete the breakpoint
(`DropBreakpoint`), with a job beginning and recording between any two of these.  A
`/backfill` asks once more whether the task is idle and orders its job (`Backfill`),
puts the watermark it had read back when it cannot (`Withdraw`), over whatever a job has
recorded since, or ends with neither when an error goes past it (`Abandon`).  `put` is
the watermark that is still to be confirmed; a job that begins meanwhile takes it over,
and with it what it skips (`Skipped`, and `chosen` from then on).

**TableCopy.**  What is left of it without cursors, transactions, breakpoints and
jobs: a source, the rows of it that are owed to the target (`Target` in
`IncrementalCopy`: those that are not late and that no user has skipped), the target,
a watermark, and two flags.  `calm` says that the watermark is the engine's own: the
copy is incremental, and no resume, reset or backfill has come between.
`orderly` says that what is read comes in the order of the column and that a saved
breakpoint is durable.  `Write` is a commit of rows, `Advance` what the worker
records, `Lose` that it does not, which allows each row to be written once more
(`lost`), `Disturb` everything that users do to a watermark, the withdrawal of a choice
included, which makes rows owed again; all other steps of `IncrementalCopy` stutter.

**FileCollect.**  Bytes are a content, whole or cut; an MD5 is the bytes it is of.
A stamp (time and size) changes with the content.  `current` is the file in
process with the record as it was read.  `broken` is a session that an exception of
the database has left unusable.  `protocol` chooses the client: `ftplib` ends the
download without an error when the connection is reset, `paramiko` raises, OSS
reads the whole object before it writes.  A download is two steps: `Open` empties the
local copy (FTP and SFTP open it with `wb`), and while `pc` is `transfer` the file may
change, a signal or a failure may break the download off (`LeavePart`), a cleaning may
take the directory away, until `Download` has the bytes, which are those of before, of
now or of neither when the file was written meanwhile (`Arriving`).  `Fast` are the
tasks whose listing has stamps, which pass over files they know; all others download
every file in every job.  A cleaning has two steps, `CleanRecords`
and `CleanLocal`, as `clean_task_data` commits the first before it begins the
second.

**PollEngines.**  `reply` is the answer of a request, `answer` what the run set out
to store, `tx` the open transaction, `table` the rows with the number of the run
for their `collected_at`.  `HashesIds` tells the engines whose rows have the MD5 of
their content for an id, so that a second insertion does nothing, from
`ApiSyncEngine`, whose ids are random.  A TCP run stays in `receive` until the last
piece, which may never come.  `LogStatus` is what `run_sync_job` makes of a result.
The cleanings need the table for themselves where PostgreSQL does (`TRUNCATE`,
`DROP`), and so wait for a transaction that has inserted.

**KafkaEngine.**  A message is partition and offset, and so is the key of its row:
writing twice changes nothing.  `position` is the consumer's, `committed` the
group's.  `passed` is the history of what `auto_offset_reset` passed over.
`poison` are the messages that fail each time, a tombstone that has no bytes to decode
or JSON the target refuses: the batch fails with them (`IngestRefused`), the consumer
ends, and the next one begins at the same offset.

**RabbitEngine.**  `ready`, `unacked` and `settled` are the broker's, `buffer` the
two parallel lists `batch` and `pending_messages`.  A delivery remembers its
channel: after `connect_robust` has restored the connection it cannot be answered.
The loops over the buffer are stepped through with `k`, because an ACK that raises
in the middle sends the code to another loop over the same buffer.

**MqttEngine.**  `session` is what the broker has for the client, `inbox` what the
client has acknowledged and not handed to the loop.

**ConsumerManager.**  Consumers are numbered; `registered` is the entry of both
dictionaries, always written together.  `startWaits` tells the managers apart:
`stop()` of Kafka waits for the end, with MQTT and RabbitMQ the next `start()`
does.

**SchedulerRefresh.**  `pc` is the step of a handler's refresh, `selected` what its
SELECT returned and it has not added yet.  The event loop is one handler.

## Runs

Every run is exhaustive within its bounds.  `Bound` or `Within` limits how often each kind of
event (failure, signal, request, restart) happens; what the system does by itself
is never limited.

| Run | Instance | Shows |
|---|---|---|
| `execution_manual` | 2 slots, 2 handlers, 2 requests, one trigger, and two of: signal, unlock, cancellation, refused commit, cleaning of the log; the expiry of a late job's lock | types; the enqueue key admits one request, entry or job; no row has two writers, and a cleaning deletes none that a job has; implements `TaskLog` |
| `execution_faults` | 2 slots, one handler with 2 requests, one trigger, and two of: a change of status or deletion, a cancellation, a refused Redis command or commit, an early expiry of the enqueue key, a dead worker, a restart; the expiry of a late job's lock; fair | a job owns its lock until it deletes it, but for as many jobs as losses of it; engines are limited; only a failed commit or a dead worker leaves a running row; entries are taken, locks end up released |
| `copy_engines` | 5 configurations: the SQL engine, MongoDB to PostgreSQL and to MongoDB, one by update time, and a full copy of two collections; up to 3 rows with values up to 3, 2 of them tied, batches of 2, watermarks 0 and 2 to choose, each event once and two kinds in one behaviour, a signal and its resumption counting as one; fair | types; nothing below the watermark is missing but what a user skipped; implements `TableCopy`, so that nothing is inserted again but for a lost record; every row that is not late arrives |
| `files_engines` | 2 files with 2 contents, 5 configurations over FTP with and without MLSD, SFTP, OSS and a single file; each event once; fair | types; the stamp of a record names its content and that of the local copy; every file is recorded and copied again and again, and in the end always, but while it is downloaded anew |
| `poll_engines` | 2 documents, 2 runs, 6 configurations over API, SNMP, TCP and UDP, each other event once; fair | types; answers are stored whole or not at all; the measurement says what happened; a run told to stop ends |
| `kafka_delivery` | 2 partitions of 3, batches of 2, both values of `auto_offset_reset`, no refused message or one in the middle of a log; fair | types; committed is stored; implements `Delivery`; every message is stored where no refused one is left to be read |
| `rabbit_delivery` | 3 messages, one poison and two with one row id, window and batch of 2; fair | types; every answer due is in the buffer; good messages are not buried; implements `Delivery`; the queue is emptied again and again |
| `mqtt_network` | 3 messages, one poison, batches of 2; writes fail and the network breaks twice, the rest once; fair | types; a lost connection loses nothing; one failure loses nothing of a batch; every exception is followed by a new subscription or an end |
| `manager_consumers` | 3 requests, both kinds of manager, 5 consumers, 2 failures, 2 restarts; fair | types; one consumer, the one that can be stopped; disabling tells all; no start hangs |
| `scheduler_threads` | 2 tasks, 2 threads and the loop, 3 changes, failure, restart | types; no timer is lost; refreshes in turn are exact |
| `claim_pause` | the SQL engine, two pauses, two resumes | a violation: see [Divergences](#divergences) |
| `claim_failed` | as `poll_engines` | a violation, likewise |

Two slots and two handlers suffice for the execution: its hazards are between two
jobs, two handlers or one of each, and a third slot would only wait for the same
lock.  Two files are one more than the one whose failure could disturb another.
Two documents give an answer of two batches (the batch size is 1), and two runs one
whose rows the next finds.  Batches of 2 with 3 rows give a full batch and a
remainder, and two tied rows that a batch separates.  `Within` also bounds how many kinds
of event meet in one behaviour of the execution and of `copy_engines`; the theorems
have no such bound.  In `files_engines` all files begin with the same content, since
contents of different files are never compared.  A prefetch window smaller than the batch is left out of
`QueueEmptied`'s promise by its premise, since the code then waits for messages the
broker may not send.  Five consumers let two restarts and two failures happen with
a start after each.  One event of each kind is enough for a first violation of
every claim above; two, of the kinds that matter, let an event meet the aftermath
of another one of its kind.

`CHECK_DEADLOCK FALSE`: bounded events end, and a task with nothing to do rests.

Premises of the form `Never({...}) => ...` say which events a property does not
survive; in every other respect it is stated for all behaviours, and where the
premise fails the run still explores them for the other properties.

Every property is broken by a mutant of a modelled definition (the operators named
after `\* Mutant of` in the modules): a dropped NX, a commit of the log end, a
rescue that forgets its batch.

## Fairness

- Worker (`TaskExecution`): weak fairness of each slot's own steps.  Every await of
  `run_sync_job` returns, and `job_timeout` ends the one of the engine.  `Redeliver`
  and `LockExpires` are ARQ's and Redis's.  Not fair: users, the trigger, signals,
  failures, and the step back up of a dead worker.
- Table and file engines: a job that was started goes on; the scheduler starts the
  next; the control key expires after 24 h.
- Polling engines: a run goes on, since every request has a timeout.  The last piece
  of a TCP answer is the device's and is not fair: only a signal or the timeout of
  the job ends a run whose device keeps sending.
- Consumers: the event loop runs the coroutine on, broker and target answer again
  after the bounded failures.  In `KafkaEngine` and `RabbitEngine` a consumer that
  ended is started again, by a user or at the next start of the process; without
  that the code restarts nothing by itself.  `MqttEngine` needs none: its loop
  reconnects.  Its broker delivers (`Arrive`).  Producers are not fair: nobody has to
  send any.
- Managers: consumers that have been told to stop end (for MQTT and RabbitMQ this
  takes a message or the end of the connection; `TimeOut` covers those that do not
  in time).

## Theorems

Each holds for every value of the constants, from the assumptions the modules
name: sets that are finite (`SlotsAssumption`, `PartitionAssumption`,
`CallerAssumption`), a batch or window that holds at least one message
(`NumberAssumption`, `SizeAssumption`), markers that are no values (`LockAssumption`,
`LoopAssumption`, `CronAssumption`, `ContentAssumption`: no file has the content
"none"), a task that is about some file and copies no table twice
(`FileAssumption`, `TaskAssumption`), and constants of their kind
(`ResetAssumption`, `StartAssumption`, `EngineAssumption`, `PoisonAssumption`,
`RowAssumption`, `BoundAssumption`, `MqttBoundAssumption`).  The numbers of events are among the constants:
the theorems are not about one failure or two, and neither about three rows or two
slots.

`TaskExecutionProofs`:

| Theorem | States | Argument |
|---|---|---|
| `Typing` | `[]TypeOK` | inductive with the conjuncts that a job with an engine, and a handler about to enqueue, have a row of the table |
| `Ownership` | `[]LockOwned` | inductive on top of `TypeOK`: `/unlock` and the expiry under a late job rob one job each and are counted; a job that ends without its lock deletes the next owner's, and so hands the loss on without adding one (`Exchanged`); every other DEL is the owner's |
| `Exclusion` | `[]EngineLimit` | `LockOwned` admits one slot beyond `idle` and one for each loss (`BusyCounted`); `ZombiesCounted` bounds the threads left behind by the cancellations |
| `Reservation` | `[]OneReservation` | `ReservationInv`: at most one of request past SET NX, entry, and job before its DEL, the enqueue key with it, and no stalled entry |
| `Settling` | `SettledIsFinal`, which no run checks on its own | `RowInv`, action by action: rows of jobs are running or settled, those of handlers pending and different from them; a job adopts pending rows only |
| `Rows_are_disjoint` | `[]RowsDisjoint` | from `RowInv`, and `CleanInv` for the cleanings: the row one has selected is settled and no job's, and by `Settling` it stays so until the DELETE |
| `Running` | `[]RunningRowsLive` | a row becomes running with its job; a job that leaves settles it or has had a commit refused, which leaves one row; the death of a worker leaves those of its jobs, and `LockOwned` bounds these (`OwnedRows`) |
| `Implementation` | `Spec => KeepsTaskLog` | the steps of the handlers (`TableApi`), `StartEngine` (`TableBegin`) and the ends of jobs (`TableEnd`) one by one, under `TableInv`: `RowInv`, `LockOwned`, `RunningRowsLive` and `RequestRows` (the row of a cleaning is settled, an unlocking is counted).  A job that begins before anything of `Breach` holds the lock; a running row would have a job that holds it too (`NoneRunning`) |
| `One_run_at_a_time` | `[]Table!OneRunning` | until something of `Breach` happens; inductive over the steps of `TaskLog` alone: only `Begin` makes a row run, when none does |
| `No_row_goes_back` | `Table!OnlyForward` | from the steps of `TaskLog` alone |

`KeepsTaskLog` is checked in the bounds of `execution_manual`, where commits fail and locks
run out, but no command of Redis fails and no process dies; the theorem covers these
disturbances too.

`CopyProofs`:

| Theorem | States | Argument |
|---|---|---|
| `Typing` | `[]TypeOK` | with the source finite, so that the number of a new row is one |
| `Copied_once` | `[]NothingRepeated`, which `KeepsTableCopy` implies and no run checks on its own | `OnceInv`.  What a job reads and stages lies above the watermark it was given (`Onward`).  Where a transaction spans the job, what is there once more than records were lost lies up to the watermark (`Ahead`), and a record that is lost raises the number; the rows of the MongoDB engine are written under their `_id`, and a second write replaces the first |
| `Nothing_is_skipped` | `[]NothingSkipped` | `NothingSkipped` speaks of the watermark alone.  `CopyInv` says the same of each value that may become one (`from`, `saved`, `globalMax`, and `before`, to which a failed backfill returns), and that what a cursor has reached is unread, staged or copied; the watermark of a backfill under way is `Offered`, and covered from the moment it stands or a job takes it over, since what it skips is then skipped by choice (`Skipped`); a full copy never has a watermark (`FullInv`) |
| `Implementation` | `Spec => KeepsTableCopy` | a row that appears is new, since numbers tell those of a value apart (`Numbered`); a commit writes rows the job has read, of the source (`Sourced`), once and above the watermark by `OnceInv`; what is recorded, chosen, put back or resumed from is complete by `NothingSkipped`; a request moves `owed` as it moves the watermark (`RequestSkips`) |
| `Promised` | `[]Target!Promise` | from the steps of `TableCopy` alone, with the types its steps keep |

`KafkaProofs`:

| Theorem | States | Argument |
|---|---|---|
| `Typing` | `[]TypeOK` | on top of `KafkaInv` |
| `Committed` | `[]CommittedIsStored` | `KafkaInv`: offsets do not overtake each other (`Ordered`), nothing is written that was not sent (`Sent`), and what is below the position is stored, passed over or in the batch (`Accounted`); a batch with a refused message is never written, nor its offset committed |
| `Implementation` | `Spec => Delivers` | a commit settles what `KafkaInv` says is stored; every other step sends, keeps, or stutters |
| `Settled_is_kept` | `[]Broker!NothingLost` | from the steps of `Delivery` alone |

`RabbitProofs`:

| Theorem | States | Argument |
|---|---|---|
| `Typing` | `[]TypeOK` | with `Held`: a consumer that waits has room in its batch, one that is down holds nothing |
| `Answers_are_due` | `[]AnswerDue` | `Due`: each unanswered delivery has a place in the buffer that the loop has not come to, whichever loop an exception leads to |
| `Implementation` | `Spec => Delivers` | `KeptInv`: where the code is about to acknowledge, what it acknowledges is stored or among the dead letters |
| `Settled_is_kept` | `[]Target!NothingLost` | from the steps of `Delivery` alone |
| `Good_messages_are_spared` | `[]GoodNotBuried` | `GoodInv`: while nothing fails, a loop has answered exactly what it has passed, so that no answer is refused and only poison becomes a dead letter |

`ConsumerProofs`:

| Theorem | States | Argument |
|---|---|---|
| `Uniqueness` | `[]OneConsumer` | `ManagerInv`: only calls that wait overlap and Kafka's do not (`KafkaAlone`); without an overlap one call waits, for the only consumer (`OneWaits`), and that is the registered one (`Registered`) |
| `Disabling` | `DisableTellsAll` | from `Registered`: whom `stop()` finds is everybody |
| `Typing` | `[]TypeOK` | `Numbers`: consumers born and calls that wait are together no more than the numbers there are |
| `Mqtt_typing` | `[]MqttTypeOK` | `MqttTyped`: there is room where a message is taken (`Roomy`), and a consumer that has left its client has nothing in memory (`MqttLeft`) |
| `Connection_loses_nothing` | `[]ConnectionLosesNothing` | `MqttInv`: both properties together with what keeps a batch from being dropped: it holds only taken messages, the loop stops only when somebody asked it to (`MqttStops`), and finds itself disconnected only when the network has failed (`Disconnected`) |
| `Rescue_saves` | `[]RescueSaves` | `MqttInv`: whoever is about to rescue a batch has had a failure already (`Rescuing`), so that a rescue that fails is the second |

`ConsumerProofs` extends both `ConsumerManager` and `MqttEngine`, whose specification,
type invariant and counts therefore have names of their own (`MqttSpec`,
`MqttTypeOK`, `mqttCount`).

`SchedulerProofs`:

| Theorem | States | Argument |
|---|---|---|
| `Typing` | `[]TypeOK` | |
| `Kept` | `[]NoTimerLost` | `AllComing`: each wanted timer is there, or selected by a handler, or a handler is still before its SELECT |
| `Exact` | `[]TimersExact` | `Undisturbed`: alone, a refresh has cleared everything and selected what is in the table |

`FileProofs`:

| Theorem | States | Argument |
|---|---|---|
| `Stamps` | `[]StampNamesContent` | not inductive by itself, since a record is written with a stamp listed long before. `FileInv` adds that listed and recorded stamps are of the past (`Past`), so a change gives a file one that nobody holds; that what is being downloaded and what was is what the file has if the stamp that was listed still is its stamp (`Fresh`); that a job takes each file up once, and none whose record is later than its listing (`Once`), so that a download empties and overwrites no local copy a record vouches for, and what is compared is still there unless a cleaning came between (`Handled`) |
| `Typing` | `[]TypeOK` | `Placed`: a job has a file in hand only while it processes one, never with a broken session |

`PollProofs`:

| Theorem | States | Argument |
|---|---|---|
| `Typing` | `[]TypeOK` | `Places`: where a run is and what it has by then; an open transaction keeps the table from being dropped |
| `Whole_or_not_at_all` | `[]AllOrNothing` | `Stored`: rows of the table are of successful runs, and while a run inserts each row of its answer is to do, in the transaction, or there already under its hash |
| `Points_tell` | `[]PointsTell` | `Told`: the excuse for a failed request is there before its point is written, and a run gets past the measurement only with a point or with InfluxDB failing |

The invariants were checked by TLC before they were proved, and every leaf names
the facts and definitions it uses.

Every safety property of a passing run is a theorem.  Only model-checked:
everything under fairness, since liveness and
`ENABLED` are outside of what the prover does.  So each theorem speaks of what never
happens; that rows, messages, files and signals arrive is shown by the runs, on
their instances.

## Divergences

Two runs each check one statement of a document or comment, and TLC shows a
behaviour of the code against it.

- `claim_pause`: `README.md:184` promises that signals are answered at any batch
  boundary and no data is lost.  With the SQL engine the whole job is one
  transaction of the target; the pause saves the watermark of the rows written so
  far and raises, the rows are rolled back, and `/resume` goes on behind them.
  Rows written before the pause never reach the target.
- `claim_failed`: an API, TCP or UDP engine whose request failed returns
  `{"status": "failed"}` in order to have the failure recorded
  (`api_sync_engine.py:283`).  `run_sync_job` knows the statuses `paused` and
  `cancelled` only and sets the log row to `success`.

Met while modelling, part of the models, without a run of their own:

- A job that `job_timeout` cancels releases its lock while its engine thread goes
  on: two engines of one task (`README.md:186` speaks of a lock against it).
  `EngineLimit` counts these threads.
- The lock lives 7200 s (`worker.py:34`), as long as a job may run (`worker.py:325`).  A
  job cancelled by the timeout still commits, closes its session and deletes the lock
  (`worker.py:241-266`) without asking whose it is: if the key has expired by then, the
  next job has lost its lock to it, and the one after may run beside that.
  `LockOwned`, `EngineLimit` and `RunningRowsLive` count these losses.
- A commit to the metadata database that fails (`worker.py:186`, `237`, `247`) leaves the
  row running, without a job and for good: the `except` block commits on the same
  session, which raises, and rolls back.  Only a restart or `/unlock` touches the row
  again.
- `/backfill` commits its watermark before it knows whether it can order the job, and
  puts the old one back when it cannot (`task_operations.py:212`, `227`).  A job of the
  timer that begins in between copies from the new watermark.  If it records its result
  last, what lies between the old watermark and a later one that was chosen is skipped
  for good, although the user was told that the backfill failed; if the handler writes
  last, the next job copies rows a second time.  An error that is not caught there (Redis at `214` and in
  `_queue_available`, the death of the process) leaves the new watermark without a job.
- A Kafka message that fails every time (a tombstone has no bytes for `_decode_value`,
  `kafka_sync_engine.py:122`; JSON the target refuses) stops its consumer at the same
  offset again and again; there is no dead letter, and its neighbours in the batch and
  everything behind it never arrive.  RabbitMQ and MQTT put such messages aside.
- A RabbitMQ message that fails alone goes to a table of dead letters and is
  acknowledged (`rabbitmq_sync_engine.py:277`), and is requeued by a NACK only when that
  table cannot be written; `docs/PROJECT_DOCUMENTATION.md:920` describes a NACK that
  requeues each of them.
- A refused `DEL` of the enqueue key (`worker.py:39`) happens after the lock was won
  and before the `try`: the lock stays until it expires.
- A handler's refresh reads the table in a thread while another changes it: a
  disabled task's timer can return with the older SELECT
  (`docs/PROJECT_DOCUMENTATION.md:825`: the timers are those of enabled tasks).
  `TimersExact` is about refreshes in turn.
- A failed SELECT after `remove_all_jobs()` leaves no timers at all.
- `FtpClientAdapter.download` takes a reset connection for the end of the file; the
  part is recorded with the stamp of the whole, and the next job passes over it.
- File parsing never succeeds: the column default of the target table names an
  attribute a method does not have (`ParseFails`), after the record was saved.
- `/unlock` deletes the lock under a running job and leaves the enqueue key.
- MQTT messages that are acknowledged and not written are gone at a stop or with the
  client: `MqttEngine` does not implement `Delivery`.
- With MQTT and RabbitMQ, two calls of `start()` that wait for the same consumer
  create one each; only the later one can be stopped.
- A signal while a TCP answer is read is measured as a failure of the device.
- Rows with hashed ids keep the `collected_at` they were first stored with:
  cleaning by days deletes rows that the last run has seen again, and the next run
  restores them.
- A cleaning between a job's record and its local copy leaves a record without a
  file, and the file is not downloaded again until it changes.
- A download empties the local copy before the first byte (`file_client_factory.py:82`,
  `131`), also when the file has not changed: a single file and the files of a server
  without MLSD have no stamps and are downloaded by every job, and whoever reads the
  copy meanwhile finds a part.
- A file that is written anew with the same content gets a new stamp, which is never
  recorded, since the MD5 is known (`ftp_sync_engine.py:572`): every later job downloads
  it again.
- A signal sent while nothing runs stays for a day and stops the next scheduled run
  (`scheduler_service.py:29` does not reset it).
- A row that is committed with a value a cursor has already passed is never
  copied (`late`): the watermark is the largest value read, not the largest below
  which nothing is open.

Met while reading code that is not modelled:

- `run_whisper_in_sandbox` (`sandbox.py:68`) says that the operating system takes the
  child back after a timeout.  The exception leaves a `with ProcessPoolExecutor`,
  which waits for the child: the caller goes on when the transcription does, and
  `/media/transcribe` holds the event loop until then.
- `*/N` counts from the full hour: an `interval_min` that does not divide 60 has one
  shorter interval in each (`docs/API_FRONTEND.md:463`: every N minutes).
- `cron_helper.py:65` counts weekdays from Monday as 0, and
  `docs/API_FRONTEND.md:465` gives 1 for Monday.

## Not modelled

- Time: expiry and timeouts are events that may come at any moment the code
  allows; `last_flush_time` and the batch timeout are a choice at the place where
  the code reads the clock.  Calendars and time zones of cron expressions are out,
  and so is the difference between the local time of `delete_by_days` and the UTC
  some engines stamp their rows with.
- Data: values, types, serialisation, parsing of files and answers, dialects.
- Failures of the metadata database in the handlers beyond the commits that insert and
  settle rows (`InsertFails`, `RecordFails`, `Withdraw`): a query that raises ends a
  handler before it has done anything.
- Two requests of one task that write the watermark at the same time.  Downloads of
  empty files, which are refused as failures.  The limit of 1000 rounds of an SNMP walk
  (`max_iterations`), behind which a table is cut off without an error.
- The brokers' own failures beyond lost connections; several consumers of one
  group or queue.
- Two jobs of one task that copy at the same time: `TaskExecution` says when they do
  (`EngineLimit`), `IncrementalCopy` is about one at a time.  Where there are more, after a
  cancellation, `/unlock` or a lock that expired, nothing is claimed of the data.
- Log maintenance beyond `clean()`: statistics, preview and export only read.
- The one-off copy of a database (`/database`), which neither keeps a watermark nor
  writes a log row a job could meet.
- Preflight, explorers, health, monitor, engine factory, dialects: they read, or map
  constants to constants, and no state machine depends on what they answer.
- Cron helper: from the type and value of a schedule to an expression, by formatting.
  Whether APScheduler fires it when its author meant is a question about calendars.
- Media: a transcription is one child process that keeps nothing.  The FTP engine
  calls it in the step `FileCollect` has as the parsing of a file; the requests share
  only the event loop with the parts that are modelled.
- Tokens, licence, ciphers, migrations, vendored files: see `PROJECT.json`.

## What is left

The batch task, all engines, the managers and the scheduler are modelled, and their
safety is proved.  What would add most to this, in this order:

1. `TaskExecution` composed with `IncrementalCopy`, so that jobs of one task may
   overlap where `EngineLimit` allows it: what two engines of one task do to the
   watermark.
2. The sandbox of the media service, with the event loop it shares.
