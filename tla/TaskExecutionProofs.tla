------------------------- MODULE TaskExecutionProofs -------------------------
(* Proofs about TaskExecution, for any number of slots and requests and any *)
(* bounds.                                                                 *)
EXTENDS TaskExecution, FiniteSetTheorems, TLAPS

(* Updates of rows keep the table's length and the states it may hold.      *)
LEMMA SetRowSeq ==
  ASSUME NEW l \in Seq(Status), NEW i \in DOMAIN l, NEW s \in Status
  PROVE  SetRow(l, i, s) \in Seq(Status) /\ Len(SetRow(l, i, s)) = Len(l)
BY DEF SetRow

LEMMA SetUnfinishedSeq ==
  ASSUME NEW l \in Seq(Status), NEW S, NEW s \in Status
  PROVE  /\ SetUnfinished(l, S, s) \in Seq(Status)
         /\ Len(SetUnfinished(l, S, s)) = Len(l)
<1> DEFINE f == [i \in DOMAIN l |-> IF l[i] \in S THEN s ELSE l[i]]
<1>1. DOMAIN l = 1 .. Len(l) /\ Len(l) \in Nat
  OBVIOUS
<1>2. f \in [1 .. Len(l) -> Status]
  BY <1>1
<1>3. f \in Seq(Status) /\ Len(f) = Len(l)
  BY <1>1, <1>2
<1> QED
  BY <1>3 DEF SetUnfinished

(* The number of busy slots is a number.                                    *)
LEMMA BusyFinite == Cardinality({s \in Slots : jobAt[s] # "idle"}) \in Nat
BY SlotsAssumption, FS_Subset, FS_CardinalityType

-----------------------------------------------------------------------------
(* Type correctness.                                                       *)

LEMMA InitTyped == Init => TypeOK
<1> SUFFICES ASSUME Init PROVE TypeOK
  OBVIOUS
<1>1. log \in Seq(Status) /\ Len(log) = 0
  BY DEF Init
<1>2. /\ jobAt \in [Slots -> JobLabel] /\ jobRow \in [Slots -> 0 .. Len(log)]
      /\ jobResult \in [Slots -> {"none", "success", "failed"} \cup Signal]
      /\ \A s \in Slots : jobAt[s] = "idle"
  BY <1>1 DEF Init, JobLabel
<1>3. /\ reqAt \in [Requests -> ReqLabel] /\ reqRow \in [Requests -> 0 .. Len(log)]
      /\ reqKind \in [Requests -> Kind \cup {"none"}]
      /\ \A r \in Requests : reqAt[r] = "idle"
  BY <1>1 DEF Init, ReqLabel
<1> QED
  BY <1>1, <1>2, <1>3 DEF Init, TypeOK, HasRow

LEMMA CountTyped ==
  ASSUME count \in [Event -> Nat], NEW e, Happens(e),
         e \in {"request", "trigger", "signal", "toggle", "unlock", "cancelJob", "lockExpiry",
               "redisError", "dbError", "enqueueExpiry", "workerDeath", "restart", "clean"}
  PROVE  count' \in [Event -> Nat]
<1>1. e \in Event
  BY DEF Event
<1>2. count' = [count EXCEPT ![e] = @ + 1]
  BY DEF Happens
<1> QED
  BY <1>1, <1>2

(* What LeaveRow does to the job and to the others.                         *)
RowLeft(s) ==
  /\ jobAt' \in [Slots -> JobLabel] /\ jobAt'[s] \notin HasRow /\ jobAt'[s] # "idle"
  /\ jobRow' \in [Slots -> 0 .. Len(log)]
  /\ jobResult' \in [Slots -> {"none", "success", "failed"} \cup Signal]
  /\ jobRow' = [jobRow EXCEPT ![s] = 0] /\ jobRow'[s] = 0
  /\ \A t \in Slots : t # s => /\ jobAt'[t] = jobAt[t] /\ jobRow'[t] = jobRow[t]
                              /\ jobResult'[t] = jobResult[t]

LEMMA RowLeaving ==
  ASSUME TypeOK, NEW s \in Slots, LeaveRow(s)
  PROVE  RowLeft(s)
BY DEF TypeOK, LeaveRow, RowLeft, Goto, JobLabel, HasRow

LEMMA StepTyped == TypeOK /\ [Next]_vars => TypeOK'
<1> SUFFICES ASSUME TypeOK, [Next]_vars PROVE TypeOK'
  OBVIOUS
<1> USE DEF TypeOK, HasRow, keys, arq, job, req
<1>1. ASSUME NEW r \in Requests, NEW k \in Kind, Submit(r, k) PROVE TypeOK'
  <2>1. count' \in [Event -> Nat]
    BY <1>1, CountTyped DEF Submit
  <2>2. /\ reqAt' \in [Requests -> ReqLabel] /\ reqKind' \in [Requests -> Kind \cup {"none"}]
        /\ \A q \in Requests : reqAt'[q] \in {"enqueue", "clean"} => reqRow[q] # 0
    BY <1>1 DEF Submit, ReqLabel
  <2> QED
    BY <1>1, <2>1, <2>2 DEF Submit
<1>2. ASSUME NEW r \in Requests, CheckLock(r) PROVE TypeOK'
  BY <1>2 DEF CheckLock, ReqLabel
<1>3. ASSUME NEW r \in Requests, Reserve(r) PROVE TypeOK'
  BY <1>3 DEF Reserve, ReqLabel
<1>4. ASSUME NEW r \in Requests, Prepare(r) PROVE TypeOK'
  BY <1>4, SetUnfinishedSeq DEF Prepare, ReqLabel, Status, Settled, Signal
<1>5. ASSUME NEW r \in Requests, Enqueue(r) PROVE TypeOK'
  BY <1>5 DEF Enqueue, FinishRequest, ReqLabel
<1>6. ASSUME NEW r \in Requests, EnqueueFails(r) PROVE TypeOK'
  <2>1. /\ reqRow[r] \in DOMAIN log /\ "failed" \in Status
        /\ reqAt[r] = "enqueue"
    BY <1>6 DEF EnqueueFails, Status, Settled
  <2>2. log' \in Seq(Status) /\ Len(log') = Len(log)
    BY <1>6, <2>1, SetRowSeq DEF EnqueueFails
  <2>3. count' \in [Event -> Nat]
    BY <1>6, CountTyped DEF EnqueueFails
  <2>4. /\ queue' \in Nat /\ enqueued' \in BOOLEAN
        /\ control' \in {"none", "running"} \cup Signal
    <3>1. queue' \in Nat
      BY <1>6 DEF EnqueueFails
    <3>2. enqueued' \in {enqueued, FALSE} /\ control' \in {control, "none"}
      BY <1>6 DEF EnqueueFails
    <3> QED
      BY <3>1, <3>2
  <2>5. /\ reqAt' \in [Requests -> ReqLabel]
        /\ reqKind' \in [Requests -> Kind \cup {"none"}]
        /\ reqRow' \in [Requests -> 0 .. Len(log')]
        /\ \A q \in Requests : reqAt'[q] \in {"enqueue", "clean"} => reqRow'[q] # 0
    BY <1>6, <2>2 DEF EnqueueFails, FinishRequest, ReqLabel
  <2> QED
    BY <1>6, <2>2, <2>3, <2>4, <2>5 DEF EnqueueFails
<1>7. ASSUME NEW r \in Requests, UnlockKeys(r) PROVE TypeOK'
  <2>1. count' \in [Event -> Nat]
    BY <1>7, CountTyped DEF UnlockKeys
  <2> QED
    BY <1>7, <2>1 DEF UnlockKeys, ReqLabel
<1>8. ASSUME NEW r \in Requests, UnlockRows(r) PROVE TypeOK'
  BY <1>8, SetUnfinishedSeq DEF UnlockRows, ReqLabel, Status, Settled, Signal
<1>9. ASSUME NEW s \in Slots, Acquire(s) PROVE TypeOK'
  BY <1>9 DEF Acquire, Goto, JobLabel
<1>10. ASSUME NEW s \in Slots, DropEntry(s) PROVE TypeOK'
  BY <1>10 DEF DropEntry, JobLabel
<1>11. ASSUME NEW s \in Slots, ClearEnqueued(s) PROVE TypeOK'
  BY <1>11 DEF ClearEnqueued, Goto, JobLabel
<1>12. ASSUME NEW s \in Slots, ClearFails(s) PROVE TypeOK'
  <2>1. count' \in [Event -> Nat]
    BY <1>12, CountTyped DEF ClearFails
  <2>2. /\ jobAt' \in [Slots -> JobLabel] /\ jobAt'[s] = "idle"
        /\ \A t \in Slots : t # s => jobAt'[t] = jobAt[t]
    BY <1>12 DEF ClearFails, Goto, JobLabel
  <2>3. lock' \in Slots \cup {Free, Orphan}
    BY <1>12 DEF ClearFails
  <2> QED
    BY <1>12, <2>1, <2>2, <2>3 DEF ClearFails
<1>13. ASSUME NEW s \in Slots, LoadFails(s) PROVE TypeOK'
  BY <1>13 DEF LoadFails, Goto, JobLabel
<1>14. ASSUME NEW s \in Slots, StartEngine(s) PROVE TypeOK'
  <2>1. /\ log' \in Seq(Status) /\ Len(log') >= Len(log)
        /\ \E i \in 1 .. Len(log') : jobRow' = [jobRow EXCEPT ![s] = i]
    <3>1. CASE \E i \in Rows({"pending"}) :
                 /\ log'    = [log EXCEPT ![i] = "running"]
                 /\ jobRow' = [jobRow EXCEPT ![s] = i]
      <4>1. PICK i \in DOMAIN log : /\ log'    = [log EXCEPT ![i] = "running"]
                                    /\ jobRow' = [jobRow EXCEPT ![s] = i]
        BY <3>1 DEF Rows
      <4>2. "running" \in Status
        BY DEF Status
      <4>3. log' \in Seq(Status) /\ Len(log') = Len(log)
        BY <4>1, <4>2
      <4>4. Len(log) \in Nat /\ i \in 1 .. Len(log')
        BY <4>3
      <4>5. \E k \in 1 .. Len(log') : jobRow' = [jobRow EXCEPT ![s] = k]
        BY <4>1, <4>4, Zenon
      <4>6. Len(log') >= Len(log)
        BY <4>3, <4>4
      <4> QED
        BY <4>3, <4>5, <4>6, Zenon
    <3>2. CASE /\ log'    = Append(log, "running")
               /\ jobRow' = [jobRow EXCEPT ![s] = Len(log) + 1]
      <4>1. "running" \in Status
        BY DEF Status
      <4>2. log' \in Seq(Status) /\ Len(log') = Len(log) + 1
        BY <3>2, <4>1
      <4>3. Len(log) \in Nat /\ Len(log) + 1 \in 1 .. Len(log')
        BY <4>2
      <4>4. \E k \in 1 .. Len(log') : jobRow' = [jobRow EXCEPT ![s] = k]
        BY <3>2, <4>3, Zenon
      <4>5. Len(log') >= Len(log)
        BY <4>2, <4>3
      <4> QED
        BY <4>2, <4>4, <4>5, Zenon
    <3> QED
      BY <1>14, <3>1, <3>2 DEF StartEngine
  <2>2. jobRow' \in [Slots -> 0 .. Len(log')] /\ jobRow'[s] # 0
    BY <2>1
  <2>3. \A t \in Slots : t # s => jobRow'[t] = jobRow[t] /\ jobAt'[t] = jobAt[t]
    BY <1>14, <2>1 DEF StartEngine, Goto
  <2> QED
    BY <1>14, <2>1, <2>2, <2>3 DEF StartEngine, Goto, JobLabel
<1>15. ASSUME NEW s \in Slots, EngineEnds(s) PROVE TypeOK'
  BY <1>15 DEF EngineEnds, Goto, JobLabel, Status, Settled, Signal
<1>16. ASSUME NEW s \in Slots, Record(s) PROVE TypeOK'
  <2>1. jobRow[s] \in DOMAIN log /\ Verdict(s) \in Status
    BY <1>16 DEF Record, HasRow, Verdict, Status, Settled, Signal
  <2>2. log' \in Seq(Status) /\ Len(log') = Len(log)
    BY <1>16, <2>1, SetRowSeq DEF Record
  <2>3. RowLeft(s)
    BY <1>16, RowLeaving DEF Record
  <2> QED
    BY <1>16, <2>2, <2>3 DEF Record, RowLeft
<1>17. ASSUME NEW s \in Slots, CancelJob(s) PROVE TypeOK'
  <2>1. count' \in [Event -> Nat]
    BY <1>17, CountTyped DEF CancelJob
  <2> QED
    BY <1>17, <2>1 DEF CancelJob, Goto, JobLabel, HasRow
<1>18. ASSUME NEW s \in Slots, Release(s) PROVE TypeOK'
  BY <1>18 DEF Release, Goto, JobLabel
<1>19. ASSUME NEW s \in Slots, ReleaseFails(s) PROVE TypeOK'
  <2>1. count' \in [Event -> Nat]
    BY <1>19, CountTyped DEF ReleaseFails
  <2>2. /\ jobAt' \in [Slots -> JobLabel] /\ jobAt'[s] = "idle"
        /\ \A t \in Slots : t # s => jobAt'[t] = jobAt[t]
    BY <1>19 DEF ReleaseFails, Goto, JobLabel
  <2>3. lock' \in Slots \cup {Free, Orphan}
    BY <1>19 DEF ReleaseFails
  <2> QED
    BY <1>19, <2>1, <2>2, <2>3 DEF ReleaseFails
<1>20. ASSUME NEW c \in Signal, SendSignal(c) PROVE TypeOK'
  <2>1. count' \in [Event -> Nat]
    BY <1>20, CountTyped DEF SendSignal
  <2> QED
    BY <1>20, <2>1 DEF SendSignal
<1>21. ASSUME ChangeStatus PROVE TypeOK'
  <2>1. count' \in [Event -> Nat]
    BY <1>21, CountTyped DEF ChangeStatus
  <2> QED
    BY <1>21, <2>1 DEF ChangeStatus
<1>22. ASSUME DeleteTask PROVE TypeOK'
  <2>1. count' \in [Event -> Nat]
    BY <1>22, CountTyped DEF DeleteTask
  <2> QED
    BY <1>22, <2>1 DEF DeleteTask
<1>23. ASSUME Trigger PROVE TypeOK'
  <2>1. count' \in [Event -> Nat]
    BY <1>23, CountTyped DEF Trigger
  <2> QED
    BY <1>23, <2>1 DEF Trigger
<1>24. ASSUME ZombieEnds PROVE TypeOK'
  BY <1>24 DEF ZombieEnds
<1>25. ASSUME LockExpires PROVE TypeOK'
  BY <1>25 DEF LockExpires
<1>26. ASSUME EnqueuedExpires PROVE TypeOK'
  <2>1. count' \in [Event -> Nat]
    BY <1>26, CountTyped DEF EnqueuedExpires
  <2> QED
    BY <1>26, <2>1 DEF EnqueuedExpires
<1>27. ASSUME ControlExpires PROVE TypeOK'
  BY <1>27 DEF ControlExpires
<1>28. ASSUME WorkerDies PROVE TypeOK'
  <2>1. count' \in [Event -> Nat]
    BY <1>28, CountTyped DEF WorkerDies
  <2>2. stalled' \in Nat
    BY <1>28, BusyFinite DEF WorkerDies
  <2>3. /\ jobAt' \in [Slots -> JobLabel] /\ jobRow' \in [Slots -> 0 .. Len(log')]
        /\ jobResult' \in [Slots -> {"none", "success", "failed"} \cup Signal]
        /\ \A s \in Slots : jobAt'[s] = "idle"
    BY <1>28 DEF WorkerDies, JobLabel
  <2> QED
    BY <1>28, <2>1, <2>2, <2>3 DEF WorkerDies
<1>29. ASSUME Redeliver PROVE TypeOK'
  BY <1>29 DEF Redeliver
<1>30. ASSUME Restart PROVE TypeOK'
  <2>1. count' \in [Event -> Nat]
    BY <1>30, CountTyped DEF Restart
  <2>2. log' \in Seq(Status) /\ Len(log') = Len(log)
    BY <1>30, SetUnfinishedSeq DEF Restart, Status, Settled
  <2> QED
    BY <1>30, <2>1, <2>2 DEF Restart, ReqLabel
<1>32. ASSUME NEW r \in Requests, PrepareFails(r) PROVE TypeOK'
  <2>1. log' \in Seq(Status) /\ Len(log') = Len(log)
    BY <1>32, SetUnfinishedSeq DEF PrepareFails, Status, Settled
  <2>2. count' \in [Event -> Nat]
    BY <1>32, CountTyped DEF PrepareFails
  <2>3. /\ reqAt' \in [Requests -> ReqLabel]
        /\ reqKind' \in [Requests -> Kind \cup {"none"}]
        /\ reqRow' \in [Requests -> 0 .. Len(log')]
        /\ \A q \in Requests : reqAt'[q] \in {"enqueue", "clean"} => reqRow'[q] # 0
    BY <1>32, <2>1 DEF PrepareFails, FinishRequest, ReqLabel
  <2> QED
    BY <1>32, <2>1, <2>2, <2>3 DEF PrepareFails
<1>33. ASSUME NEW r \in Requests, SelectClosed(r) PROVE TypeOK'
  <2>1. PICK i \in Rows(Settled \ {"deleted"}) : reqRow' = [reqRow EXCEPT ![r] = i]
    BY <1>33 DEF SelectClosed
  <2>2. i \in 1 .. Len(log)
    BY DEF Rows
  <2>3. count' \in [Event -> Nat]
    BY <1>33, CountTyped DEF SelectClosed
  <2>4. /\ reqAt' \in [Requests -> ReqLabel]
        /\ reqRow' \in [Requests -> 0 .. Len(log)]
        /\ \A q \in Requests : reqAt'[q] \in {"enqueue", "clean"} => reqRow'[q] # 0
    BY <1>33, <2>1, <2>2 DEF SelectClosed, ReqLabel
  <2> QED
    BY <1>33, <2>3, <2>4 DEF SelectClosed
<1>34. ASSUME NEW r \in Requests, DeleteClosed(r) PROVE TypeOK'
  <2>1. log' \in Seq(Status) /\ Len(log') = Len(log)
    BY <1>34 DEF DeleteClosed, Status, Settled
  <2> QED
    BY <1>34, <2>1 DEF DeleteClosed, FinishRequest, ReqLabel
<1>35. ASSUME NEW r \in Requests, InsertFails(r) PROVE TypeOK'
  <2>1. log' \in Seq(Status) /\ Len(log') = Len(log)
    <3>1. log' \in {log, SetUnfinished(log, {"pending"}, "deleted")}
      BY <1>35 DEF InsertFails
    <3>2. log \in Seq(Status) /\ "deleted" \in Status
      BY DEF Status, Settled
    <3>3. CASE log' = SetUnfinished(log, {"pending"}, "deleted")
      BY <3>2, <3>3, SetUnfinishedSeq
    <3> QED
      BY <3>1, <3>2, <3>3
  <2>2. count' \in [Event -> Nat]
    BY <1>35, CountTyped DEF InsertFails
  <2>3. /\ reqAt' \in [Requests -> ReqLabel]
        /\ reqKind' \in [Requests -> Kind \cup {"none"}]
        /\ reqRow' \in [Requests -> 0 .. Len(log')]
        /\ \A q \in Requests : reqAt'[q] \in {"enqueue", "clean"} => reqRow'[q] # 0
    BY <1>35, <2>1 DEF InsertFails, FinishRequest, ReqLabel
  <2>4. enqueued' \in BOOLEAN /\ control' \in {"none", "running"} \cup Signal
    BY <1>35 DEF InsertFails
  <2> QED
    BY <1>35, <2>1, <2>2, <2>3, <2>4 DEF InsertFails
<1>36. ASSUME NEW s \in Slots, RecordFails(s) PROVE TypeOK'
  <2>1. count' \in [Event -> Nat]
    BY <1>36, CountTyped DEF RecordFails
  <2>2. log' = log /\ RowLeft(s)
    BY <1>36, RowLeaving DEF RecordFails
  <2> QED
    BY <1>36, <2>1, <2>2 DEF RecordFails, RowLeft
<1>37. ASSUME NEW s \in Slots, LockRunsOut(s) PROVE TypeOK'
  <2>1. count' \in [Event -> Nat]
    BY <1>37, CountTyped DEF LockRunsOut
  <2> QED
    BY <1>37, <2>1 DEF LockRunsOut
<1>31. ASSUME UNCHANGED vars PROVE TypeOK'
  BY <1>31 DEF vars
<1> QED
  BY <1>1, <1>2, <1>3, <1>4, <1>5, <1>6, <1>7, <1>8, <1>9, <1>10, <1>11, <1>12, <1>13, <1>14, <1>15, <1>16, <1>17, <1>18, <1>19, <1>20, <1>21, <1>22, <1>23, <1>24, <1>25, <1>26, <1>27, <1>28, <1>29, <1>30, <1>31, <1>32, <1>33, <1>34, <1>35, <1>36, <1>37
  DEF Next, Api, Worker, Environment

(* Every reachable state is well typed: in particular a job that runs or    *)
(* settles an engine, and a handler that enqueues, own a row of the table.  *)
THEOREM Typing == Spec => []TypeOK
BY InitTyped, StepTyped, PTL DEF Spec

-----------------------------------------------------------------------------
(* Exclusion.                                                              *)

(* Events are only ever counted up.                                        *)
LEMMA CountGrows ==
  TypeOK /\ [Next]_vars => \A e \in Event : count'[e] >= count[e]
<1> SUFFICES ASSUME TypeOK, [Next]_vars
             PROVE  \A e \in Event : count'[e] >= count[e]
  OBVIOUS
<1>1. count \in [Event -> Nat]
  BY DEF TypeOK
<1>2. ASSUME count' = count PROVE \A e \in Event : count'[e] >= count[e]
  BY <1>1, <1>2
<1>3. ASSUME NEW f, Happens(f) PROVE \A e \in Event : count'[e] >= count[e]
  BY <1>1, <1>3 DEF Happens
<1> DEFINE Counted == count' = count \/ \E f \in Event : Happens(f)
<1>4. Counted
  <2>1. ASSUME NEW r \in Requests, Api(r) PROVE Counted
    BY <2>1 DEF Api, Submit, CheckLock, Reserve, Prepare, PrepareFails,
           InsertFails, Enqueue, EnqueueFails,
                UnlockKeys, UnlockRows, SelectClosed, DeleteClosed, Event
  <2>2. ASSUME NEW s \in Slots, Worker(s) PROVE Counted
    BY <2>2 DEF Worker, Acquire, DropEntry, ClearEnqueued, ClearFails, LoadFails,
                StartEngine, EngineEnds, Record, RecordFails, LeaveRow, CancelJob,
              LockRunsOut, Release, ReleaseFails,
                Event
  <2>3. ASSUME Environment PROVE Counted
    BY <2>3 DEF Environment, SendSignal, ChangeStatus, DeleteTask, Trigger,
                ZombieEnds, LockExpires, EnqueuedExpires, ControlExpires,
                WorkerDies, Redeliver, Restart, Event
  <2> QED
    BY <2>1, <2>2, <2>3 DEF Next, vars
<1> QED
  BY <1>2, <1>3, <1>4

(* What has never happened by the end of a step had not happened before it. *)
LEMMA NeverBefore ==
  ASSUME TypeOK, [Next]_vars, NEW E \in SUBSET Event, Never(E)'
  PROVE  Never(E)
<1>1. \A e \in E : count'[e] >= count[e] /\ count[e] \in Nat
  BY CountGrows DEF TypeOK
<1>2. \A e \in E : count'[e] = 0
  BY DEF Never
<1> QED
  BY <1>1, <1>2 DEF Never

(* Losses are a number.                                                    *)
LEMMA LossesCounted == TypeOK => Losses \in Nat
<1> SUFFICES ASSUME count \in [Event -> Nat] PROVE Losses \in Nat
  BY DEF TypeOK
<1>1. "unlock" \in Event /\ "lockExpiry" \in Event
  BY DEF Event
<1> QED
  BY <1>1 DEF Losses

(* Losses are counted up.                                                  *)
LEMMA LossesGrow ==
  ASSUME TypeOK, [Next]_vars
  PROVE  Losses \in Nat /\ Losses' \in Nat /\ Losses' >= Losses
<1>1. /\ count["unlock"] \in Nat /\ count["lockExpiry"] \in Nat
      /\ "unlock" \in Event /\ "lockExpiry" \in Event
  BY DEF TypeOK, Event
<1>2. count'["unlock"] \in Nat /\ count'["lockExpiry"] \in Nat
  BY <1>1, StepTyped DEF TypeOK
<1> QED
  BY <1>1, <1>2, CountGrows DEF Losses

LEMMA LossHappens ==
  ASSUME TypeOK, NEW e \in {"unlock", "lockExpiry"}, Happens(e)
  PROVE  Losses' = Losses + 1
<1>1. /\ count \in [Event -> Nat] /\ "unlock" \in Event /\ "lockExpiry" \in Event
      /\ count' = [count EXCEPT ![e] = @ + 1]
  BY DEF TypeOK, Event, Happens
<1> QED
  BY <1>1 DEF Losses

(* The jobs that have lost their lock.                                      *)
Robbed == {s \in Busy : lock # s}

LEMMA SlotSets ==
  ASSUME NEW S \in SUBSET Slots
  PROVE  IsFiniteSet(S) /\ Cardinality(S) \in Nat
BY SlotsAssumption, FS_Subset, FS_CardinalityType

(* One element more, or one for another.                                    *)
LEMMA OneMore ==
  ASSUME NEW S, IsFiniteSet(S), NEW x, NEW T \in SUBSET (S \cup {x})
  PROVE  /\ IsFiniteSet(T) /\ Cardinality(T) \in Nat
         /\ Cardinality(T) <= Cardinality(S) + 1
<1>1. IsFiniteSet(S \cup {x}) /\ Cardinality(S \cup {x}) <= Cardinality(S) + 1
  <2>1. Cardinality(S) \in Nat
    BY FS_CardinalityType
  <2>2. /\ IsFiniteSet(S \cup {x})
        /\ Cardinality(S \cup {x}) = IF x \in S THEN Cardinality(S) ELSE Cardinality(S) + 1
    BY FS_AddElement
  <2> QED
    BY <2>1, <2>2
<1>2. Cardinality(S \cup {x}) \in Nat /\ Cardinality(S) \in Nat
  BY <1>1, FS_CardinalityType
<1>3. IsFiniteSet(T) /\ Cardinality(T) <= Cardinality(S \cup {x})
  BY <1>1, FS_Subset
<1> QED
  BY <1>1, <1>2, <1>3, FS_CardinalityType

LEMMA Exchanged ==
  ASSUME NEW S, IsFiniteSet(S), NEW y \in S, NEW x, NEW T \in SUBSET ((S \ {y}) \cup {x})
  PROVE  Cardinality(T) <= Cardinality(S)
<1>1. IsFiniteSet(S \ {y}) /\ Cardinality(S \ {y}) = Cardinality(S) - 1
  BY FS_RemoveElement
<1>2. Cardinality(T) \in Nat /\ Cardinality(T) <= Cardinality(S \ {y}) + 1
  BY <1>1, OneMore
<1> QED
  BY <1>1, <1>2, FS_CardinalityType

(* A job loses its lock to /unlock, to the expiry, or to the DEL of a job     *)
(* that had lost its own and ends with it.                                  *)
LEMMA LockOwnedStep == TypeOK /\ LockOwned /\ [Next]_vars => LockOwned'
<1> SUFFICES ASSUME TypeOK, LockOwned, [Next]_vars PROVE Cardinality(Robbed') <= Losses'
  BY DEF LockOwned, Robbed
<1>1. Losses \in Nat /\ Losses' \in Nat /\ Losses' >= Losses
  BY LossesGrow
<1>2. /\ Cardinality(Robbed) <= Losses /\ IsFiniteSet(Robbed) /\ Cardinality(Robbed) \in Nat
      /\ IsFiniteSet(Robbed') /\ Cardinality(Robbed') \in Nat
  <2>1. Robbed \in SUBSET Slots /\ Robbed' \in SUBSET Slots
    BY DEF Robbed, Busy
  <2> QED
    BY <2>1, SlotSets DEF LockOwned, Robbed
<1>3. jobAt \in [Slots -> JobLabel]
  BY DEF TypeOK
<1> DEFINE Goal == Cardinality(Robbed') <= Losses'
<1>4. ASSUME Robbed' \subseteq Robbed PROVE Goal
  <2>1. Cardinality(Robbed') <= Cardinality(Robbed)
    BY <1>2, <1>4, FS_Subset
  <2> QED
    BY <1>1, <1>2, <2>1
<1>5. ASSUME UNCHANGED <<lock, jobAt>> PROVE Goal
  BY <1>4, <1>5 DEF Robbed, Busy
<1>6. ASSUME NEW e \in {"unlock", "lockExpiry"}, Happens(e), lock' = Free, UNCHANGED jobAt
      PROVE  Goal
  <2>1. Robbed' \subseteq Robbed \cup {lock}
    BY <1>6 DEF Robbed, Busy
  <2>2. Cardinality(Robbed') <= Cardinality(Robbed) + 1
    BY <1>2, <2>1, OneMore
  <2> QED
    BY <1>1, <1>2, <1>6, <2>2, LossHappens
<1>7. ASSUME NEW r \in Requests, Api(r) PROVE Goal
  <2>1. CASE UnlockKeys(r)
    BY <1>6, <2>1 DEF UnlockKeys, job
  <2> QED
    BY <1>5, <1>7, <2>1 DEF Api, Submit, CheckLock, Reserve, Prepare, PrepareFails,
                            InsertFails, Enqueue, EnqueueFails, UnlockRows,
                            SelectClosed, DeleteClosed, keys, job
<1>8. ASSUME NEW s \in Slots, Worker(s) PROVE Goal
  <2>1. CASE Acquire(s)
    <3>1. /\ lock = Free /\ lock' = s
          /\ \A t \in Slots : t # s => jobAt'[t] = jobAt[t]
      BY <1>3, <2>1 DEF Acquire, Goto
    <3> QED
      BY <1>4, <3>1, LockAssumption DEF Robbed, Busy
  <2>2. CASE \/ ClearEnqueued(s) \/ LoadFails(s) \/ StartEngine(s)
             \/ EngineEnds(s) \/ Record(s) \/ RecordFails(s) \/ CancelJob(s)
    <3>1. lock' = lock /\ jobAt[s] # "idle" /\ \A t \in Slots : t # s => jobAt'[t] = jobAt[t]
      BY <1>3, <2>2 DEF ClearEnqueued, LoadFails, StartEngine, EngineEnds, Record,
                        RecordFails, LeaveRow, CancelJob, Goto, keys
    <3> QED
      BY <1>4, <3>1 DEF Robbed, Busy
  <2>3. CASE ClearFails(s) \/ ReleaseFails(s)
    <3>1. /\ lock' = IF lock = s THEN Orphan ELSE lock
          /\ jobAt'[s] = "idle" /\ \A t \in Slots : t # s => jobAt'[t] = jobAt[t]
      BY <1>3, <2>3 DEF ClearFails, ReleaseFails, Goto
    <3> QED
      BY <1>4, <3>1 DEF Robbed, Busy
  <2>4. CASE Release(s)
    <3>1. /\ lock' = Free /\ jobAt[s] # "idle" /\ jobAt'[s] = "idle"
          /\ \A t \in Slots : t # s => jobAt'[t] = jobAt[t]
      BY <1>3, <2>4 DEF Release, Goto
    <3>2. CASE lock = s
      BY <1>4, <3>1, <3>2 DEF Robbed, Busy
    <3>3. CASE lock # s
      <4>1. s \in Robbed
        BY <3>1, <3>3 DEF Robbed, Busy
      <4>2. Robbed' \subseteq (Robbed \ {s}) \cup {lock}
        BY <3>1 DEF Robbed, Busy
      <4>3. Cardinality(Robbed') <= Cardinality(Robbed)
        BY <1>2, <4>1, <4>2, Exchanged
      <4> QED
        BY <1>1, <1>2, <4>3
    <3> QED
      BY <3>2, <3>3
  <2>5. CASE LockRunsOut(s)
    BY <1>6, <2>5 DEF LockRunsOut, job
  <2> QED
    BY <1>5, <1>8, <2>1, <2>2, <2>3, <2>4, <2>5 DEF Worker, DropEntry, keys, job
<1>9. ASSUME Environment PROVE Goal
  <2>1. CASE LockExpires
    BY <1>4, <2>1, LockAssumption DEF LockExpires, job, Robbed, Busy
  <2>2. CASE WorkerDies
    BY <1>4, <2>2 DEF WorkerDies, Robbed, Busy
  <2> QED
    BY <1>5, <1>9, <2>1, <2>2
       DEF Environment, SendSignal, ChangeStatus, DeleteTask, Trigger, ZombieEnds,
           EnqueuedExpires, ControlExpires, Redeliver, Restart, keys, job
<1> QED
  BY <1>5, <1>7, <1>8, <1>9 DEF Next, vars, keys, job

(* From SET NX to DEL a job holds the lock, but for as many jobs at a time as *)
(* there were uses of /unlock and expiries under a late job, however many    *)
(* jobs each of these is passed on to by the DELs.                           *)
THEOREM Ownership == Spec => []LockOwned
<1>1. Init => LockOwned
  <2> SUFFICES ASSUME Init PROVE LockOwned
    OBVIOUS
  <2>1. {s \in Busy : lock # s} = {} /\ Losses = 0
    BY DEF Init, Busy, Losses, Event
  <2> QED
    BY <2>1, FS_EmptySet DEF LockOwned
<1> QED
  BY <1>1, Typing, LockOwnedStep, PTL DEF Spec

(* Each thread left behind was left by a cancellation of its own.           *)
ZombiesCounted == zombies <= count["cancelJob"]

LEMMA ZombiesCountedStep ==
  TypeOK /\ ZombiesCounted /\ [Next]_vars => ZombiesCounted'
<1> SUFFICES ASSUME TypeOK, ZombiesCounted, [Next]_vars PROVE ZombiesCounted'
  OBVIOUS
<1>1. /\ zombies \in Nat /\ count \in [Event -> Nat] /\ "cancelJob" \in Event
      /\ zombies <= count["cancelJob"]
  BY DEF TypeOK, Event, ZombiesCounted
<1>2. count'["cancelJob"] \in Nat /\ count'["cancelJob"] >= count["cancelJob"]
  BY <1>1, CountGrows, StepTyped DEF TypeOK
<1>3. ASSUME UNCHANGED zombies PROVE ZombiesCounted'
  BY <1>1, <1>2, <1>3 DEF ZombiesCounted
<1>4. ASSUME NEW r \in Requests, Api(r) PROVE ZombiesCounted'
  BY <1>3, <1>4 DEF Api, Submit, CheckLock, Reserve, Prepare, PrepareFails, InsertFails, Enqueue,
                    EnqueueFails, UnlockKeys, UnlockRows, SelectClosed, DeleteClosed,
                    job
<1>5. ASSUME NEW s \in Slots, Worker(s) PROVE ZombiesCounted'
  <2>1. CASE CancelJob(s)
    BY <1>1, <2>1 DEF CancelJob, Happens, ZombiesCounted
  <2> QED
    BY <1>3, <1>5, <2>1
       DEF Worker, Acquire, DropEntry, ClearEnqueued, ClearFails, LoadFails,
           StartEngine, EngineEnds, Record, RecordFails, LockRunsOut, Release,
           ReleaseFails, job
<1>6. ASSUME Environment PROVE ZombiesCounted'
  <2>1. CASE ZombieEnds \/ WorkerDies
    BY <1>1, <1>2, <2>1 DEF ZombieEnds, WorkerDies, ZombiesCounted
  <2> QED
    BY <1>3, <1>6, <2>1
       DEF Environment, SendSignal, ChangeStatus, DeleteTask, Trigger, LockExpires,
           EnqueuedExpires, ControlExpires, Redeliver, Restart, job
<1> QED
  BY <1>3, <1>4, <1>5, <1>6 DEF Next, vars, job

(* A set within a singleton has at most one element.                        *)
LEMMA AtMostOne ==
  ASSUME NEW S, NEW x, \A y \in S : y = x
  PROVE  Cardinality(S) \in Nat /\ Cardinality(S) <= 1
<1>1. S = {} \/ S = {x}
  OBVIOUS
<1> QED
  BY <1>1, FS_EmptySet, FS_Singleton

(* All jobs but the owner of the lock have lost theirs.                     *)
LEMMA BusyCounted ==
  ASSUME LockOwned, Losses \in Nat
  PROVE  Cardinality(Busy) \in Nat /\ Cardinality(Busy) <= 1 + Losses
<1>1. Busy \subseteq Robbed \cup {lock}
  BY DEF Robbed
<1>2. IsFiniteSet(Robbed) /\ Cardinality(Robbed) \in Nat /\ Cardinality(Robbed) <= Losses
  <2>1. Robbed \in SUBSET Slots
    BY DEF Robbed, Busy
  <2> QED
    BY <2>1, SlotSets DEF Robbed, LockOwned
<1>3. Cardinality(Busy) \in Nat /\ Cardinality(Busy) <= Cardinality(Robbed) + 1
  BY <1>1, <1>2, OneMore
<1> QED
  BY <1>2, <1>3

LEMMA EngineLimitFollows ==
  TypeOK /\ LockOwned /\ ZombiesCounted => EngineLimit
<1> SUFFICES ASSUME TypeOK, LockOwned, ZombiesCounted
             PROVE  Engines <= 1 + count["cancelJob"] + Losses
  BY DEF EngineLimit
<1> DEFINE Running == {s \in Slots : jobAt[s] = "engine"}
<1>1. zombies \in Nat /\ count["cancelJob"] \in Nat /\ Losses \in Nat
  BY LossesCounted DEF TypeOK, Event
<1>2. Running \subseteq Busy /\ IsFiniteSet(Busy)
  <2>1. Busy \in SUBSET Slots
    BY DEF Busy
  <2>2. IsFiniteSet(Busy)
    BY <2>1, SlotSets
  <2>3. Running \subseteq Busy
    BY DEF Busy
  <2> QED
    BY <2>2, <2>3
<1>3. Cardinality(Running) \in Nat /\ Cardinality(Running) <= Cardinality(Busy)
  BY <1>2, FS_Subset, FS_CardinalityType
<1>4. Engines = Cardinality(Running) + zombies
  BY DEF Engines
<1> HIDE DEF Running
<1> QED
  BY <1>1, <1>3, <1>4, BusyCounted DEF ZombiesCounted

(* Two engines of one task need a cancelled job or the loss of a lock, and    *)
(* each of these adds at most one: the exclusion the lock is there for, and   *)
(* exactly what it does not exclude.                                        *)
THEOREM Exclusion == Spec => []EngineLimit
<1>1. Init => ZombiesCounted
  BY DEF Init, ZombiesCounted, Event
<1> QED
  BY <1>1, Typing, Ownership, ZombiesCountedStep, EngineLimitFollows, PTL DEF Spec

-----------------------------------------------------------------------------
(* The reservation.                                                        *)

Disturbance == {"trigger", "redisError", "enqueueExpiry", "workerDeath"}

(* OneReservation, with "at most one" spelt out, and what it rests on: no   *)
(* entry waits for redelivery unless a worker has died.                     *)
ReservationInv ==
  Never(Disturbance) =>
    /\ stalled = 0
    /\ queue <= 1
    /\ \A q, r \in Reserved : q = r
    /\ \A s, t \in Clearing : s = t
    /\ queue = 1 => Reserved = {} /\ Clearing = {}
    /\ Reserved # {} => Clearing = {}
    /\ (Reserved # {} \/ queue = 1 \/ Clearing # {}) => enqueued

LEMMA ReservationStep == TypeOK /\ ReservationInv /\ [Next]_vars => ReservationInv'
<1> SUFFICES ASSUME TypeOK, ReservationInv, [Next]_vars, Never(Disturbance)'
             PROVE  ReservationInv'
  BY DEF ReservationInv, Never
<1>1. /\ Never(Disturbance)
      /\ \A e \in Disturbance : count[e] = 0 /\ count'[e] = 0
  BY NeverBefore DEF Disturbance, Event, Never
<1>2. /\ queue \in Nat /\ stalled \in Nat /\ enqueued \in BOOLEAN
      /\ jobAt \in [Slots -> JobLabel] /\ reqAt \in [Requests -> ReqLabel]
      /\ count \in [Event -> Nat]
  BY DEF TypeOK
<1>3. ASSUME NEW e \in Disturbance PROVE ~ Happens(e)
  BY <1>1, <1>2 DEF Happens, Disturbance, Event
<1>4. /\ stalled = 0 /\ queue <= 1
      /\ \A q, r \in Reserved : q = r
      /\ \A s, t \in Clearing : s = t
      /\ queue = 1 => Reserved = {} /\ Clearing = {}
      /\ Reserved # {} => Clearing = {}
      /\ (Reserved # {} \/ queue = 1 \/ Clearing # {}) => enqueued
  BY <1>1 DEF ReservationInv
<1>5. ASSUME stalled' = stalled, queue' = queue, enqueued' = enqueued,
             Reserved' \subseteq Reserved, Clearing' \subseteq Clearing
      PROVE  ReservationInv'
  BY <1>4, <1>5 DEF ReservationInv
<1>6. ASSUME NEW r \in Requests, Api(r) PROVE ReservationInv'
  <2>1. CASE Reserve(r)
    <3>1. CASE enqueued
      BY <1>2, <1>5, <2>1, <3>1 DEF Reserve, arq, job, Reserved, Clearing
    <3>2. CASE ~enqueued
      <4>1. Reserved = {} /\ queue = 0 /\ Clearing = {}
        BY <1>2, <1>4, <3>2
      <4>2. Reserved' = {r} /\ Clearing' = {} /\ enqueued'
        BY <1>2, <2>1, <3>2, <4>1 DEF Reserve, arq, job, Reserved, Clearing
      <4> QED
        BY <1>4, <2>1, <4>1, <4>2 DEF Reserve, arq, ReservationInv
    <3> QED
      BY <3>1, <3>2
  <2>2. CASE Enqueue(r)
    <3>1. r \in Reserved /\ Reserved = {r}
      BY <1>4, <2>2 DEF Enqueue, Reserved
    <3>2. /\ Reserved' = {} /\ Clearing' = {} /\ queue' = 1 /\ enqueued'
          /\ stalled' = 0
      BY <1>2, <1>4, <2>2, <3>1
         DEF Enqueue, FinishRequest, Reserved, Clearing, keys, job
    <3> QED
      BY <3>2 DEF ReservationInv
  <2>3. CASE \E k \in Kind : Submit(r, k)
    BY <1>2, <1>5, <2>3 DEF Submit, keys, arq, job, Reserved, Clearing
  <2>4. CASE CheckLock(r)
    BY <1>2, <1>5, <2>4 DEF CheckLock, keys, arq, job, Reserved, Clearing
  <2>5. CASE Prepare(r)
    BY <1>2, <1>5, <2>5 DEF Prepare, arq, job, Reserved, Clearing
  <2>6. CASE UnlockKeys(r) \/ UnlockRows(r)
    BY <1>2, <1>5, <2>6 DEF UnlockKeys, UnlockRows, keys, arq, job, Reserved, Clearing
  <2>7. ~ EnqueueFails(r) /\ ~ PrepareFails(r)
    BY <1>3 DEF EnqueueFails, PrepareFails, Disturbance
  <2>8. CASE SelectClosed(r) \/ DeleteClosed(r)
    BY <1>2, <1>5, <2>8 DEF SelectClosed, DeleteClosed, FinishRequest, keys, arq, job,
                            Reserved, Clearing
  <2>9. CASE InsertFails(r)
    <3>1. CASE DropsPending(reqKind[r])
      BY <1>2, <1>5, <2>9, <3>1 DEF InsertFails, FinishRequest, arq, job, Reserved, Clearing
    <3>2. CASE ~DropsPending(reqKind[r])
      <4>1. r \in Reserved /\ Reserved = {r} /\ Clearing = {} /\ queue = 0
        BY <1>2, <1>4, <2>9 DEF InsertFails, Reserved
      <4>2. Reserved' = {} /\ Clearing' = {} /\ queue' = 0 /\ stalled' = 0
        BY <1>2, <1>4, <2>9, <4>1 DEF InsertFails, FinishRequest, arq, job, Reserved, Clearing
      <4> QED
        BY <4>2 DEF ReservationInv
    <3> QED
      BY <3>1, <3>2
  <2> QED
    BY <1>6, <2>1, <2>2, <2>3, <2>4, <2>5, <2>6, <2>7, <2>8, <2>9 DEF Api
<1>7. ASSUME NEW s \in Slots, Worker(s) PROVE ReservationInv'
  <2>1. CASE Acquire(s)
    <3>1. queue = 1 /\ Reserved = {} /\ Clearing = {} /\ enqueued
      BY <1>2, <1>4, <2>1 DEF Acquire
    <3>2. /\ Reserved' = {} /\ Clearing' = {s} /\ queue' = 0 /\ enqueued'
          /\ stalled' = 0
      BY <1>2, <1>4, <2>1, <3>1 DEF Acquire, Goto, Reserved, Clearing, req
    <3> QED
      BY <3>2 DEF ReservationInv
  <2>2. CASE DropEntry(s)
    <3>1. queue = 1 /\ Reserved = {} /\ Clearing = {}
      BY <1>2, <1>4, <2>2 DEF DropEntry
    <3>2. Reserved' = {} /\ Clearing' = {} /\ queue' = 0 /\ stalled' = 0
      BY <1>2, <1>4, <2>2, <3>1 DEF DropEntry, Reserved, Clearing, job, req
    <3> QED
      BY <3>2 DEF ReservationInv
  <2>3. CASE ClearEnqueued(s)
    <3>1. s \in Clearing /\ Clearing = {s} /\ Reserved = {} /\ queue = 0
      BY <1>2, <1>4, <2>3 DEF ClearEnqueued, Clearing
    <3>2. Reserved' = {} /\ Clearing' = {} /\ queue' = 0 /\ stalled' = 0
      BY <1>2, <1>4, <2>3, <3>1 DEF ClearEnqueued, Goto, Reserved, Clearing, arq, req
    <3> QED
      BY <3>2 DEF ReservationInv
  <2>4. CASE \/ LoadFails(s) \/ StartEngine(s) \/ EngineEnds(s) \/ Record(s)
             \/ RecordFails(s) \/ CancelJob(s) \/ Release(s)
    BY <1>2, <1>5, <2>4
       DEF LoadFails, StartEngine, EngineEnds, Record, RecordFails, LeaveRow, CancelJob,
           Release, Goto, keys, arq, req, Reserved, Clearing
  <2>6. CASE LockRunsOut(s)
    BY <1>2, <1>5, <2>6 DEF LockRunsOut, arq, job, req, Reserved, Clearing
  <2>5. ~ ClearFails(s) /\ ~ ReleaseFails(s)
    BY <1>3 DEF ClearFails, ReleaseFails, Disturbance
  <2> QED
    BY <1>7, <2>1, <2>2, <2>3, <2>4, <2>5, <2>6 DEF Worker
<1>8. ASSUME Environment PROVE ReservationInv'
  <2>1. ~ Trigger /\ ~ EnqueuedExpires /\ ~ WorkerDies /\ ~ Redeliver
    BY <1>3, <1>4 DEF Trigger, EnqueuedExpires, WorkerDies, Redeliver, Disturbance
  <2>2. CASE Restart
    BY <1>2, <1>5, <2>2 DEF Restart, keys, job, Reserved, Clearing
  <2> QED
    BY <1>5, <1>8, <2>1, <2>2
       DEF Environment, SendSignal, ChangeStatus, DeleteTask, ZombieEnds,
           LockExpires, ControlExpires, keys, arq, job, req, Reserved, Clearing
<1>9. ASSUME UNCHANGED vars PROVE ReservationInv'
  BY <1>5, <1>9 DEF vars, keys, arq, job, req, Reserved, Clearing
<1> QED
  BY <1>6, <1>7, <1>8, <1>9 DEF Next

LEMMA OneReservationFollows == TypeOK /\ ReservationInv => OneReservation
<1> SUFFICES ASSUME TypeOK, ReservationInv, Never(Disturbance)
             PROVE  /\ Cardinality(Reserved) + queue + Cardinality(Clearing) <= 1
                    /\ (Reserved # {} \/ queue > 0 \/ Clearing # {}) => enqueued
  BY DEF OneReservation, Disturbance
<1>1. queue \in Nat
  BY DEF TypeOK
<1>2. /\ Cardinality(Reserved) \in Nat /\ Cardinality(Reserved) <= 1
      /\ Reserved = {} => Cardinality(Reserved) = 0
  <2>1. CASE Reserved = {}
    BY <2>1, FS_EmptySet
  <2>2. CASE Reserved # {}
    <3>1. PICK r \in Reserved : TRUE
      BY <2>2
    <3> QED
      BY <2>2, <3>1, AtMostOne DEF ReservationInv
  <2> QED
    BY <2>1, <2>2
<1>3. /\ Cardinality(Clearing) \in Nat /\ Cardinality(Clearing) <= 1
      /\ Clearing = {} => Cardinality(Clearing) = 0
  <2>1. CASE Clearing = {}
    BY <2>1, FS_EmptySet
  <2>2. CASE Clearing # {}
    <3>1. PICK s \in Clearing : TRUE
      BY <2>2
    <3> QED
      BY <2>2, <3>1, AtMostOne DEF ReservationInv
  <2> QED
    BY <2>1, <2>2
<1> QED
  BY <1>1, <1>2, <1>3 DEF ReservationInv

(* For a task without cron trigger, as long as Redis answers, the enqueue   *)
(* key does not time out and no worker dies: one request, entry or job at a *)
(* time holds the enqueue key, so that the task is queued at most once.     *)
THEOREM Reservation == Spec => []OneReservation
<1>1. Init => ReservationInv
  BY DEF Init, ReservationInv, Reserved, Clearing
<1> QED
  BY <1>1, Typing, ReservationStep, OneReservationFollows, PTL DEF Spec

-----------------------------------------------------------------------------
(* Rows of sys_task_log.                                                   *)

(* What the updates of rows do to each row.                                 *)
LEMMA SetRowAt ==
  ASSUME NEW l \in Seq(Status), NEW i \in DOMAIN l, NEW s
  PROVE  /\ DOMAIN SetRow(l, i, s) = DOMAIN l
         /\ \A j \in DOMAIN l : SetRow(l, i, s)[j] =
              IF j = i /\ l[i] # "deleted" THEN s ELSE l[j]
BY DEF SetRow

LEMMA SetUnfinishedAt ==
  ASSUME NEW l, NEW S, NEW s
  PROVE  /\ DOMAIN SetUnfinished(l, S, s) = DOMAIN l
         /\ \A j \in DOMAIN l :
              SetUnfinished(l, S, s)[j] = IF l[j] \in S THEN s ELSE l[j]
BY DEF SetUnfinished

LEMMA AppendAt ==
  ASSUME NEW l \in Seq(Status), NEW s \in Status
  PROVE  /\ DOMAIN Append(l, s) = DOMAIN l \cup {Len(l) + 1}
         /\ Append(l, s)[Len(l) + 1] = s
         /\ \A j \in DOMAIN l : Append(l, s)[j] = l[j]
         /\ Len(l) + 1 \notin DOMAIN l
OBVIOUS

(* The jobs that run or settle an engine are those that own a row, each its *)
(* own; it is no longer pending, and it is still open unless a restart or a *)
(* failed handler has settled it from outside.                              *)
JobsDisjoint == \A s, t \in Slots : jobRow[s] # 0 /\ jobRow[s] = jobRow[t] => s = t

RowInv ==
  /\ \A s \in Slots : jobRow[s] # 0 =>
        /\ jobRow[s] \in DOMAIN log
        /\ jobAt[s] \in HasRow
        /\ log[jobRow[s]] # "pending"
        /\ Never({"restart", "redisError"}) => log[jobRow[s]] \in {"running", "deleted"}
  /\ JobsDisjoint

(* How a step may treat the rows and their owners when no job gains one.    *)
LEMMA RowInvKept ==
  ASSUME TypeOK, RowInv, [Next]_vars, TypeOK',
         \A s \in Slots : jobRow'[s] \in {0, jobRow[s]},
         \A s \in Slots : jobRow'[s] # 0 => jobAt'[s] \in HasRow,
         \A i \in DOMAIN log :
           /\ i \in DOMAIN log'
           /\ log[i] # "pending" => log'[i] # "pending"
           /\ (\E s \in Slots : jobRow'[s] = i) /\ Never({"restart", "redisError"})'
                /\ log[i] \in {"running", "deleted"}
                => log'[i] \in {"running", "deleted"}
  PROVE  RowInv'
<1>1. Never({"restart", "redisError"})' => Never({"restart", "redisError"})
  BY NeverBefore DEF Event
<1>2. JobsDisjoint'
  BY DEF RowInv, JobsDisjoint
<1>3. ASSUME NEW s \in Slots, jobRow'[s] # 0
      PROVE  /\ jobRow'[s] \in DOMAIN log'
             /\ jobAt'[s] \in HasRow
             /\ log'[jobRow'[s]] # "pending"
             /\ Never({"restart", "redisError"})'
                  => log'[jobRow'[s]] \in {"running", "deleted"}
  <2>1. jobRow'[s] = jobRow[s] /\ jobRow[s] # 0 /\ jobRow[s] \in DOMAIN log
    BY <1>3 DEF RowInv
  <2> QED
    BY <1>1, <1>3, <2>1 DEF RowInv
<1> QED
  BY <1>2, <1>3 DEF RowInv

LEMMA RowInvStep == TypeOK /\ RowInv /\ [Next]_vars => RowInv'
<1> SUFFICES ASSUME TypeOK, RowInv, [Next]_vars PROVE RowInv'
  OBVIOUS
<1>1. TypeOK'
  BY StepTyped
<1>2. /\ log \in Seq(Status) /\ jobRow \in [Slots -> 0 .. Len(log)]
      /\ jobAt \in [Slots -> JobLabel] /\ reqRow \in [Requests -> 0 .. Len(log)]
      /\ count \in [Event -> Nat]
      /\ \A s \in Slots : jobAt[s] \in HasRow => jobRow[s] \in DOMAIN log
      /\ \A r \in Requests : reqAt[r] = "enqueue" => reqRow[r] \in DOMAIN log
  BY DEF TypeOK
<1>3. \A s \in Slots : jobRow[s] # 0 => jobAt[s] \in HasRow
  BY DEF RowInv
<1>4. ASSUME UNCHANGED <<log, jobRow, jobAt>> PROVE RowInv'
  BY <1>1, <1>3, <1>4, RowInvKept
<1>5. ASSUME UNCHANGED <<jobRow, jobAt>>,
             \A i \in DOMAIN log :
               /\ i \in DOMAIN log'
               /\ log[i] # "pending" => log'[i] # "pending"
               /\ Never({"restart", "redisError"})' /\ log[i] \in {"running", "deleted"}
                    => log'[i] \in {"running", "deleted"}
      PROVE  RowInv'
  BY <1>1, <1>3, <1>5, RowInvKept
<1>6. "pending" \in Status /\ "running" \in Status /\ "failed" \in Status
      /\ "deleted" \in Status
  BY DEF Status, Settled
<1>7. ASSUME NEW r \in Requests, Api(r) PROVE RowInv'
  <2>1. CASE Prepare(r)
    <3>1. PICK kept \in {log, SetUnfinished(log, {"pending"}, "deleted")} :
            log' = Append(kept, "pending")
      BY <2>1 DEF Prepare
    <3>2. /\ kept \in Seq(Status) /\ DOMAIN kept = DOMAIN log
          /\ \A i \in DOMAIN log : kept[i] = log[i] \/ kept[i] = "deleted"
      BY <1>2, <1>6, SetUnfinishedSeq, SetUnfinishedAt
    <3>3. \A i \in DOMAIN log : i \in DOMAIN log' /\ log'[i] = kept[i]
      BY <1>6, <3>1, <3>2, AppendAt
    <3> QED
      BY <1>5, <2>1, <3>2, <3>3 DEF Prepare, job
  <2>2. CASE EnqueueFails(r)
    <3>1. ~ Never({"restart", "redisError"})'
      BY <1>2, <2>2 DEF EnqueueFails, Happens, Never, Event
    <3> QED
      BY <1>2, <1>5, <2>2, <3>1, SetRowAt DEF EnqueueFails, job
  <2>3. CASE UnlockRows(r)
    BY <1>5, <2>3, SetUnfinishedAt DEF UnlockRows, job
  <2>4. CASE PrepareFails(r)
    BY <1>5, <2>4, SetUnfinishedAt DEF PrepareFails, job
  <2>5. CASE DeleteClosed(r)
    BY <1>2, <1>5, <2>5 DEF DeleteClosed, job
  <2>6. CASE InsertFails(r)
    BY <1>5, <2>6, SetUnfinishedAt DEF InsertFails, job
  <2> QED
    BY <1>4, <1>7, <2>1, <2>2, <2>3, <2>4, <2>5, <2>6
       DEF Api, Submit, CheckLock, Reserve, Enqueue, UnlockKeys, SelectClosed, job
<1>8. ASSUME NEW s \in Slots, Worker(s) PROVE RowInv'
  <2>1. CASE \/ Acquire(s) \/ ClearEnqueued(s) \/ ClearFails(s) \/ LoadFails(s)
             \/ Release(s) \/ ReleaseFails(s)
    <3>1. log' = log /\ jobRow' = jobRow /\ jobRow[s] = 0
      BY <1>2, <1>3, <2>1
         DEF Acquire, ClearEnqueued, ClearFails, LoadFails, Release, ReleaseFails, HasRow
    <3>2. \A t \in Slots : t # s => jobAt'[t] = jobAt[t]
      BY <1>2, <2>1 DEF Acquire, ClearEnqueued, ClearFails, LoadFails, Release,
                        ReleaseFails, Goto
    <3> QED
      BY <1>1, <1>3, <3>1, <3>2, RowInvKept
  <2>2. CASE EngineEnds(s)
    BY <1>1, <1>2, <1>3, <2>2, RowInvKept DEF EngineEnds, Goto, HasRow
  <2>5. CASE CancelJob(s)
    BY <1>1, <1>2, <1>3, <2>5, RowInvKept DEF CancelJob, Goto, HasRow
  <2>3. CASE Record(s) \/ RecordFails(s)
    <3>2. jobRow[s] \in DOMAIN log /\ jobRow[s] # 0
      BY <1>2, <2>3 DEF Record, RecordFails, TypeOK, HasRow
    <3>1. \E v \in Status \ {"pending"} : log' = SetRow(log, jobRow[s], v)
      <4>1. CASE Record(s)
        <5>1. Verdict(s) \in Status \ {"pending"}
          BY <4>1 DEF Record, Verdict, TypeOK, Status, Settled, Signal
        <5> QED
          BY <4>1, <5>1 DEF Record
      <4>2. CASE RecordFails(s)
        <5>1. log' = SetRow(log, jobRow[s], log[jobRow[s]])
          BY <1>2, <3>2, <4>2 DEF RecordFails, SetRow
        <5> QED
          BY <1>2, <3>2, <5>1 DEF RowInv
      <4> QED
        BY <2>3, <4>1, <4>2
    <3>3. /\ jobRow' = [jobRow EXCEPT ![s] = 0]
          /\ \A t \in Slots : t # s => jobAt'[t] = jobAt[t] /\ jobRow'[t] = jobRow[t]
      BY <2>3, RowLeaving DEF Record, RecordFails, RowLeft
    <3>4. \A t \in Slots : jobRow'[t] # jobRow[s]
      BY <1>2, <3>2, <3>3 DEF RowInv, JobsDisjoint
    <3>5. \A i \in DOMAIN log : /\ i \in DOMAIN log'
                                /\ i # jobRow[s] => log'[i] = log[i]
                                /\ log[i] # "pending" => log'[i] # "pending"
      <4>1. PICK v \in Status \ {"pending"} : log' = SetRow(log, jobRow[s], v)
        BY <3>1
      <4> QED
        BY <1>2, <3>2, <4>1, SetRowAt
    <3>6. \A t \in Slots : jobRow'[t] \in {0, jobRow[t]}
      BY <1>2, <3>3
    <3>7. \A t \in Slots : jobRow'[t] # 0 => jobAt'[t] \in HasRow
      <4> SUFFICES ASSUME NEW t \in Slots, jobRow'[t] # 0
                   PROVE  jobAt'[t] \in HasRow
        OBVIOUS
      <4>1. t # s
        BY <1>2, <3>3
      <4> QED
        BY <1>3, <3>3, <4>1
    <3>8. ASSUME NEW i \in DOMAIN log
          PROVE  /\ i \in DOMAIN log'
                 /\ log[i] # "pending" => log'[i] # "pending"
                 /\ (\E t \in Slots : jobRow'[t] = i) /\ Never({"restart", "redisError"})'
                      /\ log[i] \in {"running", "deleted"}
                      => log'[i] \in {"running", "deleted"}
      <4>1. ASSUME NEW t \in Slots, jobRow'[t] = i PROVE log'[i] = log[i]
        BY <3>4, <3>5, <4>1
      <4> QED
        BY <3>5, <4>1
    <3> QED
      BY <1>1, <3>6, <3>7, <3>8, RowInvKept, Zenon
  <2>4. CASE StartEngine(s)
    <3> DEFINE Gained(i) == /\ jobRow' = [jobRow EXCEPT ![s] = i]
                            /\ i \in DOMAIN log' /\ i # 0 /\ log'[i] = "running"
                            /\ i \in DOMAIN log => log[i] = "pending"
                            /\ \A j \in DOMAIN log : /\ j \in DOMAIN log'
                                                     /\ j # i => log'[j] = log[j]
    <3>0. \E i : Gained(i)
      <4>1. ASSUME NEW i \in Rows({"pending"}),
                   log'    = [log EXCEPT ![i] = "running"],
                   jobRow' = [jobRow EXCEPT ![s] = i]
            PROVE  Gained(i)
        <5>1. i \in DOMAIN log /\ log[i] = "pending" /\ i # 0
          BY <1>2 DEF Rows
        <5>2. /\ DOMAIN log' = DOMAIN log /\ log'[i] = "running"
              /\ \A j \in DOMAIN log : j # i => log'[j] = log[j]
          BY <4>1, <5>1
        <5> QED
          BY <4>1, <5>1, <5>2
      <4>2. ASSUME log'    = Append(log, "running"),
                   jobRow' = [jobRow EXCEPT ![s] = Len(log) + 1]
            PROVE  Gained(Len(log) + 1)
        <5>1. Len(log) + 1 # 0
          BY <1>2
        <5>2. /\ Len(log) + 1 \in DOMAIN log' /\ log'[Len(log) + 1] = "running"
              /\ Len(log) + 1 \notin DOMAIN log
              /\ \A j \in DOMAIN log : j \in DOMAIN log' /\ log'[j] = log[j]
          BY <1>2, <1>6, <4>2, AppendAt
        <5> QED
          BY <4>2, <5>1, <5>2
      <4>3. \/ \E i \in Rows({"pending"}) : /\ log'    = [log EXCEPT ![i] = "running"]
                                           /\ jobRow' = [jobRow EXCEPT ![s] = i]
            \/ /\ log'    = Append(log, "running")
               /\ jobRow' = [jobRow EXCEPT ![s] = Len(log) + 1]
        BY <2>4 DEF StartEngine
      <4> HIDE DEF Gained
      <4> QED
        BY <4>1, <4>2, <4>3, Zenon
    <3>1. PICK i : Gained(i)
      BY <3>0
    <3>2. \A t \in Slots : t # s => jobAt'[t] = jobAt[t] /\ jobRow'[t] = jobRow[t]
      BY <1>2, <2>4, <3>1 DEF StartEngine, Goto
    <3>3. jobRow'[s] = i /\ jobAt'[s] = "engine" /\ jobRow[s] = 0
      BY <1>2, <1>3, <2>4, <3>1 DEF StartEngine, Goto, HasRow
    <3>4. \A t \in Slots : t # s /\ jobRow[t] # 0 =>
            jobRow[t] \in DOMAIN log /\ jobRow[t] # i
      BY <3>1 DEF RowInv
    <3>5. JobsDisjoint'
      BY <3>2, <3>3, <3>4 DEF RowInv, JobsDisjoint
    <3>6. Never({"restart", "redisError"})' => Never({"restart", "redisError"})
      BY NeverBefore DEF Event
    <3> QED
      BY <3>1, <3>2, <3>3, <3>4, <3>5, <3>6 DEF RowInv, HasRow
  <2> QED
    BY <1>4, <1>8, <2>1, <2>2, <2>3, <2>4, <2>5 DEF Worker, DropEntry, LockRunsOut, job
<1>9. ASSUME Environment PROVE RowInv'
  <2>1. CASE WorkerDies
    BY <1>1, <2>1, RowInvKept DEF WorkerDies
  <2>2. CASE Restart
    <3>1. ~ Never({"restart", "redisError"})'
      BY <1>2, <2>2 DEF Restart, Happens, Never, Event
    <3> QED
      BY <1>5, <2>2, <3>1, SetUnfinishedAt DEF Restart, job
  <2> QED
    BY <1>4, <1>9, <2>1, <2>2
       DEF Environment, SendSignal, ChangeStatus, DeleteTask, Trigger, ZombieEnds,
           LockExpires, EnqueuedExpires, ControlExpires, Redeliver, job
<1> QED
  BY <1>4, <1>7, <1>8, <1>9 DEF Next, vars, job

LEMMA RowInvInit == Init => RowInv
BY DEF Init, RowInv, JobsDisjoint

(* Only a cleaning, a restart or a failed handler changes a settled row.    *)
RowsSettle == Never({"restart", "redisError"})' =>
                \A i \in Rows(Settled) :
                  \/ log'[i] = log[i]
                  \/ log'[i] = "deleted" /\ \E r \in Requests : reqAt[r] = "clean"

LEMMA RowsSettleStep == TypeOK /\ RowInv /\ [Next]_vars => RowsSettle
<1> SUFFICES ASSUME TypeOK, RowInv, [Next]_vars, Never({"restart", "redisError"})'
             PROVE  \A i \in Rows(Settled) :
                      \/ log'[i] = log[i]
                      \/ log'[i] = "deleted" /\ \E r \in Requests : reqAt[r] = "clean"
  BY DEF RowsSettle
<1>1. /\ log \in Seq(Status) /\ count \in [Event -> Nat]
      /\ \A s \in Slots : jobAt[s] \in HasRow =>
            jobRow[s] \in DOMAIN log /\ jobRow[s] # 0
  BY DEF TypeOK
<1>2. Never({"restart", "redisError"})
  BY NeverBefore DEF Event
<1>3. ~ Happens("restart") /\ ~ Happens("redisError")
  BY <1>1 DEF Happens, Never, Event
<1>4. \A i \in Rows(Settled) : /\ i \in DOMAIN log
                              /\ log[i] \notin {"pending", "running"}
  <2>1. "pending" \notin Settled /\ "running" \notin Settled
    BY DEF Settled, Signal
  <2> QED
    BY <2>1 DEF Rows
<1> DEFINE Goal == \A i \in Rows(Settled) :
                     \/ log'[i] = log[i]
                     \/ log'[i] = "deleted" /\ \E r \in Requests : reqAt[r] = "clean"
<1>5. ASSUME log' = log PROVE Goal
  BY <1>5
<1>6. ASSUME NEW r \in Requests, Api(r) PROVE Goal
  <2>1. CASE Prepare(r)
    <3>1. PICK kept \in {log, SetUnfinished(log, {"pending"}, "deleted")} :
            log' = Append(kept, "pending")
      BY <2>1 DEF Prepare
    <3>2. /\ kept \in Seq(Status) /\ DOMAIN kept = DOMAIN log
          /\ \A i \in Rows(Settled) : kept[i] = log[i]
      <4>1. "deleted" \in Status
        BY DEF Status, Settled
      <4>2. CASE kept = log
        BY <1>1, <4>2
      <4>3. CASE kept = SetUnfinished(log, {"pending"}, "deleted")
        BY <1>1, <1>4, <4>1, <4>3, SetUnfinishedSeq, SetUnfinishedAt
      <4> QED
        BY <3>1, <4>2, <4>3
    <3>3. \A i \in DOMAIN log : log'[i] = kept[i]
      BY <3>1, <3>2, AppendAt DEF Status
    <3> QED
      BY <1>4, <3>2, <3>3
  <2>2. CASE UnlockRows(r)
    BY <1>4, <2>2, SetUnfinishedAt DEF UnlockRows
  <2>3. ~ EnqueueFails(r) /\ ~ PrepareFails(r)
    BY <1>3 DEF EnqueueFails, PrepareFails
  <2>4. CASE DeleteClosed(r)
    <3>1. \A i \in DOMAIN log : log'[i] = log[i] \/ log'[i] = "deleted"
      BY <1>1, <2>4 DEF DeleteClosed
    <3> QED
      BY <1>4, <2>4, <3>1 DEF DeleteClosed
  <2>5. CASE InsertFails(r)
    BY <1>4, <1>5, <2>5, SetUnfinishedAt DEF InsertFails
  <2> QED
    BY <1>5, <1>6, <2>1, <2>2, <2>3, <2>4, <2>5
       DEF Api, Submit, CheckLock, Reserve, Enqueue, UnlockKeys, SelectClosed
<1>7. ASSUME NEW s \in Slots, Worker(s) PROVE Goal
  <2>1. CASE StartEngine(s)
    <3>1. CASE \E i \in Rows({"pending"}) : log' = [log EXCEPT ![i] = "running"]
      BY <1>1, <1>4, <3>1 DEF Rows
    <3>2. CASE log' = Append(log, "running")
      BY <1>1, <1>4, <3>2, AppendAt DEF Status
    <3> QED
      BY <2>1, <3>1, <3>2 DEF StartEngine
  <2>2. CASE Record(s)
    <3>1. PICK v : log' = SetRow(log, jobRow[s], v)
      BY <2>2 DEF Record
    <3>2. /\ jobRow[s] \in DOMAIN log /\ jobRow[s] # 0
          /\ log[jobRow[s]] \in {"running", "deleted"}
      BY <1>1, <1>2, <2>2 DEF Record, RowInv, HasRow
    <3> QED
      BY <1>1, <1>4, <3>1, <3>2, SetRowAt
  <2> QED
    BY <1>5, <1>7, <2>1, <2>2
       DEF Worker, Acquire, DropEntry, ClearEnqueued, ClearFails, LoadFails,
           EngineEnds, RecordFails, CancelJob, LockRunsOut, Release, ReleaseFails
<1>8. ASSUME Environment PROVE Goal
  <2>1. ~ Restart
    BY <1>3 DEF Restart
  <2> QED
    BY <1>5, <1>8, <2>1
       DEF Environment, SendSignal, ChangeStatus, DeleteTask, Trigger, ZombieEnds,
           LockExpires, EnqueuedExpires, ControlExpires, WorkerDies, Redeliver
<1> QED
  BY <1>5, <1>6, <1>7, <1>8 DEF Next, vars

(* While the main process stays up and enqueue_job does not fail, a row that*)
(* has been settled or deleted keeps its state for good: no late job, no    *)
(* /unlock and no new request touches it, only a cleaning deletes it.       *)
THEOREM Settling == Spec => SettledIsFinal
<1>1. TypeOK /\ RowInv /\ [Next]_vars => [RowsSettle]_vars
  BY RowsSettleStep
<1>2. SettledIsFinal <=> [][RowsSettle]_vars
  BY DEF SettledIsFinal, RowsSettle
<1> QED
  BY <1>1, <1>2, RowInvInit, Typing, RowInvStep, PTL DEF Spec

(* A cleaning holds the number of a row it has seen settled.  Settled rows   *)
(* stay settled, so no job takes the row while the cleaning has yet to      *)
(* delete it, and none had it before: the rows of jobs are open or deleted. *)
CleanInv ==
  Never({"restart", "redisError"}) =>
    \A r \in Requests : reqAt[r] = "clean" =>
      /\ reqRow[r] # 0
      /\ reqRow[r] \in Rows(Settled)
      /\ \A s \in Slots : jobRow[s] # reqRow[r]

(* What a step does to the cleanings, and what it does to the rows of jobs. *)
LEMMA CleaningKept ==
  ASSUME TypeOK, [Next]_vars, NEW r \in Requests, reqAt'[r] = "clean", ~ SelectClosed(r)
  PROVE  reqAt[r] = "clean" /\ reqRow'[r] = reqRow[r]
<1>1. reqAt \in [Requests -> ReqLabel] /\ reqRow \in [Requests -> 0 .. Len(log)]
  BY DEF TypeOK
<1>2. ASSUME UNCHANGED req PROVE reqAt[r] = "clean" /\ reqRow'[r] = reqRow[r]
  BY <1>2 DEF req
<1>3. ASSUME NEW q \in Requests, Api(q) PROVE reqAt[r] = "clean" /\ reqRow'[r] = reqRow[r]
  <2>1. CASE q = r
    BY <1>1, <1>3, <2>1
       DEF Api, Submit, CheckLock, Reserve, Prepare, PrepareFails,
           InsertFails, Enqueue, EnqueueFails,
           UnlockKeys, UnlockRows, DeleteClosed, FinishRequest
  <2>2. CASE q # r
    BY <1>1, <1>3, <2>2
       DEF Api, Submit, CheckLock, Reserve, Prepare, PrepareFails,
           InsertFails, Enqueue, EnqueueFails,
           UnlockKeys, UnlockRows, SelectClosed, DeleteClosed, FinishRequest
  <2> QED
    BY <2>1, <2>2
<1>4. ASSUME NEW s \in Slots, Worker(s) PROVE UNCHANGED req
  BY <1>4 DEF Worker, Acquire, DropEntry, ClearEnqueued, ClearFails, LoadFails, StartEngine,
              EngineEnds, Record, RecordFails, LeaveRow, CancelJob,
              LockRunsOut, Release, ReleaseFails, req
<1>5. ASSUME Environment, ~ Restart PROVE UNCHANGED req
  BY <1>5 DEF Environment, SendSignal, ChangeStatus, DeleteTask, Trigger, ZombieEnds,
              LockExpires, EnqueuedExpires, ControlExpires, WorkerDies, Redeliver, req
<1>6. ~ Restart
  BY DEF Restart
<1> QED
  BY <1>2, <1>3, <1>4, <1>5, <1>6 DEF Next, vars, req

LEMMA UnlockingKept ==
  ASSUME TypeOK, [Next]_vars, NEW r \in Requests, reqAt'[r] = "unlock", ~ UnlockKeys(r)
  PROVE  reqAt[r] = "unlock"
<1>1. reqAt \in [Requests -> ReqLabel]
  BY DEF TypeOK
<1>2. ASSUME NEW q \in Requests, Api(q) PROVE reqAt[r] = "unlock"
  <2>1. CASE q = r
    BY <1>1, <1>2, <2>1
       DEF Api, Submit, CheckLock, Reserve, Prepare, PrepareFails,
           InsertFails, Enqueue, EnqueueFails,
           UnlockRows, SelectClosed, DeleteClosed, FinishRequest
  <2>2. CASE q # r
    BY <1>1, <1>2, <2>2
       DEF Api, Submit, CheckLock, Reserve, Prepare, PrepareFails,
           InsertFails, Enqueue, EnqueueFails,
           UnlockKeys, UnlockRows, SelectClosed, DeleteClosed, FinishRequest
  <2> QED
    BY <2>1, <2>2
<1>3. ASSUME NEW s \in Slots, Worker(s) PROVE UNCHANGED req
  BY <1>3 DEF Worker, Acquire, DropEntry, ClearEnqueued, ClearFails, LoadFails, StartEngine,
              EngineEnds, Record, RecordFails, LeaveRow, CancelJob,
              LockRunsOut, Release, ReleaseFails, req
<1>4. ASSUME Environment, ~ Restart PROVE UNCHANGED req
  BY <1>4 DEF Environment, SendSignal, ChangeStatus, DeleteTask, Trigger, ZombieEnds,
              LockExpires, EnqueuedExpires, ControlExpires, WorkerDies, Redeliver, req
<1>5. ~ Restart
  BY DEF Restart
<1> QED
  BY <1>2, <1>3, <1>4, <1>5 DEF Next, vars, req

LEMMA JobRowsOpen ==
  ASSUME TypeOK, [Next]_vars, NEW s \in Slots
  PROVE  jobRow'[s] \in {0, jobRow[s]} \/ jobRow'[s] \notin Rows(Settled)
<1>1. jobRow \in [Slots -> 0 .. Len(log)] /\ log \in Seq(Status)
  BY DEF TypeOK
<1>2. ASSUME NEW t \in Slots, StartEngine(t)
      PROVE  jobRow'[s] \in {0, jobRow[s]} \/ jobRow'[s] \notin Rows(Settled)
  <2>1. PICK i : jobRow' = [jobRow EXCEPT ![t] = i] /\ i \notin Rows(Settled)
    <3>1. ASSUME NEW i \in Rows({"pending"}) PROVE i \notin Rows(Settled)
      BY <3>1 DEF Rows, Settled, Signal
    <3>2. Len(log) + 1 \notin Rows(Settled)
      BY <1>1 DEF Rows
    <3> QED
      BY <1>2, <3>1, <3>2 DEF StartEngine
  <2> QED
    BY <1>1, <2>1
<1>3. ASSUME NEW t \in Slots, Worker(t), ~ StartEngine(t)
      PROVE  jobRow'[s] \in {0, jobRow[s]}
  BY <1>1, <1>3 DEF Worker, Acquire, DropEntry, ClearEnqueued, ClearFails, LoadFails,
                    EngineEnds, Record, RecordFails, LeaveRow, CancelJob,
              LockRunsOut, Release, ReleaseFails, job
<1>4. ASSUME NEW r \in Requests, Api(r) PROVE jobRow' = jobRow
  BY <1>4 DEF Api, Submit, CheckLock, Reserve, Prepare, PrepareFails,
           InsertFails, Enqueue, EnqueueFails,
              UnlockKeys, UnlockRows, SelectClosed, DeleteClosed, job
<1>5. ASSUME Environment PROVE jobRow'[s] \in {0, jobRow[s]}
  BY <1>5 DEF Environment, SendSignal, ChangeStatus, DeleteTask, Trigger, ZombieEnds,
              LockExpires, EnqueuedExpires, ControlExpires, WorkerDies, Redeliver, Restart,
              job
<1> QED
  BY <1>2, <1>3, <1>4, <1>5 DEF Next, vars, job

LEMMA CleanInvStep == TypeOK /\ RowInv /\ CleanInv /\ [Next]_vars => CleanInv'
<1> SUFFICES ASSUME TypeOK, RowInv, CleanInv, [Next]_vars,
                    Never({"restart", "redisError"})',
                    NEW r \in Requests, reqAt'[r] = "clean"
             PROVE  /\ reqRow'[r] # 0
                    /\ reqRow'[r] \in Rows(Settled)'
                    /\ \A s \in Slots : jobRow'[s] # reqRow'[r]
  BY DEF CleanInv
<1>1. Never({"restart", "redisError"})
  BY NeverBefore DEF Event
<1>2. reqRow'[r] # 0 /\ reqRow'[r] \in DOMAIN log'
  BY StepTyped DEF TypeOK
<1>3. CASE SelectClosed(r)
  <2>1. /\ log' = log /\ jobRow' = jobRow
        /\ reqRow'[r] \in Rows(Settled \ {"deleted"})
    BY <1>3 DEF SelectClosed, job, TypeOK
  <2>2. reqRow'[r] \in Rows(Settled) /\ log[reqRow'[r]] \notin {"running", "deleted"}
    BY <2>1 DEF Rows, Settled, Signal
  <2>3. \A s \in Slots : jobRow[s] # 0 => log[jobRow[s]] \in {"running", "deleted"}
    BY <1>1 DEF RowInv
  <2>4. \A s \in Slots : jobRow'[s] # reqRow'[r]
    BY <1>2, <2>1, <2>2, <2>3
  <2> QED
    BY <1>2, <2>1, <2>2, <2>4 DEF Rows
<1>4. CASE ~ SelectClosed(r)
  <2>1. reqAt[r] = "clean" /\ reqRow'[r] = reqRow[r]
    BY <1>4, CleaningKept
  <2>2. reqRow[r] \in Rows(Settled) /\ \A s \in Slots : jobRow[s] # reqRow[r]
    BY <1>1, <2>1 DEF CleanInv
  <2>3. log'[reqRow[r]] \in Settled
    BY <2>2, RowsSettleStep DEF RowsSettle, Rows, Settled
  <2>4. \A s \in Slots : jobRow'[s] # reqRow[r]
    BY <1>2, <2>1, <2>2, JobRowsOpen
  <2> QED
    BY <1>2, <2>1, <2>3, <2>4 DEF Rows
<1> QED
  BY <1>3, <1>4

(* Two jobs never write the same row of sys_task_log, whatever requests,    *)
(* crashes, restarts and late cancellations come in between; and while the  *)
(* main process stays up and Redis answers, no cleaning deletes by id a row *)
(* that a job has taken since the cleaning selected it.                     *)
THEOREM Rows_are_disjoint == Spec => []RowsDisjoint
<1>1. Init => CleanInv
  BY DEF Init, CleanInv
<1>2. RowInv /\ CleanInv => RowsDisjoint
  BY DEF RowInv, CleanInv, JobsDisjoint, RowsDisjoint
<1> QED
  BY <1>1, <1>2, RowInvInit, Typing, RowInvStep, CleanInvStep, PTL DEF Spec

(* Rows of the table are numbers, finitely many.                            *)
LEMMA RowsFinite ==
  ASSUME NEW l \in Seq(Status), NEW S \in SUBSET DOMAIN l
  PROVE  IsFiniteSet(S) /\ Cardinality(S) \in Nat
<1>1. DOMAIN l = 1 .. Len(l) /\ Len(l) \in Int /\ 1 \in Int
  OBVIOUS
<1>2. IsFiniteSet(DOMAIN l)
  BY <1>1, FS_Interval
<1> QED
  BY <1>2, FS_Subset, FS_CardinalityType

(* A row that says running after a step has a job, or had none before it,    *)
(* unless a commit failed or the worker died.                               *)
LEMMA StaleStep ==
  ASSUME TypeOK, RowInv, [Next]_vars, NEW i \in Rows({"running"})',
         ~ WorkerDies, \A s \in Slots : ~ RecordFails(s)
  PROVE  i \in Stale \/ \E s \in Slots : jobRow'[s] = i
<1>1. /\ log \in Seq(Status) /\ count \in [Event -> Nat]
      /\ jobRow \in [Slots -> 0 .. Len(log)]
      /\ \A s \in Slots : jobAt[s] \in HasRow =>
            jobRow[s] \in DOMAIN log /\ jobRow[s] # 0
      /\ \A r \in Requests : reqAt[r] = "enqueue" => reqRow[r] \in DOMAIN log
  BY DEF TypeOK
<1>3. \A j \in DOMAIN log : log[j] = "running" => j \in Stale \/ \E s \in Slots : jobRow[s] = j
  BY DEF Stale, Rows
<1>9. i \in DOMAIN log' /\ log'[i] = "running"
  BY DEF Rows
<1> DEFINE Goal == i \in Stale \/ \E s \in Slots : jobRow'[s] = i
<1>4. ASSUME UNCHANGED jobRow, i \in DOMAIN log, log[i] = "running"
      PROVE  Goal
  BY <1>3, <1>4
<1>5. "deleted" \in Status /\ "pending" \in Status /\ "running" \in Status
  BY DEF Status, Settled
<1>6. ASSUME NEW r \in Requests, Api(r) PROVE Goal
  <2>1. CASE Prepare(r)
    <3>1. PICK kept \in {log, SetUnfinished(log, {"pending"}, "deleted")} :
            log' = Append(kept, "pending")
      BY <2>1 DEF Prepare
    <3>2. /\ kept \in Seq(Status) /\ DOMAIN kept = DOMAIN log
          /\ \A j \in DOMAIN log : kept[j] = log[j] \/ kept[j] = "deleted"
      <4>1. CASE kept = log
        BY <1>1, <4>1
      <4>2. CASE kept = SetUnfinished(log, {"pending"}, "deleted")
        BY <1>1, <1>5, <4>2, SetUnfinishedSeq, SetUnfinishedAt
      <4> QED
        BY <3>1, <4>1, <4>2
    <3>3. i \in DOMAIN kept /\ log'[i] = kept[i]
      BY <1>5, <1>9, <3>1, <3>2, AppendAt
    <3> QED
      BY <1>4, <1>9, <2>1, <3>2, <3>3 DEF Prepare, job
  <2>2. CASE UnlockRows(r)
    BY <1>4, <1>9, <2>2, SetUnfinishedAt DEF UnlockRows, job
  <2>3. CASE EnqueueFails(r)
    BY <1>1, <1>4, <1>9, <2>3, SetRowAt DEF EnqueueFails, job
  <2>4. CASE PrepareFails(r)
    BY <1>4, <1>9, <2>4, SetUnfinishedAt DEF PrepareFails, job
  <2>5. CASE DeleteClosed(r)
    BY <1>1, <1>4, <1>9, <2>5 DEF DeleteClosed, job
  <2>6. CASE InsertFails(r)
    BY <1>4, <1>9, <2>6, SetUnfinishedAt DEF InsertFails, job
  <2> QED
    BY <1>4, <1>6, <1>9, <2>1, <2>2, <2>3, <2>4, <2>5, <2>6
       DEF Api, Submit, CheckLock, Reserve, Enqueue, UnlockKeys, SelectClosed, job
<1>7. ASSUME NEW s \in Slots, Worker(s) PROVE Goal
  <2>1. CASE StartEngine(s)
    <3>1. jobRow[s] = 0
      BY <2>1 DEF StartEngine, RowInv, HasRow
    <3>2. ASSUME NEW k \in Nat, jobRow' = [jobRow EXCEPT ![s] = k],
                 i # k => i \in DOMAIN log /\ log[i] = "running"
          PROVE  Goal
      <4>1. CASE i = k
        BY <1>1, <3>2, <4>1
      <4>2. CASE i # k /\ i \notin Stale
        <5>1. PICK q \in Slots : jobRow[q] = i
          BY <1>3, <3>2, <4>2
        <5>2. q # s
          BY <1>1, <3>1, <3>2, <4>2, <5>1
        <5> QED
          BY <1>1, <3>2, <5>1, <5>2
      <4> QED
        BY <4>1, <4>2
    <3>3. ASSUME NEW k \in Rows({"pending"}), log' = [log EXCEPT ![k] = "running"],
                 jobRow' = [jobRow EXCEPT ![s] = k]
          PROVE  Goal
      <4>1. k \in DOMAIN log /\ k \in Nat
        BY <1>1 DEF Rows
      <4>2. i # k => i \in DOMAIN log /\ log[i] = "running"
        BY <1>1, <1>9, <3>3, <4>1
      <4> QED
        BY <3>2, <3>3, <4>1, <4>2
    <3>4. ASSUME log' = Append(log, "running"),
                 jobRow' = [jobRow EXCEPT ![s] = Len(log) + 1]
          PROVE  Goal
      <4>1. Len(log) + 1 \in Nat
        BY <1>1
      <4>2. i # Len(log) + 1 => i \in DOMAIN log /\ log[i] = "running"
        BY <1>1, <1>5, <1>9, <3>4, AppendAt
      <4> QED
        BY <3>2, <3>4, <4>1, <4>2
    <3> QED
      BY <2>1, <3>3, <3>4 DEF StartEngine
  <2>2. CASE Record(s)
    <3>1. PICK v : v # "running" /\ log' = SetRow(log, jobRow[s], v)
      <4>1. Verdict(s) # "running"
        BY <2>2 DEF Record, Verdict, TypeOK, Signal
      <4> QED
        BY <2>2, <4>1 DEF Record
    <3>2. /\ jobRow[s] \in DOMAIN log
          /\ jobRow' = [jobRow EXCEPT ![s] = 0]
      BY <1>1, <2>2 DEF Record, LeaveRow, HasRow
    <3>3. i \in DOMAIN log /\ i # jobRow[s] /\ log[i] = "running"
      BY <1>1, <1>9, <3>1, <3>2, SetRowAt
    <3>4. i \in Stale \/ \E q \in Slots : jobRow[q] = i
      BY <1>3, <3>3
    <3> QED
      BY <1>1, <3>2, <3>3, <3>4
  <2>3. ~ RecordFails(s)
    OBVIOUS
  <2> QED
    BY <1>4, <1>7, <1>9, <2>1, <2>2, <2>3
       DEF Worker, Acquire, DropEntry, ClearEnqueued, ClearFails, LoadFails,
           EngineEnds, CancelJob, LockRunsOut, Release, ReleaseFails, job
<1>8. ASSUME Environment PROVE Goal
  <2>1. CASE Restart
    BY <1>4, <1>9, <2>1, SetUnfinishedAt DEF Restart, job
  <2>2. ~ WorkerDies
    OBVIOUS
  <2> QED
    BY <1>4, <1>8, <1>9, <2>1, <2>2
       DEF Environment, SendSignal, ChangeStatus, DeleteTask, Trigger, ZombieEnds,
           LockExpires, EnqueuedExpires, ControlExpires, Redeliver, job
<1> QED
  BY <1>4, <1>6, <1>7, <1>8, <1>9 DEF Next, vars, job


(* The bound on stale rows grows with its parts.                            *)
LEMMA BoundGrows ==
  ASSUME NEW l \in Nat, NEW m \in Nat, l <= m, NEW v \in Nat, NEW w \in Nat, v <= w
  PROVE  /\ (1 + l) * v \in Nat /\ (1 + m) * w \in Nat
         /\ (1 + l) * v <= (1 + m) * w
         /\ (1 + l) * (v + 1) = (1 + l) * v + (1 + l)
<1>1. PICK a \in Nat, b \in Nat : m = l + a /\ w = v + b
  <2>1. m - l \in Nat /\ w - v \in Nat /\ m = l + (m - l) /\ w = v + (w - v)
    OBVIOUS
  <2> QED
    BY <2>1
<1>2. (1 + m) * w = (1 + l) * v + (1 + l) * b + a * v + a * b
  BY <1>1
<1>3. (1 + l) * b \in Nat /\ a * v \in Nat /\ a * b \in Nat /\ (1 + l) * v \in Nat
  OBVIOUS
<1> QED
  BY <1>2, <1>3

Owned == {jobRow[s] : s \in {t \in Slots : jobRow[t] # 0}}

(* The rows of jobs are no more than the jobs.                                *)
LEMMA OwnedRows ==
  ASSUME TypeOK, RowInv, LockOwned
  PROVE  /\ IsFiniteSet(Owned) /\ Cardinality(Owned) \in Nat
         /\ Cardinality(Owned) <= 1 + Losses
<1> DEFINE Owners == {t \in Slots : jobRow[t] # 0}
           f      == [s \in Owners |-> jobRow[s]]
<1>1. Losses \in Nat
  BY LossesCounted
<1>2. Owners \in SUBSET Busy /\ IsFiniteSet(Busy)
  BY SlotSets DEF RowInv, HasRow, Busy
<1>3. IsFiniteSet(Owners) /\ Cardinality(Owners) \in Nat /\ Cardinality(Owners) <= Cardinality(Busy)
  BY <1>2, FS_Subset, FS_CardinalityType
<1>4. f \in Surjection(Owners, Owned)
  BY DEF Surjection, Owned
<1>5. IsFiniteSet(Owned) /\ Cardinality(Owned) <= Cardinality(Owners)
  BY <1>3, <1>4, FS_Surjection
<1>6. Cardinality(Owned) \in Nat
  BY <1>5, FS_CardinalityType
<1> QED
  BY <1>1, <1>3, <1>5, <1>6, BusyCounted

(* A commit that fails leaves one row behind, the death of the worker those  *)
(* of its jobs.                                                            *)
LEMMA RunningStep ==
  TypeOK /\ RowInv /\ LockOwned /\ RunningRowsLive /\ [Next]_vars => RunningRowsLive'
<1> SUFFICES ASSUME TypeOK, RowInv, LockOwned, RunningRowsLive, [Next]_vars
             PROVE  RunningRowsLive'
  OBVIOUS
<1> DEFINE d == count["dbError"]
           w == count["workerDeath"]
<1>1. TypeOK' /\ RowInv'
  BY StepTyped, RowInvStep
<1>2. /\ d \in Nat /\ w \in Nat /\ Losses \in Nat
      /\ d' \in Nat /\ w' \in Nat /\ Losses' \in Nat
      /\ d <= d' /\ w <= w' /\ Losses <= Losses'
  BY <1>1, CountGrows, LossesGrow DEF TypeOK, Event
<1>3. /\ IsFiniteSet(Stale) /\ Cardinality(Stale) \in Nat
      /\ IsFiniteSet(Stale') /\ Cardinality(Stale') \in Nat
  <2>1. log \in Seq(Status) /\ log' \in Seq(Status)
    BY <1>1 DEF TypeOK
  <2>2. Stale \in SUBSET DOMAIN log /\ Stale' \in SUBSET DOMAIN log'
    BY DEF Stale, Rows
  <2> QED
    BY <2>1, <2>2, RowsFinite
<1>4. Cardinality(Stale) <= d + (1 + Losses) * w
  BY DEF RunningRowsLive
<1>5. \A s \in Slots : jobRow'[s] # 0 => jobAt'[s] \in HasRow
  BY <1>1 DEF RowInv
<1>6. \A i \in Stale' : /\ i \in Rows({"running"})' /\ i # 0
                        /\ ~ \E s \in Slots : jobRow'[s] = i
  BY <1>1, <1>5 DEF Stale, Rows, TypeOK
<1>7. \A i \in Rows({"running"}) : i \in Stale \/ \E s \in Slots : jobRow[s] = i
  BY DEF Stale
<1>8. /\ (1 + Losses) * w \in Nat /\ (1 + Losses') * w' \in Nat
      /\ (1 + Losses) * w <= (1 + Losses') * w'
      /\ (1 + Losses) * (w + 1) = (1 + Losses) * w + (1 + Losses)
  BY <1>2, BoundGrows
<1> DEFINE old == (1 + Losses) * w
           new == (1 + Losses') * w'
<1>9. SUFFICES Cardinality(Stale') <= d' + new
  BY DEF RunningRowsLive
<1>10. CASE ~ WorkerDies /\ \A s \in Slots : ~ RecordFails(s)
  <2>1. Stale' \in SUBSET Stale
    BY <1>6, <1>10, StaleStep
  <2>2. Cardinality(Stale') <= Cardinality(Stale)
    BY <1>3, <2>1, FS_Subset
  <2> HIDE DEF old, new
  <2> QED
    BY <1>2, <1>3, <1>4, <1>8, <2>2 DEF old, new
<1>11. ASSUME NEW s \in Slots, RecordFails(s) PROVE Cardinality(Stale') <= d' + new
  <2>1. log' = log /\ jobRow' = [jobRow EXCEPT ![s] = 0]
    BY <1>11 DEF RecordFails, LeaveRow
  <2>2. jobRow \in [Slots -> 0 .. Len(log)]
    BY DEF TypeOK
  <2>3. Stale' \in SUBSET (Stale \cup {jobRow[s]})
    BY <1>6, <1>7, <2>1, <2>2 DEF Rows
  <2>4. Cardinality(Stale') <= Cardinality(Stale) + 1
    BY <1>3, <2>3, OneMore
  <2>5. d' = d + 1
    BY <1>11 DEF RecordFails, Happens, TypeOK, Event
  <2> QED
    BY <1>2, <1>3, <1>4, <1>8, <2>4, <2>5
<1>12. CASE WorkerDies
  <2>1. log' = log
    BY <1>12 DEF WorkerDies
  <2>2. Stale' \in SUBSET (Stale \cup Owned)
    BY <1>6, <1>7, <2>1 DEF Rows, Owned
  <2>3. /\ IsFiniteSet(Owned) /\ Cardinality(Owned) \in Nat
        /\ Cardinality(Owned) <= 1 + Losses
    BY OwnedRows
  <2>4. /\ IsFiniteSet(Stale \cup Owned) /\ Cardinality(Stale \cap Owned) \in Nat
        /\ Cardinality(Stale \cup Owned)
             = Cardinality(Stale) + Cardinality(Owned) - Cardinality(Stale \cap Owned)
    <3>1. IsFiniteSet(Stale \cap Owned)
      BY <1>3, FS_Subset
    <3> QED
      BY <1>3, <2>3, <3>1, FS_Union, FS_CardinalityType
  <2>5. Cardinality(Stale') <= Cardinality(Stale \cup Owned)
    BY <2>2, <2>4, FS_Subset
  <2>6. w' = w + 1 /\ Losses' = Losses
    BY <1>12 DEF WorkerDies, Happens, Losses, TypeOK, Event
  <2>7. new = (1 + Losses) * w + (1 + Losses)
    BY <1>8, <2>6
  <2> QED
    BY <1>2, <1>3, <1>4, <1>8, <2>3, <2>4, <2>5, <2>7
<1> QED
  BY <1>10, <1>11, <1>12

(* A row that says running belongs to a job that runs the engine or is about  *)
(* to record how it ended, but for one row for each commit the database      *)
(* refused and, for each death of the worker, those of the jobs it took with *)
(* it: whatever else fails, times out or is deleted, no job leaves its row.  *)
THEOREM Running == Spec => []RunningRowsLive
<1>1. Init => RunningRowsLive
  <2> SUFFICES ASSUME Init PROVE RunningRowsLive
    OBVIOUS
  <2>1. Stale = {} /\ count["dbError"] = 0 /\ count["workerDeath"] = 0 /\ Losses = 0
    BY DEF Init, Stale, Rows, Losses, Event
  <2> QED
    BY <2>1, FS_EmptySet DEF RunningRowsLive
<1> QED
  BY <1>1, RowInvInit, Typing, RowInvStep, Ownership, RunningStep, PTL DEF Spec

-----------------------------------------------------------------------------
(* The table of runs keeps to TaskLog.                                      *)

Disturbing == {"unlock", "lockExpiry", "restart", "redisError", "dbError", "workerDeath"}

(* What TaskLog sees of the counts.                                         *)
LEMMA FaultsSame == UNCHANGED count => UNCHANGED Faults
BY DEF Faults

LEMMA FaultsHappen ==
  ASSUME TypeOK, NEW e \in Event, Happens(e)
  PROVE  /\ e \in Disturbing => Faults' = Faults \cup {e}
         /\ e \notin Disturbing => UNCHANGED Faults
<1>1. /\ \A f \in Event : f # e => count'[f] = count[f]
      /\ count'[e] = count[e] + 1 /\ count[e] \in Nat
  BY DEF TypeOK, Happens
<1>2. Disturbing \subseteq Event /\ Faults = {f \in Disturbing : count[f] > 0}
      /\ Faults' = {f \in Disturbing : count'[f] > 0}
  BY DEF Disturbing, Event, Faults
<1>3. count'[e] > 0
  BY <1>1
<1> QED
  BY <1>1, <1>2, <1>3

LEMMA CalmIsNever ==
  ASSUME TypeOK, NEW E \in SUBSET Disturbing
  PROVE  Table!Calm(E) <=> Never(E)
<1>1. \A e \in E : count[e] \in Nat /\ e \in Disturbing
  BY DEF TypeOK, Disturbing, Event
<1>2. \A e \in E : e \in Faults <=> count[e] # 0
  BY <1>1 DEF Faults, Disturbing
<1> QED
  BY <1>2 DEF Table!Calm, Never

LEMMA MovedIsSet == \A S, s : Table!Moved(S, s) = SetUnfinished(log, S, s)
BY DEF Table!Moved, SetUnfinished

(* What requests know of the table: a cleaning has selected a settled row,   *)
(* whatever has happened since, and an unlocking has been counted.            *)
RequestRows ==
  \A r \in Requests :
    /\ reqAt[r] = "clean" => reqRow[r] \in Rows(Settled)
    /\ reqAt[r] = "unlock" => count["unlock"] > 0

TableInv == TypeOK /\ RowInv /\ LockOwned /\ RunningRowsLive /\ RequestRows

LEMMA TableApi ==
  ASSUME TableInv, NEW r \in Requests, Api(r)
  PROVE  [Table!Next]_(Table!vars)
<1>1. TypeOK /\ log \in Seq(Status) /\ reqRow \in [Requests -> 0 .. Len(log)]
  BY DEF TableInv, TypeOK
<1>2. CASE Prepare(r)
  <2>1. UNCHANGED Faults
    BY <1>2, FaultsSame DEF Prepare
  <2>2. \E kept \in {log, Table!Moved({"pending"}, "deleted")} : log' = Append(kept, "pending")
    BY <1>2, MovedIsSet DEF Prepare
  <2> QED
    BY <2>1, <2>2 DEF Table!Next, Table!Order
<1>3. CASE PrepareFails(r) \/ EnqueueFails(r)
  <2>1. Faults' = Faults \cup {"redisError"}
    BY <1>1, <1>3, FaultsHappen DEF PrepareFails, EnqueueFails, Event, Disturbing
  <2>2. \/ UNCHANGED log
        \/ log' = Table!Moved({"pending"}, "deleted")
        \/ \E i \in DOMAIN log : log[i] # "deleted" /\ log' = [log EXCEPT ![i] = "failed"]
    <3>1. CASE PrepareFails(r)
      BY <3>1, MovedIsSet DEF PrepareFails
    <3>2. CASE EnqueueFails(r)
      <4>1. reqRow[r] \in DOMAIN log
        BY <1>1, <3>2 DEF EnqueueFails, TypeOK
      <4> QED
        BY <3>2, <4>1 DEF EnqueueFails, SetRow
    <3> QED
      BY <1>3, <3>1, <3>2
  <2> QED
    BY <2>1, <2>2 DEF Table!Next, Table!RedisFails
<1>4. CASE UnlockKeys(r)
  <2>1. Faults' = Faults \cup {"unlock"} /\ UNCHANGED log
    BY <1>1, <1>4, FaultsHappen DEF UnlockKeys, Event, Disturbing
  <2> QED
    BY <2>1 DEF Table!Next, Table!Unlock
<1>5. CASE UnlockRows(r)
  <2>1. UNCHANGED Faults
    BY <1>5, FaultsSame DEF UnlockRows
  <2>2. ~Table!Calm({"unlock"})
    <3>1. count["unlock"] > 0
      BY <1>5 DEF UnlockRows, TableInv, RequestRows
    <3>2. ~Never({"unlock"})
      BY <3>1 DEF Never
    <3> QED
      BY <1>1, <3>2, CalmIsNever DEF Disturbing
  <2>3. log' = Table!Moved(Table!Open, "deleted")
    BY <1>5, MovedIsSet DEF UnlockRows, Table!Open
  <2> QED
    BY <2>1, <2>2, <2>3 DEF Table!Next, Table!DropOpen
<1>6. CASE DeleteClosed(r)
  <2>1. UNCHANGED Faults
    BY <1>6, FaultsSame DEF DeleteClosed
  <2>2. reqRow[r] \in DOMAIN log /\ log[reqRow[r]] \in Settled
    BY <1>6 DEF DeleteClosed, TableInv, RequestRows, Rows
  <2>3. log' = [log EXCEPT ![reqRow[r]] = "deleted"]
    BY <1>6 DEF DeleteClosed
  <2>4. CASE log[reqRow[r]] = "deleted"
    BY <1>1, <2>1, <2>3, <2>4 DEF Table!vars
  <2>5. CASE log[reqRow[r]] # "deleted"
    <3>1. log[reqRow[r]] \in Table!Closed
      BY <2>2, <2>5 DEF Settled, Signal, Table!Closed
    <3> QED
      BY <2>1, <2>2, <2>3, <3>1 DEF Table!Next, Table!Clean
  <2> QED
    BY <2>4, <2>5
<1>9. CASE InsertFails(r)
  <2>1. Faults' = Faults \cup {"dbError"}
    BY <1>1, <1>9, FaultsHappen DEF InsertFails, Event, Disturbing
  <2>2. log' \in {log, Table!Moved({"pending"}, "deleted")}
    BY <1>9, MovedIsSet DEF InsertFails
  <2> QED
    BY <2>1, <2>2 DEF Table!Next, Table!CommitFails
<1>7. CASE CheckLock(r) \/ Reserve(r) \/ Enqueue(r)
  BY <1>7, FaultsSame DEF CheckLock, Reserve, Enqueue, Table!vars
<1>8. CASE SelectClosed(r) \/ \E k \in Kind : Submit(r, k)
  <2>1. UNCHANGED Faults
    BY <1>1, <1>8, FaultsHappen DEF SelectClosed, Submit, Event, Disturbing
  <2> QED
    BY <1>8, <2>1 DEF SelectClosed, Submit, Table!vars
<1> QED
  BY <1>2, <1>3, <1>4, <1>5, <1>6, <1>7, <1>8, <1>9 DEF Api

(* A job that begins has the lock, and the job of a running row would have   *)
(* it as well.                                                             *)
LEMMA NoneRunning ==
  ASSUME TableInv, Table!Calm(Table!Breach),
         NEW s \in Slots, jobAt[s] = "load", NEW i \in DOMAIN log
  PROVE  log[i] # "running"
<1>1. Never(Table!Breach)
  BY CalmIsNever DEF TableInv, Disturbing, Table!Breach
<1>2. Losses = 0 /\ count["dbError"] = 0 /\ count["workerDeath"] = 0
  BY <1>1 DEF Never, Losses, Table!Breach
<1>3. Robbed = {}
  <2>1. Robbed \in SUBSET Slots
    BY DEF Robbed, Busy
  <2>2. IsFiniteSet(Robbed) /\ Cardinality(Robbed) \in Nat /\ Cardinality(Robbed) <= 0
    BY <1>2, <2>1, SlotSets DEF TableInv, LockOwned, Robbed
  <2> QED
    BY <2>2, FS_EmptySet
<1>4. Stale = {}
  <2>1. log \in Seq(Status) /\ Stale \in SUBSET DOMAIN log
    BY DEF TableInv, TypeOK, Stale, Rows
  <2>2. IsFiniteSet(Stale) /\ Cardinality(Stale) \in Nat
    BY <2>1, RowsFinite
  <2>3. Cardinality(Stale) <= 0
    BY <1>2, <2>2 DEF TableInv, RunningRowsLive
  <2> QED
    BY <2>2, <2>3, FS_EmptySet
<1>5. \A t \in Slots : jobAt[t] # "idle" => lock = t
  BY <1>3 DEF Robbed, Busy
<1>6. log[i] = "running" => \E t \in Slots : jobAt[t] \in HasRow
  BY <1>4 DEF Stale, Rows
<1> QED
  BY <1>5, <1>6 DEF HasRow

LEMMA TableBegin ==
  ASSUME TableInv, NEW s \in Slots, StartEngine(s)
  PROVE  Table!Begin
<1>1. UNCHANGED Faults /\ jobAt[s] = "load"
  BY FaultsSame DEF StartEngine
<1>2. Table!Calm(Table!Breach) => \A i \in DOMAIN log : log[i] # "running"
  BY <1>1, NoneRunning
<1>3. Rows({"pending"}) = {i \in DOMAIN log : log[i] = "pending"}
  BY DEF Rows
<1>4. \/ \E i \in DOMAIN log :
           /\ log[i] = "pending"
           /\ \A j \in DOMAIN log : log[j] = "pending" => j <= i
           /\ log' = [log EXCEPT ![i] = "running"]
      \/ /\ \A i \in DOMAIN log : log[i] # "pending"
         /\ log' = Append(log, "running")
  BY <1>3 DEF StartEngine
<1> QED
  BY <1>1, <1>2, <1>4 DEF Table!Begin

LEMMA TableEnd ==
  ASSUME TableInv, NEW s \in Slots, Record(s)
  PROVE  [Table!Next]_(Table!vars)
<1>1. TypeOK /\ log \in Seq(Status)
  BY DEF TableInv, TypeOK
<1>2. UNCHANGED Faults
  BY FaultsSame DEF Record
<1>3. PICK v \in Table!Closed : log' = SetRow(log, jobRow[s], v)
  <2>1. Verdict(s) \in Table!Closed
    BY <1>1 DEF Record, Verdict, TypeOK, Signal, Table!Closed
  <2> QED
    BY <2>1 DEF Record
<1>4. jobRow[s] \in DOMAIN log /\ jobRow[s] # 0
  BY <1>1 DEF Record, TypeOK, HasRow
<1>5. CASE log[jobRow[s]] = "deleted"
  BY <1>2, <1>3, <1>5 DEF SetRow, Table!vars
<1>6. CASE log[jobRow[s]] # "deleted"
  <2>1. log[jobRow[s]] \in Status \ {"pending", "deleted"}
    BY <1>1, <1>4, <1>6 DEF TableInv, RowInv
  <2>2. log[jobRow[s]] = "running" \/ log[jobRow[s]] \in Table!Closed
    BY <2>1 DEF Status, Settled, Signal, Table!Closed
  <2>3. log[jobRow[s]] # "running" => ~Never({"restart", "redisError"})
    BY <1>4, <1>6 DEF TableInv, RowInv
  <2>4. Table!Calm({"restart", "redisError"}) <=> Never({"restart", "redisError"})
    BY <1>1, CalmIsNever DEF Disturbing
  <2>5. log' = [log EXCEPT ![jobRow[s]] = v]
    BY <1>3, <1>6 DEF SetRow
  <2> QED
    BY <1>2, <1>4, <2>2, <2>3, <2>4, <2>5 DEF Table!Next, Table!End
<1> QED
  BY <1>5, <1>6

LEMMA TableStep ==
  ASSUME TableInv, [Next]_vars
  PROVE  [Table!Next]_(Table!vars)
<1>1. TypeOK
  BY DEF TableInv
<1>2. ASSUME UNCHANGED <<log, Faults>> PROVE [Table!Next]_(Table!vars)
  BY <1>2 DEF Table!vars
<1>3. ASSUME Faults' = Faults \cup {"redisError"}, UNCHANGED log PROVE [Table!Next]_(Table!vars)
  BY <1>3 DEF Table!Next, Table!RedisFails
<1>4. ASSUME NEW s \in Slots, Worker(s) PROVE [Table!Next]_(Table!vars)
  <2>1. CASE StartEngine(s)
    BY <2>1, TableBegin DEF Table!Next
  <2>2. CASE Record(s)
    BY <2>2, TableEnd
  <2>3. CASE ClearFails(s) \/ ReleaseFails(s)
    <3>1. Faults' = Faults \cup {"redisError"} /\ UNCHANGED log
      BY <1>1, <2>3, FaultsHappen DEF ClearFails, ReleaseFails, Event, Disturbing
    <3> QED
      BY <1>3, <3>1
  <2>4. CASE RecordFails(s)
    <3>1. Faults' = Faults \cup {"dbError"} /\ UNCHANGED log
      BY <1>1, <2>4, FaultsHappen DEF RecordFails, Event, Disturbing
    <3> QED
      BY <3>1 DEF Table!Next, Table!CommitFails
  <2>5. CASE LockRunsOut(s)
    <3>1. Faults' = Faults \cup {"lockExpiry"} /\ UNCHANGED log
      BY <1>1, <2>5, FaultsHappen DEF LockRunsOut, Event, Disturbing
    <3> QED
      BY <3>1 DEF Table!Next, Table!RunLeft
  <2>6. CASE CancelJob(s)
    <3>1. UNCHANGED Faults /\ UNCHANGED log
      BY <1>1, <2>6, FaultsHappen DEF CancelJob, Event, Disturbing
    <3> QED
      BY <1>2, <3>1
  <2> QED
    BY <1>2, <1>4, <2>1, <2>2, <2>3, <2>4, <2>5, <2>6, FaultsSame
       DEF Worker, Acquire, DropEntry, ClearEnqueued, LoadFails, EngineEnds, Release
<1>5. ASSUME Environment PROVE [Table!Next]_(Table!vars)
  <2>1. CASE WorkerDies
    <3>1. Faults' = Faults \cup {"workerDeath"} /\ UNCHANGED log
      BY <1>1, <2>1, FaultsHappen DEF WorkerDies, Event, Disturbing
    <3> QED
      BY <3>1 DEF Table!Next, Table!RunLeft
  <2>2. CASE Restart
    <3>1. Faults' = Faults \cup {"restart"}
      BY <1>1, <2>2, FaultsHappen DEF Restart, Event, Disturbing
    <3>2. log' = Table!Moved(Table!Open, "failed")
      BY <2>2, MovedIsSet DEF Restart, Table!Open
    <3> QED
      BY <3>1, <3>2 DEF Table!Next, Table!Restart
  <2>3. CASE ChangeStatus \/ DeleteTask \/ Trigger \/ EnqueuedExpires
             \/ \E c \in Signal : SendSignal(c)
    <3>1. UNCHANGED Faults /\ UNCHANGED log
      BY <1>1, <2>3, FaultsHappen
         DEF ChangeStatus, DeleteTask, Trigger, EnqueuedExpires, SendSignal, Event, Disturbing
    <3> QED
      BY <1>2, <3>1
  <2> QED
    BY <1>2, <1>5, <2>1, <2>2, <2>3, FaultsSame
       DEF Environment, ZombieEnds, LockExpires, ControlExpires, Redeliver
<1>6. CASE UNCHANGED vars
  BY <1>2, <1>6, FaultsSame DEF vars
<1> QED
  BY <1>4, <1>5, <1>6, TableApi DEF Next

(* No step of the table takes a row back.                                   *)
LEMMA TableForward ==
  ASSUME log \in Seq(Status), [Table!Next]_(Table!vars)
  PROVE  \A i \in DOMAIN log :
           i \in DOMAIN log' /\ Table!Rank(log[i]) <= Table!Rank(log'[i])
<1> DEFINE Ahead(i) == i \in DOMAIN log' /\ Table!Rank(log[i]) <= Table!Rank(log'[i])
<1>1. /\ \A v : Table!Rank(v) \in 0 .. 3 /\ Table!Rank("deleted") = 3
      /\ Table!Rank("pending") = 0 /\ Table!Rank("running") = 1
      /\ \A v \in Table!Closed : Table!Rank(v) = 2
      /\ "failed" \in Table!Closed
      /\ \A v : v \notin {"pending", "running"} => Table!Rank(v) >= 2
      /\ \A v : Table!Rank(v) = 3 <=> v \notin {"pending", "running"} \cup Table!Closed
  BY DEF Table!Rank, Table!Closed
<1>2. ASSUME NEW l \in Seq(Status), DOMAIN l = DOMAIN log, NEW s \in Status,
             \A i \in DOMAIN log : Table!Rank(log[i]) <= Table!Rank(l[i]),
             log' = Append(l, s)
      PROVE  \A i \in DOMAIN log : Ahead(i)
  BY <1>2, AppendAt
<1>3. ASSUME NEW S \in SUBSET (Table!Open \cup Table!Closed), NEW s,
             \A v \in S : Table!Rank(v) <= Table!Rank(s)
      PROVE  /\ DOMAIN Table!Moved(S, s) = DOMAIN log
             /\ \A i \in DOMAIN log : Table!Rank(log[i]) <= Table!Rank(Table!Moved(S, s)[i])
  BY <1>1, <1>3 DEF Table!Moved
<1>4. ASSUME NEW k \in DOMAIN log, NEW s, log' = [log EXCEPT ![k] = s],
             Table!Rank(log[k]) <= Table!Rank(s)
      PROVE  \A i \in DOMAIN log : Ahead(i)
  <2>1. \A i \in DOMAIN log : i \in DOMAIN log' /\ (i # k => log'[i] = log[i]) /\ log'[k] = s
    BY <1>4
  <2> QED
    BY <1>1, <1>4, <2>1
<1>5. CASE UNCHANGED log
  BY <1>1, <1>5
<1>6. CASE Table!Order
  <2>1. PICK kept \in {log, Table!Moved({"pending"}, "deleted")} : log' = Append(kept, "pending")
    BY <1>6 DEF Table!Order
  <2>2. /\ kept \in Seq(Status) /\ DOMAIN kept = DOMAIN log
        /\ \A i \in DOMAIN log : Table!Rank(log[i]) <= Table!Rank(kept[i])
    <3>1. CASE kept = log
      BY <1>1, <3>1
    <3>2. CASE kept = Table!Moved({"pending"}, "deleted")
      <4>1. kept \in Seq(Status)
        BY <3>2, MovedIsSet, SetUnfinishedSeq DEF Status, Settled
      <4>2. {"pending"} \subseteq Table!Open
        BY DEF Table!Open
      <4> QED
        BY <1>1, <1>3, <3>2, <4>1, <4>2
    <3> QED
      BY <2>1, <3>1, <3>2
  <2> QED
    BY <1>2, <2>1, <2>2 DEF Status
<1>7. CASE Table!Begin
  <2>1. CASE \E i \in DOMAIN log : log[i] = "pending" /\ log' = [log EXCEPT ![i] = "running"]
    BY <1>1, <1>4, <2>1
  <2>2. CASE log' = Append(log, "running")
    BY <1>1, <1>2, <2>2 DEF Status
  <2> QED
    BY <1>7, <2>1, <2>2 DEF Table!Begin
<1>8. CASE Table!End
  <2>1. PICK i \in DOMAIN log, s \in Table!Closed :
          (log[i] = "running" \/ log[i] \in Table!Closed) /\ log' = [log EXCEPT ![i] = s]
    BY <1>8 DEF Table!End
  <2>2. Table!Rank(log[i]) <= Table!Rank(s)
    BY <1>1, <2>1
  <2> QED
    BY <1>4, <2>1, <2>2
<1>9. CASE Table!Clean
  BY <1>1, <1>4, <1>9 DEF Table!Clean
<1>12. CASE Table!CommitFails
  BY <1>1, <1>3, <1>5, <1>12 DEF Table!CommitFails, Table!Open
<1>10. CASE Table!DropOpen \/ Table!Restart
  <2>1. \A v \in Table!Open : Table!Rank(v) <= 1
    BY <1>1 DEF Table!Open
  <2>2. PICK s \in {"deleted", "failed"} : log' = Table!Moved(Table!Open, s)
    BY <1>10 DEF Table!DropOpen, Table!Restart
  <2>3. \A v \in Table!Open : Table!Rank(v) <= Table!Rank(s)
    BY <1>1, <2>1
  <2> QED
    BY <1>3, <2>2, <2>3
<1>11. CASE Table!RedisFails
  <2>1. CASE log' = Table!Moved({"pending"}, "deleted")
    BY <1>1, <1>3, <2>1 DEF Table!Open
  <2>2. CASE \E i \in DOMAIN log : log[i] # "deleted" /\ log' = [log EXCEPT ![i] = "failed"]
    <3>1. PICK i \in DOMAIN log : log[i] # "deleted" /\ log' = [log EXCEPT ![i] = "failed"]
      BY <2>2
    <3>2. log[i] \in {"pending", "running"} \cup Table!Closed
      BY <3>1 DEF Status, Settled, Signal, Table!Closed
    <3>3. Table!Rank(log[i]) <= Table!Rank("failed")
      BY <1>1, <3>2
    <3> QED
      BY <1>4, <3>1, <3>3
  <2> QED
    BY <1>5, <1>11, <2>1, <2>2 DEF Table!RedisFails
<1> QED
  BY <1>5, <1>6, <1>7, <1>8, <1>9, <1>10, <1>11, <1>12
     DEF Table!Next, Table!vars, Table!Unlock, Table!RunLeft

(* Settled rows stay settled, so a cleaning still finds one.                 *)
LEMMA RequestRowsStep ==
  TableInv /\ [Next]_vars => RequestRows'
<1> SUFFICES ASSUME TableInv, [Next]_vars, NEW r \in Requests
             PROVE  /\ reqAt'[r] = "clean" => reqRow'[r] \in Rows(Settled)'
                    /\ reqAt'[r] = "unlock" => count'["unlock"] > 0
  BY DEF RequestRows
<1>1. TypeOK /\ TypeOK' /\ log \in Seq(Status) /\ log' \in Seq(Status)
  BY StepTyped DEF TableInv, TypeOK
<1>2. \A i \in Rows(Settled) : i \in Rows(Settled)'
  <2> SUFFICES ASSUME NEW i \in DOMAIN log, log[i] \in Settled
               PROVE  i \in DOMAIN log' /\ log'[i] \in Settled
    BY DEF Rows
  <2>1. i \in DOMAIN log' /\ Table!Rank(log[i]) <= Table!Rank(log'[i])
    BY <1>1, TableStep, TableForward
  <2>2. log'[i] \in Status
    BY <1>1, <2>1
  <2> QED
    BY <2>1, <2>2 DEF Table!Rank, Table!Closed, Status, Settled, Signal
<1>3. ASSUME reqAt'[r] = "clean" PROVE reqRow'[r] \in Rows(Settled)'
  <2>1. CASE SelectClosed(r)
    <3>1. log' = log /\ reqRow'[r] \in Rows(Settled \ {"deleted"})
      BY <1>1, <2>1 DEF SelectClosed, TypeOK
    <3>2. reqRow'[r] \in Rows(Settled)
      BY <3>1 DEF Rows
    <3> QED
      BY <1>2, <3>2
  <2>2. CASE ~SelectClosed(r)
    BY <1>1, <1>2, <1>3, <2>2, CleaningKept DEF TableInv, RequestRows
  <2> QED
    BY <2>1, <2>2
<1>4. ASSUME reqAt'[r] = "unlock" PROVE count'["unlock"] > 0
  <2>1. count["unlock"] \in Nat /\ count'["unlock"] \in Nat /\ count["unlock"] <= count'["unlock"]
    BY <1>1, CountGrows DEF TypeOK, Event
  <2>2. CASE UnlockKeys(r)
    <3>1. count'["unlock"] = count["unlock"] + 1
      BY <1>1, <2>2 DEF UnlockKeys, Happens, TypeOK, Event
    <3> QED
      BY <2>1, <3>1
  <2>3. CASE ~UnlockKeys(r)
    <3>1. reqAt[r] = "unlock"
      BY <1>1, <1>4, <2>3, UnlockingKept
    <3> QED
      BY <2>1, <3>1 DEF TableInv, RequestRows
  <2> QED
    BY <2>2, <2>3
<1> QED
  BY <1>3, <1>4

LEMMA NothingAtFirst == Init => LockOwned /\ RunningRowsLive
<1> SUFFICES ASSUME Init PROVE LockOwned /\ RunningRowsLive
  OBVIOUS
<1>1. Stale = {} /\ {s \in Busy : lock # s} = {}
  BY DEF Init, Stale, Rows, Busy
<1>2. count["dbError"] = 0 /\ count["workerDeath"] = 0 /\ Losses = 0
  BY DEF Init, Losses, Event
<1> QED
  BY <1>1, <1>2, FS_EmptySet DEF LockOwned, RunningRowsLive

LEMMA TableInvariant == Spec => []TableInv
<1>1. Init => TableInv
  <2> SUFFICES ASSUME Init PROVE TableInv
    OBVIOUS
  <2>1. TypeOK /\ RowInv
    BY InitTyped, RowInvInit
  <2>2. RequestRows
    BY DEF Init, RequestRows
  <2> QED
    BY <2>1, <2>2, NothingAtFirst DEF TableInv
<1>2. TableInv /\ [Next]_vars => TableInv'
  BY StepTyped, RowInvStep, LockOwnedStep, RunningStep, RequestRowsStep DEF TableInv
<1> QED
  BY <1>1, <1>2, PTL DEF Spec

(* TaskExecution implements TaskLog.  Whatever requests, jobs, expiries and   *)
(* crashes do to the lock, the keys and the queue, the rows of a task show   *)
(* runs that are ordered, taken one at a time, settled once and deleted by a *)
(* cleaning; an /unlock, a restart, an error of Redis or of the database, the*)
(* death of a worker and a lock that expires under a late job each add what  *)
(* TaskLog says of them and nothing else.                                   *)
THEOREM Implementation == Spec => KeepsTaskLog
<1>1. Init => Table!Init
  <2> SUFFICES ASSUME Init PROVE Table!Init
    OBVIOUS
  <2>1. \A e \in Event : count[e] = 0
    BY DEF Init
  <2>2. Faults = {}
    BY <2>1 DEF Faults, Event
  <2> QED
    BY <2>2 DEF Init, Table!Init
<1>2. TableInv /\ [Next]_vars => [Table!Next]_(Table!vars)
  BY TableStep
<1> QED
  BY <1>1, <1>2, TableInvariant, PTL DEF Spec, KeepsTaskLog, Table!Spec

(* Only Begin makes a row run, and it does so when none runs.                *)
LEMMA OneRunningStep ==
  ASSUME log \in Seq(Status), Table!OneRunning, [Table!Next]_(Table!vars)
  PROVE  Table!OneRunning'
<1> SUFFICES ASSUME Table!Calm(Table!Breach)',
                    NEW i \in DOMAIN log', NEW j \in DOMAIN log',
                    log'[i] = "running", log'[j] = "running"
             PROVE  i = j
  BY DEF Table!OneRunning
<1>1. Table!Calm(Table!Breach)
  BY DEF Table!Next, Table!vars, Table!Calm, Table!Order, Table!Begin, Table!End, Table!Clean,
         Table!Unlock, Table!DropOpen, Table!Restart, Table!RedisFails, Table!CommitFails,
         Table!RunLeft
<1>2. \A k, l \in DOMAIN log : log[k] = "running" /\ log[l] = "running" => k = l
  BY <1>1 DEF Table!OneRunning
<1> DEFINE Ran(k) == k \in DOMAIN log /\ log[k] = "running"
<1>3. ASSUME Ran(i), Ran(j) PROVE i = j
  BY <1>2, <1>3
<1>4. ASSUME NEW S, NEW s \in {"deleted", "failed"} PROVE
        /\ DOMAIN Table!Moved(S, s) = DOMAIN log
        /\ \A k \in DOMAIN log : Table!Moved(S, s)[k] \in {log[k], s}
  BY DEF Table!Moved
<1>5. ASSUME NEW k \in DOMAIN log, NEW s, s # "running", log' = [log EXCEPT ![k] = s]
      PROVE  i = j
  BY <1>3, <1>5
<1>6. CASE Table!Order
  <2>1. PICK kept \in {log, Table!Moved({"pending"}, "deleted")} : log' = Append(kept, "pending")
    BY <1>6 DEF Table!Order
  <2>2. kept \in Seq(Status)
    BY <2>1, MovedIsSet, SetUnfinishedSeq DEF Status, Settled
  <2>3. \A k \in DOMAIN kept : kept[k] = "running" => Ran(k)
    BY <1>4, <2>1
  <2>4. i \in DOMAIN kept /\ j \in DOMAIN kept /\ log'[i] = kept[i] /\ log'[j] = kept[j]
    BY <2>1, <2>2, AppendAt DEF Status
  <2> QED
    BY <1>3, <2>3, <2>4
<1>7. CASE Table!Begin
  <2>1. \A k \in DOMAIN log : log[k] # "running"
    BY <1>1, <1>7 DEF Table!Begin
  <2>2. CASE \E k \in DOMAIN log : log' = [log EXCEPT ![k] = "running"]
    BY <2>1, <2>2
  <2>3. CASE log' = Append(log, "running")
    BY <2>1, <2>3, AppendAt DEF Status
  <2> QED
    BY <1>7, <2>2, <2>3 DEF Table!Begin
<1>8. CASE Table!End \/ Table!Clean
  BY <1>5, <1>8 DEF Table!End, Table!Clean, Table!Closed
<1>9. CASE \E S, s : s \in {"deleted", "failed"} /\ log' = Table!Moved(S, s)
  BY <1>3, <1>4, <1>9
<1>10. CASE UNCHANGED log
  BY <1>3, <1>10
<1>11. CASE Table!RedisFails
  BY <1>5, <1>9, <1>10, <1>11 DEF Table!RedisFails
<1>12. CASE Table!CommitFails
  BY <1>9, <1>10, <1>12 DEF Table!CommitFails
<1> QED
  BY <1>6, <1>7, <1>8, <1>9, <1>10, <1>11, <1>12
     DEF Table!Next, Table!vars, Table!Unlock, Table!DropOpen, Table!Restart, Table!RunLeft

(* What follows from TaskLog alone: two rows of a task never say running at   *)
(* once, as long as the lock was not lost, to /unlock or by its expiry, no     *)
(* commit has failed and no worker has died.                               *)
THEOREM One_run_at_a_time == Spec => []Table!OneRunning
<1>1. Table!Init => Table!OneRunning
  BY DEF Table!Init, Table!OneRunning
<1>2. log \in Seq(Status) /\ Table!OneRunning /\ [Table!Next]_(Table!vars) => Table!OneRunning'
  BY OneRunningStep
<1>3. TypeOK => log \in Seq(Status)
  BY DEF TypeOK
<1> QED
  BY <1>1, <1>2, <1>3, Implementation, Typing, PTL DEF KeepsTaskLog, Table!Spec

(* And no row of a task ever goes back, from running to ordered or from       *)
(* settled to running or from deleted to anything, whatever happens.          *)
THEOREM No_row_goes_back == Spec => Table!OnlyForward
<1>1. log \in Seq(Status) /\ [Table!Next]_(Table!vars) =>
        [\A i \in DOMAIN log :
           i \in DOMAIN log' /\ Table!Rank(log[i]) <= Table!Rank(log'[i])]_(Table!vars)
  BY TableForward
<1>2. TypeOK => log \in Seq(Status)
  BY DEF TypeOK
<1> QED
  BY <1>1, <1>2, Implementation, Typing, PTL DEF KeepsTaskLog, Table!Spec, Table!OnlyForward
=============================================================================
