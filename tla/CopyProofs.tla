----------------------------- MODULE CopyProofs -----------------------------
(* Proofs about IncrementalCopy, for any tables, values, batches, tasks and  *)
(* bounds: nothing is skipped, nothing is copied twice, and the engine        *)
(* implements TableCopy.                                                   *)
EXTENDS IncrementalCopy, FiniteSetTheorems, TLAPS

-----------------------------------------------------------------------------
(* Configurations, rows and watermarks.                                     *)

LEMMA TaskIsConfig ==
  ASSUME task \in Tasks
  PROVE  /\ task.order \in Seq(Table)
         /\ task.commit \in {"job", "table", "batch"}
         /\ task.sorted \in BOOLEAN /\ task.incremental \in BOOLEAN
BY TaskAssumption DEF Config

LEMMA RowIs ==
  ASSUME NEW r \in Row
  PROVE  r[1] \in Table /\ r[2] \in 1 .. MaxValue /\ r[2] \in Nat
BY NumberAssumption DEF Row, Values

(* A full copy has no watermark; the one of an incremental copy reaches all  *)
(* rows and is the value of one, if it is not the old one.                   *)
LEMMA HighestOfFull ==
  ASSUME ~ task.incremental, NEW m, NEW S, NEW w \in Highest(m, S)
  PROVE  w = m
BY DEF Highest

LEMMA HighestReaches ==
  ASSUME task.incremental, NEW m, NEW S, NEW w \in Highest(m, S)
  PROVE  /\ w \in 0 .. MaxValue /\ w >= m
         /\ w = m \/ \E r \in S : r[2] = w
         /\ \A r \in S : r[2] <= w
BY DEF Highest

LEMMA HighestTyped ==
  ASSUME NEW m \in 0 .. MaxValue, NEW S, NEW w \in Highest(m, S)
  PROVE  w \in 0 .. MaxValue
BY DEF Highest

LEMMA LargerIs ==
  ASSUME NEW m \in 0 .. MaxValue, NEW n \in 0 .. MaxValue
  PROVE  /\ Larger(m, n) \in 0 .. MaxValue
         /\ m <= Larger(m, n) /\ n <= Larger(m, n)
         /\ Larger(m, n) = m \/ Larger(m, n) = n
BY NumberAssumption DEF Larger

(* A request touches neither the data nor the job.                           *)
LEMMA RequestKeeps ==
  ASSUME Request
  PROVE  /\ UNCHANGED <<task, source, copies, jobVars, seen, late>>
         /\ UNCHANGED count \/ Happens("resume") \/ Happens("reset")
BY DEF Request, Ask, CheckIdle, Refuse, Resume, Reset, Choose, DropBreakpoint,
       Backfill, Abandon, Withdraw, history

LEMMA CountStep ==
  ASSUME [Next]_vars
  PROVE  UNCHANGED count \/ \E f \in Event : count' = [count EXCEPT ![f] = @ + 1]
<1>1. CASE Request
  BY <1>1, RequestKeeps DEF Happens, Event
<1>2. CASE ~ Request
  BY <1>2 DEF Next, vars, Insert, Run, SendSignal, KeysExpire, Engine, InterruptAtTable,
              OpenTable, CopyBatch, FinishTable, FinishJob, Record, Fail, RecordFails,
              Happens, Event, history
<1> QED
  BY <1>1, <1>2

(* Counts only grow: what has never happened had not happened before.        *)
LEMMA CountGrows ==
  ASSUME count \in [Event -> Nat], [Next]_vars
  PROVE  \A e \in Event : count[e] <= count'[e] /\ count'[e] \in Nat
<1>1. ASSUME NEW f \in Event, count' = [count EXCEPT ![f] = @ + 1]
      PROVE  \A e \in Event : count[e] <= count'[e] /\ count'[e] \in Nat
  BY <1>1
<1>2. ASSUME UNCHANGED count
      PROVE  \A e \in Event : count[e] <= count'[e] /\ count'[e] \in Nat
  BY <1>2
<1>3. UNCHANGED count \/ \E f \in Event : count' = [count EXCEPT ![f] = @ + 1]
  BY CountStep
<1> QED
  BY <1>1, <1>2, <1>3

LEMMA NeverBefore ==
  ASSUME count \in [Event -> Nat], [Next]_vars, NEW E \in SUBSET Event, Never(E)'
  PROVE  Never(E)
BY CountGrows DEF Never

(* The configuration stays, and rows of the source do.                       *)
LEMMA SourceGrows ==
  ASSUME [Next]_vars
  PROVE  task' = task /\ source \subseteq source'
BY RequestKeeps
   DEF Next, vars, Insert, Run, SendSignal, KeysExpire, Engine, InterruptAtTable,
       OpenTable, CopyBatch, FinishTable, FinishJob, Record, Fail, RecordFails

-----------------------------------------------------------------------------
(* Type correctness.                                                       *)

SourceFinite == IsFiniteSet(source)

LEMMA SourceFiniteStep == SourceFinite /\ [Next]_vars => SourceFinite'
<1> SUFFICES ASSUME SourceFinite, [Next]_vars PROVE SourceFinite'
  OBVIOUS
<1>1. ASSUME NEW r, source' = source \cup {r} PROVE SourceFinite'
  BY <1>1, FS_AddElement DEF SourceFinite
<1>2. source' = source \/ \E r : source' = source \cup {r}
  BY RequestKeeps
     DEF Next, vars, Insert, Run, SendSignal, KeysExpire, Engine, InterruptAtTable,
         OpenTable, CopyBatch, FinishTable, FinishJob, Record, Fail, RecordFails
<1> QED
  BY <1>1, <1>2 DEF SourceFinite

(* The rows of S with the same table and value.                              *)
Alike(S, t, v) == {r \in S : r[1] = t /\ r[2] = v}

(* A row that appears is a row.                                             *)
LEMMA InsertedRow ==
  ASSUME TypeOK, SourceFinite, NEW t \in Tables, NEW v \in Values, Insert(t, v)
  PROVE  \E row \in Row :
           /\ row[1] = t /\ row[2] = v
           /\ row[3] = Cardinality(Alike(source, t, v)) + 1
           /\ source' = source \cup {row}
           /\ \/ late' = late /\ ~ (task.incremental /\ v <= seen[t])
              \/ late' = late \cup {row} /\ task.incremental /\ v <= seen[t]
           /\ \/ UNCHANGED <<unread, seen>>
              \/ /\ task.commit # "job" /\ at = "read" /\ task.order[next] = t
                 /\ task.incremental => v > from
                 /\ task.sorted =>
                      /\ v > tableMax
                      /\ \A r \in Extract(t) : \/ r[2] <= tableMax
                                               \/ r \in unread \cup late
                 /\ unread' = unread \cup {row}
                 /\ seen' = IF task.incremental
                            THEN [seen EXCEPT ![t] = Larger(@, v)] ELSE seen
<1> DEFINE ties == {r \in source : r[1] = t /\ r[2] = v}
           row  == <<t, v, Cardinality(ties) + 1>>
<1>1. Cardinality(ties) \in Nat
  BY FS_Subset, FS_CardinalityType DEF SourceFinite
<1>2. Cardinality(ties) < MaxTies
  BY DEF Insert
<1>3. t \in Table
  BY TaskIsConfig DEF TypeOK, Tables
<1>4. Cardinality(ties) + 1 \in 1 .. MaxTies
  BY <1>1, <1>2, NumberAssumption
<1>5. row \in Row
  BY <1>3, <1>4 DEF Row
<1>6. row[1] = t /\ row[2] = v /\ row[3] = Cardinality(Alike(source, t, v)) + 1
  BY DEF Alike
<1> HIDE DEF ties
<1> QED
  BY <1>5, <1>6 DEF Insert, ties

LEMMA InitTyped == Init => TypeOK /\ SourceFinite
<1> SUFFICES ASSUME Init PROVE TypeOK /\ SourceFinite
  OBVIOUS
<1>1. task \in Tasks /\ task.order \in Seq(Table)
  BY TaskIsConfig DEF Init
<1>2. 1 \in 1 .. Len(task.order) + 1
  BY <1>1
<1>3. 0 \in 0 .. MaxValue
  BY NumberAssumption
<1>4. SourceFinite
  BY FS_EmptySet DEF Init, SourceFinite
<1>5. next \in 1 .. Len(task.order) + 1 /\ at # "read"
  BY <1>2 DEF Init
<1> QED
  BY <1>1, <1>3, <1>4, <1>5 DEF Init, TypeOK

LEMMA CommitTyped ==
  ASSUME copies \in [Row -> Nat], NEW S, CommitRows(S)
  PROVE  copies' \in [Row -> Nat]
BY DEF CommitRows

LEMMA SkippedTyped ==
  ASSUME TypeOK
  PROVE  /\ Skipped \in 0 .. MaxValue
         /\ chosen <= Skipped
         /\ put = before \/ put <= Skipped
BY NumberAssumption, LargerIs DEF TypeOK, Skipped

(* What a request leaves behind.                                            *)
LEMMA RequestTyped ==
  ASSUME TypeOK, Request
  PROVE  /\ watermark' \in 0 .. MaxValue /\ saved' \in 0 .. MaxValue
         /\ control' \in {"running"} \cup Signal /\ chosen' \in 0 .. MaxValue
         /\ \/ EndRequest
            \/ /\ handler' \in Handler /\ before' \in 0 .. MaxValue
               /\ put' \in 0 .. MaxValue
               /\ step' \in {"check", "commit", "drop", "order", "enqueue"}
               /\ put' # 0 => handler' = "backfill" /\ step' \notin {"check", "commit"}
<1> DEFINE Goal ==
      /\ watermark' \in 0 .. MaxValue /\ saved' \in 0 .. MaxValue
      /\ control' \in {"running"} \cup Signal /\ chosen' \in 0 .. MaxValue
      /\ \/ EndRequest
         \/ /\ handler' \in Handler /\ before' \in 0 .. MaxValue
            /\ put' \in 0 .. MaxValue
            /\ step' \in {"check", "commit", "drop", "order", "enqueue"}
            /\ put' # 0 => handler' = "backfill" /\ step' \notin {"check", "commit"}
<1>1. /\ 0 \in 0 .. MaxValue /\ Choice \subseteq 0 .. MaxValue
      /\ Skipped \in 0 .. MaxValue
  BY NumberAssumption, SkippedTyped
<1>2. /\ watermark \in 0 .. MaxValue /\ saved \in 0 .. MaxValue
      /\ control \in {"running"} \cup Signal /\ chosen \in 0 .. MaxValue
      /\ handler \in Handler \cup {"none"}
      /\ step \in {"check", "commit", "drop", "order", "enqueue"}
      /\ handler = "none" => step = "check" /\ before = 0
      /\ put # 0 => handler = "backfill" /\ step \notin {"check", "commit"}
      /\ before \in 0 .. MaxValue /\ put \in 0 .. MaxValue
  BY DEF TypeOK
<1>3. ASSUME NEW h \in Handler, Ask(h) PROVE Goal
  BY <1>1, <1>2, <1>3 DEF Ask, history
<1>4. CASE CheckIdle
  BY <1>2, <1>4 DEF CheckIdle, history
<1>5. CASE Refuse \/ Resume \/ Backfill \/ Abandon \/ Withdraw
  BY <1>1, <1>2, <1>5 DEF Refuse, Resume, Backfill, Abandon, Withdraw, history
<1>6. ASSUME NEW w \in Choice, Reset(w) PROVE Goal
  <2>1. Larger(chosen, w) \in 0 .. MaxValue
    BY <1>1, <1>2, LargerIs
  <2> QED
    BY <1>1, <1>2, <1>6, <2>1 DEF Reset, Assign, Handler
<1>7. ASSUME NEW w \in Choice, Choose(w) PROVE Goal
  BY <1>1, <1>2, <1>7 DEF Choose, Assign, history, Handler
<1>8. CASE DropBreakpoint
  BY <1>1, <1>2, <1>8 DEF DropBreakpoint, history
<1> QED
  BY <1>3, <1>4, <1>5, <1>6, <1>7, <1>8 DEF Request

LEMMA StepTyped == TypeOK /\ SourceFinite /\ [Next]_vars => TypeOK'
<1> SUFFICES ASSUME TypeOK, SourceFinite, [Next]_vars PROVE TypeOK'
  OBVIOUS
<1>1. /\ task.order \in Seq(Table) /\ Len(task.order) \in Nat
      /\ 0 \in 0 .. MaxValue /\ 1 \in 1 .. Len(task.order) + 1
  BY TaskIsConfig, NumberAssumption DEF TypeOK
<1>2. count' \in [Event -> Nat]
  <2>1. ASSUME NEW f \in Event, count' = [count EXCEPT ![f] = @ + 1]
        PROVE  count' \in [Event -> Nat]
    BY <2>1 DEF TypeOK
  <2> QED
    BY <2>1, CountStep DEF TypeOK
<1>3. CASE UNCHANGED vars
  BY <1>3 DEF vars, jobVars, reqVars, history, TypeOK
<1>4. ASSUME NEW t \in Tables, NEW v \in Values, Insert(t, v) PROVE TypeOK'
  <2>1. PICK row \in Row :
          /\ row[2] = v
          /\ source' = source \cup {row}
          /\ late' = late \/ late' = late \cup {row}
          /\ \/ UNCHANGED <<unread, seen>>
             \/ /\ unread' = unread \cup {row} /\ at = "read"
                /\ seen' = seen \/ seen' = [seen EXCEPT ![t] = Larger(@, v)]
    BY <1>4, InsertedRow
  <2>2. t \in Table /\ v \in 0 .. MaxValue
    BY TaskIsConfig DEF TypeOK, Tables, Values
  <2>3. seen' \in [Table -> 0 .. MaxValue]
    <3>1. seen \in [Table -> 0 .. MaxValue] /\ Larger(seen[t], v) \in 0 .. MaxValue
      BY <2>2, LargerIs DEF TypeOK
    <3> QED
      BY <2>1, <2>2, <3>1
  <2>4. /\ source' \in SUBSET Row /\ late' \in SUBSET source'
        /\ unread' \in SUBSET source' /\ staged \in SUBSET source'
        /\ at # "read" => unread' = {}
    BY <2>1 DEF TypeOK
  <2> QED
    BY <1>2, <1>4, <2>3, <2>4 DEF Insert, TypeOK, reqVars
<1>5. Skipped \in 0 .. MaxValue
  BY SkippedTyped
<1>6. CASE Run
  BY <1>1, <1>2, <1>5, <1>6 DEF Run, TypeOK, reqVars
<1>7. ASSUME UNCHANGED <<task, source, copies, jobVars, seen, late>>,
             watermark' \in 0 .. MaxValue, saved' \in 0 .. MaxValue,
             control' \in {"running"} \cup Signal, chosen' \in 0 .. MaxValue,
             \/ EndRequest
             \/ /\ handler' \in Handler /\ before' \in 0 .. MaxValue
                /\ put' \in 0 .. MaxValue
                /\ step' \in {"check", "commit", "drop", "order", "enqueue"}
                /\ put' # 0 => handler' = "backfill" /\ step' \notin {"check", "commit"}
      PROVE  TypeOK'
  <2>1. /\ handler' \in Handler \cup {"none"}
        /\ step' \in {"check", "commit", "drop", "order", "enqueue"}
        /\ before' \in 0 .. MaxValue /\ put' \in 0 .. MaxValue
        /\ handler' = "none" => step' = "check" /\ before' = 0
        /\ put' # 0 => handler' = "backfill" /\ step' \notin {"check", "commit"}
    BY <1>1, <1>7 DEF EndRequest, Handler
  <2> HIDE DEF EndRequest
  <2> QED
    BY <1>2, <1>7, <2>1 DEF TypeOK, jobVars
<1>8. CASE Request
  BY <1>8, <1>7, RequestTyped, RequestKeeps
<1>9. ASSUME KeysExpire \/ \E c \in Signal : SendSignal(c)
      PROVE  TypeOK'
  BY <1>1, <1>2, <1>9 DEF KeysExpire, SendSignal, TypeOK, jobVars, reqVars, history
<1>11. CASE InterruptAtTable
  BY <1>1, <1>2, <1>11 DEF InterruptAtTable, Interrupt, Leave, TypeOK, reqVars, history
<1>12. CASE OpenTable
  <2>1. task.order[next] \in Table
    BY <1>1, <1>12 DEF OpenTable, TypeOK
  <2>2. PICK n \in Highest(seen[task.order[next]], unread') :
          seen' = [seen EXCEPT ![task.order[next]] = n]
    BY <1>12 DEF OpenTable
  <2>3. seen' \in [Table -> 0 .. MaxValue]
    BY <2>1, <2>2, HighestTyped DEF TypeOK
  <2>4. unread' \in SUBSET source
    BY <1>12 DEF OpenTable, Extract
  <2> QED
    BY <1>1, <1>2, <1>12, <2>3, <2>4 DEF OpenTable, TypeOK, reqVars
<1>13. ASSUME NEW B \in SUBSET unread, CopyBatch(B) PROVE TypeOK'
  <2>1. copies' \in [Row -> Nat]
    BY <1>13, CommitTyped DEF CopyBatch, TypeOK
  <2>2. PICK w \in Highest(tableMax, B) :
          \/ /\ tableMax' = w
             /\ unread' = unread \ B
             /\ staged' = staged \/ staged' = staged \cup B
             /\ UNCHANGED <<at, from, next, saved, globalMax>>
          \/ Interrupt(w)
    BY <1>13 DEF CopyBatch
  <2>3. w \in 0 .. MaxValue
    BY HighestTyped DEF TypeOK
  <2>4. /\ saved' \in 0 .. MaxValue /\ tableMax' \in 0 .. MaxValue
        /\ unread' \in SUBSET source /\ staged' \in SUBSET source
        /\ globalMax' \in 0 .. MaxValue /\ from' \in 0 .. MaxValue
        /\ next' \in 1 .. Len(task.order) + 1
        /\ \/ at' = "read" /\ next' = next
           \/ at' = "idle" /\ unread' = {} /\ staged' = {} /\ tableMax' = 0
    BY <1>1, <1>13, <2>2, <2>3 DEF CopyBatch, Interrupt, Leave, TypeOK
  <2> QED
    BY <1>1, <1>2, <1>13, <2>1, <2>4 DEF CopyBatch, TypeOK, reqVars, history
<1>14. CASE FinishTable
  <2>1. copies' \in [Row -> Nat]
    BY <1>14, CommitTyped DEF FinishTable, TypeOK
  <2>2. PICK w \in Highest(tableMax, unread) : globalMax' = Larger(globalMax, w)
    BY <1>14 DEF FinishTable
  <2>3. globalMax' \in 0 .. MaxValue
    BY <2>2, HighestTyped, LargerIs DEF TypeOK
  <2>4. next' \in 1 .. Len(task.order) + 1
    BY <1>1, <1>14 DEF FinishTable, TypeOK
  <2> QED
    BY <1>1, <1>2, <1>14, <2>1, <2>3, <2>4 DEF FinishTable, TypeOK, reqVars, history
<1>15. CASE FinishJob
  <2>1. copies' \in [Row -> Nat]
    BY <1>15, CommitTyped DEF FinishJob, TypeOK
  <2> QED
    BY <1>1, <1>2, <1>15, <2>1 DEF FinishJob, TypeOK, reqVars, history
<1>16. CASE Fail
  <2>1. copies' \in [Row -> Nat]
    BY <1>16, CommitTyped DEF Fail, TypeOK
  <2> QED
    BY <1>1, <1>2, <1>16, <2>1 DEF Fail, Leave, TypeOK, reqVars, history
<1>17. CASE Record \/ RecordFails
  BY <1>1, <1>2, <1>17 DEF Record, RecordFails, Leave, TypeOK, reqVars, history
<1> QED
  BY <1>3, <1>4, <1>6, <1>8, <1>9, <1>11, <1>12, <1>13, <1>14, <1>15,
     <1>16, <1>17 DEF Next, Engine

(* Every variable has its type, a finished job leaves no open transaction    *)
(* behind, and a job never stands behind the last of its tables.             *)
THEOREM Typing == Spec => []TypeOK
<1>1. Spec => [](TypeOK /\ SourceFinite)
  BY InitTyped, StepTyped, SourceFiniteStep, PTL DEF Spec
<1> QED
  BY <1>1, PTL

-----------------------------------------------------------------------------
(* Nothing is repeated.                                                    *)

(* A request under way has been counted.                                    *)
Asked == handler # "none" =>
           count[IF handler = "resume" THEN "resume" ELSE "reset"] > 0

LEMMA AskedStep == TypeOK /\ Asked /\ [Next]_vars => Asked'
<1> SUFFICES ASSUME TypeOK, Asked, [Next]_vars, handler' # "none"
             PROVE  count'[IF handler' = "resume" THEN "resume" ELSE "reset"] > 0
  BY DEF Asked
<1>1. \A e \in Event : count[e] \in Nat /\ count[e] <= count'[e] /\ count'[e] \in Nat
  BY CountGrows DEF TypeOK
<1>2. CASE handler' = handler
  <2> DEFINE e == IF handler = "resume" THEN "resume" ELSE "reset"
  <2>1. e \in Event /\ count[e] > 0
    BY <1>2 DEF Asked, Event
  <2> HIDE DEF e
  <2>2. count'[e] > 0
    BY <1>1, <2>1
  <2> QED
    BY <1>2, <2>2 DEF e
<1>3. ASSUME NEW h \in Handler, Ask(h)
      PROVE  count'[IF handler' = "resume" THEN "resume" ELSE "reset"] > 0
  BY <1>1, <1>3 DEF Ask, Happens, TypeOK, Event
<1>4. handler' = handler \/ \E h \in Handler : Ask(h)
  BY DEF Next, vars, reqVars, Insert, Run, Request, CheckIdle, Refuse, Resume, Reset, Choose,
         DropBreakpoint, Backfill, Abandon, Withdraw, EndRequest, SendSignal, KeysExpire,
         Engine, InterruptAtTable, OpenTable, CopyBatch, FinishTable, FinishJob, Record,
         Fail, RecordFails
<1> QED
  BY <1>2, <1>3, <1>4

(* While nobody is asked to, no request moves the watermark.                 *)
LEMMA RequestDisturbs ==
  ASSUME TypeOK, Asked, Request
  PROVE  ~ Calm'
<1>1. [Next]_vars
  BY DEF Next
<1>2. \A e \in Event : count[e] \in Nat /\ count[e] <= count'[e] /\ count'[e] \in Nat
  BY <1>1, CountGrows DEF TypeOK
<1>3. \E e \in {"resume", "reset"} : count'[e] > 0
  <2>1. CASE handler = "none"
    <3>1. PICK h \in Handler : Ask(h)
      BY <2>1 DEF Request, CheckIdle, Refuse, Resume, Reset, Choose, DropBreakpoint,
                  Backfill, Abandon, Withdraw, TypeOK
    <3>2. PICK e \in {"resume", "reset"} : Happens(e)
      BY <3>1 DEF Ask
    <3>3. e \in Event /\ count' = [count EXCEPT ![e] = @ + 1]
      BY <3>2 DEF Happens, Event
    <3> QED
      BY <1>2, <3>3 DEF TypeOK
  <2>2. CASE handler # "none"
    <3>1. PICK e \in {"resume", "reset"} : count[e] > 0
      BY <2>2 DEF Asked
    <3>2. e \in Event
      BY DEF Event
    <3> QED
      BY <1>2, <3>1, <3>2
  <2> QED
    BY <2>1, <2>2
<1> QED
  BY <1>3 DEF Calm, Never

(* The records that were lost.                                              *)
Lost == count["recordFault"]

(* What the job reads, has read and will record lies above the watermark it   *)
(* was given, which is the task's.                                          *)
Onward ==
  /\ at # "idle" => from = watermark /\ (globalMax = 0 \/ globalMax > from)
  /\ tableMax = 0 \/ tableMax > from
  /\ \A r \in unread \cup staged : r[2] > from

(* In a transaction that spans the job, what is committed once more than      *)
(* records were lost lies up to the watermark, but for the moment between    *)
(* the commit and the record of the new one.                                *)
Ahead ==
  /\ \A r \in Row : copies[r] = 1 + Lost => \/ r[2] <= watermark
                                            \/ at = "record" /\ r[2] <= globalMax
  /\ \A r \in staged : r[2] <= globalMax \/ r[2] <= tableMax

OnceInv ==
  Calm =>
    /\ \A r \in Row : copies[r] <= 1 + Lost
    /\ Onward
    /\ task.commit = "job" => Ahead

(* Numbers as the provers need them.                                        *)
LEMMA Numbers ==
  ASSUME TypeOK
  PROVE  /\ watermark \in Nat /\ from \in Nat /\ tableMax \in Nat /\ globalMax \in Nat
         /\ \A r \in Row : r[2] \in Nat /\ r[2] > 0
         /\ source \subseteq Row /\ unread \subseteq Row /\ staged \subseteq Row
         /\ at # "read" => unread = {} /\ tableMax = 0
         /\ at \in {"idle", "record"} => staged = {}
BY RowIs, NumberAssumption DEF TypeOK

(* Steps by which nobody moves the watermark.                               *)
LEMMA OnwardStep ==
  ASSUME TypeOK, Onward, task.incremental, [Next]_vars, ~ Request
  PROVE  Onward'
<1>0. /\ watermark \in Nat /\ from \in Nat /\ tableMax \in Nat /\ globalMax \in Nat
      /\ at # "read" => unread = {} /\ tableMax = 0
      /\ at \in {"idle", "record"} => staged = {}
  BY Numbers
<1>1. ASSUME UNCHANGED <<watermark, jobVars>> PROVE Onward'
  BY <1>1 DEF Onward, jobVars
<1>2. ASSUME NEW t \in Tables, NEW v \in Values, Insert(t, v) PROVE Onward'
  <2>1. /\ UNCHANGED <<watermark, at, from, staged, tableMax, globalMax>>
        /\ \/ unread' = unread
           \/ \E n : unread' = unread \cup {<<t, v, n>>} /\ v > from
    BY <1>2 DEF Insert
  <2>2. \A r \in unread' : r[2] > from
    BY <2>1 DEF Onward
  <2> QED
    BY <2>1, <2>2 DEF Onward
<1>3. CASE Run
  BY <1>0, <1>3 DEF Run, Onward
<1>4. CASE KeysExpire \/ \E c \in Signal : SendSignal(c)
  BY <1>1, <1>4 DEF KeysExpire, SendSignal
<1>5. ASSUME at \in {"table", "read"}, Leave, UNCHANGED watermark PROVE Onward'
  BY <1>5 DEF Leave, Onward
<1>6. CASE InterruptAtTable \/ Fail
  BY <1>5, <1>6 DEF InterruptAtTable, Interrupt, Fail
<1>7. CASE OpenTable
  <2>1. \A r \in unread' : r[2] > from
    BY <1>7 DEF OpenTable, Extract
  <2> QED
    BY <1>7, <2>1 DEF OpenTable, Onward
<1>8. ASSUME NEW B \in SUBSET unread, CopyBatch(B) PROVE Onward'
  <2>1. PICK w \in Highest(tableMax, B) :
          \/ /\ tableMax' = w
             /\ unread' = unread \ B
             /\ staged' = IF task.commit = "batch" THEN staged ELSE staged \cup B
             /\ UNCHANGED <<at, from, next, saved, globalMax>>
          \/ Interrupt(w)
    BY <1>8 DEF CopyBatch
  <2>2. UNCHANGED watermark /\ at = "read"
    BY <1>8 DEF CopyBatch
  <2>3. CASE Interrupt(w)
    BY <1>5, <2>2, <2>3 DEF Interrupt
  <2>4. CASE /\ tableMax' = w
             /\ unread' = unread \ B
             /\ staged' = IF task.commit = "batch" THEN staged ELSE staged \cup B
             /\ UNCHANGED <<at, from, next, saved, globalMax>>
    <3>1. w = tableMax \/ \E r \in B : r[2] = w
      BY HighestReaches
    <3>2. tableMax' = 0 \/ tableMax' > from
      BY <2>4, <3>1 DEF Onward
    <3> QED
      BY <2>2, <2>4, <3>2 DEF Onward
  <2> QED
    BY <2>1, <2>3, <2>4
<1>9. CASE FinishTable
  <2>1. PICK w \in Highest(tableMax, unread) : globalMax' = Larger(globalMax, w)
    BY <1>9 DEF FinishTable
  <2>2. w = tableMax \/ \E r \in unread : r[2] = w
    BY HighestReaches
  <2>3. w = 0 \/ w > from
    BY <2>2 DEF Onward
  <2>4. /\ UNCHANGED <<watermark, from>> /\ at = "read"
        /\ tableMax' = 0 /\ unread' = {} /\ staged' \subseteq staged \cup unread
    BY <1>9 DEF FinishTable
  <2>5. globalMax' = 0 \/ globalMax' > from
    BY <2>1, <2>3, <2>4 DEF Onward, Larger
  <2> QED
    BY <2>4, <2>5 DEF Onward
<1>10. CASE FinishJob
  BY <1>10 DEF FinishJob, Onward
<1>11. CASE Record \/ RecordFails
  BY <1>0, <1>11 DEF Record, RecordFails, Leave, Onward
<1>12. CASE UNCHANGED vars
  BY <1>1, <1>12 DEF vars
<1> QED
  BY <1>2, <1>3, <1>4, <1>6, <1>7, <1>8, <1>9, <1>10, <1>11, <1>12 DEF Next, Engine

LEMMA OnceInvStep == TypeOK /\ Asked /\ OnceInv /\ [Next]_vars => OnceInv'
<1> SUFFICES ASSUME TypeOK, Asked, OnceInv, [Next]_vars, Calm'
             PROVE  /\ \A r \in Row : copies'[r] <= 1 + Lost'
                    /\ Onward'
                    /\ task'.commit = "job" => Ahead'
  BY DEF OnceInv
<1>1. /\ Calm /\ task.incremental /\ task' = task
      /\ copies \in [Row -> Nat] /\ Lost \in Nat
      /\ \A r \in Row : copies[r] <= 1 + Lost
      /\ Onward
      /\ task.commit = "job" => Ahead
  BY SourceGrows, NeverBefore DEF OnceInv, Calm, Lost, Event, TypeOK
<1>2. ~ Request
  BY RequestDisturbs
<1>3. /\ Lost' \in Nat /\ Lost <= Lost'
      /\ RecordFails => Lost' = Lost + 1
      /\ RecordFails \/ Lost' = Lost
  <2>1. RecordFails => Lost' = Lost + 1
    BY DEF RecordFails, Happens, Lost, TypeOK, Event
  <2>2. RecordFails \/ UNCHANGED count \/ \E f \in {"signal", "fault", "late"} : Happens(f)
    BY <1>2 DEF Next, vars, Insert, Run, SendSignal, KeysExpire, Engine, InterruptAtTable,
                OpenTable, CopyBatch, FinishTable, FinishJob, Record, Fail, history
  <2>3. ASSUME NEW f \in {"signal", "fault", "late"}, Happens(f) PROVE Lost' = Lost
    BY <2>3 DEF Happens, Lost, TypeOK, Event
  <2> QED
    BY <1>1, <2>1, <2>2, <2>3 DEF Lost
<1>4. Onward'
  BY <1>1, <1>2, OnwardStep
<1>5. CASE task.commit # "job"
  <2>1. ASSUME NEW S, CommitRows(S) PROVE \A r \in Row : copies'[r] <= 1 + Lost'
    BY <1>1, <1>3, <1>5, <2>1 DEF CommitRows
  <2>2. UNCHANGED copies \/ \E S : CommitRows(S)
    BY <1>2 DEF Next, vars, Insert, Run, SendSignal, KeysExpire, Engine, InterruptAtTable,
                OpenTable, CopyBatch, FinishTable, FinishJob, Record, Fail, RecordFails
  <2> QED
    BY <1>1, <1>3, <1>4, <1>5, <2>1, <2>2
<1>6. CASE task.commit = "job"
  <2> DEFINE Goal == (\A r \in Row : copies'[r] <= 1 + Lost') /\ Ahead'
  <2> SUFFICES Goal
    BY <1>1, <1>4
  <2>0. /\ watermark \in Nat /\ from \in Nat /\ tableMax \in Nat /\ globalMax \in Nat
        /\ \A r \in Row : r[2] \in Nat /\ r[2] > 0
        /\ source \subseteq Row /\ unread \subseteq Row /\ staged \subseteq Row
        /\ at # "read" => unread = {} /\ tableMax = 0
        /\ at \in {"idle", "record"} => staged = {}
    BY Numbers
  <2>1. Ahead /\ Onward
    BY <1>1, <1>6
  <2>2. ASSUME CommitRows({}) PROVE copies' = copies
    BY <1>1, <2>2 DEF CommitRows
  <2>3. ASSUME UNCHANGED <<copies, watermark, jobVars>>, ~ RecordFails PROVE Goal
    BY <1>1, <1>3, <2>1, <2>3 DEF Ahead, jobVars
  <2>4. ASSUME NEW t \in Tables, NEW v \in Values, Insert(t, v), ~ RecordFails PROVE Goal
    BY <1>6, <2>3, <2>4 DEF Insert, jobVars
  <2>5. ASSUME Run, ~ RecordFails PROVE Goal
    BY <1>1, <1>3, <2>0, <2>1, <2>5 DEF Run, Ahead
  <2>6. ASSUME KeysExpire \/ \E c \in Signal : SendSignal(c), ~ RecordFails PROVE Goal
    BY <2>3, <2>6 DEF KeysExpire, SendSignal
  <2>7. ASSUME at \in {"table", "read"}, Leave, UNCHANGED <<copies, watermark>>
        PROVE  Goal
    <3>1. Lost' = Lost
      BY <1>3, <2>7 DEF RecordFails
    <3> QED
      BY <1>1, <2>0, <2>1, <2>7, <3>1 DEF Leave, Ahead
  <2>8. CASE InterruptAtTable
    BY <2>7, <2>8 DEF InterruptAtTable, Interrupt
  <2>9. CASE Fail
    <3>1. CommitRows({})
      BY <1>6, <2>9 DEF Fail
    <3> QED
      BY <2>2, <2>7, <2>9, <3>1 DEF Fail
  <2>10. ASSUME OpenTable, ~ RecordFails PROVE Goal
    BY <1>1, <1>3, <2>0, <2>1, <2>10 DEF OpenTable, Ahead
  <2>11. ASSUME NEW B \in SUBSET unread, CopyBatch(B), ~ RecordFails PROVE Goal
    <3>1. copies' = copies /\ watermark' = watermark /\ at = "read" /\ Lost' = Lost
      BY <1>3, <1>6, <2>2, <2>11 DEF CopyBatch
    <3>2. PICK w \in Highest(tableMax, B) :
            \/ /\ tableMax' = w
               /\ unread' = unread \ B
               /\ staged' = staged \cup B
               /\ UNCHANGED <<at, from, next, saved, globalMax>>
            \/ Interrupt(w)
      BY <1>6, <2>11 DEF CopyBatch
    <3>3. CASE Interrupt(w)
      BY <2>7, <3>1, <3>3 DEF Interrupt
    <3>4. CASE /\ tableMax' = w
               /\ unread' = unread \ B
               /\ staged' = staged \cup B
               /\ UNCHANGED <<at, from, next, saved, globalMax>>
      <4>1. w \in Nat /\ w >= tableMax /\ \A r \in B : r[2] <= w
        BY <1>1, HighestReaches
      <4>2. ASSUME NEW r \in staged' PROVE r[2] <= globalMax \/ r[2] <= tableMax'
        <5>1. CASE r \in staged
          BY <2>0, <2>1, <3>4, <4>1, <5>1 DEF Ahead
        <5>2. CASE r \in B
          BY <2>1, <3>4, <4>1, <5>2 DEF Ahead
        <5> QED
          BY <3>4, <5>1, <5>2
      <4> QED
        BY <1>1, <2>1, <3>1, <3>4, <4>2 DEF Ahead
    <3> QED
      BY <3>2, <3>3, <3>4
  <2>12. ASSUME FinishTable, ~ RecordFails PROVE Goal
    <3>1. /\ copies' = copies /\ watermark' = watermark /\ from' = from /\ Lost' = Lost
          /\ at = "read" /\ at' = "table" /\ tableMax' = 0 /\ unread' = {}
          /\ staged' = staged \cup unread
      BY <1>3, <1>6, <2>2, <2>12 DEF FinishTable
    <3>2. PICK w \in Highest(tableMax, unread) : globalMax' = Larger(globalMax, w)
      BY <2>12 DEF FinishTable
    <3>3. w \in Nat /\ w >= tableMax /\ \A r \in unread : r[2] <= w
      BY <1>1, HighestReaches
    <3>4. globalMax' \in Nat /\ globalMax <= globalMax' /\ w <= globalMax'
      BY <2>0, <3>2, <3>3 DEF Larger
    <3>5. ASSUME NEW r \in staged' PROVE r[2] <= globalMax'
      <4>1. CASE r \in staged
        BY <2>0, <2>1, <3>3, <3>4, <4>1 DEF Ahead
      <4>2. CASE r \in unread
        BY <2>0, <2>1, <3>3, <3>4, <4>2 DEF Ahead
      <4> QED
        BY <3>1, <4>1, <4>2
    <3> QED
      BY <1>1, <2>1, <3>1, <3>5 DEF Ahead
  <2>13. ASSUME FinishJob, ~ RecordFails PROVE Goal
    <3>1. /\ at = "table" /\ at' = "record" /\ staged' = {} /\ Lost' = Lost
          /\ UNCHANGED <<watermark, from, unread, tableMax, globalMax>>
          /\ \A r \in Row : copies'[r] = IF r \notin staged THEN copies[r] ELSE copies[r] + 1
      BY <1>3, <1>6, <2>13 DEF FinishJob, CommitRows
    <3>2. \A r \in staged : r[2] > watermark /\ r[2] <= globalMax
      BY <2>0, <2>1, <3>1 DEF Ahead, Onward
    <3>3. \A r \in staged : copies[r] + 1 <= 1 + Lost
      BY <1>1, <2>0, <2>1, <3>1, <3>2 DEF Ahead
    <3>4. \A r \in Row : /\ copies'[r] <= 1 + Lost
                         /\ copies'[r] = 1 + Lost =>
                              r[2] <= watermark \/ r[2] <= globalMax
      <4> SUFFICES ASSUME NEW r \in Row
                   PROVE  /\ copies'[r] <= 1 + Lost
                          /\ copies'[r] = 1 + Lost =>
                               r[2] <= watermark \/ r[2] <= globalMax
        OBVIOUS
      <4>1. CASE r \in staged
        BY <3>1, <3>2, <3>3, <4>1
      <4>2. CASE r \notin staged
        BY <1>1, <2>1, <3>1, <4>2 DEF Ahead
      <4> QED
        BY <4>1, <4>2
    <3> QED
      BY <2>1, <3>1, <3>4 DEF Ahead
  <2>14. ASSUME Record, ~ RecordFails PROVE Goal
    BY <1>1, <1>3, <2>0, <2>1, <2>14 DEF Record, Leave, Ahead, Onward
  <2>15. CASE RecordFails
    BY <1>1, <1>3, <2>0, <2>1, <2>15 DEF RecordFails, Leave, Ahead
  <2> HIDE DEF Goal
  <2> QED
    BY <1>2, <2>3, <2>4, <2>5, <2>6, <2>8, <2>9, <2>10, <2>11, <2>12, <2>13, <2>14, <2>15
       DEF Next, Engine, vars
<1> QED
  BY <1>5, <1>6

(* Whatever fails or is interrupted, no row is inserted a second time, but    *)
(* once for each job that committed its rows and lost its watermark, as long *)
(* as nobody moves the watermark.                                          *)
THEOREM Copied_once == Spec => []NothingRepeated
<1>1. Init => Asked /\ OnceInv
  BY DEF Init, Asked, OnceInv, Onward, Ahead, Lost, Event
<1>2. OnceInv => NothingRepeated
  BY DEF OnceInv, NothingRepeated, Lost
<1> QED
  BY <1>1, <1>2, Typing, AskedStep, OnceInvStep, PTL DEF Spec

-----------------------------------------------------------------------------
(* Nothing is skipped.                                                     *)

(* The only table of an orderly task.                                       *)
Only == task.order[1]

(* Every row up to w that is owed to the target is there, or is in S.        *)
UpTo(w, S) == \A r \in source \ late :
                chosen < r[2] /\ r[2] <= w => r \in S \/ copies[r] > 0

(* A watermark a cursor has reached or a user has chosen: a row that appears *)
(* below it is late, or lies where the user does not want rows.             *)
Reached(w) == w <= seen[Only] \/ w <= chosen

Covered(w) == Reached(w) /\ UpTo(w, {})

(* The watermark is one that a /backfill has written and may still withdraw. *)
Offered == put # before /\ watermark = put

(* The job reads the batches of a durable breakpoint in their order.         *)
InBatches == task.commit = "batch" /\ task.sorted

CopyInv ==
  /\ \A r \in source : r[1] = Only
  /\ Covered(watermark) \/ Offered
  /\ Covered(before) /\ Covered(from)
  /\ InBatches => Covered(saved)
  /\ at # "idle" => UpTo(globalMax, staged)
  /\ at = "read" =>
       \A r \in source \ late : from < r[2] /\ r[2] <= seen[Only] =>
         r \in unread \/ r \in staged \/ copies[r] > 0
  /\ \A r \in unread : r[2] <= seen[Only]
  /\ globalMax <= seen[Only] /\ tableMax <= seen[Only]
  /\ task.commit = "batch" => staged = {}
  /\ InBatches => \A r \in unread : r[2] > tableMax

SkipInv == task.incremental /\ Orderly /\ Durable => CopyInv

(* A full copy has no watermark at all.                                     *)
FullInv == ~ task.incremental =>
             /\ watermark = 0 /\ saved = 0 /\ tableMax = 0 /\ globalMax = 0
             /\ before = 0 /\ handler \in {"none", "resume"}

LEMMA FullInvStep == TypeOK /\ FullInv /\ [Next]_vars => FullInv'
<1> SUFFICES ASSUME TypeOK, FullInv, [Next]_vars, ~ task'.incremental
             PROVE  /\ watermark' = 0 /\ saved' = 0 /\ tableMax' = 0 /\ globalMax' = 0
                    /\ before' = 0 /\ handler' \in {"none", "resume"}
  BY DEF FullInv
<1>1. /\ ~ task.incremental /\ before = 0 /\ handler \in {"none", "resume"}
      /\ watermark = 0 /\ saved = 0 /\ tableMax = 0 /\ globalMax = 0
  BY SourceGrows DEF FullInv
<1>2. \A m, S : \A w \in Highest(m, S) : w = m
  BY <1>1, HighestOfFull
<1>3. Larger(0, 0) = 0
  BY DEF Larger
<1>4. ASSUME NEW B \in SUBSET unread, CopyBatch(B)
      PROVE  saved' = 0 /\ tableMax' = 0 /\ globalMax' = 0
  BY <1>1, <1>2, <1>4 DEF CopyBatch, Interrupt, Leave
<1>5. ASSUME FinishTable PROVE tableMax' = 0 /\ globalMax' = 0
  BY <1>1, <1>2, <1>3, <1>5 DEF FinishTable
<1>6. CASE Request
  <2>1. /\ \A h \in Handler : Ask(h) => h = "resume"
        /\ \A w : ~ Reset(w) /\ ~ Choose(w)
    BY <1>1 DEF Ask, Reset, Choose
  <2>2. watermark' = 0 /\ saved' = 0 /\ before' = 0 /\ handler' \in {"none", "resume"}
    BY <1>1, <1>6, <2>1 DEF Request, Ask, CheckIdle, Refuse, Resume, DropBreakpoint,
                            Backfill, Abandon, Withdraw, EndRequest
  <2>3. tableMax' = 0 /\ globalMax' = 0
    BY <1>1, <1>6, RequestKeeps DEF jobVars
  <2> QED
    BY <2>2, <2>3
<1>7. CASE ~ Request
  <2>1. before' = before /\ handler' = handler
    BY <1>7 DEF Next, vars, reqVars, Insert, Run, SendSignal, KeysExpire, Engine,
                InterruptAtTable, OpenTable, CopyBatch, FinishTable, FinishJob, Record,
                Fail, RecordFails
  <2>2. watermark' = 0
    BY <1>1, <1>7
       DEF Next, vars, Insert, Run, SendSignal, KeysExpire, Engine, InterruptAtTable,
           OpenTable, CopyBatch, FinishTable, FinishJob, Record, Fail, RecordFails
  <2>3. saved' = 0
    BY <1>1, <1>4, <1>7
       DEF Next, vars, Insert, Run, SendSignal, KeysExpire, Engine, InterruptAtTable,
           Interrupt, OpenTable, FinishTable, FinishJob, Record, Fail, RecordFails
  <2>4. tableMax' = 0 /\ globalMax' = 0
    BY <1>1, <1>4, <1>5, <1>7
       DEF Next, vars, jobVars, Insert, Run, SendSignal, KeysExpire, Engine,
           InterruptAtTable, Interrupt, Leave, OpenTable, FinishJob, Record, Fail,
           RecordFails
  <2> QED
    BY <1>1, <2>1, <2>2, <2>3, <2>4
<1> QED
  BY <1>6, <1>7

(* What keeps rows up to a watermark covered: what is stored, the reach of   *)
(* the cursors and what users chose only grow, what was staged is staged or  *)
(* stored, and a row that appears lies beyond the reach or is late.          *)
LEMMA UpToKept ==
  ASSUME TypeOK, TypeOK', task' = task, Only \in Table,
         NEW w \in 0 .. MaxValue, NEW S, NEW S2, Reached(w), UpTo(w, S),
         chosen <= chosen', seen[Only] <= seen'[Only],
         \A r \in Row : copies[r] > 0 => copies'[r] > 0,
         \A r \in S : r \in S2 \/ copies'[r] > 0,
         \A r \in source' \ late' : r \in source \ late \/ r[2] > seen[Only]
  PROVE  /\ Reached(w)'
         /\ \A r \in source' \ late' :
              chosen' < r[2] /\ r[2] <= w => r \in S2 \/ copies'[r] > 0
<1>0. Only' = Only /\ \A r \in Row : r[2] \in Nat
  BY RowIs DEF Only
<1>1. /\ chosen \in Nat /\ chosen' \in Nat /\ seen[Only] \in Nat /\ seen'[Only] \in Nat
      /\ w \in Nat /\ source \subseteq Row /\ source' \subseteq Row /\ Only' = Only
      /\ \A r \in Row : r[2] \in Nat
  <2>1. /\ chosen \in 0 .. MaxValue /\ source \subseteq Row
        /\ seen \in [Table -> 0 .. MaxValue]
    BY DEF TypeOK
  <2>2. /\ chosen' \in 0 .. MaxValue /\ source' \subseteq Row
        /\ seen' \in [Table -> 0 .. MaxValue]
    BY DEF TypeOK
  <2> QED
    BY <1>0, <2>1, <2>2, NumberAssumption
<1>2. Reached(w)'
  BY <1>1 DEF Reached
<1>3. ASSUME NEW r \in source' \ late', chosen' < r[2], r[2] <= w
      PROVE  r \in S2 \/ copies'[r] > 0
  <2>1. r \in source \ late /\ chosen < r[2]
    BY <1>1, <1>3 DEF Reached
  <2> QED
    BY <1>1, <1>3, <2>1 DEF UpTo
<1> QED
  BY <1>2, <1>3

LEMMA CoveredKept ==
  ASSUME TypeOK, TypeOK', task' = task, Only \in Table,
         NEW w \in 0 .. MaxValue, Covered(w),
         chosen <= chosen', seen[Only] <= seen'[Only],
         \A r \in Row : copies[r] > 0 => copies'[r] > 0,
         \A r \in source' \ late' : r \in source \ late \/ r[2] > seen[Only]
  PROVE  Covered(w)'
BY UpToKept DEF Covered, UpTo

(* A commit forgets nothing.                                                *)
LEMMA CommitGrows ==
  ASSUME copies \in [Row -> Nat], NEW S, CommitRows(S)
  PROVE  /\ \A r \in Row : copies[r] > 0 => copies'[r] > 0
         /\ \A r \in Row : r \in S => copies'[r] > 0
BY DEF CommitRows

LEMMA SkipInvStep == TypeOK /\ SourceFinite /\ Asked /\ SkipInv /\ [Next]_vars => SkipInv'
<1> SUFFICES ASSUME TypeOK, SourceFinite, Asked, SkipInv, [Next]_vars,
                    task'.incremental, Orderly', Durable'
             PROVE  CopyInv'
  BY DEF SkipInv
<1>1. TypeOK' /\ task' = task /\ source \subseteq source'
  BY StepTyped, SourceGrows
<1>2. /\ task.incremental /\ Orderly /\ Durable /\ CopyInv
      /\ Never({"resume"})' \/ InBatches
  <2>1. Never({"resume"})' => Never({"resume"})
    BY NeverBefore DEF TypeOK, Event
  <2> QED
    BY <1>1, <2>1 DEF SkipInv, Orderly, Durable, InBatches
<1>3. /\ Len(task.order) = 1 /\ Only \in Table /\ Tables = {Only}
      /\ task.commit = "job" \/ task.sorted
      /\ task.commit \in {"job", "table", "batch"}
      /\ next \in 1 .. Len(task.order) => task.order[next] = Only
      /\ Only' = Only
  <2>1. task.order \in Seq(Table) /\ Len(task.order) = 1
    BY <1>2, TaskIsConfig DEF Orderly, TypeOK
  <2>2. DOMAIN task.order = {1} /\ Only \in Table
    BY <2>1 DEF Only
  <2>3. Tables = {Only}
    BY <2>2 DEF Tables, Only
  <2>4. next \in 1 .. Len(task.order) => task.order[next] = Only
    BY <2>1 DEF Only
  <2> QED
    BY <1>1, <1>2, <2>1, <2>2, <2>3, <2>4, TaskIsConfig DEF Orderly, Only, TypeOK
<1>4. /\ copies \in [Row -> Nat] /\ source \subseteq Row /\ late \subseteq source
      /\ unread \subseteq source /\ staged \subseteq source
      /\ watermark \in 0 .. MaxValue /\ from \in 0 .. MaxValue /\ saved \in 0 .. MaxValue
      /\ globalMax \in 0 .. MaxValue /\ tableMax \in 0 .. MaxValue
      /\ chosen \in 0 .. MaxValue /\ seen[Only] \in 0 .. MaxValue
      /\ before \in 0 .. MaxValue /\ put \in 0 .. MaxValue
      /\ at # "read" => unread = {} /\ tableMax = 0
      /\ at \in {"idle", "record"} => staged = {}
      /\ 0 \in 0 .. MaxValue
  BY <1>3, NumberAssumption DEF TypeOK
<1>5. \A r \in Row : r[1] \in Table /\ r[2] \in Nat /\ r[2] > 0
  BY RowIs, NumberAssumption
<1>6. \A m \in 0 .. MaxValue : m \in Nat
  BY NumberAssumption
<1> USE <1>3, <1>4, <1>5, <1>6
(* The watermark a user chooses, and none, are covered by definition.        *)
<1>7. ASSUME NEW w \in 0 .. MaxValue, w <= chosen' \/ w = 0
      PROVE  Covered(w)'
  <2>1. /\ chosen' \in Nat /\ seen'[Only] \in Nat /\ w \in Nat
        /\ \A r \in source' : r[2] \in Nat /\ r[2] > 0
    BY <1>1 DEF TypeOK
  <2> QED
    BY <1>7, <2>1 DEF Covered, Reached, UpTo
(* Steps that write no row and move no cursor.                              *)
<1>8. ASSUME UNCHANGED <<source, copies, jobVars, late, seen>>,
             chosen <= chosen', chosen' \in 0 .. MaxValue,
             Covered(watermark)' \/ Offered', Covered(before)',
             InBatches => Covered(saved)'
      PROVE  CopyInv'
  <2>1. Covered(from)'
    BY <1>1, <1>2, <1>8, CoveredKept DEF CopyInv, jobVars
  <2>2. at' # "idle" => UpTo(globalMax, staged)'
    BY <1>2, <1>8 DEF CopyInv, UpTo, jobVars
  <2> QED
    BY <1>1, <1>2, <1>8, <2>1, <2>2 DEF CopyInv, InBatches, jobVars
(* A job leaves, with more rows stored than before or as many.              *)
<1>10. ASSUME Leave, UNCHANGED <<source, late, seen, chosen, reqVars>>,
              \A r \in Row : copies[r] > 0 => copies'[r] > 0,
              watermark' = watermark \/ Covered(watermark'),
              watermark' \in 0 .. MaxValue,
              InBatches => Covered(saved)'
       PROVE  CopyInv'
  <2>1. Covered(before)'
    BY <1>1, <1>2, <1>10, CoveredKept DEF CopyInv, Covered, Reached, UpTo, reqVars
  <2>2. Covered(from)'
    BY <1>7, <1>10 DEF Leave, Covered, Reached, UpTo
  <2>3. \A w \in 0 .. MaxValue : Covered(w) => Covered(w)'
    BY <1>1, <1>10, CoveredKept
  <2>4. Covered(watermark)' \/ Offered'
    <3>1. CASE Covered(watermark')
      BY <1>1, <1>10, <2>3, <3>1 DEF Covered, Reached, UpTo
    <3>2. CASE watermark' = watermark /\ Covered(watermark)
      BY <1>1, <1>10, <2>3, <3>2 DEF Covered, Reached, UpTo
    <3>3. CASE watermark' = watermark /\ Offered
      BY <1>10, <3>3 DEF Offered, reqVars
    <3> QED
      BY <1>2, <1>10, <3>1, <3>2, <3>3 DEF CopyInv
  <2> QED
    BY <1>1, <1>2, <1>10, <2>1, <2>2, <2>4 DEF Leave, CopyInv, InBatches
(* The steps.                                                               *)
<1>11. CASE UNCHANGED vars
  BY <1>1, <1>2, <1>11 DEF vars, jobVars, reqVars, history, CopyInv, Covered, Reached, UpTo,
                           Offered, InBatches
<1>12. ASSUME NEW t \in Tables, NEW v \in Values, Insert(t, v) PROVE CopyInv'
  <2>1. PICK row \in Row :
           /\ row[1] = t /\ row[2] = v
           /\ source' = source \cup {row}
           /\ \/ late' = late /\ ~ (task.incremental /\ v <= seen[t])
              \/ late' = late \cup {row} /\ task.incremental /\ v <= seen[t]
           /\ \/ UNCHANGED <<unread, seen>>
              \/ /\ task.commit # "job" /\ at = "read" /\ task.order[next] = t
                 /\ task.sorted =>
                      /\ v > tableMax
                      /\ \A r \in Extract(t) : \/ r[2] <= tableMax
                                               \/ r \in unread \cup late
                 /\ unread' = unread \cup {row}
                 /\ seen' = IF task.incremental
                            THEN [seen EXCEPT ![t] = Larger(@, v)] ELSE seen
    BY <1>12, InsertedRow
  <2>2. t = Only /\ v \in Nat /\ v \in 0 .. MaxValue
    BY NumberAssumption DEF Values
  <2>3. UNCHANGED <<copies, watermark, saved, at, from, staged, tableMax, globalMax, chosen,
                  reqVars>>
    BY <1>12 DEF Insert
  <2>4. /\ late \subseteq late'
        /\ \A r \in source' \ late' : r \in source \ late \/ (r = row /\ v > seen[Only])
    BY <1>2, <2>1, <2>2
  <2>5. seen[Only] <= seen'[Only] /\ (row \in unread' => row \in unread \/ v <= seen'[Only])
    <3>1. CASE UNCHANGED <<unread, seen>>
      BY <3>1
    <3>2. CASE seen' = [seen EXCEPT ![Only] = Larger(@, v)]
      <4>1. seen'[Only] = Larger(seen[Only], v)
        BY <3>2 DEF TypeOK
      <4> QED
        BY <2>2, <4>1 DEF Larger
    <3> QED
      BY <1>2, <2>1, <2>2, <3>1, <3>2
  <2>6. \A w \in 0 .. MaxValue : Covered(w) => Covered(w)'
    BY <1>1, <2>1, <2>3, <2>4, <2>5, CoveredKept
  <2>7. at' # "idle" => UpTo(globalMax, staged)'
    BY <1>1, <1>2, <2>1, <2>3, <2>4, <2>5, UpToKept DEF CopyInv, UpTo, Reached
  <2>8. ASSUME at' = "read", NEW r \in source' \ late',
               from' < r[2], r[2] <= seen'[Only]
        PROVE  r \in unread' \/ r \in staged' \/ copies'[r] > 0
    <3>1. CASE r \in source \ late /\ r[2] <= seen[Only]
      BY <1>2, <2>1, <2>3, <2>8, <3>1 DEF CopyInv
    <3>2. CASE UNCHANGED <<unread, seen>> /\ ~ (r \in source \ late /\ r[2] <= seen[Only])
      BY <2>1, <2>2, <2>4, <2>8, <3>2
    <3>3. CASE /\ task.commit # "job" /\ task.sorted
               /\ \A q \in Extract(t) : q[2] <= tableMax \/ q \in unread \cup late
               /\ unread' = unread \cup {row}
               /\ r \in source \ late /\ ~ (r[2] <= seen[Only])
      <4>1. r \in Extract(t)
        BY <1>2, <2>2, <2>3, <2>8, <3>3 DEF Extract, CopyInv
      <4>2. ~ (r[2] <= tableMax)
        BY <1>2, <3>3 DEF CopyInv
      <4> QED
        BY <3>3, <4>1, <4>2
    <3>4. CASE r = row /\ unread' = unread \cup {row}
      BY <3>4
    <3> QED
      BY <2>1, <2>4, <3>1, <3>2, <3>3, <3>4
  <2>9. \A r \in unread' : r[2] <= seen'[Only]
    <3> SUFFICES ASSUME NEW r \in unread' PROVE r[2] <= seen'[Only]
      OBVIOUS
    <3>1. seen'[Only] \in Nat
      BY <1>1 DEF TypeOK
    <3>2. CASE r \in unread
      BY <1>2, <2>5, <3>1, <3>2 DEF CopyInv
    <3>3. CASE r = row /\ r \notin unread
      BY <2>1, <2>5, <3>3
    <3> QED
      BY <2>1, <3>2, <3>3
  <2>10. InBatches => \A r \in unread' : r[2] > tableMax
    BY <1>2, <2>1, <2>2 DEF CopyInv, InBatches
  <2>11. globalMax <= seen'[Only] /\ tableMax <= seen'[Only]
    <3>1. seen'[Only] \in Nat
      BY <1>1 DEF TypeOK
    <3> QED
      BY <1>2, <2>5, <3>1 DEF CopyInv
  <2>12. \A r \in source' : r[1] = Only
    BY <1>2, <2>1, <2>2 DEF CopyInv
  <2>13. /\ Covered(watermark)' \/ Offered'
         /\ Covered(before)' /\ Covered(from)' /\ (InBatches => Covered(saved)')
    BY <1>1, <1>2, <2>3, <2>6 DEF CopyInv, Covered, Reached, UpTo, Offered, reqVars
  <2> QED
    BY <1>1, <1>2, <2>3, <2>7, <2>8, <2>9, <2>10, <2>11, <2>12, <2>13
       DEF CopyInv, InBatches
<1>13. ASSUME UNCHANGED <<source, late, seen, chosen>>,
              \A r \in Row : copies[r] > 0 => copies'[r] > 0
       PROVE  \A w \in 0 .. MaxValue : Covered(w) => Covered(w)'
  BY <1>1, <1>13, CoveredKept
<1>14. ASSUME chosen <= chosen', chosen' \in 0 .. MaxValue,
              UNCHANGED <<source, copies, late, seen>>
       PROVE  \A w \in 0 .. MaxValue : Covered(w) => Covered(w)'
  BY <1>1, <1>14, CoveredKept
<1>15. CASE Run
  <2>1. /\ UNCHANGED <<source, copies, watermark, saved, late, seen, unread, staged, tableMax,
                       reqVars>>
        /\ at = "idle" /\ at' = "table" /\ from' = watermark /\ globalMax' = 0
        /\ chosen' = Skipped
    BY <1>15 DEF Run
  <2>2. chosen <= chosen' /\ chosen' \in 0 .. MaxValue /\ (put = before \/ put <= chosen')
    BY <2>1, SkippedTyped
  <2>3. \A w \in 0 .. MaxValue : Covered(w) => Covered(w)'
    BY <1>14, <2>1, <2>2
  <2>4. Covered(watermark)'
    <3>1. CASE Covered(watermark)
      BY <2>1, <2>3, <3>1 DEF Covered, Reached, UpTo
    <3>2. CASE Offered
      BY <1>7, <2>1, <2>2, <3>2 DEF Offered, Covered, Reached, UpTo
    <3> QED
      BY <1>2, <3>1, <3>2 DEF CopyInv
  <2>5. Covered(before)' /\ Covered(from)' /\ (InBatches => Covered(saved)')
    BY <1>2, <2>1, <2>3, <2>4 DEF CopyInv, Covered, Reached, UpTo, reqVars
  <2>6. UpTo(globalMax, staged)'
    BY <2>1 DEF UpTo
  <2> QED
    BY <1>1, <1>2, <2>1, <2>4, <2>5, <2>6 DEF CopyInv, InBatches
<1>16. ASSUME UNCHANGED <<source, copies, jobVars, late, seen>>,
              chosen <= chosen', chosen' \in 0 .. MaxValue,
              saved' = saved \/ saved' = 0,
              watermark' \in 0 .. MaxValue, before' \in 0 .. MaxValue,
              Covered(watermark') \/ watermark' <= chosen' \/ watermark' = 0 \/ Offered',
              Covered(before') \/ before' = 0
       PROVE  CopyInv'
  <2>1. \A w \in 0 .. MaxValue : Covered(w) => Covered(w)'
    BY <1>14, <1>16
  <2>2. Covered(watermark)' \/ Offered'
    <3>1. CASE Covered(watermark')
      BY <1>16, <2>1, <3>1 DEF Covered, Reached, UpTo
    <3>2. CASE watermark' <= chosen' \/ watermark' = 0
      BY <1>7, <1>16, <3>2 DEF Covered, Reached, UpTo
    <3> QED
      BY <1>16, <3>1, <3>2
  <2>3. Covered(before)'
    <3>1. CASE Covered(before')
      BY <1>16, <2>1, <3>1 DEF Covered, Reached, UpTo
    <3>2. CASE before' = 0
      BY <1>7, <1>16, <3>2 DEF Covered, Reached, UpTo
    <3> QED
      BY <1>16, <3>1, <3>2
  <2>4. InBatches => Covered(saved)'
    <3>1. CASE saved' = saved
      BY <1>2, <2>1, <3>1 DEF CopyInv, Covered, Reached, UpTo
    <3>2. CASE saved' = 0
      BY <1>7, <3>2 DEF Covered, Reached, UpTo
    <3> QED
      BY <1>16, <3>1, <3>2
  <2> QED
    BY <1>8, <1>16, <2>2, <2>3, <2>4
<1>17. CASE KeysExpire \/ \E c \in Signal : SendSignal(c)
  <2>1. /\ UNCHANGED <<source, late, seen, chosen, copies, watermark, jobVars, reqVars>>
        /\ saved' = saved \/ saved' = 0
    BY <1>17 DEF KeysExpire, SendSignal, history
  <2> QED
    BY <1>2, <1>16, <2>1 DEF CopyInv, Offered, reqVars
<1>18. CASE Request
  <2>1. UNCHANGED <<source, copies, jobVars, late, seen>>
    BY <1>18, RequestKeeps
  <2>2. /\ watermark' \in 0 .. MaxValue /\ chosen' \in 0 .. MaxValue
        /\ before' \in 0 .. MaxValue
    BY <1>1 DEF TypeOK
  <2>3. /\ handler = "none" => step = "check" /\ before = 0
        /\ put # 0 => handler = "backfill" /\ step \notin {"check", "commit"}
    BY DEF TypeOK
  <2>4. /\ Covered(watermark) \/ Offered
        /\ put = 0 \/ put = before => Covered(watermark) \/ watermark = 0
        /\ Covered(before)
    BY <1>2 DEF CopyInv, Offered
  <2>5. ASSUME NEW h \in Handler, Ask(h) PROVE CopyInv'
    BY <1>16, <2>1, <2>2, <2>3, <2>4, <2>5 DEF Ask, history
  <2>6. CASE CheckIdle
    BY <1>16, <2>1, <2>2, <2>4, <2>6 DEF CheckIdle, Offered, history
  <2>7. CASE Refuse
    BY <1>16, <2>1, <2>2, <2>3, <2>4, <2>7 DEF Refuse, EndRequest, history
  <2>8. CASE Resume
    <3>1. ~ Never({"resume"})'
      <4>1. count["resume"] > 0 /\ count' = count
        BY <2>8 DEF Resume, Asked
      <4> QED
        BY <4>1 DEF Never, TypeOK, Event
    <3>2. Covered(watermark') \/ watermark' = 0
      BY <1>2, <2>3, <2>4, <2>8, <3>1 DEF Resume, CopyInv
    <3> QED
      BY <1>16, <2>1, <2>2, <2>8, <3>2 DEF Resume, EndRequest, history
  <2>9. ASSUME NEW w \in Choice, Reset(w) PROVE CopyInv'
    <3>1. w \in 0 .. MaxValue
      BY NumberAssumption
    <3>2. /\ chosen <= chosen' /\ UNCHANGED <<saved, before, put>>
          /\ watermark' = watermark \/ watermark' <= chosen'
      BY <2>9, <3>1, LargerIs DEF Reset, Assign
    <3> QED
      BY <1>16, <2>1, <2>2, <2>4, <3>2 DEF Offered
  <2>10. ASSUME NEW w \in Choice, Choose(w) PROVE CopyInv'
    <3>1. UNCHANGED <<saved, before, chosen>> /\ put = 0 /\ put' = w
      BY <2>3, <2>10 DEF Choose, history
    <3>2. \/ watermark' = watermark /\ (Covered(watermark) \/ watermark = 0)
          \/ Offered'
      BY <2>4, <2>10, <3>1 DEF Choose, Assign, Offered
    <3> QED
      BY <1>16, <2>1, <2>2, <2>4, <3>1, <3>2
  <2>11. CASE DropBreakpoint
    <3>1. saved' = 0 /\ UNCHANGED <<watermark, chosen>>
      BY <2>11 DEF DropBreakpoint, history
    <3>2. CASE handler = "reset"
      BY <1>16, <2>1, <2>2, <2>3, <2>4, <2>11, <3>1, <3>2 DEF DropBreakpoint, EndRequest
    <3>3. CASE handler # "reset"
      BY <1>16, <2>1, <2>2, <2>4, <2>11, <3>1, <3>3 DEF DropBreakpoint, Offered
    <3> QED
      BY <3>2, <3>3
  <2>12. CASE Backfill \/ Abandon
    <3>1. /\ UNCHANGED <<watermark, saved>> /\ chosen' = Skipped /\ before' = 0
      BY <2>12 DEF Backfill, Abandon, EndRequest
    <3>2. chosen <= chosen' /\ (put = before \/ put <= chosen')
      BY <3>1, SkippedTyped
    <3>3. Covered(watermark) \/ watermark' <= chosen'
      BY <2>4, <3>1, <3>2 DEF Offered
    <3> QED
      BY <1>16, <2>1, <2>2, <3>1, <3>2, <3>3
  <2>13. CASE Withdraw
    <3>1. UNCHANGED <<saved, chosen>> /\ before' = 0
      BY <2>13 DEF Withdraw, EndRequest, history
    <3>2. Covered(watermark') \/ watermark' = 0
      BY <2>4, <2>13 DEF Withdraw
    <3> QED
      BY <1>16, <2>1, <2>2, <3>1, <3>2
  <2> QED
    BY <1>18, <2>5, <2>6, <2>7, <2>8, <2>9, <2>10, <2>11, <2>12, <2>13 DEF Request
<1>19. CASE InterruptAtTable
  <2>1. /\ Leave /\ at = "table"
        /\ UNCHANGED <<source, late, seen, chosen, watermark, copies, reqVars>>
        /\ saved' = saved \/ saved' = globalMax
    BY <1>19 DEF InterruptAtTable, Interrupt, history
  <2>2. InBatches => Covered(globalMax)
    BY <1>2, <2>1 DEF InBatches, CopyInv, Covered, Reached
  <2>3. InBatches => Covered(saved)'
    BY <1>2, <1>13, <2>1, <2>2 DEF CopyInv, Covered, Reached, UpTo
  <2> QED
    BY <1>10, <2>1, <2>3
<1>20. CASE Fail
  <2>1. /\ Leave
        /\ UNCHANGED <<source, late, seen, chosen, watermark, saved, reqVars>>
    BY <1>20 DEF Fail, history
  <2>2. \A r \in Row : copies[r] > 0 => copies'[r] > 0
    BY <1>20, CommitGrows DEF Fail
  <2>3. InBatches => Covered(saved)'
    BY <1>2, <1>13, <2>1, <2>2 DEF CopyInv, Covered, Reached, UpTo
  <2> QED
    BY <1>10, <2>1, <2>2, <2>3
<1>21. CASE OpenTable
  <2>1. /\ UNCHANGED <<source, late, chosen, copies, watermark, saved, from, staged, globalMax,
                       reqVars>>
        /\ next \in 1 .. Len(task.order) /\ task.order[next] = Only
        /\ at' = "read" /\ tableMax' = 0 /\ unread' = Extract(Only) /\ at = "table"
    BY <1>21 DEF OpenTable, TypeOK
  <2>2. PICK n \in Highest(seen[Only], unread') : seen' = [seen EXCEPT ![Only] = n]
    BY <1>21, <2>1 DEF OpenTable
  <2>3. seen'[Only] = n /\ n \in 0 .. MaxValue /\ seen[Only] <= n /\ \A r \in unread' : r[2] <= n
    BY <1>2, <2>2, HighestReaches DEF TypeOK
  <2>4. \A w \in 0 .. MaxValue : Covered(w) => Covered(w)'
    BY <1>1, <2>1, <2>3, CoveredKept
  <2>5. \A r \in source \ late : from < r[2] => r \in unread'
    BY <1>2, <2>1 DEF Extract, CopyInv
  <2>6. \A r \in unread' : r[2] > tableMax'
    BY <2>1 DEF Extract
  <2>7. globalMax <= n /\ 0 <= n
    BY <1>2, <2>3 DEF CopyInv
  <2>8. /\ Covered(watermark)' \/ Offered'
        /\ Covered(before)' /\ Covered(from)' /\ (InBatches => Covered(saved)')
    BY <1>2, <2>1, <2>4 DEF CopyInv, Covered, Reached, UpTo, Offered, reqVars
  <2>9. UpTo(globalMax, staged)'
    BY <1>2, <2>1 DEF CopyInv, UpTo
  <2> QED
    BY <1>1, <1>2, <2>1, <2>3, <2>5, <2>6, <2>7, <2>8, <2>9 DEF CopyInv, InBatches
<1>22. ASSUME NEW B \in SUBSET unread, CopyBatch(B) PROVE CopyInv'
  <2>1. /\ UNCHANGED <<source, late, seen, chosen, watermark, reqVars>> /\ at = "read"
        /\ B \in Batches
    BY <1>22 DEF CopyBatch, history
  <2>2. /\ \A r \in Row : copies[r] > 0 => copies'[r] > 0
        /\ task.commit = "batch" => \A r \in B : copies'[r] > 0
    BY <1>22, CommitGrows DEF CopyBatch
  <2>3. PICK w \in Highest(tableMax, B) :
          \/ /\ tableMax' = w
             /\ unread' = unread \ B
             /\ staged' = IF task.commit = "batch" THEN staged ELSE staged \cup B
             /\ UNCHANGED <<at, from, next, saved, globalMax>>
          \/ Interrupt(w)
    BY <1>22 DEF CopyBatch
  <2>4. /\ w \in 0 .. MaxValue
        /\ w = tableMax \/ \E r \in B : r[2] = w
        /\ w <= seen[Only]
    BY <1>2, HighestReaches DEF CopyInv
  <2>5. InBatches => \A r \in unread \ B : r[2] > w
    BY <1>2, <2>1, <2>4 DEF InBatches, Batches, CopyInv
  <2>6. \A r \in source \ late : from < r[2] /\ r[2] <= seen[Only] =>
          r \in unread \ B \/ r \in B \/ r \in staged \/ copies'[r] > 0
    BY <1>2, <2>1, <2>2 DEF CopyInv
  <2>7. /\ Covered(watermark)' \/ Offered'
        /\ Covered(before)' /\ (InBatches => Covered(saved))
    BY <1>2, <1>13, <2>1, <2>2 DEF CopyInv, Covered, Reached, UpTo, Offered, reqVars
  <2>8. CASE Interrupt(w)
    <3>1. Leave /\ (saved' = saved \/ saved' = w)
      BY <2>8 DEF Interrupt
    <3>2. InBatches => \A r \in source \ late :
                         chosen < r[2] /\ r[2] <= w => copies'[r] > 0
      <4> SUFFICES ASSUME InBatches, NEW r \in source \ late, chosen < r[2], r[2] <= w
                   PROVE  copies'[r] > 0
        OBVIOUS
      <4>1. CASE r[2] <= from
        BY <1>2, <2>2, <4>1 DEF CopyInv, Covered, UpTo
      <4>2. CASE from < r[2]
        <5>1. staged = {}
          BY <1>2 DEF InBatches, CopyInv
        <5>2. r \notin unread \ B
          BY <2>4, <2>5
        <5> QED
          BY <2>2, <2>4, <2>6, <4>2, <5>1, <5>2 DEF InBatches
      <4> QED
        BY <4>1, <4>2
    <3>3. InBatches => Covered(saved)'
      BY <1>13, <2>1, <2>2, <2>4, <2>7, <3>1, <3>2 DEF Covered, Reached, UpTo
    <3> QED
      BY <1>10, <2>1, <2>2, <3>1, <3>3
  <2>9. CASE /\ tableMax' = w
             /\ unread' = unread \ B
             /\ staged' = IF task.commit = "batch" THEN staged ELSE staged \cup B
             /\ UNCHANGED <<at, from, next, saved, globalMax>>
    <3>1. UpTo(globalMax, staged)'
      BY <1>2, <2>1, <2>2, <2>9 DEF CopyInv, UpTo
    <3>2. \A r \in source \ late : from < r[2] /\ r[2] <= seen[Only] =>
            r \in unread' \/ r \in staged' \/ copies'[r] > 0
      BY <2>2, <2>6, <2>9
    <3>3. Covered(from)' /\ (InBatches => Covered(saved)')
      BY <1>2, <1>13, <2>1, <2>2, <2>7, <2>9 DEF CopyInv, Covered, Reached, UpTo
    <3> QED
      BY <1>1, <1>2, <2>1, <2>4, <2>5, <2>7, <2>9, <3>1, <3>2, <3>3 DEF CopyInv, InBatches
  <2> QED
    BY <2>3, <2>8, <2>9
<1>23. CASE FinishTable
  <2>1. /\ UNCHANGED <<source, late, seen, chosen, watermark, from, saved, reqVars>>
        /\ at = "read" /\ at' = "table" /\ tableMax' = 0 /\ unread' = {}
        /\ staged' = IF task.commit = "job" THEN staged \cup unread ELSE {}
    BY <1>23 DEF FinishTable, history
  <2>2. /\ \A r \in Row : copies[r] > 0 => copies'[r] > 0
        /\ \A r \in staged \cup unread : r \in staged' \/ copies'[r] > 0
    BY <1>23, <2>1, CommitGrows DEF FinishTable
  <2>3. PICK w \in Highest(tableMax, unread) : globalMax' = Larger(globalMax, w)
    BY <1>23 DEF FinishTable
  <2>4. w \in 0 .. MaxValue /\ w <= seen[Only]
    BY <1>2, <2>3, HighestReaches DEF CopyInv
  <2>5. globalMax' = globalMax \/ globalMax' = w
    BY <2>3 DEF Larger
  <2>6. \A r \in source \ late : chosen < r[2] /\ r[2] <= globalMax' =>
          r \in staged' \/ copies'[r] > 0
    <3> SUFFICES ASSUME NEW r \in source \ late, chosen < r[2], r[2] <= globalMax'
                 PROVE  r \in staged' \/ copies'[r] > 0
      OBVIOUS
    <3>1. CASE r[2] <= globalMax
      BY <1>2, <2>1, <2>2, <3>1 DEF CopyInv, UpTo
    <3>2. CASE r[2] <= w /\ r[2] <= from
      BY <1>2, <2>2, <3>2 DEF CopyInv, Covered, UpTo
    <3>3. CASE r[2] <= w /\ from < r[2]
      BY <1>2, <2>1, <2>2, <2>4, <3>3 DEF CopyInv
    <3> QED
      BY <2>4, <2>5, <3>1, <3>2, <3>3
  <2>7. /\ Covered(watermark)' \/ Offered'
        /\ Covered(before)' /\ Covered(from)' /\ (InBatches => Covered(saved)')
    BY <1>2, <1>13, <2>1, <2>2 DEF CopyInv, Covered, Reached, UpTo, Offered, reqVars
  <2>8. UpTo(globalMax, staged)'
    BY <2>1, <2>6 DEF UpTo
  <2> QED
    BY <1>1, <1>2, <2>1, <2>4, <2>5, <2>7, <2>8 DEF CopyInv, InBatches
<1>24. CASE FinishJob
  <2>1. /\ UNCHANGED <<source, late, seen, chosen, watermark, from, saved, unread, tableMax,
                       globalMax, reqVars>>
        /\ at = "table" /\ at' = "record" /\ staged' = {}
    BY <1>24 DEF FinishJob, history
  <2>2. /\ \A r \in Row : copies[r] > 0 => copies'[r] > 0
        /\ \A r \in staged : copies'[r] > 0
    BY <1>24, CommitGrows DEF FinishJob
  <2>3. /\ Covered(watermark)' \/ Offered'
        /\ Covered(before)' /\ Covered(from)' /\ (InBatches => Covered(saved)')
    BY <1>2, <1>13, <2>1, <2>2 DEF CopyInv, Covered, Reached, UpTo, Offered, reqVars
  <2>4. UpTo(globalMax, staged)'
    BY <1>2, <2>1, <2>2 DEF CopyInv, UpTo
  <2> QED
    BY <1>1, <1>2, <2>1, <2>3, <2>4 DEF CopyInv, InBatches
<1>25. CASE Record \/ RecordFails
  <2>1. /\ UNCHANGED <<source, late, seen, chosen, copies, saved, reqVars>>
        /\ at = "record" /\ Leave
        /\ watermark' = watermark \/ watermark' = globalMax
    BY <1>25 DEF Record, RecordFails, history
  <2>2. Covered(globalMax)
    BY <1>2, <2>1 DEF CopyInv, Covered, Reached
  <2>3. InBatches => Covered(saved)'
    BY <1>2, <1>13, <2>1 DEF CopyInv, Covered, Reached, UpTo
  <2> QED
    BY <1>10, <2>1, <2>2, <2>3
<1> QED
  BY <1>11, <1>12, <1>15, <1>17, <1>18, <1>19, <1>20, <1>21, <1>22, <1>23,
     <1>24, <1>25 DEF Next, Engine

(* Through every signal, failure, resumption, reset, backfill and lost record,*)
(* a row at or below the watermark is in the target, unless it got its value *)
(* late or a user has skipped it: with a watermark that was chosen, or with  *)
(* one that a /backfill withdrew when a job had already begun with it.  This *)
(* holds for a copy of one table from a snapshot, or in the order of the     *)
(* column, and resumed only from durable batches.                           *)
THEOREM Nothing_is_skipped == Spec => []NothingSkipped
<1>1. Init => SkipInv /\ FullInv
  <2> SUFFICES ASSUME Init PROVE SkipInv /\ FullInv
    OBVIOUS
  <2>1. TypeOK
    BY InitTyped
  <2>2. SkipInv
    <3> SUFFICES ASSUME Len(task.order) = 1 PROVE CopyInv
      BY DEF SkipInv, Orderly
    <3>1. Only \in Table
      BY <2>1, TaskIsConfig DEF TypeOK, Only
    <3> QED
      BY <3>1, NumberAssumption DEF Init, CopyInv, Covered, Reached, UpTo, Tables
  <2> QED
    BY <2>2 DEF Init, FullInv
<1>3. Init => Asked
  BY DEF Init, Asked
<1>2. TypeOK /\ SkipInv /\ FullInv => NothingSkipped
  <2> SUFFICES ASSUME TypeOK, SkipInv, FullInv, Orderly, Durable,
                      NEW r \in source \ late, Skipped < r[2], r[2] <= watermark
               PROVE  copies[r] > 0
    BY DEF NothingSkipped, Complete
  <2>1. r[2] \in Nat /\ r[2] > 0 /\ watermark \in Nat
    BY RowIs, NumberAssumption DEF TypeOK
  <2>2. task.incremental
    BY <2>1 DEF FullInv
  <2>3. /\ Skipped \in Nat /\ chosen \in Nat /\ chosen <= Skipped
        /\ put = before \/ put <= Skipped
    BY SkippedTyped, NumberAssumption DEF TypeOK
  <2>4. ~ Offered
    BY <2>1, <2>3 DEF Offered
  <2> QED
    BY <2>1, <2>2, <2>3, <2>4 DEF SkipInv, CopyInv, Covered, UpTo
<1> QED
  BY <1>1, <1>2, <1>3, InitTyped, Typing, StepTyped, SourceFiniteStep, AskedStep, SkipInvStep,
     FullInvStep, PTL DEF Spec

-----------------------------------------------------------------------------
(* The engine implements TableCopy.                                        *)

(* Numbers tell the rows of a value apart: one that appears is new.          *)
Numbered == \A r \in source : r[3] <= Cardinality(Alike(source, r[1], r[2]))

LEMMA AlikeFinite ==
  ASSUME SourceFinite, NEW t, NEW v
  PROVE  /\ IsFiniteSet(Alike(source, t, v))
         /\ Cardinality(Alike(source, t, v)) \in Nat
BY FS_Subset, FS_CardinalityType DEF SourceFinite, Alike

LEMMA RowAppears ==
  ASSUME TypeOK, SourceFinite, Numbered, NEW t \in Tables, NEW v \in Values, Insert(t, v)
  PROVE  \E row \in Row \ source :
           /\ row[1] = t /\ row[2] = v
           /\ row[3] = Cardinality(Alike(source, t, v)) + 1
           /\ source' = source \cup {row}
           /\ late' = late \/ late' = late \cup {row}
<1>1. PICK row \in Row :
        /\ row[1] = t /\ row[2] = v
        /\ row[3] = Cardinality(Alike(source, t, v)) + 1
        /\ source' = source \cup {row}
        /\ late' = late \/ late' = late \cup {row}
  BY InsertedRow
<1>2. row \notin source
  <2>1. Cardinality(Alike(source, t, v)) \in Nat
    BY AlikeFinite
  <2> QED
    BY <1>1, <2>1 DEF Numbered
<1> QED
  BY <1>1, <1>2

LEMMA NumberedStep == TypeOK /\ SourceFinite /\ Numbered /\ [Next]_vars => Numbered'
<1> SUFFICES ASSUME TypeOK, SourceFinite, Numbered, [Next]_vars PROVE Numbered'
  OBVIOUS
<1>1. ASSUME NEW t \in Tables, NEW v \in Values, Insert(t, v) PROVE Numbered'
  <2>1. PICK row \in Row \ source :
          /\ row[1] = t /\ row[2] = v
          /\ row[3] = Cardinality(Alike(source, t, v)) + 1
          /\ source' = source \cup {row}
    BY <1>1, RowAppears
  <2> SUFFICES ASSUME NEW r \in source'
               PROVE  r[3] <= Cardinality(Alike(source', r[1], r[2]))
    BY DEF Numbered
  <2>2. r \in Row /\ r[3] \in Nat
    BY <2>1 DEF TypeOK, Row
  <2>3. CASE r[1] = t /\ r[2] = v
    <3> DEFINE ties == Alike(source, t, v)
    <3>1. Alike(source', t, v) = ties \cup {row} /\ row \notin ties
      BY <2>1 DEF Alike
    <3>2. IsFiniteSet(ties) /\ Cardinality(ties) \in Nat
      BY AlikeFinite
    <3> HIDE DEF ties
    <3>3. Cardinality(ties \cup {row}) = Cardinality(ties) + 1
      BY <3>1, <3>2, FS_AddElement
    <3>4. r[3] <= Cardinality(ties) + 1
      BY <2>1, <2>2, <2>3, <3>2 DEF Numbered, ties
    <3> QED
      BY <2>3, <3>1, <3>3, <3>4
  <2>4. CASE ~ (r[1] = t /\ r[2] = v)
    <3>1. Alike(source', r[1], r[2]) = Alike(source, r[1], r[2]) /\ r \in source
      BY <2>1, <2>4 DEF Alike
    <3> QED
      BY <3>1 DEF Numbered
  <2> QED
    BY <2>3, <2>4
<1>2. source' = source \/ \E t \in Tables, v \in Values : Insert(t, v)
  BY RequestKeeps
     DEF Next, vars, Run, SendSignal, KeysExpire, Engine, InterruptAtTable, OpenTable,
         CopyBatch, FinishTable, FinishJob, Record, Fail, RecordFails
<1> QED
  BY <1>1, <1>2 DEF Numbered

(* What is in the target is of the source; where batches are written under   *)
(* their _id, once.                                                        *)
Sourced ==
  /\ \A r \in Row : copies[r] > 0 => r \in source
  /\ task.commit # "job" => \A r \in Row : copies[r] <= 1

(* Rows are committed of those the job has read.                             *)
LEMMA Committed ==
  ASSUME TypeOK, [Next]_vars
  PROVE  \/ UNCHANGED copies
         \/ \E S \in SUBSET (unread \cup staged) :
              /\ CommitRows(S) /\ at \in {"table", "read"}
              /\ UNCHANGED <<task, source, late, chosen, watermark, reqVars>>
              /\ UNCHANGED count \/ Happens("fault")
<1>1. ASSUME NEW B \in SUBSET unread, CopyBatch(B)
      PROVE  \E S \in SUBSET (unread \cup staged) : CommitRows(S)
  BY <1>1 DEF CopyBatch
<1>2. ASSUME FinishTable
      PROVE  \E S \in SUBSET (unread \cup staged) : CommitRows(S)
  <2>1. CommitRows(IF task.commit = "job" THEN {} ELSE staged \cup unread)
    BY <1>2 DEF FinishTable
  <2> QED
    BY <2>1
<1>3. ASSUME FinishJob
      PROVE  \E S \in SUBSET (unread \cup staged) : CommitRows(S)
  BY <1>3 DEF FinishJob
<1>4. ASSUME Fail
      PROVE  \E S \in SUBSET (unread \cup staged) : CommitRows(S)
  BY <1>4 DEF Fail
<1>5. \/ UNCHANGED copies
      \/ \E B \in SUBSET unread : CopyBatch(B)
      \/ FinishTable \/ FinishJob \/ Fail
  BY RequestKeeps
     DEF Next, vars, Insert, Run, SendSignal, KeysExpire, Engine, InterruptAtTable,
         OpenTable, Record, RecordFails
<1>6. ASSUME \/ \E B \in SUBSET unread : CopyBatch(B)
             \/ FinishTable \/ FinishJob \/ Fail
      PROVE  /\ at \in {"table", "read"}
             /\ UNCHANGED <<task, source, late, chosen, watermark, reqVars>>
             /\ UNCHANGED count \/ Happens("fault")
  BY <1>6 DEF CopyBatch, FinishTable, FinishJob, Fail, history
<1> QED
  BY <1>1, <1>2, <1>3, <1>4, <1>5, <1>6

LEMMA SourcedStep == TypeOK /\ Sourced /\ [Next]_vars => Sourced'
<1> SUFFICES ASSUME TypeOK, Sourced, [Next]_vars PROVE Sourced'
  OBVIOUS
<1>1. task' = task /\ source \subseteq source'
  BY SourceGrows
<1>2. ASSUME NEW S \in SUBSET source, CommitRows(S) PROVE Sourced'
  BY <1>1, <1>2 DEF CommitRows, Sourced
<1>3. CASE UNCHANGED copies
  BY <1>1, <1>3 DEF Sourced
<1>4. unread \cup staged \subseteq source
  BY DEF TypeOK
<1> QED
  BY <1>2, <1>3, <1>4, Committed

-----------------------------------------------------------------------------
(* The refinement mapping: what the engine owes, and whether its order can be *)
(* relied upon.                                                            *)
Owed    == {r \in source \ late : Skipped < r[2]}
InOrder == Orderly /\ Durable

(* Events of which TableCopy knows nothing.                                 *)
LEMMA Unnoticed ==
  ASSUME TypeOK, task' = task,
         \/ UNCHANGED count
         \/ \E e \in {"signal", "fault", "late", "recordFault"} : Happens(e)
  PROVE  InOrder' = InOrder /\ Calm' = Calm
<1>1. \A e \in {"resume", "reset"} : count'[e] = count[e]
  BY DEF Happens, TypeOK, Event
<1>2. /\ Never({"resume"})' <=> Never({"resume"})
      /\ Never({"resume", "reset"})' <=> Never({"resume", "reset"})
  BY <1>1 DEF Never
<1>3. Orderly' <=> Orderly
  BY DEF Orderly
<1>4. InOrder' <=> InOrder
  BY <1>2, <1>3 DEF InOrder, Durable
<1>5. Calm' <=> Calm
  BY <1>2 DEF Calm
<1>6. InOrder \in BOOLEAN /\ InOrder' \in BOOLEAN /\ Calm \in BOOLEAN /\ Calm' \in BOOLEAN
  BY TaskIsConfig DEF InOrder, Calm, Orderly, Durable, Never, TypeOK
<1> QED
  BY <1>4, <1>5, <1>6, Zenon

(* Events that lose no record.                                              *)
LEMMA NotLost ==
  ASSUME TypeOK,
         \/ UNCHANGED count
         \/ \E e \in {"signal", "fault", "late", "resume", "reset"} : Happens(e)
  PROVE  Lost' = Lost
BY DEF Happens, Lost, TypeOK, Event

(* What a request skips, it skips with the watermark it writes.              *)
LEMMA RequestSkips ==
  ASSUME TypeOK, Request
  PROVE  Skipped' <= Skipped \/ Skipped' <= watermark'
<1>1. /\ chosen \in Nat /\ put \in Nat /\ before \in Nat
      /\ Skipped \in Nat /\ chosen <= Skipped
      /\ handler = "none" => step = "check" /\ before = 0
      /\ put # 0 => handler = "backfill" /\ step \notin {"check", "commit"}
  BY NumberAssumption, SkippedTyped DEF TypeOK
<1>2. put = 0 => Skipped = chosen
  BY <1>1 DEF Skipped, Larger
<1>3. put' = 0 => Skipped' = chosen' \/ Skipped' = Larger(chosen', 0)
  BY DEF Skipped
<1>4. ASSUME put' = 0, chosen' = chosen \/ chosen' = Skipped PROVE Skipped' <= Skipped
  BY <1>1, <1>3, <1>4 DEF Larger
<1>5. ASSUME NEW h \in Handler, Ask(h) PROVE Skipped' <= Skipped
  BY <1>1, <1>4, <1>5 DEF Ask, history
<1>6. CASE CheckIdle
  BY <1>1, <1>6 DEF CheckIdle, Skipped, history
<1>7. CASE Refuse \/ Resume \/ Backfill \/ Abandon \/ Withdraw
  BY <1>4, <1>7 DEF Refuse, Resume, Backfill, Abandon, Withdraw, EndRequest, history
<1>8. ASSUME NEW w \in Choice, Reset(w) PROVE Skipped' <= Skipped \/ Skipped' <= watermark'
  <2>1. w \in Nat
    BY NumberAssumption
  <2>2. put = 0 /\ put' = 0
    BY <1>1, <1>8 DEF Reset
  <2>3. \/ chosen' = chosen
        \/ chosen' = Larger(chosen, w) /\ watermark' = w
    BY <1>8 DEF Reset, Assign
  <2> QED
    BY <1>1, <1>2, <1>3, <2>1, <2>2, <2>3 DEF Larger
<1>9. ASSUME NEW w \in Choice, Choose(w) PROVE Skipped' <= Skipped \/ Skipped' <= watermark'
  <2>1. w \in Nat
    BY NumberAssumption
  <2>2. put' = w /\ before' = before /\ chosen' = chosen /\ (w # before => watermark' = w)
    BY <1>9 DEF Choose, Assign, history
  <2> QED
    BY <1>1, <2>1, <2>2 DEF Skipped, Larger
<1>10. CASE DropBreakpoint
  <2>1. CASE handler = "reset"
    BY <1>4, <1>10, <2>1 DEF DropBreakpoint, EndRequest, history
  <2>2. CASE handler # "reset"
    BY <1>1, <1>10, <2>2 DEF DropBreakpoint, Skipped, history
  <2> QED
    BY <2>1, <2>2
<1> QED
  BY <1>5, <1>6, <1>7, <1>8, <1>9, <1>10 DEF Request

(* What is in order now was before.                                         *)
LEMMA OrderLost ==
  ASSUME TypeOK, [Next]_vars, InOrder'
  PROVE  InOrder
<1>1. task' = task
  BY SourceGrows
<1>2. Never({"resume"})' => Never({"resume"})
  BY NeverBefore DEF Event, TypeOK
<1> QED
  BY <1>1, <1>2 DEF InOrder, Orderly, Durable

(* Insert is Appear, a commit of rows Write, Record Advance, RecordFails Lose; *)
(* what a request does to the watermark is Disturb.                         *)
LEMMA TargetStep ==
  ASSUME TypeOK, TypeOK', SourceFinite, Asked, Numbered, Sourced, OnceInv, OnceInv',
         NothingSkipped', [Next]_vars
  PROVE  [Target!Next]_(Target!vars)
<1> SUFFICES Target!Next \/ UNCHANGED Target!vars
  OBVIOUS
<1>1. task' = task /\ source \subseteq Row /\ late \subseteq source
  BY SourceGrows DEF TypeOK
<1>2. /\ copies \in [Row -> Nat] /\ copies' \in [Row -> Nat]
      /\ watermark \in Nat /\ watermark' \in Nat /\ Lost \in Nat
      /\ Skipped \in Nat /\ Skipped' \in Nat
  <2>1. Skipped \in 0 .. MaxValue
    BY SkippedTyped
  <2>2. Skipped' \in 0 .. MaxValue
    BY LargerIs DEF TypeOK, Skipped
  <2> QED
    <3>1. copies \in [Row -> Nat] /\ watermark \in 0 .. MaxValue /\ Lost \in Nat
      BY DEF TypeOK, Lost, Event
    <3>2. copies' \in [Row -> Nat] /\ watermark' \in 0 .. MaxValue
      BY DEF TypeOK
    <3> QED
      BY <2>1, <2>2, <3>1, <3>2, NumberAssumption
<1>3. InOrder' => \A r \in Owed' : r[2] <= watermark' => copies'[r] > 0
  BY DEF NothingSkipped, Complete, InOrder, Owed
(* Steps that show: first those that leave the watermark to the job.         *)
<1>4. ASSUME UNCHANGED <<source, Owed, copies, watermark, InOrder, Calm, Lost>>
      PROVE  UNCHANGED Target!vars
  BY <1>4 DEF Target!vars, Owed, InOrder, Lost
<1>5. ASSUME NEW t \in Tables, NEW v \in Values, Insert(t, v) PROVE Target!Next
  <2>1. PICK row \in Row \ source :
          /\ row[2] = v
          /\ source' = source \cup {row}
          /\ late' = late \/ late' = late \cup {row}
    BY <1>5, RowAppears
  <2>2. UNCHANGED <<copies, watermark, Skipped>>
    BY <1>5 DEF Insert, Skipped, reqVars
  <2>3. UNCHANGED <<InOrder, Calm, Lost>>
    <3>1. UNCHANGED count \/ Happens("late")
      BY <1>5 DEF Insert
    <3> QED
      BY <1>1, <3>1, Unnoticed, NotLost
  <2>4. Owed' \in {Owed, Owed \cup {row}}
    <3>1. CASE late' = late /\ Skipped < row[2]
      BY <1>1, <2>1, <2>2, <3>1 DEF Owed
    <3>2. CASE late' = late \cup {row} \/ ~ (Skipped < row[2])
      BY <1>1, <2>1, <2>2, <3>2 DEF Owed
    <3> QED
      BY <2>1, <3>1, <3>2
  <2>5. InOrder /\ row \in Owed' => row[2] > watermark
    <3>1. ~ (copies[row] > 0) /\ row[2] \in Nat
      BY <2>1, RowIs DEF Sourced
    <3> QED
      BY <1>2, <1>3, <2>2, <2>3, <3>1
  <2>6. Target!Appear
    BY <2>1, <2>2, <2>3, <2>4, <2>5 DEF Target!Appear, Owed, InOrder, Lost
  <2> QED
    BY <2>6 DEF Target!Next
<1>6. ASSUME NEW S \in SUBSET (unread \cup staged), CommitRows(S), at \in {"table", "read"},
             UNCHANGED <<task, source, late, chosen, watermark, reqVars>>,
             UNCHANGED count \/ Happens("fault")
      PROVE  Target!Next
  <2>1. UNCHANGED <<InOrder, Calm, Owed, Lost>>
    BY <1>6, Unnoticed, NotLost DEF Owed, Skipped, reqVars
  <2>2. S \subseteq source
    BY DEF TypeOK
  <2>3. ASSUME NEW r \in Row, copies'[r] # copies[r]
        PROVE  /\ r \in source /\ copies'[r] > copies[r]
               /\ Calm => copies'[r] <= 1 + Lost /\ r[2] > watermark
    <3>1. r \in S /\ copies'[r] = (IF task.commit = "job" THEN copies[r] + 1 ELSE 1)
      BY <1>6, <2>3 DEF CommitRows
    <3>2. copies'[r] > copies[r]
      BY <1>2, <2>3, <3>1 DEF Sourced
    <3>3. Calm => copies'[r] <= 1 + Lost
      BY <2>1 DEF OnceInv
    <3>4. Calm => r[2] > watermark
      BY <1>6, <3>1 DEF OnceInv, Onward
    <3> QED
      BY <1>2, <2>2, <3>1, <3>2, <3>3, <3>4
  <2>4. Target!Write
    BY <1>2, <1>6, <2>1, <2>3 DEF Target!Write, Owed, InOrder, Lost
  <2> QED
    BY <2>4 DEF Target!Next
<1>7. CASE Record
  <2>1. /\ UNCHANGED <<source, late, chosen, copies, count, reqVars>> /\ at = "record"
        /\ watermark' = IF globalMax # 0 THEN globalMax ELSE watermark
    BY <1>7 DEF Record, history
  <2>2. UNCHANGED <<InOrder, Calm, Owed, Lost>>
    BY <1>1, <2>1, Unnoticed, NotLost DEF Owed, Skipped, reqVars
  <2>3. Calm => watermark' >= watermark
    BY <1>2, <2>1 DEF OnceInv, Onward
  <2>4. InOrder => \A r \in Owed : r[2] <= watermark' => copies[r] > 0
    BY <1>3, <2>1, <2>2
  <2>5. Target!Advance
    BY <1>2, <2>1, <2>2, <2>3, <2>4
       DEF Target!Advance, Target!Complete, Owed, InOrder, Lost
  <2> QED
    BY <2>5 DEF Target!Next
<1>8. CASE RecordFails
  <2>1. /\ UNCHANGED <<source, late, chosen, copies, watermark, reqVars>>
        /\ Happens("recordFault")
    BY <1>8 DEF RecordFails, history
  <2>2. UNCHANGED <<InOrder, Calm, Owed>>
    BY <1>1, <2>1, Unnoticed DEF Owed, Skipped, reqVars
  <2>3. Lost' = Lost + 1
    BY <2>1 DEF Happens, Lost, TypeOK, Event
  <2>4. Target!Lose
    BY <2>1, <2>2, <2>3 DEF Target!Lose, Owed, InOrder, Lost
  <2> QED
    BY <2>4 DEF Target!Next
(* Then those of requests.                                                  *)
<1>9. CASE Request
  <2>1. /\ UNCHANGED <<source, late, copies>>
        /\ UNCHANGED count \/ Happens("resume") \/ Happens("reset")
    BY <1>9, RequestKeeps
  <2>2. Lost' = Lost /\ ~ Calm'
    BY <1>9, <2>1, NotLost, RequestDisturbs
  <2>3. Owed' \subseteq source /\ \A r \in Owed \ Owed' : r[2] <= watermark'
    <3>1. \A r \in source : r[2] \in Nat
      BY <1>1, RowIs
    <3> QED
      BY <1>2, <1>9, <2>1, <3>1, RequestSkips DEF Owed
  <2>4. InOrder' \in BOOLEAN /\ (InOrder' => InOrder)
    BY OrderLost DEF InOrder, Orderly, Durable
  <2>5. InOrder' => \A r \in Owed' : r[2] <= watermark' => copies[r] > 0
    BY <1>3, <2>1
  <2>6. Target!Disturb
    BY <1>2, <2>1, <2>2, <2>3, <2>4, <2>5
       DEF Target!Disturb, Target!Complete, Owed, InOrder, Lost
  <2> QED
    BY <2>6 DEF Target!Next
(* The rest shows nothing.                                                  *)
<1>10. ASSUME UNCHANGED <<source, late, Skipped, copies, watermark>>,
              UNCHANGED count \/ Happens("signal") \/ Happens("fault")
       PROVE  UNCHANGED Target!vars
  BY <1>1, <1>4, <1>10, Unnoticed, NotLost DEF Owed
<1>11. CASE Run
  <2>1. /\ UNCHANGED <<source, late, copies, watermark, count, put, before>>
        /\ chosen' = Skipped
    BY <1>11 DEF Run, reqVars
  <2>2. chosen \in Nat /\ put \in Nat
    BY NumberAssumption DEF TypeOK
  <2>3. Skipped' = Skipped
    BY <2>1, <2>2 DEF Skipped, Larger
  <2> QED
    BY <1>10, <2>1, <2>3
<1>12. ASSUME UNCHANGED <<source, late, chosen, copies, watermark, reqVars>>,
              UNCHANGED count \/ Happens("signal") \/ Happens("fault")
       PROVE  UNCHANGED Target!vars
  <2>1. Skipped' = Skipped
    BY <1>12 DEF Skipped, reqVars
  <2> QED
    BY <1>10, <1>12, <2>1
<1>13. CASE \/ KeysExpire \/ \E c \in Signal : SendSignal(c)
            \/ InterruptAtTable \/ OpenTable \/ UNCHANGED vars
  BY <1>12, <1>13 DEF KeysExpire, SendSignal, InterruptAtTable, OpenTable, history, vars
<1>14. CASE \/ \E B \in SUBSET unread : CopyBatch(B)
            \/ FinishTable \/ FinishJob \/ Fail
  <2>1. /\ UNCHANGED <<source, late, chosen, watermark, reqVars>>
        /\ UNCHANGED count \/ Happens("fault")
    BY <1>14 DEF CopyBatch, FinishTable, FinishJob, Fail, history
  <2>2. CASE UNCHANGED copies
    BY <1>12, <2>1, <2>2
  <2> QED
    BY <1>6, <2>2, Committed
<1> QED
  BY <1>5, <1>7, <1>8, <1>9, <1>11, <1>13, <1>14 DEF Next, Engine

(* IncrementalCopy implements TableCopy, step by step, for any tables, rows,  *)
(* batches, configurations and events: as long as nobody moves the watermark *)
(* a job writes only rows above it, each once and once more for each record  *)
(* that was lost, and the watermark does not go back; where the order can be *)
(* relied upon it passes no row that is owed, and this through resets,       *)
(* resumptions and backfills that are withdrawn too.                        *)
THEOREM Implementation == Spec => KeepsTableCopy
<1> DEFINE Inv == TypeOK /\ SourceFinite /\ Asked /\ Numbered /\ Sourced /\ OnceInv
<1>1. Init => Inv /\ Target!Init
  <2> SUFFICES ASSUME Init PROVE Inv /\ Target!Init
    OBVIOUS
  <2>1. TypeOK /\ SourceFinite /\ Asked /\ OnceInv
    BY InitTyped DEF Init, Asked, OnceInv, Onward, Ahead, Lost, Event
  <2>2. Numbered /\ Sourced
    BY DEF Init, Numbered, Sourced
  <2>3. Target!Init
    <3>1. InOrder \in BOOLEAN /\ Calm \in BOOLEAN
      BY TaskIsConfig DEF Init, InOrder, Calm, Orderly, Durable, Never
    <3> QED
      BY <3>1 DEF Init, Target!Init, InOrder, Event
  <2> QED
    BY <2>1, <2>2, <2>3
<1>2. Inv /\ [Next]_vars => Inv'
  BY StepTyped, SourceFiniteStep, AskedStep, NumberedStep, SourcedStep, OnceInvStep
<1>3. Inv /\ Inv' /\ NothingSkipped' /\ [Next]_vars => [Target!Next]_(Target!vars)
  BY TargetStep
<1> QED
  BY <1>1, <1>2, <1>3, Nothing_is_skipped, PTL DEF Spec, KeepsTableCopy, Target!Spec

(* What follows from TableCopy alone: in every state the rows owed up to the  *)
(* watermark are in the target if the order can be relied upon, and no row is *)
(* there again but for records that were lost, while the watermark is the    *)
(* engine's own.                                                           *)
THEOREM Promised == Spec => []Target!Promise
<1>1. Target!Init => Target!Promise
  BY DEF Target!Init, Target!Promise, Target!Complete
<1>2. Target!Promise /\ [Target!Next]_(Target!vars) => Target!Promise'
  <2> SUFFICES ASSUME Target!Promise, [Target!Next]_(Target!vars)
               PROVE  Target!Promise'
    OBVIOUS
  <2>1. CASE Target!Appear
    <3>1. \A r \in Row : r[2] \in Nat
      BY RowIs
    <3> QED
      BY <2>1, <3>1 DEF Target!Appear, Target!Promise, Target!Complete
  <2>2. CASE Target!Write
    <3>1. \A r \in Row : copies[r] > 0 => copies'[r] > 0
      BY <2>2 DEF Target!Write, Target!Promise
    <3> QED
      BY <2>2, <3>1 DEF Target!Write, Target!Promise, Target!Complete
  <2>3. CASE Target!Advance
    BY <2>3 DEF Target!Advance, Target!Promise, Target!Complete
  <2>4. CASE Target!Lose
    <3>1. \A r \in Row : copies[r] \in Nat
      BY DEF Target!Promise
    <3> QED
      BY <2>4, <3>1 DEF Target!Lose, Target!Promise, Target!Complete
  <2>5. CASE Target!Disturb
    BY <2>5 DEF Target!Disturb, Target!Promise, Target!Complete
  <2>6. CASE UNCHANGED Target!vars
    BY <2>6 DEF Target!vars, Target!Promise, Target!Complete
  <2> QED
    BY <2>1, <2>2, <2>3, <2>4, <2>5, <2>6 DEF Target!Next
<1> QED
  BY <1>1, <1>2, Implementation, PTL DEF KeepsTableCopy, Target!Spec
=============================================================================
