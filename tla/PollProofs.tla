----------------------------- MODULE PollProofs -----------------------------
(* Proofs about PollEngines, for any documents, configurations and bounds:    *)
(* type correctness, that an answer is stored whole or not at all, and what  *)
(* the measurement says.                                                    *)
EXTENDS PollEngines, FiniteSetTheorems, TLAPS

-----------------------------------------------------------------------------
(* Counts, rows and runs.                                                    *)

LEMMA Happened ==
  ASSUME count \in [Event -> Nat], NEW e \in Event, Happens(e)
  PROVE  /\ count' \in [Event -> Nat]
         /\ count[e] < Bound[e] /\ count'[e] = count[e] + 1
         /\ \A f \in Event : f # e => count'[f] = count[f]
BY DEF Happens

(* The steps that count an event, and what they do to the counts that the    *)
(* invariants look at.                                                      *)
LEMMA Counted ==
  ASSUME count \in [Event -> Nat],
         \/ UNCHANGED count
         \/ \E e \in Event \ {"run", "clean"} : Happens(e)
  PROVE  /\ count' \in [Event -> Nat]
         /\ count'["run"] = count["run"] /\ count'["clean"] = count["clean"]
         /\ count["signal"] > 0 => count'["signal"] > 0
<1>1. CASE UNCHANGED count
  BY <1>1
<1>2. ASSUME NEW e \in Event \ {"run", "clean"}, Happens(e)
      PROVE  /\ count' \in [Event -> Nat]
             /\ count'["run"] = count["run"] /\ count'["clean"] = count["clean"]
             /\ count["signal"] > 0 => count'["signal"] > 0
  <2>1. "run" \in Event /\ "clean" \in Event /\ "signal" \in Event
    BY DEF Event
  <2> QED
    BY <1>2, <2>1, Happened
<1> QED
  BY <1>1, <1>2

LEMMA RowsTyped ==
  ASSUME NEW d \in Doc \cup {None}
  PROVE  Whole(d) \in Row /\ Part(d) \in Row
BY DEF Whole, Part, Row

LEMMA WholeRowsTyped == TypeOK => WholeRows \in SUBSET Row
BY RowsTyped DEF TypeOK, WholeRows

-----------------------------------------------------------------------------
(* Type correctness, with where a run is and what it has done by then.       *)

Places ==
  /\ run = count["run"]
  /\ at # "idle" => run \in Run
  /\ at = "receive" => task.engine = "tcp"
  /\ control # None => count["signal"] > 0
  /\ \A n \in Run : Unfinished(n) => result[n] = None
  /\ \A n \in Run : Unfinished(n) /\ ~(n = run /\ at = "insert") => answer[n] = {}
  /\ at = "insert" => /\ answer[run] # {} /\ todo \cap tx = {}
                      /\ Holding => exists
  /\ IsFiniteSet(tx) /\ IsFiniteSet(table)

Typed == TypeOK /\ Places

LEMMA RunTyped ==
  ASSUME Typed
  PROVE  /\ Bound["run"] \in Nat /\ Run = 1 .. Bound["run"]
         /\ run \in Nat
         /\ at # "idle" => run \in Run /\ result[run] = None
         /\ count \in [Event -> Nat]
<1>1. "run" \in Event
  BY DEF Event
<1>2. Bound["run"] \in Nat /\ Run = 1 .. Bound["run"] /\ run \in Nat
  BY <1>1, BoundAssumption DEF Run, Typed, TypeOK
<1> QED
  BY <1>2 DEF Typed, TypeOK, Places, Unfinished

LEMMA InitTyped == Init => Typed
<1> SUFFICES ASSUME Init PROVE Typed
  OBVIOUS
<1>1. "run" \in Event /\ Bound["run"] \in Nat
  BY BoundAssumption DEF Event
<1>2. ok \in BOOLEAN /\ exists \in BOOLEAN
  BY Zenon DEF Init
<1>3. IsFiniteSet({})
  BY FS_EmptySet
<1>4. TypeOK
  BY <1>1, <1>2 DEF Init, TypeOK, Place, Run
<1>5. Places
  BY <1>1, <1>3 DEF Init, Places, Unfinished, Run
<1> QED
  BY <1>4, <1>5 DEF Typed

(* The engine stays where it is.                                            *)
LEMMA StayTyped ==
  ASSUME Typed,
         UNCHANGED <<task, at, run, reply, ok, todo, tx, result, answer, points,
                     troubled, unmeasured>>,
         source' \in SUBSET Doc, control' \in Signal \cup {None},
         exists' \in BOOLEAN, table' \subseteq table, ~exists' => table' = {},
         Holding => exists', spared' \in SUBSET Run,
         count' \in [Event -> Nat], count'["run"] = count["run"],
         control' # None => count'["signal"] > 0
  PROVE  Typed'
<1>1. TypeOK'
  BY DEF Typed, TypeOK
<1>2. IsFiniteSet(table')
  BY FS_Subset DEF Typed, Places
<1>3. Places'
  BY <1>2 DEF Typed, Places, Unfinished, Holding
<1> QED
  BY <1>1, <1>3 DEF Typed

(* The engine goes on to another place, before anything is inserted.         *)
LEMMA MoveTyped ==
  ASSUME Typed, at \notin {"idle", "insert"},
         UNCHANGED <<task, device, run, todo, tx, result, answer, store>>,
         at' \in Place \ {"idle", "insert"}, at' = "receive" => task.engine = "tcp",
         reply' \in SUBSET Row, ok' \in BOOLEAN,
         points' \in SUBSET [run : Run, ok : BOOLEAN],
         troubled' \in SUBSET Run, unmeasured' \in SUBSET Run,
         \/ UNCHANGED count
         \/ \E e \in Event \ {"run", "clean"} : Happens(e)
  PROVE  Typed'
<1>1. /\ count' \in [Event -> Nat] /\ count'["run"] = count["run"]
      /\ count["signal"] > 0 => count'["signal"] > 0
  BY Counted, RunTyped
<1>2. TypeOK'
  BY <1>1 DEF Typed, TypeOK, device, store
<1>3. Places'
  BY <1>1, RunTyped DEF Typed, Places, Unfinished, Holding, device, store
<1> QED
  BY <1>2, <1>3 DEF Typed

(* A run ends; its answer, if it was not set out to be stored, may be set to  *)
(* be empty, and what was inserted may be committed.                         *)
LEMMA EndTyped ==
  ASSUME Typed, at # "idle", NEW status \in Result, End(status),
         UNCHANGED <<task, device, exists, spared>>,
         reply' \in SUBSET Row, ok' \in BOOLEAN,
         answer' \in [Run -> SUBSET Row],
         \A n \in Run : n # run => answer'[n] = answer[n],
         table' \in SUBSET [row : Row, run : Run], IsFiniteSet(table'),
         ~exists => table' = {},
         points' \in SUBSET [run : Run, ok : BOOLEAN],
         troubled' \in SUBSET Run, unmeasured' \in SUBSET Run,
         \/ UNCHANGED count
         \/ \E e \in Event \ {"run", "clean"} : Happens(e)
  PROVE  Typed'
<1>1. /\ count' \in [Event -> Nat] /\ count'["run"] = count["run"]
      /\ count["signal"] > 0 => count'["signal"] > 0
  BY Counted, RunTyped
<1>2. /\ run \in Run /\ run' = run /\ at' = "idle" /\ todo' = {} /\ tx' = {}
      /\ result' = [result EXCEPT ![run] = status]
      /\ result \in [Run -> Result \cup {None}]
  BY RunTyped DEF End, Typed, TypeOK
<1>3. /\ result' \in [Run -> Result \cup {None}]
      /\ \A n \in Run : n # run => result'[n] = result[n]
  BY <1>2
<1>4. TypeOK'
  BY <1>1, <1>2, <1>3 DEF Typed, TypeOK, device, Place
<1>5. IsFiniteSet(tx')
  BY <1>2, FS_EmptySet
<1>6. Places'
  BY <1>1, <1>2, <1>3, <1>5, RunTyped DEF Typed, Places, Unfinished, device
<1> QED
  BY <1>4, <1>6 DEF Typed

(* The run ends and leaves the tables as they are.                           *)
LEMMA EndQuietTyped ==
  ASSUME Typed, at # "idle", NEW status \in Result, End(status),
         UNCHANGED <<task, device, reply, ok, answer, store>>,
         points' \in SUBSET [run : Run, ok : BOOLEAN],
         troubled' \in SUBSET Run, unmeasured' \in SUBSET Run,
         \/ UNCHANGED count
         \/ \E e \in Event \ {"run", "clean"} : Happens(e)
  PROVE  Typed'
<1>1. /\ reply' \in SUBSET Row /\ ok' \in BOOLEAN /\ answer' \in [Run -> SUBSET Row]
      /\ table' \in SUBSET [row : Row, run : Run] /\ IsFiniteSet(table')
      /\ ~exists => table' = {}
      /\ \A n \in Run : n # run => answer'[n] = answer[n]
      /\ UNCHANGED <<exists, spared>>
  BY DEF Typed, TypeOK, Places, store
<1> QED
  BY <1>1, EndTyped

LEMMA AfterPointTyped ==
  ASSUME Typed, at = "point", AfterPoint,
         UNCHANGED <<task, device, reply, ok, answer, store>>,
         points' \in SUBSET [run : Run, ok : BOOLEAN],
         troubled' \in SUBSET Run, unmeasured' \in SUBSET Run,
         \/ UNCHANGED count
         \/ \E e \in Event \ {"run", "clean"} : Happens(e)
  PROVE  Typed'
<1>1. ASSUME NEW status \in Result, End(status) PROVE Typed'
  BY <1>1, EndQuietTyped
<1>2. CASE at' = "extract" /\ UNCHANGED <<run, todo, tx, result>>
  <2>1. reply' \in SUBSET Row /\ ok' \in BOOLEAN
    BY DEF Typed, TypeOK
  <2> QED
    BY <1>2, <2>1, MoveTyped DEF Place
<1> QED
  BY <1>1, <1>2 DEF AfterPoint, Result

LEMMA ExtractedTyped ==
  ASSUME Typed, NEW rows \in SUBSET Row, Extracted(rows),
         troubled' \in SUBSET Run,
         \/ UNCHANGED count
         \/ \E e \in Event \ {"run", "clean"} : Happens(e)
  PROVE  Typed'
<1>1. /\ at = "extract" /\ run \in Run /\ answer \in [Run -> SUBSET Row]
      /\ answer' = [answer EXCEPT ![run] = rows]
      /\ UNCHANGED <<task, device, reply, ok, table, spared, points, unmeasured>>
      /\ todo = {} /\ tx = {}
  BY RunTyped DEF Extracted, Typed, TypeOK
<1>2. /\ answer' \in [Run -> SUBSET Row] /\ answer'[run] = rows
      /\ \A n \in Run : n # run => answer'[n] = answer[n]
  BY <1>1
<1>3. /\ reply' \in SUBSET Row /\ ok' \in BOOLEAN /\ points' \in SUBSET [run : Run, ok : BOOLEAN]
      /\ unmeasured' \in SUBSET Run
      /\ table' \in SUBSET [row : Row, run : Run] /\ IsFiniteSet(table')
      /\ ~exists => table' = {}
  BY <1>1 DEF Typed, TypeOK, Places
<1>4. CASE rows = {}
  BY <1>1, <1>2, <1>3, <1>4, EndTyped DEF Extracted, Result
<1>5. CASE rows # {}
  <2>1. /\ exists' = TRUE /\ at' = "insert" /\ todo' = rows
        /\ UNCHANGED <<run, tx, result>>
    BY <1>5 DEF Extracted
  <2>2. /\ count' \in [Event -> Nat] /\ count'["run"] = count["run"]
        /\ count["signal"] > 0 => count'["signal"] > 0
    BY Counted, RunTyped
  <2>3. exists' \in BOOLEAN
    BY <2>1, Zenon
  <2>4. TypeOK'
    BY <1>1, <1>2, <1>3, <2>1, <2>2, <2>3 DEF Typed, TypeOK, device, Place
  <2>5. Places'
    BY <1>1, <1>2, <1>3, <1>5, <2>1, <2>2, RunTyped
       DEF Typed, Places, Unfinished, Holding, device
  <2> QED
    BY <2>4, <2>5 DEF Typed
<1> QED
  BY <1>4, <1>5

LEMMA InsertTyped ==
  ASSUME Typed, NEW r \in todo, Insert(r)
  PROVE  Typed'
<1>1. /\ at = "insert" /\ exists /\ run \in Run /\ todo' = todo \ {r}
      /\ tx' \in {tx, tx \cup {r}}
      /\ UNCHANGED <<task, device, at, run, reply, ok, answer, result, store, monitor, count>>
  BY RunTyped DEF Insert
<1>2. IsFiniteSet(tx')
  BY <1>1, FS_AddElement DEF Typed, Places
<1>3. TypeOK'
  BY <1>1 DEF Typed, TypeOK, device, store, monitor
<1>4. Places'
  BY <1>1, <1>2 DEF Typed, Places, Unfinished, Holding, device, store
<1> QED
  BY <1>3, <1>4 DEF Typed

LEMMA CommitTyped == Typed /\ Commit => Typed'
<1> SUFFICES ASSUME Typed, Commit PROVE Typed'
  OBVIOUS
<1> DEFINE new == {[row |-> r, run |-> run] : r \in tx}
<1>1. /\ at = "insert" /\ run \in Run /\ todo = {} /\ End("success")
      /\ table' = table \cup new
      /\ UNCHANGED <<task, device, reply, ok, answer, exists, spared, monitor, count>>
  BY RunTyped DEF Commit
<1>2. tx \subseteq answer[run] /\ answer[run] \subseteq Row /\ answer[run] # {}
  BY <1>1 DEF Typed, TypeOK, Places
<1>3. new \subseteq [row : Row, run : Run]
  BY <1>1, <1>2
<1>4. IsFiniteSet(new)
  <2> DEFINE f == [r \in tx |-> [row |-> r, run |-> run]]
  <2>1. f \in Surjection(tx, new) /\ IsFiniteSet(tx)
    BY DEF Surjection, Typed, Places
  <2> QED
    BY <2>1, FS_Surjection
<1>5. IsFiniteSet(table')
  BY <1>1, <1>4, FS_Union DEF Typed, Places
<1>6. exists
  BY <1>1, <1>2 DEF Typed, Places, Holding
<1> HIDE DEF new
<1> QED
  BY <1>1, <1>3, <1>5, <1>6, EndTyped DEF Typed, TypeOK, monitor, Result

LEMMA CleanTyped == Typed /\ Clean => Typed'
<1> SUFFICES ASSUME Typed, Clean PROVE Typed'
  OBVIOUS
<1>1. /\ Happens("clean")
      /\ UNCHANGED <<task, device, engine, monitor>>
      /\ table' \subseteq table
      /\ spared' \subseteq spared
      /\ exists' \in {exists, FALSE}
      /\ exists' # exists => table' = {} /\ ~Holding
  BY DEF Clean, Truncate, Drop, DeleteByDays, DeleteByCount
<1>2. /\ count' \in [Event -> Nat] /\ count'["run"] = count["run"]
      /\ count'["signal"] = count["signal"]
  <2>1. "clean" \in Event /\ "run" \in Event /\ "signal" \in Event
    BY DEF Event
  <2> QED
    BY <1>1, <2>1, Happened, RunTyped
<1>3. exists' \in BOOLEAN
  <2>1. exists \in BOOLEAN
    BY DEF Typed, TypeOK
  <2> QED
    BY <1>1, <2>1, Zenon
<1>4. ~exists => table = {}
  BY DEF Typed, TypeOK
<1>5. /\ source \in SUBSET Doc /\ control \in Signal \cup {None} /\ spared \in SUBSET Run
      /\ control # None => count["signal"] > 0
  BY DEF Typed, TypeOK, Places
<1>6. Holding => exists
  BY DEF Typed, Places, Holding
<1> QED
  BY <1>1, <1>2, <1>3, <1>4, <1>5, <1>6, StayTyped DEF device, engine, monitor

LEMMA StepTyped == Typed /\ [Next]_vars => Typed'
<1> SUFFICES ASSUME Typed, [Next]_vars PROVE Typed'
  OBVIOUS
<1>1. /\ count \in [Event -> Nat] /\ run \in Nat /\ Bound["run"] \in Nat
      /\ Run = 1 .. Bound["run"]
      /\ at # "idle" => run \in Run
      /\ {"signal", "change", "fault", "influx"} \subseteq Event \ {"run", "clean"}
      /\ {"run", "clean"} \subseteq Event
  BY RunTyped DEF Event
<1>2. /\ source \in SUBSET Doc /\ control \in Signal \cup {None} /\ exists \in BOOLEAN
      /\ ~exists => table = {}
      /\ spared \in SUBSET Run /\ reply \in SUBSET Row /\ ok \in BOOLEAN
      /\ points \in SUBSET [run : Run, ok : BOOLEAN] /\ troubled \in SUBSET Run
      /\ unmeasured \in SUBSET Run
      /\ TRUE \in BOOLEAN /\ FALSE \in BOOLEAN
      /\ control # None => count["signal"] > 0
      /\ Holding => exists
  BY DEF Typed, TypeOK, Places, Holding
<1>3. WholeRows \in SUBSET Row /\ Part(None) \in Row
  BY WholeRowsTyped, RowsTyped DEF Typed
<1>4. CASE UNCHANGED vars
  BY <1>1, <1>2, <1>4, StayTyped DEF vars, device, engine, store, monitor
<1>5. ASSUME NEW S \in SUBSET Doc, Change(S) PROVE Typed'
  <2>1. /\ count' \in [Event -> Nat] /\ count'["run"] = count["run"]
        /\ count["signal"] > 0 => count'["signal"] > 0
    BY <1>1, <1>5, Counted DEF Change
  <2> QED
    BY <1>2, <1>5, <2>1, StayTyped DEF Change, engine, store, monitor
<1>6. ASSUME NEW s \in Signal, SendSignal(s) PROVE Typed'
  <2>1. /\ count' \in [Event -> Nat] /\ count'["run"] = count["run"] /\ count'["signal"] > 0
    <3>1. Happens("signal")
      BY <1>6 DEF SendSignal
    <3> QED
      BY <1>1, <3>1, Happened
  <2> QED
    BY <1>2, <1>6, <2>1, StayTyped DEF SendSignal, engine, store, monitor
<1>7. CASE ControlExpires
  BY <1>1, <1>2, <1>7, StayTyped DEF ControlExpires, engine, store, monitor
<1>8. ASSUME NEW c \in Signal \cup {None}, StartRun(c) PROVE Typed'
  <2>1. /\ Happens("run") /\ at = "idle" /\ control' \in {control, None} /\ control' = c
        /\ run' = run + 1 /\ at' = "start" /\ reply' = {} /\ ok' = FALSE
        /\ UNCHANGED <<task, source, todo, tx, answer, result, store, monitor>>
    BY <1>8 DEF StartRun
  <2>2. /\ count' \in [Event -> Nat] /\ count'["run"] = run + 1 /\ run + 1 \in Run
        /\ count'["signal"] = count["signal"]
    <3>1. run = count["run"]
      BY DEF Typed, Places
    <3>2. /\ count' \in [Event -> Nat]
          /\ count["run"] < Bound["run"] /\ count'["run"] = count["run"] + 1
          /\ \A f \in Event : f # "run" => count'[f] = count[f]
      BY <1>1, <2>1, Happened
    <3>3. "signal" \in Event /\ "signal" # "run"
      BY <1>1
    <3>4. run + 1 \in 1 .. Bound["run"]
      BY <1>1, <3>1, <3>2
    <3> QED
      BY <1>1, <3>1, <3>2, <3>3, <3>4
  <2>3. TypeOK'
    <3>1. ok' \in BOOLEAN
      BY <2>1, Zenon
    <3>2. run' \in 0 .. Bound["run"] /\ control' \in Signal \cup {None} /\ at' \in Place
      BY <1>1, <1>2, <2>1, <2>2 DEF Place
    <3>3. /\ todo' = {} /\ tx' = {}
          /\ UNCHANGED <<task, source, exists, table, points, result, answer, troubled,
                         unmeasured, spared>>
      BY <2>1 DEF Typed, TypeOK, store, monitor
    <3> QED
      BY <2>1, <2>2, <3>1, <3>2, <3>3 DEF Typed, TypeOK
  <2>4. Places'
    <3>1. /\ \A n \in Run : n > run => result[n] = None /\ answer[n] = {}
          /\ IsFiniteSet(tx) /\ IsFiniteSet(table)
          /\ control # None => count["signal"] > 0
      <4>1. /\ \A n \in Run : Unfinished(n) => result[n] = None
            /\ \A n \in Run : Unfinished(n) /\ ~(n = run /\ at = "insert") => answer[n] = {}
            /\ IsFiniteSet(tx) /\ IsFiniteSet(table)
            /\ control # None => count["signal"] > 0
        BY DEF Typed, Places
      <4>2. \A n \in Run : n > run => Unfinished(n) /\ ~(n = run /\ at = "insert")
        BY <1>1 DEF Unfinished
      <4> QED
        BY <4>1, <4>2
    <3>2. \A n \in Run : n > run' \/ (n = run' /\ at' # "idle") => n > run
      BY <1>1, <2>1
    <3>3. UNCHANGED <<result, answer, tx, table>>
      BY <2>1 DEF store
    <3>4. /\ \A n \in Run : Unfinished(n)' => result'[n] = None /\ answer'[n] = {}
          /\ IsFiniteSet(tx') /\ IsFiniteSet(table')
      BY <3>1, <3>2, <3>3 DEF Unfinished
    <3>5. control' # None => count'["signal"] > 0
      BY <2>1, <2>2, <3>1
    <3>6. run' \in Run /\ run' = count'["run"] /\ at' = "start"
      BY <2>1, <2>2
    <3> QED
      BY <3>4, <3>5, <3>6 DEF Places
  <2> QED
    BY <2>3, <2>4 DEF Typed
<1>9. CASE Interrupt \/ InsertFails \/ Fail
  BY <1>1, <1>2, <1>9, EndQuietTyped DEF Interrupt, InsertFails, Fail, monitor, Result
<1>10. CASE Start
  BY <1>1, <1>2, <1>10, MoveTyped DEF Start, Place, store, monitor
<1>11. CASE Request
  BY <1>1, <1>2, <1>3, <1>11, MoveTyped DEF Request, Answered, Place, monitor
<1>12. CASE RequestFails
  BY <1>1, <1>2, <1>12, MoveTyped DEF RequestFails, Answered, Place
<1>13. CASE Receive \/ ReceiveInterrupted
  BY <1>1, <1>2, <1>3, <1>13, MoveTyped DEF Receive, ReceiveInterrupted, Answered, Place, monitor
<1>14. CASE ReceiveCut
  BY <1>1, <1>2, <1>3, <1>14, MoveTyped DEF ReceiveCut, Answered, Place
<1>15. CASE Point
  <2>1. points' \in SUBSET [run : Run, ok : BOOLEAN]
    BY <1>1, <1>2, <1>15 DEF Point, Measured
  <2> QED
    BY <1>2, <1>15, <2>1, AfterPointTyped DEF Point
<1>16. CASE PointFails
  BY <1>1, <1>2, <1>16, AfterPointTyped DEF PointFails
<1>17. CASE Extract
  BY <1>2, <1>3, <1>17, ExtractedTyped DEF Extract
<1>18. ASSUME NEW parts \in SUBSET Doc, NEW missing \in SUBSET Doc, ExtractBroken(parts, missing)
       PROVE  Typed'
  <2> DEFINE rows == {Whole(d) : d \in source \ (parts \cup missing)} \cup
                     {Part(d)  : d \in (source \cap parts) \ missing}
  <2>1. rows \in SUBSET Row
    BY <1>2, RowsTyped
  <2>2. /\ Extracted(rows) /\ Happens("fault") /\ troubled' = troubled \cup {run}
        /\ at = "extract"
    BY <1>18 DEF ExtractBroken, Extracted
  <2> HIDE DEF rows
  <2> QED
    BY <1>1, <1>2, <2>1, <2>2, ExtractedTyped
<1>19. ASSUME NEW r \in todo, Insert(r) PROVE Typed'
  BY <1>19, InsertTyped
<1>20. CASE Commit
  BY <1>20, CommitTyped
<1>21. CASE Clean
  BY <1>21, CleanTyped
<1> QED
  BY <1>4, <1>5, <1>6, <1>7, <1>8, <1>9, <1>10, <1>11, <1>12, <1>13, <1>14, <1>15, <1>16,
     <1>17, <1>18, <1>19, <1>20, <1>21 DEF Next, Worker

(* Every variable has its type; in particular a transaction is open only     *)
(* while rows are inserted and holds rows of the answer, and a table that     *)
(* does not exist has no rows, whatever is dropped while a run goes on.      *)
THEOREM Typing == Spec => []TypeOK
<1>1. Typed => TypeOK
  BY DEF Typed
<1> QED
  BY <1>1, InitTyped, StepTyped, PTL DEF Spec

-----------------------------------------------------------------------------
(* An answer is stored whole or not at all.                                  *)

(* Where ids are random each run has a row of its own; where they are hashes *)
(* any run's will do.                                                       *)
InTable(r, n) == \E x \in table : x.row = r /\ (HashesIds \/ x.run = n)

Stored ==
  /\ \A x \in table : result[x.run] = "success"
  /\ at = "insert" /\ (~HashesIds \/ count["clean"] = 0) =>
       \A r \in answer[run] : r \in todo \cup tx \/ (HashesIds /\ InTable(r, run))
  /\ \A n \in Run : result[n] = "success" /\ Kept(n) =>
       \A r \in answer[n] : InTable(r, n)

LEMMA StoredIsAllOrNothing == Stored => AllOrNothing
BY DEF Stored, InTable, AllOrNothing

(* The steps that neither end a run nor touch its rows or the table.         *)
LEMMA StayStored ==
  ASSUME Typed, Stored,
         UNCHANGED <<task, table, spared, result, answer>>,
         count'["clean"] = count["clean"],
         at' = "insert" => UNCHANGED <<at, run, todo, tx>>
  PROVE  Stored'
<1>1. \A r, n : InTable(r, n)' <=> InTable(r, n)
  BY DEF InTable, HashesIds
<1>2. \A n : Kept(n)' <=> Kept(n)
  BY DEF Kept, HashesIds
<1> QED
  BY <1>1, <1>2 DEF Stored, HashesIds

(* A run ends that has stored nothing, because it failed or had nothing.     *)
LEMMA EndStored ==
  ASSUME Typed, Stored, at # "idle", NEW status \in Result, End(status),
         UNCHANGED <<task, table, spared>>,
         \A n \in Run : n # run => answer'[n] = answer[n],
         status = "success" => answer'[run] = {},
         count'["clean"] = count["clean"]
  PROVE  Stored'
<1>1. /\ run \in Run /\ result[run] = None /\ at' = "idle"
      /\ result' = [result EXCEPT ![run] = status]
      /\ result \in [Run -> Result \cup {None}]
      /\ table \in SUBSET [row : Row, run : Run]
  BY RunTyped DEF End, Typed, TypeOK
<1>2. /\ result'[run] = status
      /\ \A n \in Run : n # run => result'[n] = result[n]
  BY <1>1
<1>3. \A r, n : InTable(r, n)' <=> InTable(r, n)
  BY DEF InTable, HashesIds
<1>4. \A n : Kept(n)' <=> Kept(n)
  BY DEF Kept, HashesIds
<1>5. \A x \in table : result'[x.run] = "success"
  <2> TAKE x \in table
  <2>1. x.run \in Run /\ result[x.run] = "success"
    BY <1>1 DEF Stored
  <2>2. x.run # run
    BY <1>1, <2>1 DEF None
  <2> QED
    BY <1>2, <2>1, <2>2
<1>6. ASSUME NEW n \in Run, result'[n] = "success", Kept(n)', NEW r \in answer'[n]
      PROVE  InTable(r, n)'
  <2>1. n # run
    BY <1>2, <1>6
  <2> QED
    BY <1>2, <1>3, <1>4, <1>6, <2>1 DEF Stored
<1> QED
  BY <1>1, <1>5, <1>6 DEF Stored

LEMMA AfterPointStored ==
  ASSUME Typed, Stored, at = "point", AfterPoint,
         UNCHANGED <<task, answer, store>>, count'["clean"] = count["clean"]
  PROVE  Stored'
<1>1. run \in Run /\ answer[run] = {}
  BY RunTyped DEF Typed, Places, Unfinished
<1>2. ASSUME NEW status \in Result, End(status) PROVE Stored'
  BY <1>1, <1>2, EndStored DEF store
<1>3. CASE at' = "extract" /\ UNCHANGED <<run, todo, tx, result>>
  BY <1>3, StayStored DEF store
<1> QED
  BY <1>2, <1>3 DEF AfterPoint, Result

LEMMA ExtractedStored ==
  ASSUME Typed, Stored, NEW rows \in SUBSET Row, Extracted(rows),
         count'["clean"] = count["clean"]
  PROVE  Stored'
<1>1. /\ at = "extract" /\ run \in Run /\ answer \in [Run -> SUBSET Row]
      /\ result[run] = None
      /\ answer' = [answer EXCEPT ![run] = rows]
      /\ UNCHANGED <<task, table, spared>>
  BY RunTyped DEF Extracted, Typed, TypeOK
<1>2. /\ answer'[run] = rows
      /\ \A n \in Run : n # run => answer'[n] = answer[n]
  BY <1>1
<1>3. CASE rows = {}
  BY <1>1, <1>2, <1>3, EndStored DEF Extracted, Result
<1>4. CASE rows # {}
  <2>1. /\ at' = "insert" /\ todo' = rows /\ run' = run /\ result' = result
    BY <1>4 DEF Extracted
  <2>2. \A r, n : InTable(r, n)' <=> InTable(r, n)
    BY <1>1 DEF InTable, HashesIds
  <2>3. \A n : Kept(n)' <=> Kept(n)
    BY <1>1 DEF Kept, HashesIds
  <2>4. \A n \in Run : result'[n] = "success" => n # run
    BY <1>1, <2>1 DEF None
  <2> QED
    BY <1>1, <1>2, <2>1, <2>2, <2>3, <2>4 DEF Stored, HashesIds
<1> QED
  BY <1>3, <1>4

LEMMA InsertStored ==
  ASSUME Typed, Stored, NEW r \in todo, Insert(r)
  PROVE  Stored'
<1>1. /\ at = "insert" /\ todo' = todo \ {r}
      /\ tx' = IF HashesIds /\ r \in {x.row : x \in table} THEN tx ELSE tx \cup {r}
      /\ UNCHANGED <<task, at, run, answer, result, table, spared, count>>
  BY DEF Insert, store
<1>2. \A s, n : InTable(s, n)' <=> InTable(s, n)
  BY <1>1 DEF InTable, HashesIds
<1>3. \A n : Kept(n)' <=> Kept(n)
  BY <1>1 DEF Kept, HashesIds
<1>4. r \in tx' \/ (HashesIds /\ InTable(r, run))
  BY <1>1 DEF InTable
<1>5. ASSUME NEW s, s \in todo \cup tx \/ (HashesIds /\ InTable(s, run))
      PROVE  s \in todo' \cup tx' \/ (HashesIds /\ InTable(s, run))
  BY <1>1, <1>4, <1>5
<1> QED
  BY <1>1, <1>2, <1>3, <1>5 DEF Stored, HashesIds

LEMMA CommitStored == Typed /\ Stored /\ Commit => Stored'
<1> SUFFICES ASSUME Typed, Stored, Commit PROVE Stored'
  OBVIOUS
<1> DEFINE new == {[row |-> r, run |-> run] : r \in tx}
<1>1. /\ at = "insert" /\ run \in Run /\ todo = {} /\ at' = "idle"
      /\ result' = [result EXCEPT ![run] = "success"]
      /\ result \in [Run -> Result \cup {None}]
      /\ table' = table \cup new /\ table \in SUBSET [row : Row, run : Run]
      /\ UNCHANGED <<task, answer, spared, count, run>>
  BY RunTyped DEF Commit, End, Typed, TypeOK
<1>2. /\ result'[run] = "success"
      /\ \A n \in Run : n # run => result'[n] = result[n]
  BY <1>1
<1>3. \A x \in new : x.run = run
  OBVIOUS
<1>4. \A r \in tx : InTable(r, run)'
  <2> TAKE r \in tx
  <2>1. [row |-> r, run |-> run] \in table'
    BY <1>1
  <2> QED
    BY <1>1, <2>1 DEF InTable
<1>5. \A r, n : InTable(r, n) => InTable(r, n)'
  BY <1>1 DEF InTable, HashesIds
<1> HIDE DEF new
<1>6. \A n : Kept(n)' <=> Kept(n)
  BY <1>1 DEF Kept, HashesIds
<1>7. \A x \in table' : result'[x.run] = "success"
  BY <1>1, <1>2, <1>3 DEF Stored
<1>8. ASSUME NEW n \in Run, result'[n] = "success", Kept(n)', NEW r \in answer'[n]
      PROVE  InTable(r, n)'
  <2>1. CASE n = run
    <3>1. ~HashesIds \/ count["clean"] = 0
      BY <1>6, <1>8 DEF Kept
    <3>2. r \in answer[run]
      BY <1>1, <1>8, <2>1
    <3>3. r \in tx \/ InTable(r, run)
      BY <1>1, <3>1, <3>2 DEF Stored
    <3> QED
      BY <1>1, <1>4, <1>5, <2>1, <3>3
  <2>2. CASE n # run
    BY <1>1, <1>2, <1>5, <1>6, <1>8, <2>2 DEF Stored
  <2> QED
    BY <2>1, <2>2
<1> QED
  BY <1>1, <1>7, <1>8 DEF Stored

-----------------------------------------------------------------------------
(* What a cleaning promises to spare is still there.                         *)

(* Among the newest rows, as many as are kept, are all rows of a run if      *)
(* there are no more of it and of those after it.                           *)
LEMMA NewestKept ==
  ASSUME IsFiniteSet(table), NEW keep \in Nat, NEW kept \in SUBSET table,
         table \in SUBSET [row : Row, run : Run],
         Cardinality(kept) = keep,
         \A x \in kept, y \in table \ kept : x.run >= y.run,
         NEW n \in Run, Cardinality({x \in table : x.run >= n}) <= keep,
         NEW z \in table, z.run = n
  PROVE  z \in kept
<1> DEFINE N == {x \in table : x.run >= n}
<1> SUFFICES ASSUME z \notin kept PROVE FALSE
  OBVIOUS
<1>1. n \in Nat
  BY DEF Run
<1>2. kept \subseteq N /\ z \in N
  BY <1>1
<1>3. IsFiniteSet(N) /\ IsFiniteSet(kept)
  BY FS_Subset
<1>4. Cardinality(N) \in Nat /\ Cardinality(kept) <= Cardinality(N)
  BY <1>2, <1>3, FS_Subset, FS_CardinalityType
<1>5. Cardinality(N) = Cardinality(kept)
  BY <1>4
<1>6. N = kept
  BY <1>2, <1>3, <1>5, FS_Subset
<1> QED
  BY <1>2, <1>6

(* The rows of a run that is spared.                                         *)
LEMMA CleanSpares ==
  ASSUME Typed, Stored, Clean, NEW n \in Run, n \in spared', result[n] = "success",
         NEW z \in table, z.run = n
  PROVE  n \in spared /\ z \in table'
<1>1. ~Unfinished(n)
  BY DEF Typed, Places, None
<1>2. n \in Nat
  BY DEF Run
<1>3. CASE Truncate \/ Drop
  BY <1>1, <1>3 DEF Truncate, Drop
<1>4. ASSUME NEW cutoff \in 1 .. run + 1, DeleteByDays(cutoff) PROVE n \in spared /\ z \in table'
  BY <1>4 DEF DeleteByDays
<1>5. ASSUME NEW keep \in 0 .. Cardinality(table), DeleteByCount(keep)
      PROVE  n \in spared /\ z \in table'
  <2>1. PICK kept \in SUBSET table :
          /\ Cardinality(kept) = keep
          /\ \A x \in kept, y \in table \ kept : x.run >= y.run
          /\ table' = kept
    BY <1>5 DEF DeleteByCount
  <2>2. n \in spared /\ Cardinality({x \in table : x.run >= n}) <= keep /\ keep \in Nat
    BY <1>5 DEF DeleteByCount
  <2>3. IsFiniteSet(table) /\ table \in SUBSET [row : Row, run : Run]
    BY DEF Typed, TypeOK, Places
  <2>4. z \in kept
    BY <2>1, <2>2, <2>3, NewestKept
  <2> QED
    BY <2>1, <2>2, <2>4
<1> QED
  BY <1>3, <1>4, <1>5 DEF Clean

LEMMA CleanStored == Typed /\ Stored /\ Clean => Stored'
<1> SUFFICES ASSUME Typed, Stored, Clean PROVE Stored'
  OBVIOUS
<1>1. /\ Happens("clean")
      /\ UNCHANGED <<task, at, run, todo, tx, result, answer>>
      /\ table' \subseteq table
  BY DEF Clean, Truncate, Drop, DeleteByDays, DeleteByCount, engine
<1>2. count'["clean"] # 0
  <2>1. "clean" \in Event /\ count \in [Event -> Nat]
    BY RunTyped DEF Event
  <2>2. count["clean"] \in Nat /\ count'["clean"] = count["clean"] + 1
    BY <1>1, <2>1, Happened
  <2> QED
    BY <2>2
<1>3. ASSUME NEW n \in Run, result'[n] = "success", Kept(n)', NEW r \in answer'[n]
      PROVE  InTable(r, n)'
  <2>1. ~HashesIds /\ n \in spared' /\ result[n] = "success" /\ r \in answer[n]
    BY <1>1, <1>2, <1>3 DEF Kept, HashesIds
  <2>2. n \in spared
    <3>1. ~Unfinished(n)
      BY <2>1 DEF Typed, Places, None
    <3> QED
      BY <2>1, <3>1 DEF Clean, Truncate, Drop, DeleteByDays, DeleteByCount
  <2>3. PICK z \in table : z.row = r /\ z.run = n
    BY <2>1, <2>2 DEF Stored, Kept, InTable
  <2>4. z \in table'
    BY <2>1, <2>3, CleanSpares
  <2> QED
    BY <2>3, <2>4 DEF InTable
<1>4. at' = "insert" /\ (~HashesIds' \/ count'["clean"] = 0) =>
        \A r \in answer'[run'] : r \in todo' \cup tx' \/ (HashesIds' /\ InTable(r, run)')
  BY <1>1, <1>2 DEF Stored, HashesIds
<1> QED
  BY <1>1, <1>3, <1>4 DEF Stored

LEMMA StepStored == Typed /\ Stored /\ [Next]_vars => Stored'
<1> SUFFICES ASSUME Typed, Stored, [Next]_vars PROVE Stored'
  OBVIOUS
<1>1. /\ count \in [Event -> Nat] /\ {"run", "clean"} \subseteq Event
      /\ {"signal", "change", "fault", "influx"} \subseteq Event \ {"run", "clean"}
  BY RunTyped DEF Event
<1>2. ASSUME \/ UNCHANGED count
             \/ \E e \in Event \ {"clean"} : Happens(e)
      PROVE  count'["clean"] = count["clean"]
  BY <1>1, <1>2, Happened
<1>3. CASE UNCHANGED vars
  BY <1>2, <1>3, StayStored DEF vars, engine, store
<1>4. ASSUME NEW S \in SUBSET Doc, Change(S) PROVE Stored'
  BY <1>1, <1>2, <1>4, StayStored DEF Change, engine, store
<1>5. ASSUME NEW s \in Signal, SendSignal(s) PROVE Stored'
  BY <1>1, <1>2, <1>5, StayStored DEF SendSignal, engine, store
<1>6. CASE ControlExpires
  BY <1>2, <1>6, StayStored DEF ControlExpires, engine, store
<1>7. ASSUME NEW c \in Signal \cup {None}, StartRun(c) PROVE Stored'
  BY <1>1, <1>2, <1>7, StayStored DEF StartRun, store
<1>8. CASE Interrupt \/ InsertFails \/ Fail
  BY <1>1, <1>2, <1>8, EndStored DEF Interrupt, InsertFails, Fail, store, Result
<1>9. CASE Start
  BY <1>2, <1>9, StayStored DEF Start, store
<1>10. CASE Request \/ Receive \/ ReceiveInterrupted
  BY <1>2, <1>10, StayStored DEF Request, Receive, ReceiveInterrupted, Answered, store
<1>11. CASE RequestFails \/ ReceiveCut
  BY <1>1, <1>2, <1>11, StayStored DEF RequestFails, ReceiveCut, Answered, store
<1>12. CASE Point \/ PointFails
  BY <1>1, <1>2, <1>12, AfterPointStored DEF Point, PointFails
<1>13. CASE Extract
  <2>1. WholeRows \in SUBSET Row /\ reply \in SUBSET Row
    BY WholeRowsTyped DEF Typed, TypeOK
  <2> QED
    BY <1>2, <1>13, <2>1, ExtractedStored DEF Extract
<1>14. ASSUME NEW parts \in SUBSET Doc, NEW missing \in SUBSET Doc, ExtractBroken(parts, missing)
       PROVE  Stored'
  <2> DEFINE rows == {Whole(d) : d \in source \ (parts \cup missing)} \cup
                     {Part(d)  : d \in (source \cap parts) \ missing}
  <2>1. rows \in SUBSET Row
    BY RowsTyped DEF Typed, TypeOK
  <2>2. Extracted(rows) /\ Happens("fault")
    BY <1>14 DEF ExtractBroken
  <2> HIDE DEF rows
  <2> QED
    BY <1>1, <1>2, <2>1, <2>2, ExtractedStored
<1>15. ASSUME NEW r \in todo, Insert(r) PROVE Stored'
  BY <1>15, InsertStored
<1>16. CASE Commit
  BY <1>16, CommitStored
<1>17. CASE Clean
  BY <1>17, CleanStored
<1> QED
  BY <1>3, <1>4, <1>5, <1>6, <1>7, <1>8, <1>9, <1>10, <1>11, <1>12, <1>13, <1>14, <1>15,
     <1>16, <1>17 DEF Next, Worker

(* Whatever fails, is signalled or cleaned while a run goes on, the table     *)
(* has rows of successful runs only, and all of those that no cleaning may   *)
(* have taken.                                                              *)
THEOREM Whole_or_not_at_all == Spec => []AllOrNothing
<1>1. Init => Stored
  BY DEF Init, Stored, None
<1> QED
  BY <1>1, InitTyped, StepTyped, StepStored, StoredIsAllOrNothing, PTL DEF Spec

-----------------------------------------------------------------------------
(* What the measurement says.                                               *)

(* Why a request may have failed.                                            *)
Excused(n) == n \in troubled \/ (task.engine = "tcp" /\ count["signal"] > 0)

HasPoint(n) == \E p \in points : p.run = n

Told ==
  /\ at = "point" /\ ~ok => Excused(run)
  /\ \A p \in points : ~p.ok =>
       /\ Excused(p.run)
       /\ task.engine # "snmp" => result[p.run] = "failed"
  /\ at \in {"extract", "insert"} /\ Measures /\ run \notin unmeasured => HasPoint(run)
  /\ \A n \in Run : result[n] = "success" /\ Measures /\ n \notin unmeasured => HasPoint(n)

LEMMA ToldIsPointsTell == Told => PointsTell
BY DEF Told, Excused, HasPoint, PointsTell

LEMMA ExcuseStays ==
  ASSUME UNCHANGED task, troubled \subseteq troubled',
         count["signal"] > 0 => count'["signal"] > 0, NEW n, Excused(n)
  PROVE  Excused(n)'
BY DEF Excused

(* No run ends and no point is written; the engine may go on with what its   *)
(* point is due to.                                                         *)
LEMMA StayTold ==
  ASSUME Typed, Told, UNCHANGED <<task, points, result, unmeasured>>,
         troubled \subseteq troubled',
         count["signal"] > 0 => count'["signal"] > 0,
         at' = "point" => \/ ok'
                          \/ Excused(run)'
                          \/ UNCHANGED <<at, ok, run>>,
         at' \in {"extract", "insert"} =>
           run' = run /\ (at \in {"extract", "insert"} \/ ~Measures)
  PROVE  Told'
<1>1. \A n : Excused(n) => Excused(n)'
  BY ExcuseStays
<1>2. \A n : HasPoint(n)' <=> HasPoint(n)
  BY DEF HasPoint
<1>3. at' = "point" /\ ~ok' => Excused(run)'
  BY <1>1 DEF Told
<1>4. \A p \in points' : ~p.ok =>
        /\ Excused(p.run)'
        /\ task'.engine # "snmp" => result'[p.run] = "failed"
  BY <1>1 DEF Told
<1>5. at' \in {"extract", "insert"} /\ Measures' /\ run' \notin unmeasured' => HasPoint(run)'
  BY <1>2 DEF Told, Measures
<1> QED
  BY <1>2, <1>3, <1>4, <1>5 DEF Told, Measures

(* A run ends whose point has been dealt with.                               *)
LEMMA EndTold ==
  ASSUME Typed, Told, at # "idle", NEW status \in Result, End(status), UNCHANGED task,
         points \subseteq points', troubled \subseteq troubled',
         unmeasured \subseteq unmeasured',
         count["signal"] > 0 => count'["signal"] > 0,
         \A p \in points' \ points : ~p.ok =>
           /\ p.run = run /\ Excused(run)
           /\ task.engine # "snmp" => status = "failed",
         status = "success" /\ Measures /\ run \notin unmeasured' => HasPoint(run)'
  PROVE  Told'
<1>1. \A n : Excused(n) => Excused(n)'
  BY ExcuseStays
<1>2. \A n : HasPoint(n) => HasPoint(n)'
  BY DEF HasPoint
<1>3. /\ run \in Run /\ result[run] = None /\ at' = "idle" /\ run' = run
      /\ result' = [result EXCEPT ![run] = status]
      /\ result \in [Run -> Result \cup {None}]
      /\ points \in SUBSET [run : Run, ok : BOOLEAN]
  BY RunTyped DEF End, Typed, TypeOK
<1>4. /\ result'[run] = status
      /\ \A n \in Run : n # run => result'[n] = result[n]
  BY <1>3
<1>5. ASSUME NEW p \in points', ~p.ok
      PROVE  /\ Excused(p.run)'
             /\ task'.engine # "snmp" => result'[p.run] = "failed"
  <2>1. CASE p \in points
    <3>1. /\ Excused(p.run) /\ p.run \in Run
          /\ task.engine # "snmp" => result[p.run] = "failed"
      BY <1>3, <1>5, <2>1 DEF Told
    <3>2. task.engine # "snmp" => p.run # run
      BY <1>3, <3>1 DEF None
    <3> QED
      BY <1>1, <1>4, <3>1, <3>2
  <2>2. CASE p \notin points
    BY <1>1, <1>4, <1>5, <2>2
  <2> QED
    BY <2>1, <2>2
<1>6. ASSUME NEW n \in Run, result'[n] = "success", Measures', n \notin unmeasured'
      PROVE  HasPoint(n)'
  <2>1. CASE n = run
    <3>1. status = "success" /\ Measures /\ run \notin unmeasured'
      BY <1>4, <1>6, <2>1 DEF Measures
    <3> QED
      BY <1>3, <2>1, <3>1
  <2>2. CASE n # run
    BY <1>2, <1>4, <1>6, <2>2 DEF Told, Measures
  <2> QED
    BY <2>1, <2>2
<1> QED
  BY <1>3, <1>5, <1>6 DEF Told

(* The point is written, or InfluxDB refuses it.                             *)
LEMMA AfterPointTold ==
  ASSUME Typed, Told, at = "point", AfterPoint, UNCHANGED <<task, ok, troubled>>,
         count["signal"] > 0 => count'["signal"] > 0,
         \/ points' = Measured /\ UNCHANGED unmeasured
         \/ UNCHANGED points /\ unmeasured' = unmeasured \cup {run}
  PROVE  Told'
<1> DEFINE new == [run |-> run, ok |-> ok]
<1>1. /\ points \subseteq points' /\ unmeasured \subseteq unmeasured'
      /\ \A p \in points' \ points : p.run = run /\ p.ok = ok
  BY DEF Measured
<1>2. ~ok => Excused(run)
  BY DEF Told
<1>3. ASSUME Measures, run \notin unmeasured' PROVE \E p \in points' : p.run = run
  <2>1. new \in points' /\ new.run = run
    BY <1>3 DEF Measured
  <2> QED
    BY <2>1
<1>4. ASSUME NEW status \in Result, End(status), ~ok /\ task.engine # "snmp" => status = "failed"
      PROVE  Told'
  <2>1. run' = run
    BY <1>4 DEF End
  <2>2. Measures /\ run \notin unmeasured' => HasPoint(run)'
    BY <1>3, <2>1 DEF HasPoint
  <2>3. \A p \in points' \ points : ~p.ok =>
           /\ p.run = run /\ Excused(run)
           /\ task.engine # "snmp" => status = "failed"
    BY <1>1, <1>2, <1>4
  <2> QED
    BY <1>1, <1>4, <2>2, <2>3, EndTold
<1>5. ASSUME at' = "extract", UNCHANGED <<run, todo, tx, result>>,
             ~ok => task.engine = "snmp"
      PROVE  Told'
  <2>1. \A n : Excused(n) => Excused(n)'
    BY ExcuseStays
  <2>2. \A n : HasPoint(n) => HasPoint(n)'
    BY <1>1 DEF HasPoint
  <2>3. Measures' /\ run' \notin unmeasured' => HasPoint(run)'
    BY <1>3, <1>5 DEF HasPoint, Measures
  <2>4. \A p \in points' : ~p.ok =>
          /\ Excused(p.run)'
          /\ task'.engine # "snmp" => result'[p.run] = "failed"
    <3>1. \A p \in points : ~p.ok =>
            /\ Excused(p.run)'
            /\ task.engine # "snmp" => result[p.run] = "failed"
      BY <2>1 DEF Told
    <3>2. \A p \in points' \ points : ~p.ok => Excused(p.run)' /\ task.engine = "snmp"
      <4> SUFFICES ASSUME NEW p \in points' \ points, ~p.ok
                   PROVE  Excused(p.run)' /\ task.engine = "snmp"
        OBVIOUS
      <4>1. p.run = run /\ ~ok
        BY <1>1
      <4> QED
        BY <1>2, <1>5, <2>1, <4>1
    <3> QED
      BY <1>5, <3>1, <3>2
  <2>5. \A n \in Run : result'[n] = "success" /\ Measures' /\ n \notin unmeasured' =>
          HasPoint(n)'
    BY <1>1, <1>5, <2>2 DEF Told, Measures
  <2> QED
    BY <1>5, <2>3, <2>4, <2>5 DEF Told
<1> QED
  BY <1>4, <1>5 DEF AfterPoint, Result

LEMMA StepTold == Typed /\ Told /\ [Next]_vars => Told'
<1> SUFFICES ASSUME Typed, Told, [Next]_vars PROVE Told'
  OBVIOUS
<1>1. /\ count \in [Event -> Nat] /\ {"run", "clean", "signal"} \subseteq Event
      /\ {"signal", "change", "fault", "influx"} \subseteq Event \ {"run", "clean"}
  BY RunTyped DEF Event
<1>2. ASSUME UNCHANGED count \/ \E e \in Event : Happens(e)
      PROVE  count["signal"] > 0 => count'["signal"] > 0
  <2>1. ASSUME NEW e \in Event, Happens(e), count["signal"] > 0 PROVE count'["signal"] > 0
    <3>1. count["signal"] \in Nat
      BY <1>1
    <3>2. CASE e = "signal"
      BY <2>1, <3>1, <3>2, <1>1, Happened
    <3>3. CASE e # "signal"
      BY <2>1, <3>1, <3>3, <1>1, Happened
    <3> QED
      BY <3>2, <3>3
  <2> QED
    BY <1>2, <2>1
<1>3. CASE UNCHANGED vars
  BY <1>2, <1>3, StayTold DEF vars, engine, monitor
<1>4. ASSUME NEW S \in SUBSET Doc, Change(S) PROVE Told'
  BY <1>1, <1>2, <1>4, StayTold DEF Change, engine, monitor
<1>5. ASSUME NEW s \in Signal, SendSignal(s) PROVE Told'
  BY <1>1, <1>2, <1>5, StayTold DEF SendSignal, engine, monitor
<1>6. CASE ControlExpires
  BY <1>2, <1>6, StayTold DEF ControlExpires, engine, monitor
<1>7. ASSUME NEW c \in Signal \cup {None}, StartRun(c) PROVE Told'
  BY <1>1, <1>2, <1>7, StayTold DEF StartRun, monitor
<1>8. CASE Interrupt \/ InsertFails \/ Fail
  <2>1. /\ End("raised") /\ at # "idle" /\ UNCHANGED <<task, monitor>>
        /\ UNCHANGED count \/ Happens("fault")
    BY <1>8 DEF Interrupt, InsertFails, Fail
  <2> QED
    BY <1>1, <1>2, <2>1, EndTold DEF monitor, Result
<1>9. CASE Start
  BY <1>2, <1>9, StayTold DEF Start, monitor
<1>10. CASE Request \/ Receive
  BY <1>2, <1>10, StayTold DEF Request, Receive, Answered, monitor
<1>11. CASE RequestFails \/ ReceiveCut
  <2>1. /\ at' = "point" /\ run' = run /\ troubled' = troubled \cup {run} /\ Happens("fault")
        /\ UNCHANGED <<task, points, result, unmeasured>>
    BY <1>11 DEF RequestFails, ReceiveCut, Answered
  <2>2. Excused(run)'
    BY <2>1 DEF Excused
  <2> QED
    BY <1>1, <1>2, <2>1, <2>2, StayTold
<1>12. CASE ReceiveInterrupted
  <2>1. /\ at' = "point" /\ run' = run /\ control # None /\ at = "receive"
        /\ UNCHANGED <<task, points, result, unmeasured, troubled, count>>
    BY <1>12 DEF ReceiveInterrupted, Answered, monitor
  <2>2. Excused(run)'
    BY <2>1 DEF Excused, Typed, Places
  <2> QED
    BY <2>1, <2>2, StayTold
<1>13. CASE Point \/ PointFails
  BY <1>1, <1>2, <1>13, AfterPointTold DEF Point, PointFails
<1>14. ASSUME NEW rows, Extracted(rows), UNCHANGED task, troubled \subseteq troubled',
              UNCHANGED count \/ Happens("fault")
       PROVE  Told'
  <2>1. /\ at = "extract" /\ UNCHANGED <<points, unmeasured>>
        /\ count["signal"] > 0 => count'["signal"] > 0
    BY <1>1, <1>2, <1>14 DEF Extracted
  <2>2. CASE End("success")
    <3>1. Measures /\ run \notin unmeasured' => HasPoint(run)'
      BY <2>1, <2>2 DEF Told, HasPoint, End
    <3> QED
      BY <1>14, <2>1, <2>2, <3>1, EndTold DEF Result
  <2>3. CASE at' = "insert" /\ UNCHANGED <<run, tx, result>>
    BY <1>14, <2>1, <2>3, StayTold
  <2> QED
    BY <1>14, <2>2, <2>3 DEF Extracted
<1>15. CASE Extract
  BY <1>14, <1>15 DEF Extract, Extracted
<1>16. ASSUME NEW parts \in SUBSET Doc, NEW missing \in SUBSET Doc, ExtractBroken(parts, missing)
       PROVE  Told'
  BY <1>14, <1>16 DEF ExtractBroken, Extracted
<1>17. ASSUME NEW r \in todo, Insert(r) PROVE Told'
  BY <1>2, <1>17, StayTold DEF Insert, monitor
<1>18. CASE Commit
  <2>1. /\ at = "insert" /\ End("success") /\ UNCHANGED <<task, points, unmeasured, troubled, count>>
    BY <1>18 DEF Commit, monitor
  <2>2. Measures /\ run \notin unmeasured' => HasPoint(run)'
    BY <2>1 DEF Told, HasPoint, End
  <2> QED
    BY <2>1, <2>2, EndTold DEF Result
<1>19. CASE Clean
  <2>1. Happens("clean") /\ UNCHANGED <<task, engine, monitor>>
    BY <1>19 DEF Clean, Truncate, Drop, DeleteByDays, DeleteByCount
  <2> QED
    BY <1>1, <1>2, <2>1, StayTold DEF engine, monitor
<1> QED
  BY <1>3, <1>4, <1>5, <1>6, <1>7, <1>8, <1>9, <1>10, <1>11, <1>12, <1>13, <1>15, <1>16,
     <1>17, <1>18, <1>19 DEF Next, Worker

(* A point of a failed request is owed to the device, the network or a stop,  *)
(* its run is no success unless it is one of SNMP, and no successful run      *)
(* lacks a point that InfluxDB would have taken.                             *)
THEOREM Points_tell == Spec => []PointsTell
<1>1. Init => Told
  BY DEF Init, Told, None
<1> QED
  BY <1>1, InitTyped, StepTyped, StepTold, ToldIsPointsTell, PTL DEF Spec
=============================================================================
