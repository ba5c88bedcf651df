------------------------------ MODULE TableCopy ------------------------------
(***************************************************************************)
(* What a table engine of dataflux promises, whatever its source, target and *)
(* transactions: rows are copied above the watermark, each once, and the     *)
(* watermark passes no row that is owed to the target and not in it.        *)
(* IncrementalCopy implements this specification.                          *)
(***************************************************************************)
EXTENDS Naturals

CONSTANT Row    \* the second component is the value the watermark is about

VARIABLES
  source,     \* rows of the source
  owed,       \* rows of the source that no user has skipped and none came late
  copies,     \* how often each row is in the target
  watermark,
  orderly,    \* what is read is in the order of the watermark, and durable
  calm,       \* nobody has moved the watermark
  lost        \* how many records of a watermark were lost

vars == <<source, owed, copies, watermark, orderly, calm, lost>>

Init ==
  /\ source = {} /\ owed = {}
  /\ copies = [r \in Row |-> 0]
  /\ watermark = 0 /\ lost = 0
  /\ orderly \in BOOLEAN /\ calm \in BOOLEAN

(* The rows of S up to the watermark w are in the target.                   *)
Complete(S, w) == \A r \in S : r[2] <= w => copies[r] > 0

(* A row appears; one that is owed is still ahead.                          *)
Appear ==
  /\ \E r \in Row \ source :
       /\ source' = source \cup {r}
       /\ owed' \in {owed, owed \cup {r}}
       /\ orderly /\ r \in owed' => r[2] > watermark
  /\ UNCHANGED <<copies, watermark, orderly, calm, lost>>

(* Rows are committed: one that was there is written again only after the    *)
(* watermark was moved, or once for each that was lost.                     *)
Write ==
  /\ copies' \in [Row -> Nat]
  /\ \A r \in Row : copies'[r] # copies[r] =>
       /\ r \in source /\ copies'[r] > copies[r]
       /\ calm => copies'[r] <= 1 + lost /\ r[2] > watermark
  /\ UNCHANGED <<source, owed, watermark, orderly, calm, lost>>

(* The watermark of a job is recorded.                                     *)
Advance ==
  /\ watermark' \in Nat
  /\ calm => watermark' >= watermark
  /\ orderly => Complete(owed, watermark')
  /\ UNCHANGED <<source, owed, copies, orderly, calm, lost>>

(* It is not.                                                              *)
Lose == lost' = lost + 1 /\ UNCHANGED <<source, owed, copies, watermark, orderly, calm>>

(* A user moves the watermark, and so skips at most what is below, or takes   *)
(* the choice back, and what it skipped is owed again; a breakpoint may be   *)
(* one that is not durable.                                                *)
Disturb ==
  /\ ~calm'
  /\ orderly' \in BOOLEAN /\ (orderly' => orderly)
  /\ watermark' \in Nat
  /\ owed' \subseteq source
  /\ \A r \in owed \ owed' : r[2] <= watermark'
  /\ orderly' => Complete(owed', watermark')
  /\ UNCHANGED <<source, copies, lost>>

Next == Appear \/ Write \/ Advance \/ Lose \/ Disturb

Spec == Init /\ [][Next]_vars

(* What is owed is complete up to the watermark, and nothing is there again   *)
(* but for what was lost.                                                  *)
Promise ==
  /\ owed \subseteq source /\ source \subseteq Row
  /\ copies \in [Row -> Nat] /\ watermark \in Nat /\ lost \in Nat
  /\ orderly => Complete(owed, watermark)
  /\ calm => \A r \in Row : copies[r] <= 1 + lost
=============================================================================
