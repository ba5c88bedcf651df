----------------------------- MODULE FileProofs -----------------------------
(* Proofs about FileCollect, for any files, contents, configurations and     *)
(* bounds: the fast comparison of stamps passes over no change and no        *)
(* missing copy, and type correctness.                                      *)
EXTENDS FileCollect, TLAPS

-----------------------------------------------------------------------------
(* The inductive invariant.                                                *)

InProcess == pc \in {"download", "transfer", "compare", "parse"}

Typed ==
  /\ remote \in [File -> [content : Content, stamp : Nat]]
  /\ local \in [File -> Bytes]
  /\ record \in [File -> [md5 : Bytes, stamp : Nat, parsed : BOOLEAN]]
  /\ todo \in SUBSET (File \X Nat)
  /\ InProcess => current \in File \X Nat \X Bytes \X Bytes
  /\ count \in [Event -> Nat]

(* Stamps that were listed or recorded are of the past: no file will have     *)
(* them again once it has changed.                                          *)
Past ==
  /\ \A f \in File : remote[f].stamp > 0 /\ record[f].stamp <= StampOf(f)
  /\ \A x \in todo : x[2] <= StampOf(x[1])
  /\ InProcess => current[2] <= StampOf(current[1])

(* A job takes a file up once, and no record is of a later stamp than its    *)
(* listing.                                                                *)
Once ==
  /\ \A x, y \in todo : x[1] = y[1] => x = y
  /\ \A x \in todo : record[x[1]].stamp <= x[2]
  /\ InProcess => \A x \in todo : x[1] # current[1]

(* The local copy that a download empties is not one the record vouches for; *)
(* and what is compared is still there.                                     *)
Handled ==
  /\ pc \in {"download", "transfer", "compare"} =>
       record[current[1]].stamp # remote[current[1]].stamp
  /\ pc = "compare" /\ ~raced => local[current[1]] = current[4]

(* What is being read, and then what was downloaded, is what the file has, if *)
(* it still has the stamp that was listed.                                  *)
Fresh ==
  count["cut"] = 0 /\ pc \in {"transfer", "compare"} =>
    (current[2] = remote[current[1]].stamp =>
       current[4] = Whole(remote[current[1]].content))

FileInv == Typed /\ Past /\ Once /\ Handled /\ Fresh /\ StampNamesContent

LEMMA BytesOf ==
  ASSUME NEW c \in Content
  PROVE  Whole(c) \in Bytes /\ Cut(c) \in Bytes
BY DEF Bytes, Whole, Cut

LEMMA InitInv == Init => FileInv
<1> SUFFICES ASSUME Init PROVE FileInv
  OBVIOUS
<1>1. NoFile \in Bytes
  BY DEF Bytes
<1>2. remote \in [File -> [content : Content, stamp : Nat]]
      /\ \A f \in File : remote[f].stamp = 1
  BY ContentAssumption DEF Init
<1>3. record \in [File -> [md5 : Bytes, stamp : Nat, parsed : BOOLEAN]]
      /\ \A f \in File : record[f].stamp = 0
  BY <1>1 DEF Init, NoRecord, Unknown
<1>4. local \in [File -> Bytes] /\ count \in [Event -> Nat]
  BY <1>1 DEF Init
<1>5. Typed
  BY <1>2, <1>3, <1>4 DEF Init, Typed, InProcess
<1>6. Past /\ Once /\ Handled /\ Fresh
  BY <1>2, <1>3 DEF Init, Past, StampOf, Fast, Unknown, Once, Handled, Fresh, InProcess
<1>7. StampNamesContent
  BY <1>2, <1>3 DEF StampNamesContent
<1> QED
  BY <1>5, <1>6, <1>7 DEF FileInv

(* What is recorded and listed is no later than what the file has.          *)
LEMMA StampsOrdered ==
  ASSUME FileInv
  PROVE  /\ \A f \in File : /\ record[f].stamp \in Nat /\ remote[f].stamp \in Nat
                            /\ StampOf(f) \in {remote[f].stamp, 0}
                            /\ record[f].stamp <= remote[f].stamp
         /\ \A x \in todo : /\ x[1] \in File /\ x[2] \in Nat
                            /\ x[2] <= remote[x[1]].stamp
         /\ InProcess => /\ current[1] \in File /\ current[2] \in Nat
                         /\ current[2] <= remote[current[1]].stamp
<1>1. ASSUME NEW f \in File
      PROVE  /\ record[f].stamp \in Nat /\ remote[f].stamp \in Nat
             /\ StampOf(f) \in {remote[f].stamp, 0}
             /\ record[f].stamp <= remote[f].stamp
             /\ \A n \in Nat : n <= StampOf(f) => n <= remote[f].stamp
  <2>1. record[f].stamp \in Nat /\ remote[f].stamp \in Nat
    BY DEF FileInv, Typed
  <2>2. StampOf(f) \in {remote[f].stamp, 0}
    BY DEF StampOf, Fast, Unknown
  <2>3. record[f].stamp <= StampOf(f)
    BY DEF FileInv, Past
  <2> QED
    BY <2>1, <2>2, <2>3
<1>2. \A x \in todo : x[1] \in File /\ x[2] \in Nat /\ x[2] <= StampOf(x[1])
  BY DEF FileInv, Typed, Past
<1>3. InProcess => /\ current[1] \in File /\ current[2] \in Nat
                   /\ current[2] <= StampOf(current[1])
  BY DEF FileInv, Typed, Past
<1> QED
  BY <1>1, <1>2, <1>3

-----------------------------------------------------------------------------
(* Each action preserves it.                                               *)

LEMMA CountTyped ==
  ASSUME count \in [Event -> Nat], NEW e \in Event, Happens(e)
  PROVE  /\ count' \in [Event -> Nat]
         /\ count'["cut"] = 0 => count["cut"] = 0 /\ e # "cut"
BY DEF Happens, Event

LEMMA ChangeInv ==
  ASSUME FileInv, NEW f \in File, NEW c \in Content, Change(f, c)
  PROVE  FileInv'
<1>1. /\ remote' = [remote EXCEPT ![f] = [content |-> c, stamp |-> @.stamp + 1]]
      /\ UNCHANGED <<task, local, record, pc, todo, current, raced>>
      /\ count' \in [Event -> Nat]
      /\ count'["cut"] = 0 => count["cut"] = 0
  <2>1. Happens("change") /\ "change" \in Event /\ "change" # "cut"
    BY DEF Change, Event
  <2>2. /\ count' \in [Event -> Nat]
        /\ count'["cut"] = 0 => count["cut"] = 0
    BY <2>1, CountTyped DEF FileInv, Typed
  <2> QED
    BY <2>2 DEF Change, jobVars, cleanVars
<1>2. /\ remote' \in [File -> [content : Content, stamp : Nat]]
      /\ \A g \in File : /\ remote[g].stamp \in Nat
                         /\ g # f => remote'[g] = remote[g]
      /\ remote'[f].stamp = remote[f].stamp + 1
  BY <1>1 DEF FileInv, Typed
<1>3. Typed'
  BY <1>1, <1>2 DEF FileInv, Typed, InProcess
(* The stamp of f is one nobody has seen.                                   *)
<1>4. /\ record[f].stamp # remote'[f].stamp
      /\ InProcess /\ current[1] = f => current[2] # remote'[f].stamp
  BY <1>2, StampsOrdered
<1>5. ASSUME NEW g \in File
      PROVE  /\ remote'[g].stamp > 0
             /\ \A n \in Nat : n <= StampOf(g) => n <= StampOf(g)'
  <2>1. remote[g].stamp > 0
    BY DEF FileInv, Past
  <2>2. remote'[g].stamp \in Nat /\ remote[g].stamp <= remote'[g].stamp
    BY <1>2
  <2> QED
    BY <1>1, <1>2, <2>1, <2>2 DEF StampOf, Fast, Unknown
<1>6. Past'
  <2>1. \A g \in File : record[g].stamp \in Nat /\ record[g].stamp <= StampOf(g)
    BY StampsOrdered DEF FileInv, Past
  <2>2. \A x \in todo : x[1] \in File /\ x[2] \in Nat /\ x[2] <= StampOf(x[1])
    BY StampsOrdered DEF FileInv, Past
  <2>3. InProcess => /\ current[1] \in File /\ current[2] \in Nat
                     /\ current[2] <= StampOf(current[1])
    BY StampsOrdered DEF FileInv, Past
  <2>4. \A g \in File : remote'[g].stamp > 0 /\ record'[g].stamp <= StampOf(g)'
    BY <1>1, <1>5, <2>1
  <2>5. \A x \in todo' : x[2] <= StampOf(x[1])'
    <3>1. ASSUME NEW x \in todo PROVE x[2] <= StampOf(x[1])'
      <4> DEFINE g == x[1]
      <4>1. g \in File /\ x[2] \in Nat /\ x[2] <= StampOf(g)
        BY <2>2
      <4> HIDE DEF g
      <4>2. x[2] <= StampOf(g)'
        BY <1>5, <4>1
      <4> QED
        BY <4>2 DEF g
    <3> QED
      BY <1>1, <3>1
  <2>6. InProcess => current[2] <= StampOf(current[1])'
    <3> SUFFICES ASSUME InProcess PROVE current[2] <= StampOf(current[1])'
      OBVIOUS
    <3> DEFINE g == current[1]
    <3>1. g \in File /\ current[2] \in Nat /\ current[2] <= StampOf(g) /\ g' = g
      BY <1>1, <2>3
    <3> HIDE DEF g
    <3>2. current[2] <= StampOf(g)'
      BY <1>5, <3>1
    <3> QED
      BY <3>2 DEF g
  <2>7. InProcess' => current'[2] <= StampOf(current[1])'
    BY <1>1, <2>6 DEF InProcess
  <2> QED
    BY <2>4, <2>5, <2>7 DEF Past
<1>7. pc \in {"download", "transfer", "compare"} => InProcess /\ current[1] \in File
  BY StampsOrdered DEF InProcess
<1>8. Once' /\ Handled'
  <2>1. Once'
    BY <1>1 DEF FileInv, Once, InProcess
  <2>2. pc \in {"download", "transfer", "compare"} =>
          record[current[1]].stamp # remote'[current[1]].stamp
    BY <1>2, <1>4, <1>7 DEF FileInv, Handled
  <2>3. pc = "compare" /\ ~raced => local[current[1]] = current[4]
    BY DEF FileInv, Handled
  <2> QED
    BY <1>1, <2>1, <2>2, <2>3 DEF Handled
<1>9. Fresh'
  <2>1. ASSUME count'["cut"] = 0, pc \in {"transfer", "compare"},
               current[2] = remote'[current[1]].stamp
        PROVE  current[4] = Whole(remote'[current[1]].content)
    <3>1. current[1] # f
      BY <1>4, <1>7, <2>1
    <3>2. remote'[current[1]] = remote[current[1]]
      BY <1>2, <1>7, <2>1, <3>1
    <3> QED
      BY <1>1, <2>1, <3>2 DEF FileInv, Fresh
  <2> QED
    BY <1>1, <2>1 DEF Fresh
<1>10. StampNamesContent'
  <2>1. ASSUME count'["cut"] = 0, NEW g \in File,
               record[g].stamp = remote'[g].stamp
        PROVE  /\ record[g].md5 = Whole(remote'[g].content)
               /\ ~raced => local[g] = Whole(remote'[g].content)
    BY <1>1, <1>2, <1>4, <2>1 DEF FileInv, StampNamesContent
  <2> QED
    BY <1>1, <2>1 DEF StampNamesContent
<1> QED
  BY <1>3, <1>6, <1>8, <1>9, <1>10 DEF FileInv

(* The job leaves the server, the records and what they vouch for alone, and *)
(* takes up no file: what holds of the files to be processed holds of those   *)
(* that are left.                                                          *)
LEMMA JobInv ==
  ASSUME FileInv,
         UNCHANGED <<task, remote, record>>,
         local' \in [File -> Bytes],
         raced => raced',
         \A f \in File : record[f].stamp = remote[f].stamp \/ pc' = "compare" =>
                           raced' \/ local'[f] = local[f],
         todo' \subseteq todo,
         (InProcess /\ UNCHANGED <<pc, current>>) \/ ~InProcess',
         count' \in [Event -> Nat],
         count'["cut"] = 0 => count["cut"] = 0
  PROVE  FileInv'
<1>1. Typed'
  BY DEF FileInv, Typed, InProcess
<1>2. Past'
  BY DEF FileInv, Past, StampOf, Fast, InProcess
<1>3. Once'
  BY DEF FileInv, Once, InProcess
<1>4. Handled'
  <2>1. pc' \in {"download", "transfer", "compare"} =>
          /\ InProcess /\ UNCHANGED <<pc, current>> /\ current[1] \in File
    BY StampsOrdered DEF InProcess
  <2> QED
    BY <2>1 DEF FileInv, Handled
<1>5. Fresh'
  BY DEF FileInv, Fresh, InProcess
<1>6. StampNamesContent'
  BY DEF FileInv, StampNamesContent
<1> QED
  BY <1>1, <1>2, <1>3, <1>4, <1>5, <1>6 DEF FileInv

(* The listing takes the stamps of the moment.                              *)
LEMMA ListInv ==
  ASSUME FileInv, NEW S \in SUBSET File, List(S)
  PROVE  FileInv'
<1>1. /\ todo' = {<<f, StampOf(f)>> : f \in S}
      /\ UNCHANGED <<task, remote, local, record, current, raced>>
      /\ pc' = "pick"
  BY DEF List, cleanVars
<1>2. /\ count' \in [Event -> Nat]
      /\ count'["cut"] = 0 => count["cut"] = 0
  <2>1. "fault" \in Event /\ "fault" # "cut"
    BY DEF Event
  <2> QED
    BY <2>1, CountTyped DEF List, FileInv, Typed
<1>3. \A f \in File : StampOf(f) \in Nat /\ record[f].stamp <= StampOf(f)
  BY StampsOrdered DEF FileInv, Past
<1>4. \A x \in todo' : /\ x \in File \X Nat
                       /\ x[2] = StampOf(x[1]) /\ record[x[1]].stamp <= x[2]
  BY <1>1, <1>3
<1>5. \A f : StampOf(f)' = StampOf(f)
  BY <1>1 DEF StampOf, Fast
<1>6. Typed'
  BY <1>1, <1>2, <1>4 DEF FileInv, Typed, InProcess
<1>7. Past'
  <2>1. \A f \in File : record'[f].stamp <= StampOf(f)' /\ remote'[f].stamp > 0
    BY <1>1, <1>3, <1>5 DEF FileInv, Past
  <2>2. \A x \in todo' : x[2] <= StampOf(x[1])'
    BY <1>3, <1>4, <1>5
  <2> QED
    BY <1>1, <2>1, <2>2 DEF Past, InProcess
<1>8. Once' /\ Handled'
  BY <1>1, <1>4 DEF Once, Handled, InProcess
<1>9. Fresh' /\ StampNamesContent'
  BY <1>1, <1>2 DEF FileInv, Fresh, StampNamesContent
<1> QED
  BY <1>6, <1>7, <1>8, <1>9 DEF FileInv

(* A file that is taken is one whose record is of an earlier stamp.          *)
LEMMA TakeInv ==
  ASSUME FileInv, NEW x \in todo, Take(x)
  PROVE  FileInv'
<1>1. /\ todo' = todo \ {x}
      /\ UNCHANGED <<task, remote, local, record, count, raced>>
      /\ pc = "pick"
  BY DEF Take, cleanVars
<1>2. CASE UNCHANGED <<pc, current>>
  BY <1>1, <1>2, JobInv DEF FileInv, Typed, InProcess
<1>3. CASE /\ ~SameStamp(x)
           /\ pc' = "download"
           /\ current' = <<x[1], x[2], record[x[1]].md5, NoFile>>
  <2>1. x[1] \in File /\ x[2] \in Nat /\ x[2] <= remote[x[1]].stamp
    BY StampsOrdered
  <2>2. record[x[1]].md5 \in Bytes /\ NoFile \in Bytes
    BY <2>1 DEF FileInv, Typed, Bytes
  <2>3. Typed'
    BY <1>1, <1>3, <2>1, <2>2 DEF FileInv, Typed, InProcess
  <2>4. Past'
    BY <1>1, <1>3, <2>1 DEF FileInv, Past, StampOf, Fast, InProcess
  <2>5. Once'
    BY <1>1, <1>3 DEF FileInv, Once
  <2>6. Handled'
    <3>1. record[x[1]].stamp \in Nat /\ remote[x[1]].stamp \in Nat
          /\ record[x[1]].stamp <= x[2] /\ remote[x[1]].stamp > 0
      BY <2>1, StampsOrdered DEF FileInv, Once, Past
    <3>2. record[x[1]].stamp # remote[x[1]].stamp
      BY <1>3, <2>1, <3>1 DEF SameStamp, Unknown
    <3> QED
      BY <1>1, <1>3, <3>2 DEF Handled
  <2>7. Fresh' /\ StampNamesContent'
    BY <1>1, <1>3 DEF FileInv, Fresh, StampNamesContent
  <2> QED
    BY <2>3, <2>4, <2>5, <2>6, <2>7 DEF FileInv
<1> QED
  BY <1>2, <1>3 DEF Take

(* A step of a download: b is what is being read, and then what was.         *)
LEMMA DownloadedInv ==
  ASSUME FileInv, NEW b \in Bytes,
         pc \in {"download", "transfer"}, pc' \in {"transfer", "compare"},
         current' = [current EXCEPT ![4] = b],
         local' \in [File -> Bytes], pc' = "compare" => local'[current[1]] = b,
         \A f \in File : f # current[1] => local'[f] = local[f],
         UNCHANGED <<task, remote, record, todo, raced>>,
         count' \in [Event -> Nat],
         count'["cut"] = 0 =>
           /\ count["cut"] = 0
           /\ current[2] = remote[current[1]].stamp =>
                b = Whole(remote[current[1]].content)
  PROVE  FileInv'
<1>1. current \in File \X Nat \X Bytes \X Bytes
  BY DEF FileInv, Typed, InProcess
<1>2. /\ current' \in File \X Nat \X Bytes \X Bytes
      /\ current'[1] = current[1] /\ current'[2] = current[2]
      /\ current'[4] = b
  BY <1>1
<1>3. Typed'
  BY <1>2 DEF FileInv, Typed, InProcess
<1>4. Past'
  BY <1>2 DEF FileInv, Past, StampOf, Fast, InProcess
<1>5. Once' /\ Handled'
  BY <1>2 DEF FileInv, Once, Handled, InProcess
<1>6. Fresh'
  BY <1>2 DEF Fresh
<1>7. StampNamesContent'
  BY DEF FileInv, Handled, StampNamesContent
<1> QED
  BY <1>3, <1>4, <1>5, <1>6, <1>7 DEF FileInv

(* The copy is emptied.                                                     *)
LEMMA OpenInv == FileInv /\ Open => FileInv'
<1> SUFFICES ASSUME FileInv, Open PROVE FileInv'
  OBVIOUS
<1> DEFINE b == Whole(remote[current[1]].content)
<1>1. current[1] \in File
  BY DEF Open, FileInv, Typed, InProcess
<1>2. b \in Bytes /\ NoFile \in Bytes
  BY <1>1, BytesOf DEF FileInv, Typed, Bytes
<1>3. /\ local' \in [File -> Bytes]
      /\ \A f \in File : f # current[1] => local'[f] = local[f]
  BY <1>1, <1>2 DEF Open, FileInv, Typed
<1>4. current' = [current EXCEPT ![4] = b]
  BY DEF Open
<1>5. /\ pc = "download" /\ pc' = "transfer"
      /\ UNCHANGED <<task, remote, record, todo, count, raced>>
  BY DEF Open, cleanVars
<1>6. count \in [Event -> Nat]
  BY DEF FileInv, Typed
<1> HIDE DEF b
<1> QED
  BY <1>2, <1>3, <1>4, <1>5, <1>6, DownloadedInv DEF b

(* Only a file that has changed since can have changed in the meantime.      *)
LEMMA DownloadInv ==
  ASSUME FileInv, NEW b, Download(b)
  PROVE  FileInv'
<1> DEFINE now == Whole(remote[current[1]].content)
<1>1. current[1] \in File /\ current[4] \in Bytes
  BY DEF Download, FileInv, Typed, InProcess
<1>2. b \in Bytes
  <2>1. now \in Bytes /\ Cut(remote[current[1]].content) \in Bytes
    BY <1>1, BytesOf DEF FileInv, Typed
  <2> QED
    BY <1>1, <2>1 DEF Download, Arriving
<1>3. local' = [local EXCEPT ![current[1]] = b] /\ current' = [current EXCEPT ![4] = b]
  BY DEF Download
<1>4. /\ local' \in [File -> Bytes] /\ local'[current[1]] = b
      /\ \A f \in File : f # current[1] => local'[f] = local[f]
  BY <1>1, <1>2, <1>3 DEF FileInv, Typed
<1>5. /\ pc = "transfer" /\ pc' = "compare"
      /\ UNCHANGED <<task, remote, record, todo, count, raced>>
  BY DEF Download, cleanVars
<1>6. ASSUME count["cut"] = 0, current[2] = remote[current[1]].stamp
      PROVE  b = now
  <2>1. current[4] = now
    BY <1>5, <1>6 DEF FileInv, Fresh
  <2> QED
    BY <2>1 DEF Download, Arriving
<1>7. count \in [Event -> Nat]
  BY DEF FileInv, Typed
<1> QED
  BY <1>2, <1>3, <1>4, <1>5, <1>6, <1>7, DownloadedInv

(* What a download leaves that is not finished: no record vouches for the     *)
(* local copy.                                                             *)
LEMMA BrokenOff ==
  ASSUME FileInv, LeavePart(current[1])
  PROVE  /\ local' \in [File -> Bytes]
         /\ \A f \in File : record[f].stamp = remote[f].stamp => local'[f] = local[f]
<1>1. CASE UNCHANGED local
  BY <1>1 DEF FileInv, Typed
<1>2. CASE pc = "transfer" /\ local' = [local EXCEPT ![current[1]] = Cut(remote[current[1]].content)]
  <2>1. /\ current[1] \in File
        /\ record[current[1]].stamp # remote[current[1]].stamp
    BY <1>2 DEF FileInv, Typed, Handled, InProcess
  <2>2. Cut(remote[current[1]].content) \in Bytes
    BY <2>1, BytesOf DEF FileInv, Typed
  <2> QED
    BY <1>2, <2>1, <2>2 DEF FileInv, Typed
<1> QED
  BY <1>1, <1>2 DEF LeavePart

LEMMA DownloadCutInv == FileInv /\ DownloadCut => FileInv'
<1> SUFFICES ASSUME FileInv, DownloadCut PROVE FileInv'
  OBVIOUS
<1>1. current[1] \in File
  BY DEF DownloadCut, FileInv, Typed, InProcess
<1>2. Cut(remote[current[1]].content) \in Bytes
  BY <1>1, BytesOf DEF FileInv, Typed
<1>3. /\ local' \in [File -> Bytes] /\ local'[current[1]] \in Bytes
      /\ \A g \in File : g # current[1] => local'[g] = local[g]
  BY <1>1, <1>2 DEF DownloadCut, FileInv, Typed
<1>4. count' \in [Event -> Nat] /\ count'["cut"] # 0
  <2>1. "cut" \in Event /\ Happens("cut")
    BY DEF Event, DownloadCut
  <2> QED
    BY <2>1, CountTyped DEF FileInv, Typed
<1>5. /\ current' = [current EXCEPT ![4] = local'[current[1]]]
      /\ pc = "transfer" /\ pc' = "compare"
      /\ UNCHANGED <<task, remote, record, todo, raced>>
  BY DEF DownloadCut, cleanVars
<1> QED
  BY <1>3, <1>4, <1>5, DownloadedInv

(* The record gets the stamp that was listed, with what was downloaded.      *)
LEMMA SaveInv == FileInv /\ Save => FileInv'
<1> SUFFICES ASSUME FileInv, Save PROVE FileInv'
  OBVIOUS
<1> DEFINE f == current[1]
<1> DEFINE r == [md5 |-> current[4], stamp |-> current[2], parsed |-> FALSE]
<1>1. /\ f \in File /\ r \in [md5 : Bytes, stamp : Nat, parsed : BOOLEAN]
      /\ current[2] <= StampOf(f)
      /\ current \in File \X Nat \X Bytes \X Bytes
  BY DEF Save, FileInv, Typed, Past, InProcess
<1>2. /\ record' = [record EXCEPT ![f] = r]
      /\ UNCHANGED <<task, remote, local, count, todo, raced>>
      /\ pc = "compare"
      /\ \/ pc' = "parse" /\ UNCHANGED current
         \/ pc' = "pick"
  BY DEF Save, Continue, cleanVars
<1>3. /\ record' \in [File -> [md5 : Bytes, stamp : Nat, parsed : BOOLEAN]]
      /\ record'[f] = r /\ \A g \in File : g # f => record'[g] = record[g]
  BY <1>1, <1>2 DEF FileInv, Typed
<1>4. Typed'
  BY <1>1, <1>2, <1>3 DEF FileInv, Typed, InProcess
<1>5. Past'
  <2>1. \A g \in File : record'[g].stamp <= StampOf(g)
    BY <1>1, <1>3 DEF FileInv, Past
  <2> QED
    BY <1>1, <1>2, <2>1 DEF FileInv, Past, StampOf, Fast, InProcess
<1>6. Once'
  <2>1. \A x \in todo : x[1] # f /\ x[1] \in File
    BY <1>2, StampsOrdered DEF FileInv, Once, InProcess
  <2>2. \A x \in todo : record'[x[1]].stamp <= x[2]
    BY <1>3, <2>1 DEF FileInv, Once
  <2> QED
    BY <1>2, <2>1, <2>2 DEF FileInv, Once, InProcess
<1>7. Handled' /\ Fresh'
  BY <1>2 DEF Handled, Fresh
<1>8. StampNamesContent'
  <2>1. ASSUME count["cut"] = 0, NEW g \in File,
               record'[g].stamp = remote[g].stamp
        PROVE  /\ record'[g].md5 = Whole(remote[g].content)
               /\ ~raced => local[g] = Whole(remote[g].content)
    <3>1. CASE g = f
      BY <1>2, <1>3, <2>1, <3>1 DEF FileInv, Fresh, Handled
    <3>2. CASE g # f
      BY <1>3, <2>1, <3>2 DEF FileInv, StampNamesContent
    <3> QED
      BY <3>1, <3>2
  <2> QED
    BY <1>2, <2>1 DEF StampNamesContent
<1> QED
  BY <1>4, <1>5, <1>6, <1>7, <1>8 DEF FileInv

(* The deleted records have no stamp; the job goes on with what it has.      *)
LEMMA CleanRecordsInv == FileInv /\ CleanRecords => FileInv'
<1> SUFFICES ASSUME FileInv, CleanRecords PROVE FileInv'
  OBVIOUS
<1>1. /\ record' = [f \in File |-> NoRecord]
      /\ UNCHANGED <<task, remote, local, pc, todo, current, raced>>
  BY DEF CleanRecords, jobVars
<1>2. /\ count' \in [Event -> Nat]
      /\ count'["cut"] = 0 => count["cut"] = 0
  <2>1. "clean" \in Event /\ Happens("clean")
    BY DEF Event, CleanRecords
  <2> QED
    BY <2>1, CountTyped DEF FileInv, Typed
<1>3. /\ record' \in [File -> [md5 : Bytes, stamp : Nat, parsed : BOOLEAN]]
      /\ \A f \in File : record'[f].stamp = 0
  BY <1>1 DEF NoRecord, Bytes, Unknown
<1>4. \A f \in File : remote[f].stamp \in Nat /\ remote[f].stamp > 0
  BY DEF FileInv, Typed, Past
<1>5. Typed'
  BY <1>1, <1>2, <1>3 DEF FileInv, Typed, InProcess
<1>6. Past'
  <2>1. \A f \in File : 0 <= StampOf(f)
    BY <1>4 DEF StampOf, Fast, Unknown
  <2> QED
    BY <1>1, <1>3, <1>4, <2>1 DEF FileInv, Past, StampOf, Fast, InProcess
<1>7. Once' /\ Handled'
  <2>1. \A x \in todo : x[1] \in File /\ x[2] \in Nat
    BY StampsOrdered
  <2>2. pc \in {"download", "transfer", "compare"} => current[1] \in File
    BY StampsOrdered DEF InProcess
  <2> QED
    BY <1>1, <1>3, <1>4, <2>1, <2>2 DEF FileInv, Once, Handled, InProcess
<1>8. Fresh'
  BY <1>1, <1>2 DEF FileInv, Fresh
<1>9. StampNamesContent'
  BY <1>1, <1>3, <1>4 DEF StampNamesContent
<1> QED
  BY <1>5, <1>6, <1>7, <1>8, <1>9 DEF FileInv

(* While there are records, or bytes to be recorded, it is a race.            *)
LEMMA CleanLocalInv == FileInv /\ CleanLocal => FileInv'
<1> SUFFICES ASSUME FileInv, CleanLocal PROVE FileInv'
  OBVIOUS
<1>1. local' \in [File -> Bytes]
  BY DEF CleanLocal, Bytes
<1>2. /\ UNCHANGED <<task, remote, record, todo, count>>
      /\ raced => raced'
  BY DEF CleanLocal, Continue, jobVars
<1>3. (InProcess /\ UNCHANGED <<pc, current>>) \/ ~InProcess'
  BY DEF CleanLocal, Continue, jobVars, InProcess
<1>4. count \in [Event -> Nat]
  BY DEF FileInv, Typed
<1>5. ASSUME NEW f \in File, record[f].stamp = remote[f].stamp \/ pc' = "compare"
      PROVE  raced'
  <2>1. NoRecord.stamp = 0 /\ remote[f].stamp > 0 /\ remote[f].stamp \in Nat
    BY StampsOrdered DEF NoRecord, Unknown, FileInv, Past
  <2>2. pc' = "compare" => pc = "compare"
    BY DEF CleanLocal, Continue, jobVars
  <2>3. pc = "compare" \/ record[f] # NoRecord
    BY <1>5, <2>1, <2>2
  <2> QED
    BY <2>3 DEF CleanLocal
<1> QED
  BY <1>1, <1>2, <1>3, <1>4, <1>5, JobInv

(* A file is left out: after a failure the rest of the job goes on.          *)
LEMMA LeftOutInv ==
  ASSUME FileInv, DownloadFails \/ DownloadInterrupted \/ SaveFails
  PROVE  FileInv'
<1>1. /\ UNCHANGED <<task, remote, record, todo, raced>>
      /\ ~InProcess' /\ pc' # "compare"
  BY DEF DownloadFails, DownloadInterrupted, SaveFails, Continue, InProcess, cleanVars
<1>2. /\ local' \in [File -> Bytes]
      /\ \A f \in File : record[f].stamp = remote[f].stamp => local'[f] = local[f]
  <2>1. CASE SaveFails
    BY <2>1 DEF SaveFails, FileInv, Typed
  <2>2. CASE DownloadFails \/ DownloadInterrupted
    BY <2>2, BrokenOff DEF DownloadFails, DownloadInterrupted
  <2> QED
    BY <2>1, <2>2
<1>3. /\ count' \in [Event -> Nat]
      /\ count'["cut"] = 0 => count["cut"] = 0
  <2>1. Happens("fault") \/ UNCHANGED count
    BY DEF DownloadFails, DownloadInterrupted, SaveFails
  <2>2. "fault" \in Event /\ count \in [Event -> Nat]
    BY DEF Event, FileInv, Typed
  <2> QED
    BY <2>1, <2>2, CountTyped
<1> QED
  BY <1>1, <1>2, <1>3, JobInv

(* The job ends, by itself, by a signal or a failure, or with its worker.    *)
LEMMA EndInv ==
  ASSUME FileInv, Interrupt \/ ListFails \/ Finish \/ Kill
  PROVE  FileInv'
<1>1. /\ UNCHANGED <<task, remote, record, raced>>
      /\ todo' \subseteq todo /\ ~InProcess' /\ pc' # "compare"
  BY DEF Interrupt, ListFails, Finish, Kill, End, InProcess, cleanVars
<1>2. /\ local' \in [File -> Bytes]
      /\ \A f \in File : record[f].stamp = remote[f].stamp => local'[f] = local[f]
  <2>1. CASE UNCHANGED local
    BY <2>1 DEF FileInv, Typed
  <2>2. CASE Kill
    BY <2>2, BrokenOff DEF Kill
  <2> QED
    BY <2>1, <2>2 DEF Interrupt, ListFails, Finish, Kill
<1>3. /\ count' \in [Event -> Nat]
      /\ count'["cut"] = 0 => count["cut"] = 0
  <2>1. Happens("fault") \/ Happens("kill") \/ UNCHANGED count
    BY DEF Interrupt, ListFails, Finish, Kill
  <2>2. "fault" \in Event /\ "kill" \in Event /\ count \in [Event -> Nat]
    BY DEF Event, FileInv, Typed
  <2> QED
    BY <2>1, <2>2, CountTyped
<1> QED
  BY <1>1, <1>2, <1>3, JobInv

(* Signals and the start of a job.                                         *)
LEMMA ControlInv ==
  ASSUME FileInv,
         \/ \E s \in Signal : SendSignal(s)
         \/ ControlExpires
         \/ \E c \in Signal \cup {None} : StartJob(c)
  PROVE  FileInv'
<1>1. /\ UNCHANGED <<task, remote, local, record, todo, current, raced>>
      /\ (InProcess /\ UNCHANGED <<pc, current>>) \/ ~InProcess'
  BY DEF SendSignal, ControlExpires, StartJob, InProcess, jobVars, cleanVars
<1>2. local \in [File -> Bytes] /\ count \in [Event -> Nat]
  BY DEF FileInv, Typed
<1>3. /\ count' \in [Event -> Nat]
      /\ count'["cut"] = 0 => count["cut"] = 0
  <2>1. Happens("signal") \/ UNCHANGED count
    BY DEF SendSignal, ControlExpires, StartJob
  <2>2. "signal" \in Event
    BY DEF Event
  <2> QED
    BY <1>2, <2>1, <2>2, CountTyped
<1> QED
  BY <1>1, <1>2, <1>3, JobInv

LEMMA PassInv ==
  ASSUME FileInv,
         \/ \E x \in todo : TakeFails(x)
         \/ Skip \/ ParseInterrupted \/ ParseFails
  PROVE  FileInv'
<1>1. /\ UNCHANGED <<task, remote, local, record, count, raced>>
      /\ todo' \subseteq todo /\ ~InProcess'
  BY DEF TakeFails, Skip, ParseInterrupted, ParseFails, Continue, InProcess, cleanVars
<1>2. local \in [File -> Bytes] /\ count \in [Event -> Nat]
  BY DEF FileInv, Typed
<1> QED
  BY <1>1, <1>2, JobInv

-----------------------------------------------------------------------------

LEMMA StepInv == FileInv /\ [Next]_vars => FileInv'
<1> SUFFICES ASSUME FileInv, [Next]_vars PROVE FileInv'
  OBVIOUS
<1>1. ASSUME NEW f \in File, NEW c \in Content, Change(f, c) PROVE FileInv'
  BY <1>1, ChangeInv
<1>2. CASE \/ \E s \in Signal : SendSignal(s)
           \/ ControlExpires
           \/ \E c \in Signal \cup {None} : StartJob(c)
  BY <1>2, ControlInv
<1>3. ASSUME NEW S \in SUBSET File, List(S) PROVE FileInv'
  BY <1>3, ListInv
<1>4. CASE List(Wanted)
  <2>1. Wanted \in SUBSET File
    BY FileAssumption DEF Wanted
  <2> QED
    BY <1>4, <2>1, ListInv
<1>5. CASE Interrupt \/ ListFails \/ Finish \/ Kill
  BY <1>5, EndInv
<1>6. CASE DownloadCut
  BY <1>6, DownloadCutInv
<1>7. CASE DownloadFails \/ DownloadInterrupted \/ SaveFails
  BY <1>7, LeftOutInv
<1>8. CASE Clean
  BY <1>8, CleanRecordsInv, CleanLocalInv DEF Clean
<1>9. ASSUME NEW x \in todo, Take(x) PROVE FileInv'
  BY <1>9, TakeInv
<1>10. CASE \/ \E x \in todo : TakeFails(x)
            \/ Skip \/ ParseInterrupted \/ ParseFails
  BY <1>10, PassInv
<1>11. CASE Open \/ \E c \in Content : Download(Whole(c)) \/ Download(Cut(c))
  BY <1>11, OpenInv, DownloadInv
<1>12. CASE Save
  BY <1>12, SaveInv
<1>13. CASE UNCHANGED vars
  <2>1. UNCHANGED <<task, remote, local, record, pc, todo, current, count, raced>>
    BY <1>13 DEF vars, jobVars, cleanVars
  <2>2. local \in [File -> Bytes] /\ count \in [Event -> Nat]
    BY DEF FileInv, Typed
  <2> QED
    BY <2>1, <2>2, JobInv DEF InProcess
<1>14. CASE Worker
  BY <1>4, <1>5, <1>9, <1>10, <1>11, <1>12, <1>14 DEF Worker
<1> QED
  BY <1>1, <1>2, <1>3, <1>5, <1>6, <1>7, <1>8, <1>13, <1>14 DEF Next

(* The invariant holds in every state of every job.                         *)
THEOREM Invariance == Spec => []FileInv
<1>1. Init => FileInv
  BY InitInv
<1>2. FileInv /\ [Next]_vars => FileInv'
  BY StepInv
<1> QED
  BY <1>1, <1>2, PTL DEF Spec

(* The fast comparison passes over no change and no missing copy, whenever a *)
(* file changes during a job, a job fails, is interrupted or killed in the   *)
(* middle of a download, or records are cleaned: the stamp of a record names *)
(* its content, and the local copy is of that content unless a cleaning has  *)
(* overtaken a job, as long as no end of a connection was taken for the end  *)
(* of a file.                                                              *)
THEOREM Stamps == Spec => []StampNamesContent
<1>1. FileInv => StampNamesContent
  BY DEF FileInv
<1> QED
  BY <1>1, Invariance, PTL

-----------------------------------------------------------------------------
(* Type correctness.                                                       *)

(* Where a job is and what it has in hand: a file only while it processes    *)
(* one, which it never does with a broken session.                          *)
Placed ==
  /\ task \in Engines
  /\ control \in Signal \cup {None}
  /\ pc \in {"idle", "scan", "pick", "download", "transfer", "compare", "parse"}
  /\ broken \in BOOLEAN /\ cleaning \in BOOLEAN /\ raced \in BOOLEAN
  /\ InProcess => ~broken
  /\ ~InProcess => current = NotListed
  /\ pc \in {"transfer", "compare"} => current[4] # NoFile

LEMMA PlacedStep == FileInv /\ Placed /\ [Next]_vars => Placed'
<1> DEFINE Goal == Placed'
<1> SUFFICES ASSUME FileInv, Placed, [Next]_vars PROVE Goal
  OBVIOUS
(* The step is between files, or leaves them for good.                      *)
<1>1. ASSUME UNCHANGED task, control' \in Signal \cup {None},
             pc' \in {"idle", "scan", "pick"}, current' = NotListed,
             broken' \in BOOLEAN, UNCHANGED cleanVars
      PROVE  Goal
  BY <1>1 DEF Placed, InProcess, cleanVars
<1>2. ASSUME UNCHANGED <<task, pc, current, broken>>, control' \in Signal \cup {None},
             cleaning' \in BOOLEAN, raced' \in BOOLEAN
      PROVE  Goal
  BY <1>2 DEF Placed, InProcess
<1>3. /\ control \in Signal \cup {None} /\ broken \in BOOLEAN /\ cleaning \in BOOLEAN
      /\ raced \in BOOLEAN /\ TRUE \in BOOLEAN /\ FALSE \in BOOLEAN
  BY Zenon DEF Placed
<1>4. pc \in {"idle", "scan", "pick"} => current = NotListed
  BY DEF Placed, InProcess
<1>5. ASSUME NEW f \in File, NEW c \in Content, Change(f, c) PROVE Goal
  BY <1>2, <1>3, <1>5 DEF Change, jobVars, cleanVars
<1>6. ASSUME NEW s \in Signal, SendSignal(s) PROVE Goal
  BY <1>2, <1>3, <1>6 DEF SendSignal, jobVars, cleanVars
<1>7. CASE ControlExpires
  BY <1>2, <1>3, <1>7 DEF ControlExpires, jobVars, cleanVars
<1>8. ASSUME NEW c \in Signal \cup {None}, StartJob(c) PROVE Goal
  BY <1>1, <1>3, <1>4, <1>8 DEF StartJob
<1>9. ASSUME NEW S, List(S) PROVE Goal
  BY <1>1, <1>3, <1>4, <1>9 DEF List
<1>10. CASE Interrupt \/ ListFails \/ Finish \/ Kill
  BY <1>1, <1>3, <1>10 DEF Interrupt, ListFails, Finish, Kill, End
<1>11. CASE Skip \/ ParseInterrupted \/ ParseFails \/ DownloadFails \/ DownloadInterrupted
  BY <1>1, <1>3, <1>11 DEF Skip, ParseInterrupted, ParseFails, DownloadFails,
                           DownloadInterrupted, Continue
<1>12. CASE SaveFails
  BY <1>1, <1>3, <1>12 DEF SaveFails, Continue
<1>13. ASSUME NEW x \in todo, Take(x) PROVE Goal
  <2>1. /\ pc = "pick" /\ ~broken /\ UNCHANGED <<task, control, broken, cleanVars>>
        /\ \/ UNCHANGED <<pc, current>>
           \/ pc' = "download"
    BY <1>13 DEF Take
  <2> QED
    BY <1>2, <1>3, <2>1 DEF Placed, InProcess, cleanVars
<1>14. ASSUME NEW x \in todo, TakeFails(x) PROVE Goal
  BY <1>2, <1>3, <1>14 DEF TakeFails, cleanVars
(* What a download reads or leaves is no empty file.                         *)
<1>15. ASSUME Open \/ DownloadCut \/ \E b : Download(b) PROVE Goal
  <2> DEFINE now == remote[current[1]].content
  <2>1. /\ pc \in {"download", "transfer"} /\ pc' \in {"transfer", "compare"}
        /\ current \in File \X Nat \X Bytes \X Bytes /\ current[1] \in File
        /\ now \in Content /\ local \in [File -> Bytes]
        /\ UNCHANGED <<task, control, broken, cleanVars>> /\ ~broken
    BY <1>15 DEF Open, Download, DownloadCut, FileInv, Typed, InProcess, Placed
  <2>2. Whole(now) # NoFile /\ Cut(now) # NoFile
    <3>1. now # None
      BY <2>1, ContentAssumption
    <3>2. /\ Whole(now).whole = TRUE /\ NoFile.whole = FALSE
          /\ Cut(now).content # NoFile.content
      BY <3>1 DEF Whole, Cut, NoFile
    <3> QED
      BY <3>2
  <2>3. PICK b : current' = [current EXCEPT ![4] = b] /\ b # NoFile
    <3>1. CASE Open
      BY <2>2, <3>1 DEF Open
    <3>2. CASE DownloadCut
      <4>1. local' = [local EXCEPT ![current[1]] = Cut(now)]
        BY <3>2 DEF DownloadCut
      <4>2. local'[current[1]] = Cut(now)
        BY <2>1, <4>1
      <4> QED
        BY <2>2, <3>2, <4>2 DEF DownloadCut
    <3>3. ASSUME NEW b, Download(b)
          PROVE  current' = [current EXCEPT ![4] = b] /\ b # NoFile
      <4>1. current[4] # NoFile
        BY <3>3 DEF Download, Placed
      <4> QED
        BY <2>2, <3>3, <4>1 DEF Download, Arriving
    <3> QED
      BY <1>15, <3>1, <3>2, <3>3
  <2>4. current'[4] # NoFile
    BY <2>1, <2>3
  <2> QED
    BY <1>3, <2>1, <2>4 DEF Placed, InProcess, cleanVars
<1>16. CASE Save
  <2>1. CASE pc' = "parse" /\ UNCHANGED <<todo, current>>
    BY <1>16, <2>1 DEF Save, Placed, InProcess, cleanVars
  <2>2. CASE Continue
    BY <1>1, <1>3, <1>16, <2>2 DEF Save, Continue
  <2> QED
    BY <1>16, <2>1, <2>2 DEF Save
<1>17. CASE CleanRecords
  BY <1>2, <1>3, <1>17 DEF CleanRecords, jobVars
<1>18. CASE CleanLocal
  <2>1. /\ UNCHANGED <<task, control>> /\ cleaning' = FALSE
        /\ raced' = (raced \/ pc = "compare" \/ \E f \in File : record[f] # NoRecord)
    BY <1>18 DEF CleanLocal
  <2>2. raced' \in BOOLEAN
    BY <2>1, Zenon
  <2>3. CASE Continue /\ UNCHANGED broken
    BY <1>3, <2>1, <2>2, <2>3 DEF Continue, Placed, InProcess
  <2>4. CASE UNCHANGED jobVars
    BY <1>2, <1>3, <2>1, <2>2, <2>4 DEF jobVars
  <2> QED
    BY <1>18, <2>3, <2>4 DEF CleanLocal
<1>19. CASE UNCHANGED vars
  BY <1>2, <1>3, <1>19 DEF vars, jobVars, cleanVars
<1> QED
  BY <1>5, <1>6, <1>7, <1>8, <1>9, <1>10, <1>11, <1>12, <1>13, <1>14, <1>15, <1>16, <1>17,
     <1>18, <1>19 DEF Next, Worker, Clean

(* Every variable has its type: in particular a job processes a file only    *)
(* with a session that works, compares only what it has downloaded, and       *)
(* forgets the file whichever way it is done with it.                        *)
THEOREM Typing == Spec => []TypeOK
<1>1. Init => Placed
  <2> SUFFICES ASSUME Init PROVE Placed
    OBVIOUS
  <2>1. broken \in BOOLEAN /\ cleaning \in BOOLEAN /\ raced \in BOOLEAN
    BY Zenon DEF Init
  <2> QED
    BY <2>1 DEF Init, Placed, InProcess
<1>2. FileInv /\ Placed => TypeOK
  BY DEF FileInv, Typed, Placed, InProcess, TypeOK
<1> QED
  BY <1>1, <1>2, InitInv, StepInv, PlacedStep, PTL DEF Spec
=============================================================================
