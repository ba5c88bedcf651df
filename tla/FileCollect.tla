----------------------------- MODULE FileCollect -----------------------------
(***************************************************************************)
(* FtpSyncEngine and OssSyncEngine: files of a server are listed, compared   *)
(* with the records of earlier jobs, downloaded, recorded and parsed, one    *)
(* after the other.  A file that fails is left out and the job goes on.     *)
(* CleanService deletes records and local files meanwhile; no lock keeps the *)
(* two apart.                                                              *)
(*                                                                         *)
(* A stamp stands for the modification time and size of a file, and is       *)
(* assumed to change with the content; an MD5 for the downloaded bytes.      *)
(***************************************************************************)
EXTENDS Naturals, FiniteSets

CONSTANTS
  File,
  Content,    \* of files that are not empty: an empty download is refused
  Initial,    \* contents that are considered at first
  Engines,    \* the configurations of the task that are considered
  Bound       \* how often each kind of event may happen

Event  == {"change", "signal", "fault", "cut", "kill", "clean"}
Signal == {"paused", "cancelled"}

(* protocol: "ftp" includes FTPS.  batch: a directory or prefix, and not a   *)
(* single file.  stamps: the server lists modification times, as SFTP does    *)
(* and FTP with MLSD.  parse: file_parse, for a type that can be parsed.     *)
Engine == [protocol : {"ftp", "sftp", "oss"}, batch : BOOLEAN,
           stamps : BOOLEAN, parse : BOOLEAN]

None == "none"

ASSUME EngineAssumption == Engines \subseteq Engine
ASSUME BoundAssumption  == Bound \in [Event -> Nat]
ASSUME FileAssumption   == File # {}    \* a single file is one of them
ASSUME ContentAssumption == None \notin Content /\ Initial \subseteq Content

VARIABLES
  task,         \* the configuration, one of Engines, which no step changes
  remote,       \* content and stamp of each file on the server
  local,        \* the local copy of each file
  record,       \* ftp_file_record, oss_file_record
  control,      \* task_control:{id}
  pc,           \* "idle", "scan", "pick", "download", "transfer", "compare",
                \* "parse"
  todo,         \* files of the listing still to be processed, with stamps
  current,      \* the file being processed: its name, its stamp, the MD5 of
                \* its record when it was taken, and its content when it was
                \* opened, then the MD5 of what was downloaded
  broken,       \* the session of the job has to be rolled back
  cleaning,     \* a cleaning has deleted the records and not yet the files
  raced,        \* history: a job has recorded a file within a cleaning
  count

jobVars   == <<pc, todo, current, broken>>
cleanVars == <<cleaning, raced>>
vars == <<task, remote, local, record, control, jobVars, cleanVars, count>>

Happens(e) == /\ count[e] < Bound[e]
              /\ count' = [count EXCEPT ![e] = @ + 1]

(* The bytes of a local file: a content as a whole, or no more than parts.   *)
Whole(c) == [content |-> c, whole |-> TRUE]
Cut(c)   == [content |-> c, whole |-> FALSE]
NoFile   == Cut(None)
Bytes    == [content : Content, whole : BOOLEAN] \cup {NoFile}

(* FTP and SFTP empty the local file, write into it and look for signals     *)
(* meanwhile; OSS puts the whole object in its place.                       *)
InPlace == task.protocol # "oss"

(* Fast comparison: OSS lists keys, and a single file is not listed.         *)
Fast == task.batch /\ task.stamps /\ task.protocol # "oss"

Unknown == 0
NotListed == <<None, Unknown, NoFile, NoFile>>
StampOf(f) ==
  IF Fast THEN remote[f].stamp ELSE Unknown

NoRecord == [md5 |-> NoFile, stamp |-> Unknown, parsed |-> FALSE]

(* The files the task is about.                                            *)
Wanted == IF task.batch THEN File ELSE {CHOOSE f \in File : TRUE}

Init ==
  /\ task \in Engines
  /\ remote \in [File -> [content : Initial, stamp : {1}]]
  /\ local = [f \in File |-> NoFile]
  /\ record = [f \in File |-> NoRecord]
  /\ control = None
  /\ pc = "idle" /\ todo = {} /\ current = NotListed /\ broken = FALSE
  /\ cleaning = FALSE /\ raced = FALSE
  /\ count = [e \in Event |-> 0]

-----------------------------------------------------------------------------
(* A file is written on the server, possibly as it was.                     *)
Change(f, c) ==
  /\ Happens("change")
  /\ remote' = [remote EXCEPT ![f] = [content |-> c, stamp |-> @.stamp + 1]]
  /\ UNCHANGED <<task, local, record, control, jobVars, cleanVars>>

(* /pause, /cancel                                                         *)
SendSignal(s) ==
  /\ Happens("signal")
  /\ control' = s
  /\ UNCHANGED <<task, remote, local, record, jobVars, cleanVars>>

(* The key lives for a day.                                                *)
ControlExpires ==
  /\ control # None
  /\ control' = None
  /\ UNCHANGED <<task, remote, local, record, jobVars, cleanVars, count>>

(* A job starts; one a user runs or resumes takes the signal back.          *)
StartJob(c) ==
  /\ pc = "idle"
  /\ c \in {control, None}
  /\ control' = c
  /\ pc' = "scan" /\ broken' = FALSE
  /\ UNCHANGED <<task, remote, local, record, todo, current, cleanVars, count>>

-----------------------------------------------------------------------------
End == pc' = "idle" /\ todo' = {} /\ current' = NotListed

(* Before the listing and before each file a signal ends the job, with an   *)
(* exception that the worker records as a failure.                         *)
Interrupt ==
  /\ \/ pc = "scan" /\ (task.batch \/ task.protocol = "oss")
     \/ pc = "pick" /\ todo # {}
  /\ control # None
  /\ End
  /\ UNCHANGED <<task, remote, local, record, control, broken, cleanVars,
                 count>>

(* S is what is listed: directories that cannot be read are passed over.    *)
List(S) ==
  /\ pc = "scan" /\ (control = None \/ (~task.batch /\ task.protocol # "oss"))
  /\ \/ S = Wanted /\ UNCHANGED count
     \/ S # Wanted /\ task.batch /\ InPlace /\ Happens("fault")
  /\ todo' = {<<f, StampOf(f)>> : f \in S}
  /\ pc' = "pick"
  /\ UNCHANGED <<task, remote, local, record, control, current, broken,
                 cleanVars>>

(* The server or the database cannot be reached.                            *)
ListFails ==
  /\ pc = "scan"
  /\ Happens("fault")
  /\ End
  /\ UNCHANGED <<task, remote, local, record, control, broken, cleanVars>>

(* The stamps are known and the same: the file is passed over.              *)
SameStamp(x) == x[2] # Unknown /\ record[x[1]].stamp = x[2]

Take(x) ==
  /\ pc = "pick" /\ control = None
  /\ x \in todo /\ ~broken
  /\ todo' = todo \ {x}
  /\ IF SameStamp(x)
     THEN UNCHANGED <<pc, current>>
     ELSE /\ pc' = "download"
          /\ current' = <<x[1], x[2], record[x[1]].md5, NoFile>>
  /\ UNCHANGED <<task, remote, local, record, control, broken, cleanVars,
                 count>>

(* The query for the record raises as long as the session is broken.        *)
TakeFails(x) ==
  /\ pc = "pick" /\ control = None
  /\ x \in todo /\ broken
  /\ todo' = todo \ {x}
  /\ UNCHANGED <<task, remote, local, record, control, pc, current, broken,
                 cleanVars, count>>

-----------------------------------------------------------------------------
\* Mutant of Continue: the file stays the current one.
ContinueStill == pc' = "pick" /\ UNCHANGED <<current, todo>>

(* The file is done; an exception is logged and the job goes on.            *)
Continue == pc' = "pick" /\ current' = NotListed /\ UNCHANGED todo

(* What a download that is broken off leaves.                               *)
LeavePart(f) ==
  \/ UNCHANGED local
  \/ /\ pc = "transfer" /\ InPlace
     /\ local' = [local EXCEPT ![f] = Cut(remote[f].content)]

(* open(local_path, "wb"), or the request for the object.                   *)
Open ==
  /\ pc = "download"
  /\ local' = IF InPlace THEN [local EXCEPT ![current[1]] = NoFile] ELSE local
  /\ current' = [current EXCEPT ![4] = Whole(remote[current[1]].content)]
  /\ pc' = "transfer"
  /\ UNCHANGED <<task, remote, record, control, todo, broken, cleanVars,
                 count>>

(* A file written while it is read arrives as it was, as it is, or as neither. *)
Arriving ==
  LET now == remote[current[1]].content
  IN  {current[4], Whole(now)}
        \cup (IF current[4] = Whole(now) THEN {} ELSE {Cut(now)})

Download(b) ==
  /\ pc = "transfer" /\ b \in Arriving
  /\ local' = [local EXCEPT ![current[1]] = b]
  /\ current' = [current EXCEPT ![4] = b]
  /\ pc' = "compare"
  /\ UNCHANGED <<task, remote, record, control, todo, broken, cleanVars,
                 count>>

(* retrbinary() raises "Connection reset" or the like, which the adapter     *)
(* takes for the end of the file.                                          *)
DownloadCut ==
  /\ pc = "transfer" /\ task.protocol = "ftp"
  /\ Happens("cut")
  /\ local' = [local EXCEPT ![current[1]] = Cut(remote[current[1]].content)]
  /\ current' = [current EXCEPT ![4] = local'[current[1]]]
  /\ pc' = "compare"
  /\ UNCHANGED <<task, remote, record, control, todo, broken, cleanVars>>

DownloadFails ==
  /\ pc \in {"download", "transfer"}
  /\ Happens("fault")
  /\ LeavePart(current[1])
  /\ Continue
  /\ UNCHANGED <<task, remote, record, control, broken, cleanVars>>

(* A signal during the download ends only the file.                         *)
DownloadInterrupted ==
  /\ pc = "transfer" /\ InPlace /\ control # None
  /\ LeavePart(current[1])
  /\ Continue
  /\ UNCHANGED <<task, remote, record, control, broken, cleanVars, count>>

-----------------------------------------------------------------------------
\* Mutant of Known: any record will do.
KnownByName == current[3] # NoFile

Known == current[3] = current[4]

Skip ==
  /\ pc = "compare" /\ Known
  /\ Continue
  /\ UNCHANGED <<task, remote, local, record, control, broken, cleanVars,
                 count>>

\* Mutant of Save: the stamp is asked for after the download.
SaveNewStamp ==
  /\ pc = "compare" /\ ~Known
  /\ record' = [record EXCEPT ![current[1]] =
                  [md5 |-> current[4], stamp |-> StampOf(current[1]),
                   parsed |-> FALSE]]
  /\ IF task.parse
     THEN pc' = "parse" /\ UNCHANGED <<todo, current>>
     ELSE Continue
  /\ UNCHANGED <<task, remote, local, control, broken, cleanVars, count>>

(* The record is saved with the listed stamp, before anything is parsed.     *)
Save ==
  /\ pc = "compare" /\ ~Known
  /\ record' = [record EXCEPT ![current[1]] =
                  [md5 |-> current[4], stamp |-> current[2],
                   parsed |-> FALSE]]
  /\ IF task.parse
     THEN pc' = "parse" /\ UNCHANGED <<todo, current>>
     ELSE Continue
  /\ UNCHANGED <<task, remote, local, control, broken, cleanVars, count>>

(* The commit fails, and nobody rolls the session back.                     *)
SaveFails ==
  /\ pc = "compare" /\ ~Known
  /\ Happens("fault")
  /\ broken' = TRUE
  /\ Continue
  /\ UNCHANGED <<task, remote, local, record, control, cleanVars>>

ParseInterrupted ==
  /\ pc = "parse" /\ control # None
  /\ Continue
  /\ UNCHANGED <<task, remote, local, record, control, broken, cleanVars,
                 count>>

(* Preparing the table always raises: the default of collected_at names an   *)
(* attribute that a method does not have.  Nothing after it is reached.      *)
ParseFails ==
  /\ pc = "parse" /\ control = None
  /\ Continue
  /\ UNCHANGED <<task, remote, local, record, control, broken, cleanVars,
                 count>>

Finish ==
  /\ pc = "pick" /\ todo = {}
  /\ End
  /\ UNCHANGED <<task, remote, local, record, control, broken, cleanVars,
                 count>>

(* The worker dies.                                                        *)
Kill ==
  /\ pc # "idle"
  /\ Happens("kill")
  /\ End
  /\ LeavePart(current[1])
  /\ UNCHANGED <<task, remote, record, control, broken, cleanVars>>

-----------------------------------------------------------------------------
(* CleanService for the files of a task, first half: the records.           *)
CleanRecords ==
  /\ ~cleaning
  /\ Happens("clean")
  /\ cleaning' = TRUE
  /\ record' = [f \in File |-> NoRecord]
  /\ UNCHANGED <<task, remote, local, control, jobVars, raced>>

(* Second half: the directory.  A download it is taken from fails, if it has  *)
(* begun; else it may make the directory anew.                              *)
CleanLocal ==
  /\ cleaning
  /\ cleaning' = FALSE
  /\ local' = [f \in File |-> NoFile]
  /\ raced' = (raced \/ pc = "compare" \/ \E f \in File : record[f] # NoRecord)
  /\ \/ pc \in {"download", "transfer"} /\ Continue /\ UNCHANGED broken
     \/ pc # "transfer" /\ UNCHANGED jobVars
  /\ UNCHANGED <<task, remote, record, control, count>>

(* Ordered by /clean with clean_files, and by every clean_cron.             *)
Clean == CleanRecords \/ CleanLocal

-----------------------------------------------------------------------------
(* What a worker does by itself while it runs the job.                       *)
Worker ==
  \/ Interrupt
  \/ List(Wanted)
  \/ \E x \in todo : Take(x)
  \/ \E x \in todo : TakeFails(x)
  \/ Open
  \/ \E c \in Content : Download(Whole(c)) \/ Download(Cut(c))
  \/ Skip
  \/ Save
  \/ ParseInterrupted
  \/ ParseFails
  \/ Finish

Next ==
  \/ \E f \in File, c \in Content : Change(f, c)
  \/ \E s \in Signal : SendSignal(s)
  \/ ControlExpires
  \/ \E c \in Signal \cup {None} : StartJob(c)
  \/ \E S \in SUBSET File : List(S)
  \/ ListFails
  \/ DownloadCut
  \/ DownloadFails
  \/ DownloadInterrupted
  \/ SaveFails
  \/ Kill
  \/ Clean
  \/ Worker

Spec == Init /\ [][Next]_vars

(* A worker goes on, keys expire, and the task is run on a schedule.         *)
FairSpec == /\ Spec
            /\ WF_vars(Worker)
            /\ WF_vars(ControlExpires)
            /\ WF_vars(StartJob(control))

-----------------------------------------------------------------------------
(* Properties.                                                             *)

(* Type invariant; a file is compared only when there are bytes to compare.  *)
TypeOK ==
  /\ task \in Engines
  /\ remote \in [File -> [content : Content, stamp : Nat]]
  /\ local \in [File -> Bytes]
  /\ record \in [File -> [md5 : Bytes, stamp : Nat, parsed : BOOLEAN]]
  /\ control \in Signal \cup {None}
  /\ pc \in {"idle", "scan", "pick", "download", "transfer", "compare", "parse"}
  /\ todo \in SUBSET (File \X Nat)
  /\ IF pc \in {"download", "transfer", "compare", "parse"}
     THEN current \in File \X Nat \X Bytes \X Bytes /\ ~broken
     ELSE current = NotListed
  /\ pc \in {"transfer", "compare"} => current[4] # NoFile
  /\ broken \in BOOLEAN
  /\ cleaning \in BOOLEAN /\ raced \in BOOLEAN
  /\ count \in [Event -> Nat]

(* The fast comparison passes over no change: a record with the stamp the    *)
(* file has now is of the content it has now, though the file may have       *)
(* changed between the listing and the download, or during it.  And what it  *)
(* passes over has its local copy, unless a cleaning has overtaken a job: no  *)
(* later job has emptied the copy and been broken off.                      *)
StampNamesContent ==
  count["cut"] = 0 =>
    \A f \in File : record[f].stamp = remote[f].stamp =>
                      /\ record[f].md5 = Whole(remote[f].content)
                      /\ ~raced => local[f] = Whole(remote[f].content)

(* Once files stop changing, each is recorded and has its local copy, after  *)
(* failed and interrupted downloads, failed commits, dead workers and        *)
(* cleanings.  What a job cannot pass over by its stamp it downloads again,   *)
(* every time, and FTP and SFTP empty the copy for that while.  A task that   *)
(* lists stamps never makes good the end of a connection that was taken for   *)
(* the end of a file, nor a copy a cleaning took from a job that had recorded *)
(* it; all others do.                                                      *)
Collected(f) ==
  /\ local[f] = Whole(remote[f].content)
  /\ record[f].md5 = local[f]

Refreshed(f) ==
  /\ InPlace /\ pc = "transfer" /\ current[1] = f
  /\ ~SameStamp(<<f, StampOf(f)>>)

EveryFileCollected ==
  [](Fast => count["cut"] = 0 /\ ~raced) =>
    /\ []<>(\A f \in Wanted : Collected(f))
    /\ <>[](\A f \in Wanted : Collected(f) \/ Refreshed(f))
=============================================================================
