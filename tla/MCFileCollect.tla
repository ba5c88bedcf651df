---------------------------- MODULE MCFileCollect ----------------------------
(* Instances of FileCollect for TLC.                                       *)
EXTENDS FileCollect

CONSTANTS f1, f2

TwoFiles == {f1, f2}
AB       == {"A", "B"}

(* Contents of different files are not compared, and no content is special.  *)
OnlyA    == {"A"}

(* One task for each engine and way of comparing: FTP with parsing, FTP from  *)
(* a server without MLSD, SFTP, which cannot take a failure for an end, OSS,  *)
(* and a single file.                                                      *)
AllEngines ==
  {[protocol |-> "ftp",  batch |-> TRUE,  stamps |-> TRUE,  parse |-> TRUE],
   [protocol |-> "ftp",  batch |-> TRUE,  stamps |-> FALSE, parse |-> FALSE],
   [protocol |-> "sftp", batch |-> TRUE,  stamps |-> TRUE,  parse |-> FALSE],
   [protocol |-> "oss",  batch |-> TRUE,  stamps |-> FALSE, parse |-> TRUE],
   [protocol |-> "sftp", batch |-> FALSE, stamps |-> TRUE,  parse |-> TRUE]}

Events == [change |-> 1, signal |-> 1, fault |-> 1, cut |-> 1, kill |-> 1,
           clean |-> 1]
=============================================================================
