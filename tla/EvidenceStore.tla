--------------------------- MODULE EvidenceStore ---------------------------
(***************************************************************************)
(* Evidence: a row in the database and a file under upload_dir.  A file is *)
(* named by the epoch, the digest of its content and its name, so uploads  *)
(* of the same content share it; it is written before the row commits, and *)
(* removed when the commit fails.  EventLoop schedules the handler.        *)
(***************************************************************************)
CONSTANT Path

VARIABLES
  files,     \* files[p]: "absent", "partial" or "whole"
  evidence,  \* the paths that a committed row names
  harmed     \* history: the paths that a failed upload or a crash has touched

evars == <<files, evidence, harmed>>

EvidenceInit ==
  /\ files = [p \in Path |-> "absent"]
  /\ evidence = {} /\ harmed = {}

(* write_bytes opens with truncation.                                      *)
WriteBegin(p) ==
  /\ files' = [files EXCEPT ![p] = "partial"]
  /\ UNCHANGED <<evidence, harmed>>

(* A file that was unlinked in between stays away; one that another upload *)
(* is writing too counts as partial until that one ends.                   *)
WriteEnd(p, shared) ==
  /\ files' = [files EXCEPT ![p] = IF @ = "absent" THEN "absent"
                                   ELSE IF shared THEN "partial" ELSE "whole"]
  /\ UNCHANGED <<evidence, harmed>>

(* The disk is full: the exception passes no cleanup.                      *)
WriteFails(p) ==
  /\ harmed' = harmed \cup {p}
  /\ UNCHANGED <<files, evidence>>

RowCommits(p) ==
  /\ evidence' = evidence \cup {p}
  /\ UNCHANGED <<files, harmed>>

(* Slip: the file stays.                                                   *)
CommitFails_KeepsFile(p, shared) == UNCHANGED evars

(* The except clause unlinks the path, whoever else has a row for it or is *)
(* about to commit one.                                                    *)
CommitFails(p, shared) ==
  /\ files' = [files EXCEPT ![p] = "absent"]
  /\ harmed' = IF shared \/ p \in evidence THEN harmed \cup {p} ELSE harmed
  /\ UNCHANGED evidence

CrashDuring(paths) ==
  /\ harmed' = harmed \cup paths
  /\ UNCHANGED <<files, evidence>>

EvidenceTypeOK ==
  /\ files \in [Path -> {"absent", "partial", "whole"}]
  /\ evidence \subseteq Path
  /\ harmed \subseteq Path
=============================================================================
