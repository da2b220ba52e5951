------------------------------- MODULE ShredCall -------------------------------
(***************************************************************************)
(* One call of FileShredder::shred_file as its caller sees it: the name of *)
(* the directory entry, the status of the audit record, the bool that is   *)
(* returned.  FileShredder implements it with either platform layer;       *)
(* TreeShred is built on it.                                               *)
(***************************************************************************)

VARIABLES
  entry,   \* the name the file has: "original", "renamed", or "none"
  status,  \* AuditRecord::status, "PENDING" until the call returns
  passed   \* what the call returned

vars == <<entry, status, passed>>

Init ==
  /\ entry = "original"
  /\ status = "PENDING"
  /\ passed = FALSE

\* Neither overwritten nor touched by name: the call can be repeated.
Refuse ==
  /\ status = "PENDING"
  /\ entry = "original"
  /\ status' \in {"SKIPPED_NOT_REGULAR_FILE", "FAILED_OVERWRITE"}
  /\ UNCHANGED <<entry, passed>>

Mask ==
  /\ status = "PENDING"
  /\ entry' = "renamed"
  /\ UNCHANGED <<status, passed>>

\* The unlink is tried whatever the verification said; only SUCCESS_VERIFIED
\* says that it worked, and only the two successes return true.
Finish ==
  /\ status = "PENDING"
  /\ \/ status' = "FAILED_VERIFICATION" /\ passed' = FALSE /\ entry' \in {entry, "none"}
     \/ status' = "SUCCESS_WITH_WARNINGS" /\ passed' = TRUE /\ entry' \in {entry, "none"}
     \/ status' = "SUCCESS_VERIFIED" /\ passed' = TRUE /\ entry' = "none"

Next == Refuse \/ Mask \/ Finish

Spec == Init /\ [][Next]_vars
==============================================================================
