----------------------------- MODULE FileShredder -----------------------------
(***************************************************************************)
(* FileShredder::shred_file and the members it calls, up to the system     *)
(* calls of the platform layer: overwrite passes, flush, slack, read-back  *)
(* verification, discard, renames, unlink, verdict.  The platform          *)
(* functions run between the step that sets at to their name and the step  *)
(* that finds at = "returned"; ShredPosix and ShredWin32 supply them.  The   *)
(* class is the same on every operating system, and so is this module.     *)
(***************************************************************************)
EXTENDS PageCache, ShredMethods

CONSTANTS
  Configs,      \* the ShredConfigs to run with
  Sizes,        \* the sizes the target may have
  BufferCells,  \* config.buffer_size, in cells
  EntropyFloor  \* fewest cells whose bytes can reach the entropy threshold

VARIABLES
  file,             \* the file (shared with the platform layer)
  at,               \* program counter of the platform layer (shared)
  result,           \* outcome of the last platform function (shared)
  pc,               \* stage of shred_file
  config,           \* config_
  file_size,        \* fs::file_size at the start
  passes_executed,  \* complete passes
  written,          \* cells written in the pass under way
  flush_ok,         \* what flush_file_to_media returned; the code drops it
  checked,          \* bytes_checked / total_read of the read-back
  mix,              \* the contents the read-back has seen
  name,             \* which name the directory entry has
  all_renames_succeeded,
  record            \* the AuditRecord

ASSUME ShredderAssumption ==
  /\ Configs \subseteq [method : Methods, passes : Nat, zero_fill : BOOLEAN]
  /\ Sizes \subseteq 0 .. Capacity
  /\ BufferCells \in Nat \ {0}
  /\ EntropyFloor \in Nat

shredderVars == <<pc, config, file_size, passes_executed, written, flush_ok, checked,
                  mix, name, all_renames_succeeded, record>>

----------------------------------------------------------------------------
Stages == {"start", "open", "pass", "flush", "slack", "verify", "checking", "discard",
           "mask0", "maskA", "shrink", "unlink", "done"}

Names == {"original", "zeros", "As", "short", "none"}

RecordStatus == {"PENDING", "SKIPPED_NOT_REGULAR_FILE", "FAILED_OVERWRITE",
                 "FAILED_VERIFICATION", "SUCCESS_WITH_WARNINGS", "SUCCESS_VERIFIED"}

NoResult == [call |-> "none", ok |-> FALSE, status |-> "NOT_ATTEMPTED", refused |-> FALSE]

NewRecord == [passes_completed          |-> 0,
              slack_space_eliminated    |-> FALSE,
              slack_space_status        |-> "NOT_ATTEMPTED",
              trim_invoked              |-> FALSE,
              verification_type         |-> "NONE",
              verification_passed       |-> FALSE,
              metadata_scrub_completed  |-> FALSE,
              status                    |-> "PENDING"]

\* What the target holds before anything is done to it: the user's data, part
\* of it perhaps not written back yet, and an earlier file's data in the slack
\* unless (hasTail) the file has no block of its own.
Target(n, unwritten, hasTail) ==
  [size    |-> n,
   cache   |-> [i \in Cells |-> IF i <= n THEN "orig" ELSE "zero"],
   media   |-> [i \in Cells |-> IF i <= n \/ (hasTail /\ i \in Slack(n))
                                THEN "orig" ELSE "zero"],
   dirty   |-> unwritten,
   hole    |-> {},
   remnant |-> {},
   error   |-> "none"]

ShredderInit(hasTail) ==
  /\ \E n \in Sizes : \E unwritten \in SUBSET Body(n) :
       file = Target(n, unwritten, hasTail)
  /\ at = "idle"
  /\ result = NoResult
  /\ pc = "start"
  /\ config \in Configs
  /\ file_size = 0
  /\ passes_executed = 0
  /\ written = 0
  /\ flush_ok = FALSE
  /\ checked = 0
  /\ mix = {}
  /\ name = "original"
  /\ all_renames_succeeded = TRUE
  /\ record = NewRecord

----------------------------------------------------------------------------
\* Entry.

NotRegular ==
  /\ pc = "start"
  /\ pc' = "done"
  /\ record' = [record EXCEPT !.status = "SKIPPED_NOT_REGULAR_FILE"]
  /\ UNCHANGED <<file, at, result, config, file_size, passes_executed, written, flush_ok,
                 checked, mix, name, all_renames_succeeded>>

\* The error_code of fs::file_size is not looked at.
Measure ==
  /\ pc = "start"
  /\ file_size' \in {file.size, SizeError}
  /\ pc' = "open"
  /\ UNCHANGED <<file, at, result, config, passes_executed, written, flush_ok, checked,
                 mix, name, all_renames_succeeded, record>>

----------------------------------------------------------------------------
\* execute_passes.

\* As if a failed pass did not end shred_file.
FailOverwriteGoesOn ==
  /\ pc' = "mask0"
  /\ UNCHANGED <<at, passes_executed, written, record>>

FailOverwrite ==
  /\ pc' = "done"
  /\ record' = [record EXCEPT !.status = "FAILED_OVERWRITE"]
  /\ UNCHANGED <<at, passes_executed, written>>

\* As if the pass loop ran once too often.
AfterPassOneMore(n) ==
  /\ passes_executed' = n
  /\ written' = 0
  /\ IF file_size > 0 /\ n <= PassCount(config)
       THEN pc' = "pass" /\ UNCHANGED <<at, record>>
       ELSE /\ pc' = "flush"
            /\ at' = "flush"
            /\ record' = [record EXCEPT !.passes_completed = n]

\* Control after n complete passes: the next pass, or flush_file_to_media.
AfterPass(n) ==
  /\ passes_executed' = n
  /\ written' = 0
  /\ IF file_size > 0 /\ n < PassCount(config)
       THEN pc' = "pass" /\ UNCHANGED <<at, record>>
       ELSE /\ pc' = "flush"
            /\ at' = "flush"
            /\ record' = [record EXCEPT !.passes_completed = n]

OpenTarget ==
  /\ pc = "open"
  /\ (file_size > 0 /\ FailOverwrite) \/ AfterPass(0)
  /\ UNCHANGED <<file, result, config, file_size, flush_ok, checked, mix, name,
                 all_renames_succeeded>>

Chunk(done) == IF file_size - done < BufferCells THEN file_size - done ELSE BufferCells

\* One iteration of write_pass_internal's loop and, after the last, the stream's
\* flush.  A write that fails may have written any part of the chunk.
WriteChunk ==
  LET content == PassContent(config, passes_executed + 1)
      chunk   == Chunk(written)
  IN  /\ pc = "pass"
      /\ \/ /\ written + chunk <= Capacity
            /\ file' = Write(file, written + 1, written + chunk, content)
            /\ IF written + chunk < file_size
                 THEN written' = written + chunk /\ UNCHANGED <<pc, at, passes_executed, record>>
                 ELSE AfterPass(passes_executed + 1)
         \/ /\ \E m \in 0 .. chunk :
                 /\ written + m <= Capacity
                 /\ file' = Write(file, written + 1, written + m, content)
            /\ FailOverwrite
      /\ UNCHANGED <<result, config, file_size, flush_ok, checked, mix, name,
                     all_renames_succeeded>>
----------------------------------------------------------------------------
\* The platform calls.  Each takes the outcome of the one before; the result
\* object goes out of scope with the block it was declared in.

\* As if a flush that failed were tried again, as often as it takes.
AfterFlushRetries ==
  LET next == IF result.ok THEN "slack" ELSE "flush"
  IN  /\ pc = "flush"
      /\ at = "returned"
      /\ flush_ok' = result.ok
      /\ pc' = next
      /\ at' = next
      /\ result' = NoResult
      /\ UNCHANGED <<file, config, file_size, passes_executed, written, checked, mix,
                     name, all_renames_succeeded, record>>

\* The value of flush_file_to_media is not used.
AfterFlush ==
  /\ pc = "flush"
  /\ at = "returned"
  /\ flush_ok' = result.ok
  /\ pc' = "slack"
  /\ at' = "slack"
  /\ result' = NoResult
  /\ UNCHANGED <<file, config, file_size, passes_executed, written, checked, mix,
                 name, all_renames_succeeded, record>>

AfterSlack ==
  /\ pc = "slack"
  /\ at = "returned"
  /\ record' = [record EXCEPT !.slack_space_eliminated = result.ok,
                              !.slack_space_status = result.status]
  /\ pc' = "verify"
  /\ at' = "idle"
  /\ result' = NoResult
  /\ UNCHANGED <<file, config, file_size, passes_executed, written, flush_ok,
                 checked, mix, name, all_renames_succeeded>>

AfterDiscard ==
  /\ pc = "discard"
  /\ at = "returned"
  /\ record' = [record EXCEPT !.trim_invoked = result.ok]
  /\ pc' = "mask0"
  /\ at' = "idle"
  /\ result' = NoResult
  /\ UNCHANGED <<file, config, file_size, passes_executed, written, flush_ok,
                 checked, mix, name, all_renames_succeeded>>

----------------------------------------------------------------------------
\* verify_target_pattern and verify_entropy.

VerificationType == IF FinalPassZero(config) THEN "BYTE_ZERO_CHECK" ELSE "SHANNON_ENTROPY_CHECK"

\* The verdict is stored and discard_file_blocks called.
Verdict(passed) ==
  /\ record' = [record EXCEPT !.verification_type = VerificationType,
                              !.verification_passed = passed]
  /\ mix' = {}
  /\ pc' = "discard"
  /\ at' = "discard"

OpenReadBack ==
  /\ pc = "verify"
  /\ \/ file_size = 0 /\ Verdict(TRUE)
     \/ file_size > 0 /\ Verdict(FALSE)
     \/ file_size > 0 /\ pc' = "checking" /\ UNCHANGED <<at, mix, record>>
  /\ checked' = 0
  /\ UNCHANGED <<file, result, config, file_size, passes_executed, written, flush_ok,
                 name, all_renames_succeeded>>

\* The entropy of the bytes read.  Data of one pattern is far below the
\* threshold; random data, or old data that happens to be compressed, may be
\* above it provided there is enough of it.
EntropyVerdicts(total_read, seen) ==
  IF total_read >= EntropyFloor /\ seen \intersect {"rnd", "orig"} # {}
  THEN BOOLEAN ELSE {FALSE}

\* As if reading only zeros were enough.
VerdictsOfPrefix(bytes_checked, seen) ==
  IF FinalPassZero(config) THEN {TRUE} ELSE EntropyVerdicts(bytes_checked, seen)

\* The verdicts of the check that config selects, once reading has stopped.
Verdicts(bytes_checked, seen) ==
  IF FinalPassZero(config) THEN {bytes_checked = file_size}
                           ELSE EntropyVerdicts(bytes_checked, seen)

\* As if a read of nothing did not break the loop.
KeepReadingOnNothing(m, chunk, so_far) == so_far < file_size

\* in.read may return less than was asked for, at end of file or after an error:
\* the stream has failed then, the next read returns nothing and the loop ends.
KeepReading(m, chunk, so_far) == m = chunk /\ so_far < file_size

\* One iteration of the read loop.
ReadChunk ==
  LET chunk == Chunk(checked)
  IN  /\ pc = "checking"
      /\ \E m \in 0 .. chunk : \E bytes \in [checked + 1 .. checked + m -> Content] :
           LET seen == mix \union {bytes[i] : i \in checked + 1 .. checked + m}
           IN  /\ checked + m <= file.size
               /\ \A i \in checked + 1 .. checked + m : bytes[i] \in Readable(file, i)
               /\ checked' = checked + m
               /\ IF FinalPassZero(config) /\ ~ seen \subseteq {"zero"}
                    THEN Verdict(FALSE)
                    ELSE IF KeepReading(m, chunk, checked')
                    THEN mix' = seen /\ UNCHANGED <<pc, at, record>>
                    ELSE \E passed \in Verdicts(checked', seen) : Verdict(passed)
      /\ UNCHANGED <<file, result, config, file_size, passes_executed, written, flush_ok,
                     name, all_renames_succeeded>>

----------------------------------------------------------------------------
\* scrub_metadata and the verdict.

\* try_rename: a failure is remembered and the next step goes on from the name
\* the entry still has.
Rename(stage, next, target) ==
  /\ pc = stage
  /\ pc' = next
  /\ \/ name' = target /\ UNCHANGED all_renames_succeeded
     \/ all_renames_succeeded' = FALSE /\ UNCHANGED name
  /\ UNCHANGED <<file, at, result, config, file_size, passes_executed, written, flush_ok,
                 checked, mix, record>>

MaskZeros  == Rename("mask0", "maskA", "zeros")
MaskAs     == Rename("maskA", "shrink", "As")
ShrinkName == Rename("shrink", "unlink", "short")

\* rfind("SKIPPED", 0) == 0
SkippedPrefix == {"SKIPPED_EMPTY_FILE", "SKIPPED_COW_FILESYSTEM", "SKIPPED_NO_SLACK",
                  "SKIPPED_INLINE_INODE_DATA", "SKIPPED_COMPRESSED_FILE",
                  "SKIPPED_SPARSE_FILE", "SKIPPED_ENCRYPTED_FILE",
                  "SKIPPED_RESIDENT_MFT_DATA"}

\* As if the slack had no part in the verdict.
FinalStatusIgnoresSlack(scrubbed) ==
  IF ~ record.verification_passed THEN "FAILED_VERIFICATION"
  ELSE IF ~ scrubbed THEN "SUCCESS_WITH_WARNINGS" ELSE "SUCCESS_VERIFIED"

\* As if the scrub and the slack were looked at before the verification.
FinalStatusScrubFirst(scrubbed) ==
  LET slack_ok == \/ record.slack_space_eliminated
                  \/ record.slack_space_status \in SkippedPrefix
  IN  IF ~ scrubbed \/ ~ slack_ok THEN "SUCCESS_WITH_WARNINGS"
      ELSE IF ~ record.verification_passed THEN "FAILED_VERIFICATION"
      ELSE "SUCCESS_VERIFIED"

FinalStatus(scrubbed) ==
  LET slack_ok == \/ record.slack_space_eliminated
                  \/ record.slack_space_status \in SkippedPrefix
  IN  IF ~ record.verification_passed THEN "FAILED_VERIFICATION"
      ELSE IF ~ scrubbed \/ ~ slack_ok THEN "SUCCESS_WITH_WARNINGS"
      ELSE "SUCCESS_VERIFIED"

\* The unlink, whatever the verification said, and the end of shred_file.
Unlink ==
  /\ pc = "unlink"
  /\ pc' = "done"
  /\ \E removed \in BOOLEAN :
       LET scrubbed == removed /\ all_renames_succeeded
       IN  /\ name' = IF removed THEN "none" ELSE name
           /\ file' = IF removed THEN Dropped(file) ELSE file
           /\ record' = [record EXCEPT !.metadata_scrub_completed = scrubbed,
                                       !.status = FinalStatus(scrubbed)]
  /\ UNCHANGED <<at, result, config, file_size, passes_executed, written, flush_ok,
                 checked, mix, all_renames_succeeded>>

ShredStep ==
  \/ NotRegular \/ Measure \/ OpenTarget \/ WriteChunk
  \/ AfterFlush \/ AfterSlack \/ OpenReadBack \/ ReadChunk \/ AfterDiscard
  \/ MaskZeros \/ MaskAs \/ ShrinkName \/ Unlink

----------------------------------------------------------------------------
\* What must hold of the pipeline whatever platform layer it is linked with.

ShredderTypeOK(slack_statuses) ==
  /\ file \in File
  /\ pc \in Stages
  /\ config \in Configs
  /\ file_size \in 0 .. Capacity \union {SizeError}
  /\ passes_executed \in 0 .. PassCount(config)
  /\ written \in 0 .. Capacity
  /\ flush_ok \in BOOLEAN
  /\ checked \in 0 .. Capacity
  /\ mix \in SUBSET Content
  /\ name \in Names
  /\ all_renames_succeeded \in BOOLEAN
  /\ record \in [passes_completed         : 0 .. PassCount(config),
                 slack_space_eliminated   : BOOLEAN,
                 slack_space_status       : slack_statuses,
                 trim_invoked             : BOOLEAN,
                 verification_type        : {"NONE", "BYTE_ZERO_CHECK", "SHANNON_ENTROPY_CHECK"},
                 verification_passed      : BOOLEAN,
                 metadata_scrub_completed : BOOLEAN,
                 status                   : RecordStatus]

OnMedia(S) == {i \in S : file.media[i] = "orig"}

\* Once flush_file_to_media has reported success after at least one pass, every
\* cell where the file keeps its payload holds the last pass's pattern on the
\* media (or zeros, once discard has zeroed the tail), and none goes back to the
\* user's data or to an earlier pass, whatever slack elimination, discard, unlink
\* and the kernel do or fail to do.
FlushedPayloadOverwritten ==
  (flush_ok /\ passes_executed > 0) =>
    \A i \in Body(file_size) : file.media[i] \in {FinalPattern(config), "zero"}

\* What cannot be undone (blocks given back, the name changed or removed) is
\* done only after every pass is complete, the slack was dealt with and the
\* read-back has been judged: FAILED_OVERWRITE leaves the file to be retried.
NothingLostBeforeVerdict ==
  (file.hole # {} \/ name # "original") =>
    /\ file_size = 0 \/ passes_executed = PassCount(config)
    /\ record.slack_space_status # "NOT_ATTEMPTED"
    /\ record.verification_type # "NONE"

\* The audit record claims a TRIM exactly when the whole units were given back.
TrimReportedHonestly ==
  pc \in {"mask0", "maskA", "shrink", "unlink", "done"} =>
    IF record.trim_invoked THEN FullUnits(file_size) \subseteq file.hole
                           ELSE file.hole = {}

\* A zero check passes only on a file it has read to the last cell.
ZeroCheckReadsAll ==
  (record.verification_passed /\ record.verification_type = "BYTE_ZERO_CHECK") =>
    checked = file_size

\* The slack is filled with what the last pass wrote, and the verification
\* looks for it: the three switches over the method agree.
SwitchesAgree ==
  PassCount(config) > 0 =>
    /\ FinalPattern(config) = PassContent(config, PassCount(config))
    /\ FinalPassZero(config) <=> FinalPattern(config) = "zero"

\* A bound on the steps left to shred_file, whose platform layer has calls_left
\* calls to make, always fewer than MaxCalls, and slack_written cells of slack
\* behind it: the stages count most, then the passes, the calls and the cells.
StagesLeft ==
  [start |-> 12, open |-> 11, pass |-> 10, flush |-> 9, slack |-> 8, verify |-> 7,
   checking |-> 6, discard |-> 5, mask0 |-> 4, maskA |-> 3, shrink |-> 2, unlink |-> 1,
   done |-> 0][pc]

PassesLeft == PassCount(config) - passes_executed

CellsLeft(slack_written) ==
  Capacity - CASE pc = "pass"     -> written
               [] pc = "checking" -> checked
               [] OTHER           -> slack_written

MaxCalls == 10

StepsLeft(calls_left, slack_written) ==
  ((StagesLeft * (PassCount(config) + 1) + PassesLeft) * MaxCalls + calls_left)
    * (Capacity + 1) + CellsLeft(slack_written)

\* What the caller sees of a call: which name the entry has, what the record
\* says and, once it has returned, what it returned.
Call ==
  INSTANCE ShredCall WITH
    entry  <- CASE name = "original" -> "original"
                [] name = "none"     -> "none"
                [] OTHER             -> "renamed",
    status <- record.status,
    passed <- pc = "done" /\ record.verification_passed
==============================================================================
