------------------------------ MODULE ShredPosix ------------------------------
(***************************************************************************)
(* shred_file on Linux: the pipeline of FileShredder, the platform layer   *)
(* of platform_fs_posix.cpp it calls, and a kernel that writes dirty pages *)
(* back whenever it likes and sometimes fails to.                          *)
(***************************************************************************)
EXTENDS FileShredder

CONSTANT FsKinds

VARIABLES fs, fd, mode, total_written

P == INSTANCE PlatformPosix WITH
       Patterns     <- {"zero", "rnd"},
       logical_size <- file_size,
       pattern      <- FinalPattern(config)

platformVars == <<fs, fd, mode, total_written>>

vars == <<file, at, result, shredderVars, platformVars>>

Init ==
  /\ fs \in FsKinds
  /\ ShredderInit(fs # "inline")
  /\ fd = FALSE
  /\ mode = "UNKNOWN"
  /\ total_written = 0

\* The two halves of the program take turns: at is the platform's own label
\* only while shred_file waits for it.
Shred    == ShredStep /\ UNCHANGED platformVars
Platform == UNCHANGED shredderVars /\ P!Step
Kernel   == UNCHANGED shredderVars /\ P!KernelWriteBack

Program == Shred \/ Platform

Next == Program \/ Kernel

Spec == Init /\ [][Next]_vars

\* shred_file runs on one thread that nothing blocks for ever.
FairSpec == Spec /\ WF_vars(Program)

----------------------------------------------------------------------------
TypeOK ==
  /\ ShredderTypeOK(P!Status)
  /\ at \in P!Labels
  /\ result \in P!Results
  /\ fs \in FsKinds
  /\ fd \in BOOLEAN
  /\ mode \in P!Modes
  /\ total_written \in 0 .. Capacity

\* SUCCESS_VERIFIED is written into the audit record only for a file that is
\* gone and was verified, and whose slack holds no old data on the media unless
\* the same record says SKIPPED_COW_FILESYSTEM, which counts as slack dealt with
\* (btrfs: what a write supersedes there, file.remnant, is out of reach anyway).
SuccessVerifiedIsTrue ==
  record.status = "SUCCESS_VERIFIED" =>
    /\ name = "none"
    /\ record.verification_passed
    /\ \/ OnMedia(Slack(file_size)) = {}
       \/ record.slack_space_status = "SKIPPED_COW_FILESYSTEM"

\* What a caller of shred_file may count on: see ShredCall.
ImplementsCall == Call!Spec

\* shred_file returns, whatever fails on the way.
Terminates == (pc = "start") ~> (pc = "done")

\* The calls left to the platform function that is running, this one included.
CallsLeft ==
  [slack |-> 9, identify |-> 8, fiemap |-> 7, grow |-> 6, seek |-> 5, write |-> 4,
   sync |-> 3, restore |-> 2, finish |-> 1, discard |-> 3, punch |-> 2, fsync |-> 1,
   flush |-> 1, returned |-> 0, idle |-> 0][at]

Countdown == StepsLeft(CallsLeft, total_written)

\* No call that fails or does less than it was asked for makes shred_file go back:
\* each step takes it nearer to its end, by a count that starts at a bound known
\* from the file, the configuration and the volume, and nothing the kernel does in
\* between takes it back.
EachStepCounts ==
  [][/\ Program => Countdown' \in 0 .. Countdown - 1
     /\ ~ Program => Countdown' = Countdown]_vars

----------------------------------------------------------------------------
\* What the repository says of the program, and the program does not do.

\* "Must happen before verification, otherwise the read-back can be served from
\* the OS page cache and verify a write that never reached the disk": the flush
\* happens first, but what it returns is dropped, so that after a failed one the
\* read-back is served from the cache all the same.
VerifiedPayloadOnMedia ==
  (record.verification_passed /\ passes_executed > 0) => OnMedia(Body(file_size)) = {}
==============================================================================
