------------------------------ MODULE ShredWin32 ------------------------------
(***************************************************************************)
(* shred_file on Windows: the pipeline of FileShredder with the platform   *)
(* layer of platform_fs_win32.cpp, and the lazy writer.                    *)
(***************************************************************************)
EXTENDS FileShredder

CONSTANTS FsKinds, AttrSets

VARIABLES fs, attributes, resident, fs_name, total_written

P == INSTANCE PlatformWin32 WITH
       Patterns     <- {"zero", "rnd"},
       logical_size <- file_size,
       pattern      <- FinalPattern(config)

ASSUME VolumeAssumption ==
  /\ FsKinds \subseteq P!AllFsKinds
  /\ AttrSets \subseteq SUBSET P!Attributes

\* A size is a LARGE_INTEGER, below 2^63: rounding one up does not wrap.
ASSUME RoundingFits == Capacity + Unit <= Wrap

platformVars == <<fs, attributes, resident, fs_name, total_written>>

vars == <<file, at, result, shredderVars, platformVars>>

Init ==
  /\ fs \in FsKinds
  /\ attributes \in AttrSets
  /\ resident \in BOOLEAN
  /\ ShredderInit(~ resident)
  /\ P!Possible(fs, attributes, resident, file.size)
  /\ fs_name = "UNKNOWN"
  /\ total_written = 0

Shred    == ShredStep /\ UNCHANGED platformVars
Platform == UNCHANGED shredderVars /\ P!Step
Kernel   == UNCHANGED shredderVars /\ P!LazyWriter

Program == Shred \/ Platform

Next == Program \/ Kernel

Spec == Init /\ [][Next]_vars

----------------------------------------------------------------------------
TypeOK ==
  /\ ShredderTypeOK(P!Status)
  /\ at \in P!Labels
  /\ result \in P!Results
  /\ fs \in FsKinds
  /\ attributes \subseteq P!Attributes
  /\ resident \in BOOLEAN
  /\ fs_name \in P!AllFsKinds \union {"UNKNOWN"}
  /\ total_written \in 0 .. Capacity

\* The volume or an attribute puts what is written elsewhere, or makes the code
\* leave the slack alone.
SlackLeftAlone == fs = "ReFS" \/ attributes \ {"SPARSE"} # {}

\* SUCCESS_VERIFIED is written into the audit record only for a file that is
\* gone and, where the slack can be reached, whose slack holds no old data on
\* the media.  The attributes are those the file has when it is unlinked: the
\* discard may have added the sparse one.
SuccessVerifiedIsTrue ==
  (record.status = "SUCCESS_VERIFIED" /\ ~ SlackLeftAlone
     /\ record.slack_space_status # "SKIPPED_SPARSE_FILE") =>
    /\ name = "none"
    /\ OnMedia(Slack(file_size)) = {}

\* What a caller of shred_file may count on is the same as on Linux.
ImplementsCall == Call!Spec

\* The audit record claims a TRIM exactly when the clusters were given back, of a
\* file whose size is known: the size of a failed file_size wraps to 0 when it is
\* rounded up, nothing is discarded, and the record claims a TRIM all the same.
TrimOfKnownSizeReported == file_size # SizeError => TrimReportedHonestly

\* The calls left to the platform function that is running, this one included.
CallsLeft ==
  [slack |-> 9, attributes |-> 8, open |-> 7, grow |-> 6, seek |-> 5, write |-> 4,
   sync |-> 3, restore |-> 2, finish |-> 1, discard |-> 4, sparse |-> 3, zero |-> 2,
   invoked |-> 1, flush |-> 1, returned |-> 0, idle |-> 0][at]

Countdown == StepsLeft(CallsLeft, total_written)

\* On Windows too each step takes shred_file nearer to its end, whichever calls fail.
EachStepCounts ==
  [][/\ Program => Countdown' \in 0 .. Countdown - 1
     /\ ~ Program => Countdown' = Countdown]_vars
==============================================================================
