---------------------------- MODULE PlatformWin32 ----------------------------
(***************************************************************************)
(* The Win32 half of sanitizer/platform_fs.hpp, call by call, with the     *)
(* interface of PlatformPosix: a caller sets at to the function it calls   *)
(* and finds the outcome in result once at = "returned".  Handles close    *)
(* themselves (class Handle) and are not modelled.  The cache manager is   *)
(* the one of PageCache.  ShredWin32 composes the module with its caller.  *)
(***************************************************************************)
EXTENDS PageCache

CONSTANTS
  FsKinds,   \* the kinds of volume the target may live on
  AttrSets,  \* the sets of attributes the target may have
  Sizes,     \* the sizes the target may have
  Patterns   \* the final-pass patterns a caller may hand over

VARIABLES
  fs,            \* the volume: "NTFS", "FAT" (FAT32, exFAT) or "ReFS"
  attributes,    \* the file's attributes
  resident,      \* the data is in the MFT record
  file,          \* the file, as the kernel keeps it
  logical_size,  \* argument: size of the file before the call
  pattern,       \* argument: content to fill the slack with
  at,            \* the system call about to be made
  fs_name,       \* name of the volume as far as the call found it out
  total_written, \* cells of slack written so far
  result         \* what the last function to return told its caller

vars == <<fs, attributes, resident, file, logical_size, pattern, at, fs_name,
          total_written, result>>

AllFsKinds == {"NTFS", "FAT", "ReFS"}

Attributes == {"COMPRESSED", "SPARSE", "ENCRYPTED"}

ASSUME Win32Assumption ==
  /\ FsKinds \subseteq AllFsKinds
  /\ AttrSets \subseteq SUBSET Attributes
  /\ Sizes \subseteq 0 .. Capacity
  /\ Patterns \subseteq Content \ {"orig"}

\* A size is a LARGE_INTEGER, below 2^63: rounding one up does not wrap.
ASSUME RoundingFits == Capacity + Unit <= Wrap

\* ReFS and NTFS compression put what is written elsewhere.
Cow == fs = "ReFS" \/ "COMPRESSED" \in attributes

\* refused is history, which no caller is told and no guard reads: the call that
\* takes the growth back has failed.
NoResult == [call |-> "none", ok |-> FALSE, status |-> "NOT_ATTEMPTED", refused |-> FALSE]

SlackSuccess == {"SUCCESS_CLUSTER_MODE"}

SlackSkipped == {"SKIPPED_EMPTY_FILE", "SKIPPED_COMPRESSED_FILE", "SKIPPED_SPARSE_FILE",
                 "SKIPPED_ENCRYPTED_FILE", "SKIPPED_COW_FILESYSTEM", "SKIPPED_NO_SLACK",
                 "SKIPPED_RESIDENT_MFT_DATA"}

\* "FAILED" stands for every FAILED_* status.  flush_file_to_media has a bool
\* and no status: "SUCCESS" or "FAILED".
Status == {"NOT_ATTEMPTED", "FAILED", "SUCCESS", "SUCCESS_HOLE_PUNCH"}
            \union SlackSuccess \union SlackSkipped

Results == [call : {"none", "flush", "slack", "discard"}, ok : BOOLEAN, status : Status,
            refused : BOOLEAN]

Labels == {"idle", "flush", "slack", "attributes", "open", "grow", "seek", "write",
           "sync", "restore", "finish", "discard", "sparse", "zero", "invoked",
           "returned"}

TypeOK ==
  /\ fs \in FsKinds
  /\ attributes \subseteq Attributes
  /\ resident \in BOOLEAN
  /\ file \in File
  /\ logical_size \in 0 .. Capacity \union {SizeError}
  /\ pattern \in Content
  /\ at \in Labels
  /\ fs_name \in AllFsKinds \union {"UNKNOWN"}
  /\ total_written \in 0 .. Capacity
  /\ result \in Results

\* Resident files are smaller than a cluster, only NTFS has them, and only
\* there does a file have attributes.
Possible(kind, attrs, in_mft, n) ==
  /\ kind # "NTFS" => attrs = {} /\ ~ in_mft
  /\ in_mft => n < Unit /\ attrs = {}

\* The file as the passes leave it: see PlatformPosix.
Init ==
  /\ fs \in FsKinds
  /\ attributes \in AttrSets
  /\ resident \in BOOLEAN
  /\ logical_size \in Sizes
  /\ Possible(fs, attributes, resident, logical_size)
  /\ pattern \in Patterns
  /\ \E cached \in SUBSET (1 .. logical_size) :
       file = Overwritten(logical_size, pattern, cached,
                          IF resident THEN {} ELSE Slack(logical_size))
  /\ at = "idle"
  /\ fs_name = "UNKNOWN"
  /\ total_written = 0
  /\ result = NoResult

----------------------------------------------------------------------------
Volume == <<fs, resident, logical_size, pattern>>

ReturnAfter(call, ok, status, refused) ==
  /\ at' = "returned"
  /\ fs_name' = "UNKNOWN"
  /\ total_written' = 0
  /\ result' = [call |-> call, ok |-> ok, status |-> status, refused |-> refused]

Return(call, ok, status) == ReturnAfter(call, ok, status, FALSE)

\* The file keeps the size it was given to reach its slack.
FailUnrestored == ReturnAfter("slack", FALSE, "FAILED", TRUE)

Goto(label) ==
  /\ at' = label
  /\ UNCHANGED <<fs_name, total_written, result>>

\* FlushFileBuffers with its outcome not looked at.
Flushed(f) ==
  (IF SyncPossible(f) THEN {Synced(f, Cow)} ELSE {}) \union SyncFailures(f, Cow)

\* static_cast<LONGLONG>(SizeError) is -1, which SetFilePointerEx refuses.
set_size(f, size) == IF size = SizeError THEN {} ELSE Truncations(f, size)

\* As if restore_size only flushed.
GiveUpGrown(f) ==
  /\ Return("slack", FALSE, "FAILED")
  /\ file' \in Flushed(f)

\* A path that failed after the grow: restore_size, set_size ignored when it
\* fails, and a flush.
GiveUp(f) ==
  \/ FailUnrestored /\ file' \in Flushed(f)
  \/ /\ Return("slack", FALSE, "FAILED")
     /\ \E g \in set_size(f, logical_size) : file' \in Flushed(g)

----------------------------------------------------------------------------
\* As if the outcome of FlushFileBuffers were not looked at.
FlushUnchecked ==
  /\ at = "flush"
  /\ file' \in Flushed(file)
  /\ Return("flush", TRUE, "SUCCESS")
  /\ UNCHANGED <<Volume, attributes>>

\* flush_file_to_media.
Flush ==
  /\ at = "flush"
  /\ \/ Return("flush", FALSE, "FAILED") /\ UNCHANGED file
     \/ SyncPossible(file) /\ file' = Synced(file, Cow) /\ Return("flush", TRUE, "SUCCESS")
     \/ file' \in SyncFailures(file, Cow) /\ Return("flush", FALSE, "FAILED")
  /\ UNCHANGED <<Volume, attributes>>

----------------------------------------------------------------------------
\* eliminate_slack_space.

\* As if the filler buffer had a whole cluster.
FillWholeUnit == Unit

Fill == Boundary(logical_size) - logical_size   \* bytes_to_overwrite

\* What the queries about the volume and the file may answer.
fs_name_of == {fs, "UNKNOWN"}

cluster_size_of == {Unit, 0}

is_cow_filesystem(volume) == volume = "ReFS"

\* FAT32 and exFAT do not implement the query.
check_residency ==
  {"ERROR_OTHER", IF resident \/ fs = "FAT" THEN "RESIDENT_OR_UNSUPPORTED" ELSE "HAS_EXTENTS"}

SlackEnter ==
  /\ at = "slack"
  /\ \/ logical_size = 0 /\ Return("slack", TRUE, "SKIPPED_EMPTY_FILE")
     \/ /\ logical_size # 0
        /\ fs_name' \in fs_name_of
        /\ at' = "attributes"
        /\ UNCHANGED <<total_written, result>>
  /\ UNCHANGED <<Volume, attributes, file>>

\* The file cannot be treated in place: which attribute or volume is named first.
Refusal ==
  CASE "COMPRESSED" \in attributes -> "SKIPPED_COMPRESSED_FILE"
    [] "COMPRESSED" \notin attributes /\ "SPARSE" \in attributes -> "SKIPPED_SPARSE_FILE"
    [] attributes = {"ENCRYPTED"} -> "SKIPPED_ENCRYPTED_FILE"
    [] attributes = {} /\ is_cow_filesystem(fs_name) -> "SKIPPED_COW_FILESYSTEM"
    [] OTHER -> "none"

\* GetFileAttributesW, then the cluster size.
CheckAttributes ==
  /\ at = "attributes"
  /\ \/ Return("slack", FALSE, "FAILED")
     \/ Refusal # "none" /\ Return("slack", FALSE, Refusal)
     \/ /\ Refusal = "none"
        /\ \E unit \in cluster_size_of :
             IF unit = 0 THEN Return("slack", FALSE, "FAILED")
             ELSE IF logical_size % unit = 0 THEN Return("slack", TRUE, "SKIPPED_NO_SLACK")
             ELSE Goto("open")
  /\ UNCHANGED <<Volume, attributes, file>>

\* A volume whose name could not be found out is not taken for NTFS, whatever
\* the retrieval pointers say.
OpenAndLocate ==
  /\ at = "open"
  /\ \/ Return("slack", FALSE, "FAILED")
     \/ \E residency \in check_residency :
          CASE residency = "ERROR_OTHER" -> Return("slack", FALSE, "FAILED")
            [] residency = "RESIDENT_OR_UNSUPPORTED" /\ fs_name = "NTFS" ->
                 Return("slack", TRUE, "SKIPPED_RESIDENT_MFT_DATA")
            [] OTHER -> Goto("grow")
  /\ UNCHANGED <<Volume, attributes, file>>

\* A resident file that grows to a cluster is moved out of the MFT record.
Grow ==
  /\ at = "grow"
  /\ \/ Return("slack", FALSE, "FAILED") /\ UNCHANGED <<file, resident>>
     \/ /\ Boundary(logical_size) <= Capacity
        /\ file' \in set_size(file, Boundary(logical_size))
        /\ resident' = FALSE
        /\ Goto("seek")
  /\ UNCHANGED <<fs, logical_size, pattern, attributes>>

Seek ==
  /\ at = "seek"
  /\ \/ GiveUp(file)
     \/ logical_size # SizeError /\ Goto("write") /\ UNCHANGED file
  /\ UNCHANGED <<Volume, attributes>>

\* One WriteFile of at most 1 MiB; one that writes nothing is a failure.
WriteSlack ==
  /\ at = "write"
  /\ \/ GiveUp(file)
     \/ \E cells \in 1 .. Fill - total_written :
          LET from == logical_size + total_written
          IN  /\ file' = Write(file, from + 1, from + cells, pattern)
              /\ total_written' = total_written + cells
              /\ at' = IF total_written' = Fill THEN "sync" ELSE "write"
              /\ UNCHANGED <<fs_name, result>>
  /\ UNCHANGED <<Volume, attributes>>

\* As if the size were restored before the flush: what leaves the file is
\* dropped from the cache unwritten.
ShrinkBeforeFlush ==
  /\ at = "sync"
  /\ file' \in Truncations(file, logical_size)
  /\ Goto("restore")
  /\ UNCHANGED <<Volume, attributes>>

FlushSlack ==
  /\ at = "sync"
  /\ \/ SyncPossible(file) /\ file' = Synced(file, Cow) /\ Goto("restore")
     \/ \E f \in SyncFailures(file, Cow) : GiveUp(f)
  /\ UNCHANGED <<Volume, attributes>>

Restore ==
  /\ at = "restore"
  /\ \/ FailUnrestored /\ UNCHANGED file
     \/ file' \in set_size(file, logical_size) /\ Goto("finish")
  /\ UNCHANGED <<Volume, attributes>>

Finish ==
  /\ at = "finish"
  /\ file' \in Flushed(file)
  /\ Return("slack", TRUE, "SUCCESS_CLUSTER_MODE")
  /\ UNCHANGED <<Volume, attributes>>

----------------------------------------------------------------------------
\* discard_file_blocks.

DiscardOpen ==
  /\ at = "discard"
  /\ \/ logical_size = 0 /\ Return("discard", FALSE, "SKIPPED_EMPTY_FILE") /\ UNCHANGED file
     \/ logical_size # 0 /\ Return("discard", FALSE, "FAILED") /\ UNCHANGED file
     \/ logical_size # 0 /\ file' \in Flushed(file) /\ Goto("sparse")
  /\ UNCHANGED <<Volume, attributes>>

\* FSCTL_SET_SPARSE, which FAT32 and exFAT do not implement.  Nothing takes the
\* attribute away again.
SetSparse ==
  /\ at = "sparse"
  /\ \/ Return("discard", FALSE, "FAILED") /\ UNCHANGED attributes
     \/ fs # "FAT" /\ attributes' = attributes \union {"SPARSE"} /\ Goto("zero")
  /\ UNCHANGED <<Volume, file>>

\* logical_size rounded up to whole clusters, in bytes: 2^64 - 1 plus a unit less
\* one wraps to less than a unit, for the cluster and for the 4096 bytes alike.
AlignedLength(unit) ==
  IF logical_size = SizeError THEN 0
  ELSE (((logical_size + unit - 1) % Wrap) \div unit) * unit

\* As if a range that the volume refuses to zero counted as a discard.
ZeroUnchecked ==
  /\ at = "zero"
  /\ Return("discard", TRUE, "SUCCESS_HOLE_PUNCH")
  /\ UNCHANGED <<Volume, attributes, file>>

\* FSCTL_SET_ZERO_DATA over the whole file.  When the cluster size cannot be
\* found out the code takes 4096: here 1, smaller than a cluster.  A resident
\* file has no clusters to give back; its bytes are zeroed, and none is added.
ZeroData ==
  /\ at = "zero"
  /\ \/ Return("discard", FALSE, "FAILED") /\ UNCHANGED file
     \/ /\ \E size \in cluster_size_of :
             LET length == AlignedLength(IF size > 0 THEN size ELSE 1)
                 inside == IF length < file.size THEN length ELSE file.size
             IN  file' = IF resident THEN Write(file, 1, inside, "zero")
                                     ELSE Punch(file, length)
        /\ Goto("invoked")
  /\ UNCHANGED <<Volume, attributes>>

Invoked ==
  /\ at = "invoked"
  /\ Return("discard", TRUE, "SUCCESS_HOLE_PUNCH")
  /\ UNCHANGED <<Volume, attributes, file>>

----------------------------------------------------------------------------
Step ==
  \/ Flush
  \/ SlackEnter \/ CheckAttributes \/ OpenAndLocate
  \/ Grow \/ Seek \/ WriteSlack \/ FlushSlack \/ Restore \/ Finish
  \/ DiscardOpen \/ SetSparse \/ ZeroData \/ Invoked

\* The lazy writer writes back whenever it likes.
LazyWriter ==
  /\ file' \in WriteBacks(file, Cow)
  /\ UNCHANGED <<Volume, attributes, at, fs_name, total_written, result>>

\* The order in which FileShredder::shred_file makes the three calls.
NextCall == [none |-> "flush", flush |-> "slack", slack |-> "discard"]

Call ==
  /\ at \in {"idle", "returned"}
  /\ result.call # "discard"
  /\ Goto(NextCall[result.call])
  /\ UNCHANGED <<Volume, attributes, file>>

Next == Call \/ Step \/ LazyWriter

Spec == Init /\ [][Next]_vars

----------------------------------------------------------------------------
\* SUCCESS_CLUSTER_MODE is reported only when no cell of the slack still has
\* old data on the media and the size has been restored, unless the volume puts
\* what is written elsewhere and fs_name_of failed to say so.
EliminatedMeansOverwritten ==
  (at = "returned" /\ result.status \in SlackSuccess /\ ~ Cow) =>
    /\ \A i \in Slack(logical_size) : file.media[i] # "orig"
    /\ file.size = logical_size

\* The function a caller is in, told from the system call it is about to make.
Running ==
  CASE at \in {"idle", "returned"}                       -> "none"
    [] at = "flush"                                     -> "flush"
    [] at \in {"discard", "sparse", "zero", "invoked"} -> "discard"
    [] OTHER                                            -> "slack"

Contract ==
  INSTANCE PlatformFs WITH
    Success <- SlackSuccess,
    Skipped <- SlackSkipped,
    call    <- Running,
    stale   <- {i \in Body(logical_size) \union Slack(logical_size) : file.media[i] = "orig"},
    resized <- Running # "slack" /\ file.size # logical_size,
    freed   <- file.hole

\* The Win32 functions keep the promises of platform_fs.hpp that the POSIX ones
\* keep, with the same exception: a failure leaves the size changed only when the
\* call that restores it was refused.  A caller cannot tell which of the two it
\* is linked with.
ImplementsContract == Contract!Spec
==============================================================================
