---------------------------- MODULE PlatformPosix ----------------------------
(***************************************************************************)
(* The POSIX half of sanitizer/platform_fs.hpp: flush_file_to_media,       *)
(* eliminate_slack_space and discard_file_blocks, one action per system    *)
(* call, since the kernel's write-back, a failing call or another step of  *)
(* the kernel can come between any two of them.  A caller sets at to the   *)
(* function it calls and finds the outcome in result once at = "returned". *)
(* On its own (Spec) the module is driven through the three functions in   *)
(* the order FileShredder uses; ShredPosix composes it with that caller.   *)
(***************************************************************************)
EXTENDS PageCache

CONSTANTS
  FsKinds,  \* the kinds of filesystem the target may live on
  Sizes,    \* the sizes the target may have
  Patterns  \* the final-pass patterns a caller may hand over

VARIABLES
  fs,            \* kind of the filesystem holding the file
  file,          \* the file, as the kernel keeps it
  logical_size,  \* argument: size of the file before the call
  pattern,       \* argument: content to fill the slack with
  at,            \* the system call about to be made
  fd,            \* TRUE while the function's descriptor is open
  mode,          \* strategy chosen for the slack
  total_written, \* cells of slack written so far
  result         \* what the last function to return told its caller

vars == <<fs, file, logical_size, pattern, at, fd, mode, total_written, result>>

\* "extent": ext4, XFS.  "inline": ext4 with the data in the inode.
\* "cluster": FAT, exFAT, NTFS.  "cow": btrfs.  "nomap": no FIEMAP, no cluster
\* magic (tmpfs, FUSE).
AllFsKinds == {"extent", "inline", "cluster", "cow", "nomap"}

ASSUME PlatformAssumption ==
  /\ FsKinds \subseteq AllFsKinds
  /\ Sizes \subseteq 0 .. Capacity
  /\ Patterns \subseteq Content \ {"orig"}

Cow == fs = "cow"

\* refused is history, which no caller is told and no guard reads: the call that
\* takes the growth back has failed.
NoResult == [call |-> "none", ok |-> FALSE, status |-> "NOT_ATTEMPTED", refused |-> FALSE]

SlackSuccess == {"SUCCESS", "SUCCESS_CLUSTER_MODE", "SUCCESS_CLUSTER_FALLBACK"}

SlackSkipped == {"SKIPPED_EMPTY_FILE", "SKIPPED_COW_FILESYSTEM", "SKIPPED_NO_SLACK",
                 "SKIPPED_INLINE_INODE_DATA"}

\* "FAILED" stands for every FAILED_* status: no caller tells them apart.
\* flush_file_to_media has a bool and no status: "SUCCESS" or "FAILED".
Status == {"NOT_ATTEMPTED", "FAILED"} \union SlackSuccess \union SlackSkipped

Results == [call : {"none", "flush", "slack", "discard"}, ok : BOOLEAN, status : Status,
            refused : BOOLEAN]

Labels == {"idle", "flush", "slack", "identify", "fiemap", "grow", "seek", "write",
           "sync", "restore", "finish", "discard", "punch", "fsync", "returned"}

Modes == {"UNKNOWN", "EXTENT", "CLUSTER", "FALLBACK"}

TypeOK ==
  /\ fs \in FsKinds
  /\ file \in File
  /\ logical_size \in 0 .. Capacity \union {SizeError}
  /\ pattern \in Content
  /\ at \in Labels
  /\ fd \in BOOLEAN
  /\ mode \in Modes
  /\ total_written \in 0 .. Capacity
  /\ result \in Results

\* The file as the overwrite passes leave it: every payload cell holds the last
\* pattern, in the cache or already on the media; the slack is untouched.  An
\* inline file has no block of its own and hence no slack.
Init ==
  /\ fs \in FsKinds
  /\ logical_size \in Sizes
  /\ pattern \in Patterns
  /\ \E cached \in SUBSET (1 .. logical_size) :
       file = Overwritten(logical_size, pattern, cached,
                          IF fs = "inline" THEN {} ELSE Slack(logical_size))
  /\ at = "idle"
  /\ fd = FALSE
  /\ mode = "UNKNOWN"
  /\ total_written = 0
  /\ result = NoResult

----------------------------------------------------------------------------
\* Control flow shared by the actions.

Args == <<fs, logical_size, pattern>>

\* Return to the caller, the descriptor (if any) closed and the locals gone.
ReturnAfter(call, ok, status, refused) ==
  /\ at' = "returned"
  /\ fd' = FALSE
  /\ mode' = "UNKNOWN"
  /\ total_written' = 0
  /\ result' = [call |-> call, ok |-> ok, status |-> status, refused |-> refused]

Return(call, ok, status) == ReturnAfter(call, ok, status, FALSE)

\* The file keeps the size it was given to reach its slack.
FailUnrestored == ReturnAfter("slack", FALSE, "FAILED", TRUE)

Goto(label) ==
  /\ at' = label
  /\ UNCHANGED <<fd, mode, total_written, result>>

\* As if a path that failed after the grow returned without the ftruncate back.
GiveUpGrown(f) ==
  /\ Return("slack", FALSE, "FAILED")
  /\ file' = f

\* A path that failed after the grow: ftruncate back, its outcome ignored.
GiveUp(f) ==
  \/ FailUnrestored /\ file' = f
  \/ /\ logical_size # SizeError
     /\ Return("slack", FALSE, "FAILED")
     /\ file' \in Truncations(f, logical_size)

----------------------------------------------------------------------------
\* flush_file_to_media: open, fdatasync, close.

FlushOpenFails ==
  /\ at = "flush"
  /\ Return("flush", FALSE, "FAILED")
  /\ UNCHANGED <<Args, file>>

\* As if the outcome of fdatasync were not looked at.
FlushSyncUnchecked ==
  /\ at = "flush"
  /\ file' \in {Synced(file, Cow)} \union SyncFailures(file, Cow)
  /\ Return("flush", TRUE, "SUCCESS")
  /\ UNCHANGED Args

FlushSync ==
  /\ at = "flush"
  /\ \/ SyncPossible(file) /\ file' = Synced(file, Cow) /\ Return("flush", TRUE, "SUCCESS")
     \/ file' \in SyncFailures(file, Cow) /\ Return("flush", FALSE, "FAILED")
  /\ UNCHANGED Args

----------------------------------------------------------------------------
\* eliminate_slack_space.

\* As if the filler buffer had a whole unit.
FillWholeUnit == Unit

Fill == Boundary(logical_size) - logical_size   \* bytes_to_overwrite

SlackEmpty ==
  /\ at = "slack"
  /\ logical_size = 0
  /\ Return("slack", TRUE, "SKIPPED_EMPTY_FILE")
  /\ UNCHANGED <<Args, file>>

SlackOpen ==
  /\ at = "slack"
  /\ logical_size # 0
  /\ \/ Return("slack", FALSE, "FAILED")
     \/ at' = "identify" /\ fd' = TRUE /\ UNCHANGED <<mode, total_written, result>>
  /\ UNCHANGED <<Args, file>>

FstatFails ==
  /\ at = "identify"
  /\ Return("slack", FALSE, "FAILED")
  /\ UNCHANGED <<Args, file>>

\* fstatfs may fail: then the code recognises neither cow nor cluster.
Identify ==
  /\ at = "identify"
  /\ \E have_statfs \in BOOLEAN :
       LET cow_fs     == have_statfs /\ fs = "cow"
           cluster_fs == have_statfs /\ fs = "cluster"
       IN \/ /\ cow_fs
             /\ Return("slack", FALSE, "SKIPPED_COW_FILESYSTEM")
          \/ /\ ~ cow_fs
             /\ logical_size % Unit = 0
             /\ Return("slack", TRUE, "SKIPPED_NO_SLACK")
          \/ /\ ~ cow_fs
             /\ logical_size % Unit # 0
             /\ mode' = IF cluster_fs THEN "CLUSTER" ELSE "EXTENT"
             /\ at' = IF cluster_fs THEN "grow" ELSE "fiemap"
             /\ UNCHANGED <<fd, total_written, result>>
  /\ UNCHANGED <<Args, file>>

HasExtentMap == fs \in {"extent", "inline", "cow"}

FiemapUnsupported ==
  /\ at = "fiemap"
  /\ ~ HasExtentMap
  /\ mode' = "FALLBACK"
  /\ at' = "grow"
  /\ UNCHANGED <<Args, file, fd, total_written, result>>

\* As if that path forgot to close the descriptor.
FiemapErrorLeaks ==
  /\ at = "fiemap"
  /\ file' \in SyncFailures(file, Cow) \union {file}
  /\ at' = "returned"
  /\ result' = [call |-> "slack", ok |-> FALSE, status |-> "FAILED", refused |-> FALSE]
  /\ UNCHANGED <<Args, fd, mode, total_written>>

\* Any other errno; the sync that FIEMAP_FLAG_SYNC asks for may be what failed.
FiemapError ==
  /\ at = "fiemap"
  /\ file' \in SyncFailures(file, Cow) \union {file}
  /\ Return("slack", FALSE, "FAILED")
  /\ UNCHANGED Args

\* A file whose data was never allocated maps no extent; an inline one has its
\* only extent in the inode.
Fiemap ==
  /\ at = "fiemap"
  /\ HasExtentMap
  /\ SyncPossible(file)
  /\ file' = Synced(file, Cow)
  /\ \/ Return("slack", FALSE, "FAILED")
     \/ fs = "inline" /\ Return("slack", TRUE, "SKIPPED_INLINE_INODE_DATA")
     \/ fs # "inline" /\ Goto("grow")
  /\ UNCHANGED Args

Grow ==
  /\ at = "grow"
  /\ \/ Return("slack", FALSE, "FAILED") /\ UNCHANGED file
     \/ /\ Boundary(logical_size) <= Capacity
        /\ file' \in Truncations(file, Boundary(logical_size))
        /\ Goto("seek")
  /\ UNCHANGED Args

\* static_cast<off_t>(SizeError) is -1, which lseek and ftruncate refuse.
Seek ==
  /\ at = "seek"
  /\ \/ GiveUp(file)
     \/ logical_size # SizeError /\ Goto("write") /\ UNCHANGED file
  /\ UNCHANGED Args

\* One write(2), which may accept fewer bytes than it was given.  EINTR only
\* repeats the call.
WriteSlack ==
  /\ at = "write"
  /\ \/ GiveUp(file)
     \/ \E written \in 1 .. Fill - total_written :
          LET from == logical_size + total_written
          IN  /\ file' = Write(file, from + 1, from + written, pattern)
              /\ total_written' = total_written + written
              /\ at' = IF total_written' = Fill THEN "sync" ELSE "write"
              /\ UNCHANGED <<fd, mode, result>>
  /\ UNCHANGED Args

\* As if the slack's fdatasync could not fail.
SyncSlackUnchecked ==
  /\ at = "sync"
  /\ file' \in {Synced(file, Cow)} \union SyncFailures(file, Cow)
  /\ Goto("restore")
  /\ UNCHANGED Args

SyncSlack ==
  /\ at = "sync"
  /\ \/ SyncPossible(file) /\ file' = Synced(file, Cow) /\ Goto("restore")
     \/ \E f \in SyncFailures(file, Cow) : GiveUp(f)
  /\ UNCHANGED Args

Restore ==
  /\ at = "restore"
  /\ \/ FailUnrestored /\ UNCHANGED file
     \/ file' \in Truncations(file, logical_size) /\ Goto("finish")
  /\ UNCHANGED Args

\* A sync whose outcome nobody looks at.
IgnoredSync ==
  \/ SyncPossible(file) /\ file' = Synced(file, Cow)
  \/ file' \in SyncFailures(file, Cow)

Finish ==
  /\ at = "finish"
  /\ IgnoredSync
  /\ Return("slack", TRUE, CASE mode = "FALLBACK" -> "SUCCESS_CLUSTER_FALLBACK"
                             [] mode = "CLUSTER"  -> "SUCCESS_CLUSTER_MODE"
                             [] OTHER             -> "SUCCESS")
  /\ UNCHANGED Args

----------------------------------------------------------------------------
\* discard_file_blocks.

DiscardEmpty ==
  /\ at = "discard"
  /\ logical_size = 0
  /\ Return("discard", FALSE, "SKIPPED_EMPTY_FILE")
  /\ UNCHANGED <<Args, file>>

DiscardOpenFails ==
  /\ at = "discard"
  /\ logical_size # 0
  /\ Return("discard", FALSE, "FAILED")
  /\ UNCHANGED <<Args, file>>

DiscardOpen ==
  /\ at = "discard"
  /\ logical_size # 0
  /\ IgnoredSync
  /\ at' = "punch"
  /\ fd' = TRUE
  /\ UNCHANGED <<Args, mode, total_written, result>>

\* As if the punch's return value were not looked at.
PunchUnchecked ==
  /\ at = "punch"
  /\ Return("discard", TRUE, "SUCCESS")
  /\ UNCHANGED <<Args, file>>

\* Any file system may refuse; FAT, exFAT and NTFS never punch.
PunchFails ==
  /\ at = "punch"
  /\ Return("discard", FALSE, "FAILED")
  /\ UNCHANGED <<Args, file>>

PunchHole ==
  /\ at = "punch"
  /\ fs # "cluster"
  /\ logical_size # SizeError
  /\ file' = Punch(file, logical_size)
  /\ Goto("fsync")
  /\ UNCHANGED Args

FsyncDiscard ==
  /\ at = "fsync"
  /\ IgnoredSync
  /\ Return("discard", TRUE, "SUCCESS")
  /\ UNCHANGED Args

----------------------------------------------------------------------------
Step ==
  \/ FlushOpenFails \/ FlushSync
  \/ SlackEmpty \/ SlackOpen \/ FstatFails \/ Identify
  \/ FiemapUnsupported \/ FiemapError \/ Fiemap
  \/ Grow \/ Seek \/ WriteSlack \/ SyncSlack \/ Restore \/ Finish
  \/ DiscardEmpty \/ DiscardOpenFails \/ DiscardOpen \/ PunchFails \/ PunchHole
  \/ FsyncDiscard

\* The kernel writes back whenever it likes.
KernelWriteBack ==
  /\ file' \in WriteBacks(file, Cow)
  /\ UNCHANGED <<Args, at, fd, mode, total_written, result>>

\* The order in which FileShredder::shred_file makes the three calls.
NextCall == [none |-> "flush", flush |-> "slack", slack |-> "discard"]

Call ==
  /\ at \in {"idle", "returned"}
  /\ result.call # "discard"
  /\ Goto(NextCall[result.call])
  /\ UNCHANGED <<Args, file>>

Next == Call \/ Step \/ KernelWriteBack

Spec == Init /\ [][Next]_vars

----------------------------------------------------------------------------
\* Properties.

\* No function leaves its descriptor open on any of its return paths, and none
\* uses one it has closed: what lies between open and close has fd set.
DescriptorClosed == fd <=> at \notin {"idle", "flush", "slack", "discard", "returned"}

\* eliminate_slack_space reports one of the SUCCESS statuses only when no cell
\* of the slack still has old data on the media and the size has been restored.
\* On btrfs it does not try, unless fstatfs failed to tell it where it is.
EliminatedMeansOverwritten ==
  (at = "returned" /\ result.status \in SlackSuccess /\ result.call = "slack" /\ ~ Cow) =>
    /\ \A i \in Slack(logical_size) : file.media[i] # "orig"
    /\ file.size = logical_size

\* The function a caller is in, told from the system call it is about to make.
Running ==
  CASE at \in {"idle", "returned"}            -> "none"
    [] at = "flush"                           -> "flush"
    [] at \in {"discard", "punch", "fsync"}   -> "discard"
    [] OTHER                                  -> "slack"

\* A copy-on-write filesystem's old blocks (file.remnant) are not where the
\* file keeps its data: no function of the interface can name them.
Contract ==
  INSTANCE PlatformFs WITH
    Success <- SlackSuccess,
    Skipped <- SlackSkipped,
    call    <- Running,
    stale   <- {i \in Body(logical_size) \union Slack(logical_size) : file.media[i] = "orig"},
    resized <- Running # "slack" /\ file.size # logical_size,
    freed   <- file.hole

\* The POSIX functions, call by call, do what platform_fs.hpp promises: a flush
\* that reports success has put the payload on the media, slack reported as
\* eliminated is overwritten and the size is back, a skip has changed nothing,
\* a TRIM is reported exactly when one was done, old data never returns, and
\* every failure restores the size.  The header promises the last of every path;
\* what the code keeps, and this asks for, is that with one exception: the
\* ftruncate that takes the growth back is itself refused (the function then
\* reports FAILED and the file stays at its cluster size).
ImplementsContract == Contract!Spec
==============================================================================
