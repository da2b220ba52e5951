-------------------------- MODULE PlatformPosixProofs --------------------------
(***************************************************************************)
(* For any volume, allocation unit, file size and filesystem: the POSIX    *)
(* platform functions keep their types, never leak their descriptor,       *)
(* report slack as eliminated only when it is, and do, call by call, what  *)
(* PlatformFs promises.  The inductive invariant follows                   *)
(* eliminate_slack_space from the grow to the return: what has been        *)
(* written of the slack is covered (dirty, stored, or lost to an error the *)
(* sync will report), all of it is once the loop ends, and after the sync  *)
(* it is gone from the media for good, because no cell of the cache holds  *)
(* old data that a later write-back could bring back.                      *)
(***************************************************************************)
EXTENDS PlatformPosix, PageCacheProofs

WrittenSlack == logical_size + 1 .. logical_size + total_written

SlackInv ==
  /\ at \notin {"write", "sync", "restore", "finish"} => total_written = 0
  /\ at \in {"seek", "write"} => Boundary(logical_size) <= Capacity
  /\ at = "write" => /\ total_written = 0 \/ total_written < Fill
                     /\ Covered(file, WrittenSlack)
  /\ at = "sync" => Covered(file, Slack(logical_size))
  /\ at \in {"restore", "finish"} => Gone(file, Slack(logical_size))
  /\ at = "finish" => file.size = logical_size

IInv ==
  /\ TypeOK
  /\ logical_size \in 0 .. Capacity
  /\ pattern # "orig"
  /\ Fresh(file)
  /\ DescriptorClosed
  /\ SlackInv
  /\ EliminatedMeansOverwritten

\* IInv holds of the file as the overwrite passes leave it.
LEMMA InitInv == Init => IInv
<1> SUFFICES ASSUME Init PROVE IInv
  OBVIOUS
<1>1. /\ fs \in FsKinds /\ logical_size \in 0 .. Capacity
      /\ pattern \in Content \ {"orig"}
      /\ at = "idle" /\ fd = FALSE /\ mode = "UNKNOWN" /\ total_written = 0
      /\ result = NoResult
  BY PlatformAssumption DEF Init
<1>2. PICK cached \in SUBSET (1 .. logical_size) :
        file = Overwritten(logical_size, pattern, cached,
                           IF fs = "inline" THEN {} ELSE Slack(logical_size))
  BY DEF Init
<1> DEFINE old == IF fs = "inline" THEN {} ELSE Slack(logical_size)
<1>3. cached \in SUBSET Cells
  BY <1>1, StorageAssumption DEF Cells
<1>4. /\ [i \in Cells |-> IF i <= logical_size THEN pattern ELSE "zero"] \in [Cells -> Content]
      /\ [i \in Cells |-> IF i \in cached \union old THEN "orig"
                         ELSE IF i <= logical_size THEN pattern ELSE "zero"]
           \in [Cells -> Content]
  <2> HIDE DEF old
  <2> QED
    BY <1>1 DEF Content
<1>5. file \in File
  BY <1>1, <1>2, <1>3, <1>4 DEF File, Overwritten
<1>6. Fresh(file)
  BY <1>1, <1>2 DEF Fresh, Overwritten
<1>7. TypeOK
  <2>1. result \in Results
    BY <1>1 DEF Results, NoResult, Status
  <2>2. at \in Labels /\ mode \in Modes /\ fd \in BOOLEAN
    BY <1>1 DEF Labels, Modes
  <2>3. total_written \in 0 .. Capacity
    BY <1>1, StorageAssumption
  <2> QED
    BY <1>1, <1>5, <2>1, <2>2, <2>3 DEF TypeOK
<1> QED
  BY <1>1, <1>6, <1>7 DEF IInv, DescriptorClosed, SlackInv, EliminatedMeansOverwritten

\* What is left to show of an action that ends outside the part of
\* eliminate_slack_space between the seek and the return of a success.
LEMMA FrameLemma ==
  ASSUME IInv, UNCHANGED Args, file' \in File, Fresh(file'),
         at' \in Labels, fd' \in BOOLEAN, mode' \in Modes, total_written' = 0,
         result' \in Results,
         DescriptorClosed',
         at' \notin {"write", "sync", "restore", "finish"},
         at' = "seek" => Boundary(logical_size) <= Capacity,
         at' = "returned" => ~ (result'.call = "slack" /\ result'.status \in SlackSuccess)
  PROVE  IInv'
<1>1. /\ fs' = fs /\ logical_size' = logical_size /\ pattern' = pattern
  BY DEF Args
<1>2. TypeOK'
  BY <1>1, StorageAssumption DEF IInv, TypeOK
<1>3. Fresh(file)'
  BY DEF Fresh
<1>4. SlackInv'
  BY <1>1 DEF SlackInv, Boundary
<1>5. EliminatedMeansOverwritten'
  BY DEF EliminatedMeansOverwritten
<1> QED
  BY <1>1, <1>2, <1>3, <1>4, <1>5 DEF IInv

\* Every outcome a function can return has the type of result.
LEMMA ReturnLemma ==
  ASSUME NEW call \in {"flush", "slack", "discard"}, NEW ok \in BOOLEAN,
         NEW status \in Status, NEW refused \in BOOLEAN, ReturnAfter(call, ok, status, refused)
  PROVE  /\ at' \in Labels /\ fd' \in BOOLEAN /\ mode' \in Modes /\ total_written' = 0
         /\ at' = "returned" /\ fd' = FALSE
         /\ result' \in Results /\ result'.call = call /\ result'.status = status
  BY DEF ReturnAfter, Labels, Modes, Results

\* A function that fails, or one that is not eliminate_slack_space, returns
\* having left a well-formed fresh file: that is enough for IInv.
LEMMA PlainReturnAfter ==
  ASSUME IInv, UNCHANGED Args, file' \in File, Fresh(file'),
         NEW call \in {"flush", "slack", "discard"}, NEW ok \in BOOLEAN,
         NEW status \in Status, NEW refused \in BOOLEAN, ReturnAfter(call, ok, status, refused),
         call = "slack" => status \notin SlackSuccess
  PROVE  IInv'
<1>1. /\ at' \in Labels /\ fd' \in BOOLEAN /\ mode' \in Modes /\ total_written' = 0
      /\ at' = "returned" /\ fd' = FALSE
      /\ result' \in Results /\ result'.call = call /\ result'.status = status
  BY ReturnLemma
<1>2. DescriptorClosed'
  BY <1>1 DEF DescriptorClosed
<1> QED
  BY <1>1, <1>2, FrameLemma

\* The same, of a return that has left no size behind.
LEMMA PlainReturn ==
  ASSUME IInv, UNCHANGED Args, file' \in File, Fresh(file'),
         NEW call \in {"flush", "slack", "discard"}, NEW ok \in BOOLEAN,
         NEW status \in Status, Return(call, ok, status),
         call = "slack" => status \notin SlackSuccess
  PROVE  IInv'
BY PlainReturnAfter DEF Return

\* An error path of eliminate_slack_space after the grow.
LEMMA GiveUpLemma ==
  ASSUME IInv, UNCHANGED Args, NEW f \in File, Fresh(f), GiveUp(f)
  PROVE  IInv'
<1>1. logical_size \in 0 .. Capacity
  BY DEF IInv
<1>2. PICK refused \in BOOLEAN : ReturnAfter("slack", FALSE, "FAILED", refused)
  BY DEF GiveUp, Return, FailUnrestored
<1>5. "FAILED" \in Status /\ "FAILED" \notin SlackSuccess
  BY DEF Status, SlackSuccess
<1>3. file' = f \/ file' \in Truncations(f, logical_size)
  BY DEF GiveUp
<1>4. file' \in File /\ Fresh(file')
  <2>1. {} \in SUBSET Cells
    OBVIOUS
  <2> QED
    BY <1>1, <1>3, <2>1, TruncationsLemma
<1> QED
  BY <1>2, <1>4, <1>5, PlainReturnAfter

\* flush_file_to_media.
LEMMA FlushStep == IInv /\ (FlushOpenFails \/ FlushSync) => IInv'
<1> SUFFICES ASSUME IInv, FlushOpenFails \/ FlushSync PROVE IInv'
  OBVIOUS
<1>0. file \in File /\ Fresh(file) /\ {} \in SUBSET Cells
  BY DEF IInv, TypeOK
<1>s. "SUCCESS" \in Status /\ "FAILED" \in Status
  BY DEF Status, SlackSuccess
<1>1. CASE FlushOpenFails
  <2>1. UNCHANGED Args /\ file' \in File /\ Fresh(file') /\ Return("flush", FALSE, "FAILED")
    BY <1>0, <1>1 DEF FlushOpenFails
  <2> QED
    BY <1>s, <2>1, PlainReturn
<1>2. CASE FlushSync
  <2>0. UNCHANGED Args
    BY <1>2 DEF FlushSync
  <2>1. CASE SyncPossible(file) /\ file' = Synced(file, Cow) /\ Return("flush", TRUE, "SUCCESS")
    <3>1. file' \in File /\ Fresh(file')
      BY <1>0, <2>1, SyncedLemma
    <3> QED
      BY <1>s, <2>0, <2>1, <3>1, PlainReturn
  <2>2. CASE file' \in SyncFailures(file, Cow) /\ Return("flush", FALSE, "FAILED")
    <3>1. file' \in File /\ Fresh(file')
      BY <1>0, <2>2, SyncFailuresLemma
    <3> QED
      BY <1>s, <2>0, <2>2, <3>1, PlainReturn
  <2> QED
    BY <1>2, <2>1, <2>2 DEF FlushSync
<1> QED
  BY <1>1, <1>2

\* eliminate_slack_space up to the grow: the file is only synced.
LEMMA BeforeGrowStep ==
  IInv /\ (SlackEmpty \/ SlackOpen \/ FstatFails \/ Identify \/ FiemapUnsupported
             \/ FiemapError \/ Fiemap) => IInv'
<1> SUFFICES ASSUME IInv,
                    SlackEmpty \/ SlackOpen \/ FstatFails \/ Identify \/ FiemapUnsupported
                      \/ FiemapError \/ Fiemap
             PROVE  IInv'
  OBVIOUS
<1>0. /\ file \in File /\ Fresh(file) /\ {} \in SUBSET Cells
      /\ fd \in BOOLEAN /\ mode \in Modes /\ result \in Results
      /\ at \notin {"write", "sync", "restore", "finish"} => total_written = 0
      /\ DescriptorClosed
  BY DEF IInv, TypeOK, SlackInv
<1>s. /\ "FAILED" \in Status /\ "FAILED" \notin SlackSuccess
      /\ SlackSkipped \subseteq Status /\ SlackSkipped \intersect SlackSuccess = {}
  BY DEF Status, SlackSuccess, SlackSkipped
<1>1. CASE SlackEmpty
  <2>1. UNCHANGED <<Args, file>> /\ Return("slack", TRUE, "SKIPPED_EMPTY_FILE")
    BY <1>1 DEF SlackEmpty
  <2>2. "SKIPPED_EMPTY_FILE" \in SlackSkipped
    BY DEF SlackSkipped
  <2> QED
    BY <1>0, <1>s, <2>1, <2>2, PlainReturn
<1>2. CASE SlackOpen
  <2>1. UNCHANGED <<Args, file>>
    BY <1>2 DEF SlackOpen
  <2>2. CASE Return("slack", FALSE, "FAILED")
    BY <1>0, <1>s, <2>1, <2>2, PlainReturn
  <2>3. CASE at' = "identify" /\ fd' = TRUE /\ UNCHANGED <<mode, total_written, result>>
    <3>1. total_written' = 0
      BY <1>0, <1>2, <2>3 DEF SlackOpen
    <3>2. at' \in Labels /\ fd' \in BOOLEAN /\ DescriptorClosed'
      BY <2>3 DEF Labels, DescriptorClosed
    <3> QED
      BY <1>0, <2>1, <2>3, <3>1, <3>2, FrameLemma
  <2> QED
    BY <1>2, <2>2, <2>3 DEF SlackOpen
<1>3. CASE FstatFails
  <2>1. UNCHANGED <<Args, file>> /\ Return("slack", FALSE, "FAILED")
    BY <1>3 DEF FstatFails
  <2> QED
    BY <1>0, <1>s, <2>1, PlainReturn
<1>4. CASE Identify
  <2>1. UNCHANGED <<Args, file>> /\ at = "identify"
    BY <1>4 DEF Identify
  <2>2. \/ Return("slack", FALSE, "SKIPPED_COW_FILESYSTEM")
        \/ Return("slack", TRUE, "SKIPPED_NO_SLACK")
        \/ /\ mode' \in {"CLUSTER", "EXTENT"}
           /\ at' \in {"grow", "fiemap"}
           /\ UNCHANGED <<fd, total_written, result>>
    BY <1>4 DEF Identify
  <2>3. "SKIPPED_COW_FILESYSTEM" \in SlackSkipped /\ "SKIPPED_NO_SLACK" \in SlackSkipped
    BY DEF SlackSkipped
  <2>4. CASE Return("slack", FALSE, "SKIPPED_COW_FILESYSTEM")
    BY <1>0, <1>s, <2>1, <2>3, <2>4, PlainReturn
  <2>5. CASE Return("slack", TRUE, "SKIPPED_NO_SLACK")
    BY <1>0, <1>s, <2>1, <2>3, <2>5, PlainReturn
  <2>6. CASE /\ mode' \in {"CLUSTER", "EXTENT"}
             /\ at' \in {"grow", "fiemap"}
             /\ UNCHANGED <<fd, total_written, result>>
    <3>1. mode' \in Modes /\ at' \in Labels /\ total_written' = 0
      BY <1>0, <2>1, <2>6 DEF Modes, Labels
    <3>2. fd' \in BOOLEAN /\ DescriptorClosed'
      BY <1>0, <2>1, <2>6 DEF DescriptorClosed
    <3> QED
      BY <1>0, <2>1, <2>6, <3>1, <3>2, FrameLemma
  <2> QED
    BY <2>2, <2>4, <2>5, <2>6
<1>5. CASE FiemapUnsupported
  <2>1. /\ UNCHANGED <<Args, file, fd, total_written, result>>
        /\ at = "fiemap" /\ at' = "grow" /\ mode' = "FALLBACK"
    BY <1>5 DEF FiemapUnsupported
  <2>2. mode' \in Modes /\ at' \in Labels /\ total_written' = 0
    BY <1>0, <2>1 DEF Modes, Labels
  <2>3. fd' \in BOOLEAN /\ DescriptorClosed'
    BY <1>0, <2>1 DEF DescriptorClosed
  <2> QED
    BY <1>0, <2>1, <2>2, <2>3, FrameLemma
<1>6. CASE FiemapError
  <2>1. /\ UNCHANGED Args /\ Return("slack", FALSE, "FAILED")
        /\ file' \in SyncFailures(file, Cow) \/ file' = file
    BY <1>6 DEF FiemapError
  <2>2. file' \in File /\ Fresh(file')
    BY <1>0, <2>1, SyncFailuresLemma
  <2> QED
    BY <1>s, <2>1, <2>2, PlainReturn
<1>7. CASE Fiemap
  <2>1. /\ UNCHANGED Args /\ at = "fiemap"
        /\ SyncPossible(file) /\ file' = Synced(file, Cow)
    BY <1>7 DEF Fiemap
  <2>2. file' \in File /\ Fresh(file')
    BY <1>0, <2>1, SyncedLemma
  <2>3. "SKIPPED_INLINE_INODE_DATA" \in SlackSkipped
    BY DEF SlackSkipped
  <2>4. CASE Return("slack", FALSE, "FAILED")
    BY <1>s, <2>1, <2>2, <2>4, PlainReturn
  <2>5. CASE Return("slack", TRUE, "SKIPPED_INLINE_INODE_DATA")
    BY <1>s, <2>1, <2>2, <2>3, <2>5, PlainReturn
  <2>6. CASE Goto("grow")
    <3>1. /\ at' = "grow" /\ at' \in Labels /\ mode' \in Modes /\ result' \in Results
          /\ total_written' = 0 /\ fd' = fd
      BY <1>0, <2>1, <2>6 DEF Goto, Labels
    <3>2. fd' \in BOOLEAN /\ DescriptorClosed'
      BY <1>0, <2>1, <3>1 DEF DescriptorClosed
    <3> QED
      BY <2>1, <2>2, <3>1, <3>2, FrameLemma
  <2> QED
    BY <1>7, <2>4, <2>5, <2>6 DEF Fiemap
<1> QED
  BY <1>1, <1>2, <1>3, <1>4, <1>5, <1>6, <1>7

\* Growing and seeking: nothing of the slack is written yet.
LEMMA GrowSeekStep == IInv /\ (Grow \/ Seek) => IInv'
<1> SUFFICES ASSUME IInv, Grow \/ Seek PROVE IInv'
  OBVIOUS
<1>0. /\ file \in File /\ Fresh(file) /\ {} \in SUBSET Cells
      /\ fd \in BOOLEAN /\ mode \in Modes /\ result \in Results
      /\ logical_size \in 0 .. Capacity /\ fs \in FsKinds /\ pattern \in Content
      /\ pattern # "orig"
      /\ at \notin {"write", "sync", "restore", "finish"} => total_written = 0
      /\ at = "seek" => Boundary(logical_size) <= Capacity
      /\ DescriptorClosed
  BY DEF IInv, TypeOK, SlackInv
<1>s. "FAILED" \in Status /\ "FAILED" \notin SlackSuccess
  BY DEF Status, SlackSuccess
<1>1. CASE Grow
  <2>1. UNCHANGED Args /\ at = "grow"
    BY <1>1 DEF Grow
  <2>2. CASE Return("slack", FALSE, "FAILED") /\ UNCHANGED file
    <3>1. file' \in File /\ Fresh(file')
      BY <1>0, <2>2
    <3> QED
      BY <1>s, <2>1, <2>2, <3>1, PlainReturn
  <2>3. CASE /\ Boundary(logical_size) <= Capacity
             /\ file' \in Truncations(file, Boundary(logical_size))
             /\ Goto("seek")
    <3>1. Boundary(logical_size) \in 0 .. Capacity
      BY <1>0, <2>3, BoundaryType, StorageAssumption
    <3>2. file' \in File /\ Fresh(file')
      BY <1>0, <2>3, <3>1, TruncationsLemma
    <3>3. /\ at' = "seek" /\ at' \in Labels /\ mode' \in Modes /\ result' \in Results
          /\ total_written' = 0 /\ fd' = fd
      BY <1>0, <2>1, <2>3 DEF Goto, Labels
    <3>4. fd' \in BOOLEAN /\ DescriptorClosed'
      BY <1>0, <2>1, <3>3 DEF DescriptorClosed
    <3> QED
      BY <2>1, <2>3, <3>2, <3>3, <3>4, FrameLemma
  <2> QED
    BY <1>1, <2>2, <2>3 DEF Grow
<1>2. CASE Seek
  <2>1. UNCHANGED Args /\ at = "seek"
    BY <1>2 DEF Seek
  <2>2. CASE GiveUp(file)
    BY <1>0, <2>1, <2>2, GiveUpLemma
  <2>3. CASE Goto("write") /\ UNCHANGED file
    <3>1. /\ at' = "write" /\ fd' = fd /\ mode' = mode /\ result' = result /\ file' = file
          /\ total_written' = 0 /\ fs' = fs /\ logical_size' = logical_size /\ pattern' = pattern
      BY <1>0, <2>1, <2>3 DEF Goto, Args
    <3>2. TypeOK'
      BY <1>0, <3>1, StorageAssumption DEF TypeOK, Labels
    <3>3. DescriptorClosed' /\ Fresh(file)' /\ EliminatedMeansOverwritten'
      BY <1>0, <2>1, <3>1 DEF DescriptorClosed, Fresh, EliminatedMeansOverwritten
    <3>4. SlackInv'
      <4>1. Boundary(logical_size') <= Capacity
        BY <1>0, <2>1, <3>1
      <4>2. WrittenSlack' = {}
        BY <1>0, <3>1 DEF WrittenSlack
      <4> QED
        BY <3>1, <4>1, <4>2 DEF SlackInv, Covered
    <3> QED
      BY <1>0, <3>1, <3>2, <3>3, <3>4 DEF IInv
  <2> QED
    BY <1>2, <2>2, <2>3 DEF Seek
<1> QED
  BY <1>1, <1>2

\* The write loop: each write(2) extends what is covered, the last to all of it.
LEMMA WriteSlackStep == IInv /\ WriteSlack => IInv'
<1> SUFFICES ASSUME IInv, WriteSlack PROVE IInv'
  OBVIOUS
<1>0. /\ file \in File /\ Fresh(file)
      /\ fd \in BOOLEAN /\ mode \in Modes /\ result \in Results
      /\ logical_size \in 0 .. Capacity /\ fs \in FsKinds /\ pattern \in Content
      /\ pattern # "orig" /\ total_written \in 0 .. Capacity
      /\ DescriptorClosed
  BY DEF IInv, TypeOK
<1>1. UNCHANGED Args /\ at = "write"
  BY DEF WriteSlack
<1>2. /\ Boundary(logical_size) <= Capacity
      /\ total_written = 0 \/ total_written < Fill
      /\ Covered(file, WrittenSlack)
  BY <1>1 DEF IInv, SlackInv
<1>3. Boundary(logical_size) \in 0 .. Capacity /\ Fill \in Int
  BY <1>0, <1>2, BoundaryType, StorageAssumption DEF Fill
<1>4. CASE GiveUp(file)
  BY <1>0, <1>1, <1>4, GiveUpLemma
<1>5. ASSUME NEW written \in 1 .. Fill - total_written,
             file' = Write(file, logical_size + total_written + 1,
                           logical_size + total_written + written, pattern),
             total_written' = total_written + written,
             at' = IF total_written' = Fill THEN "sync" ELSE "write",
             UNCHANGED <<fd, mode, result>>
      PROVE  IInv'
  <2> DEFINE lo == logical_size + total_written + 1
             hi == logical_size + total_written + written
  <2>0. written \in Nat \ {0} /\ written <= Fill - total_written /\ Capacity \in Nat
    BY <1>0, <1>3, StorageAssumption
  <2>1. lo \in Nat \ {0} /\ hi \in 0 .. Capacity
    BY <1>0, <1>3, <2>0 DEF Fill
  <2>2. WrittenSlack \in SUBSET Cells
    BY <1>0, <1>3, <1>2, StorageAssumption DEF WrittenSlack, Cells, Fill
  <2>3. /\ file' \in File /\ Fresh(file')
        /\ Covered(file', WrittenSlack \union (lo .. hi))
    <3>1. pattern \in Content \ {"orig"}
      BY <1>0
    <3> QED
      BY <1>0, <1>2, <1>5, <2>1, <2>2, <3>1, WriteLemma
  <2>4. WrittenSlack' = WrittenSlack \union (lo .. hi)
    BY <1>0, <1>1, <1>3, <1>5 DEF WrittenSlack, Args
  <2>5. /\ fs' = fs /\ logical_size' = logical_size /\ pattern' = pattern
        /\ at' \in {"sync", "write"} /\ Fill' = Fill
    BY <1>1, <1>5 DEF Args, Fill, Boundary
  <2>6. total_written' \in 0 .. Capacity /\ total_written' <= Fill
    BY <1>0, <1>3, <1>5, <2>0 DEF Fill
  <2>7. TypeOK'
    BY <1>0, <1>5, <2>3, <2>5, <2>6 DEF TypeOK, Labels
  <2>8. DescriptorClosed' /\ EliminatedMeansOverwritten'
    BY <1>0, <1>1, <1>5, <2>5 DEF DescriptorClosed, EliminatedMeansOverwritten
  <2>9. SlackInv'
    <3>1. Boundary(logical_size)' <= Capacity
      BY <1>2, <2>5 DEF Boundary
    <3>2. CASE at' = "write"
      <4>1. total_written' < Fill'
        BY <1>3, <1>5, <2>5, <2>6, <3>2
      <4> QED
        BY <2>3, <2>4, <3>1, <3>2, <4>1 DEF SlackInv
    <3>3. CASE at' = "sync"
      <4>1. total_written' = Fill
        BY <1>5, <3>3
      <4>2. Slack(logical_size)' \subseteq WrittenSlack'
        BY <1>0, <1>3, <2>5, <4>1 DEF Slack, WrittenSlack, Fill, Boundary
      <4> QED
        BY <2>3, <2>4, <3>3, <4>2 DEF SlackInv, Covered
    <3> QED
      BY <2>5, <3>2, <3>3
  <2> QED
    BY <1>0, <2>3, <2>5, <2>7, <2>8, <2>9 DEF IInv, Fresh
<1> QED
  BY <1>4, <1>5 DEF WriteSlack

\* From the sync to the return: what was covered is gone, and stays gone.
LEMMA SyncRestoreFinishStep == IInv /\ (SyncSlack \/ Restore \/ Finish) => IInv'
<1> SUFFICES ASSUME IInv, SyncSlack \/ Restore \/ Finish PROVE IInv'
  OBVIOUS
<1>0. /\ file \in File /\ Fresh(file) /\ {} \in SUBSET Cells
      /\ fd \in BOOLEAN /\ mode \in Modes /\ result \in Results
      /\ logical_size \in 0 .. Capacity /\ fs \in FsKinds /\ pattern \in Content
      /\ pattern # "orig" /\ total_written \in 0 .. Capacity
      /\ DescriptorClosed
      /\ Slack(logical_size) \in SUBSET Cells
  BY DEF IInv, TypeOK, Slack
<1>s. /\ "FAILED" \in Status /\ "FAILED" \notin SlackSuccess /\ SlackSuccess \subseteq Status
  BY DEF Status, SlackSuccess
<1>1. CASE SyncSlack
  <2>1. UNCHANGED Args /\ at = "sync"
    BY <1>1 DEF SyncSlack
  <2>2. CASE SyncPossible(file) /\ file' = Synced(file, Cow) /\ Goto("restore")
    <3>1. Covered(file, Slack(logical_size))
      BY <2>1 DEF IInv, SlackInv
    <3>2. file' \in File /\ Fresh(file') /\ Gone(file', Slack(logical_size))
      BY <1>0, <2>2, <3>1, SyncedLemma
    <3>3. /\ at' = "restore" /\ fd' = fd /\ mode' = mode /\ result' = result
          /\ total_written' = total_written
          /\ fs' = fs /\ logical_size' = logical_size /\ pattern' = pattern
      BY <2>1, <2>2 DEF Goto, Args
    <3>4. TypeOK'
      BY <1>0, <3>2, <3>3 DEF TypeOK, Labels
    <3>5. DescriptorClosed' /\ EliminatedMeansOverwritten'
      BY <1>0, <2>1, <3>3 DEF DescriptorClosed, EliminatedMeansOverwritten
    <3>6. SlackInv'
      BY <3>2, <3>3 DEF SlackInv, Gone, Slack, Boundary
    <3> QED
      BY <1>0, <3>2, <3>3, <3>4, <3>5, <3>6 DEF IInv, Fresh
  <2>3. ASSUME NEW f \in SyncFailures(file, Cow), GiveUp(f) PROVE IInv'
    <3>1. f \in File /\ Fresh(f)
      BY <1>0, <2>3, SyncFailuresLemma
    <3> QED
      BY <2>1, <2>3, <3>1, GiveUpLemma
  <2> QED
    BY <1>1, <2>2, <2>3 DEF SyncSlack
<1>2. CASE Restore
  <2>1. UNCHANGED Args /\ at = "restore"
    BY <1>2 DEF Restore
  <2>2. CASE FailUnrestored /\ UNCHANGED file
    <3>1. file' \in File /\ Fresh(file')
      BY <1>0, <2>2
    <3> QED
      BY <1>s, <2>1, <2>2, <3>1, PlainReturnAfter DEF FailUnrestored
  <2>3. CASE file' \in Truncations(file, logical_size) /\ Goto("finish")
    <3>1. Gone(file, Slack(logical_size))
      BY <2>1 DEF IInv, SlackInv
    <3>2. /\ file' \in File /\ Fresh(file') /\ Gone(file', Slack(logical_size))
          /\ file'.size = logical_size
      BY <1>0, <2>3, <3>1, TruncationsLemma
    <3>3. /\ at' = "finish" /\ fd' = fd /\ mode' = mode /\ result' = result
          /\ total_written' = total_written
          /\ fs' = fs /\ logical_size' = logical_size /\ pattern' = pattern
      BY <2>1, <2>3 DEF Goto, Args
    <3>4. TypeOK'
      BY <1>0, <3>2, <3>3 DEF TypeOK, Labels
    <3>5. DescriptorClosed' /\ EliminatedMeansOverwritten'
      BY <1>0, <2>1, <3>3 DEF DescriptorClosed, EliminatedMeansOverwritten
    <3>6. SlackInv'
      BY <3>2, <3>3 DEF SlackInv, Gone, Slack, Boundary
    <3> QED
      BY <1>0, <3>2, <3>3, <3>4, <3>5, <3>6 DEF IInv, Fresh
  <2> QED
    BY <1>2, <2>2, <2>3 DEF Restore
<1>3. CASE Finish
  <2>1. UNCHANGED Args /\ at = "finish" /\ IgnoredSync
    BY <1>3 DEF Finish
  <2>2. Gone(file, Slack(logical_size)) /\ file.size = logical_size
    BY <2>1 DEF IInv, SlackInv
  <2>3. /\ file' \in File /\ Fresh(file') /\ Gone(file', Slack(logical_size))
        /\ file'.size = logical_size
    <3>1. CASE SyncPossible(file) /\ file' = Synced(file, Cow)
      BY <1>0, <2>2, <3>1, SyncedLemma
    <3>2. CASE file' \in SyncFailures(file, Cow)
      BY <1>0, <2>2, <3>2, SyncFailuresLemma
    <3> QED
      BY <2>1, <3>1, <3>2 DEF IgnoredSync
  <2>4. PICK status \in SlackSuccess : Return("slack", TRUE, status)
    BY <1>3 DEF Finish, SlackSuccess
  <2>5. /\ at' = "returned" /\ fd' = FALSE /\ mode' \in Modes /\ total_written' = 0
        /\ result' \in Results /\ at' \in Labels /\ fd' \in BOOLEAN
        /\ fs' = fs /\ logical_size' = logical_size /\ pattern' = pattern
    BY <1>s, <2>1, <2>4, ReturnLemma DEF Args, Return
  <2>6. TypeOK'
    <3>1. total_written' \in 0 .. Capacity
      BY <2>5, StorageAssumption
    <3>2. fs' \in FsKinds /\ pattern' \in Content
      BY <1>0, <2>5
    <3>3. logical_size' \in 0 .. Capacity \union {SizeError}
      BY <1>0, <2>5
    <3> QED
      BY <2>3, <2>5, <3>1, <3>2, <3>3 DEF TypeOK
  <2>7. DescriptorClosed' /\ EliminatedMeansOverwritten'
    BY <2>3, <2>5 DEF DescriptorClosed, EliminatedMeansOverwritten, Gone, Slack, Boundary
  <2>8. SlackInv'
    BY <2>5 DEF SlackInv
  <2> QED
    BY <1>0, <2>3, <2>5, <2>6, <2>7, <2>8 DEF IInv, Fresh
<1> QED
  BY <1>1, <1>2, <1>3

\* discard_file_blocks: the file is synced, punched and synced again.
LEMMA DiscardStep ==
  IInv /\ (DiscardEmpty \/ DiscardOpenFails \/ DiscardOpen \/ PunchFails \/ PunchHole
             \/ FsyncDiscard) => IInv'
<1> SUFFICES ASSUME IInv,
                    DiscardEmpty \/ DiscardOpenFails \/ DiscardOpen \/ PunchFails \/ PunchHole
                      \/ FsyncDiscard
             PROVE  IInv'
  OBVIOUS
<1>0. /\ file \in File /\ Fresh(file) /\ {} \in SUBSET Cells
      /\ fd \in BOOLEAN /\ mode \in Modes /\ result \in Results
      /\ logical_size \in 0 .. Capacity \union {SizeError}
      /\ logical_size \in 0 .. Capacity
      /\ at \notin {"write", "sync", "restore", "finish"} => total_written = 0
      /\ DescriptorClosed
  BY DEF IInv, TypeOK, SlackInv
<1>s. "FAILED" \in Status /\ "SUCCESS" \in Status /\ "SKIPPED_EMPTY_FILE" \in Status
  BY DEF Status, SlackSuccess, SlackSkipped
<1>i. ASSUME IgnoredSync PROVE file' \in File /\ Fresh(file')
  <2>1. CASE SyncPossible(file) /\ file' = Synced(file, Cow)
    BY <1>0, <2>1, SyncedLemma
  <2>2. CASE file' \in SyncFailures(file, Cow)
    BY <1>0, <2>2, SyncFailuresLemma
  <2> QED
    BY <1>i, <2>1, <2>2 DEF IgnoredSync
<1>1. CASE DiscardEmpty
  <2>1. UNCHANGED <<Args, file>> /\ Return("discard", FALSE, "SKIPPED_EMPTY_FILE")
    BY <1>1 DEF DiscardEmpty
  <2> QED
    BY <1>0, <1>s, <2>1, PlainReturn
<1>2. CASE DiscardOpenFails \/ PunchFails
  <2>1. UNCHANGED <<Args, file>> /\ Return("discard", FALSE, "FAILED")
    BY <1>2 DEF DiscardOpenFails, PunchFails
  <2> QED
    BY <1>0, <1>s, <2>1, PlainReturn
<1>3. CASE DiscardOpen
  <2>1. /\ UNCHANGED <<Args, mode, total_written, result>> /\ IgnoredSync
        /\ at = "discard" /\ at' = "punch" /\ fd' = TRUE
    BY <1>3 DEF DiscardOpen
  <2>2. at' \in Labels /\ fd' \in BOOLEAN /\ DescriptorClosed' /\ total_written' = 0
    BY <1>0, <2>1 DEF Labels, DescriptorClosed
  <2>3. file' \in File /\ Fresh(file')
    BY <1>i, <2>1
  <2> QED
    BY <1>0, <2>1, <2>2, <2>3, FrameLemma
<1>4. CASE PunchHole
  <2>1. /\ UNCHANGED Args /\ at = "punch" /\ Goto("fsync")
        /\ file' = Punch(file, logical_size)
    BY <1>4 DEF PunchHole
  <2>2. file' \in File /\ Fresh(file')
    BY <1>0, <2>1, PunchLemma
  <2>3. /\ at' = "fsync" /\ at' \in Labels /\ mode' \in Modes /\ result' \in Results
        /\ total_written' = 0 /\ fd' = fd
    BY <1>0, <2>1 DEF Goto, Labels
  <2>4. fd' \in BOOLEAN /\ DescriptorClosed'
    BY <1>0, <2>1, <2>3 DEF DescriptorClosed
  <2> QED
    BY <2>1, <2>2, <2>3, <2>4, FrameLemma
<1>5. CASE FsyncDiscard
  <2>1. UNCHANGED Args /\ IgnoredSync /\ Return("discard", TRUE, "SUCCESS")
    BY <1>5 DEF FsyncDiscard
  <2>2. file' \in File /\ Fresh(file')
    BY <1>i, <2>1
  <2> QED
    BY <1>s, <2>1, <2>2, PlainReturn
<1> QED
  BY <1>1, <1>2, <1>3, <1>4, <1>5

\* Write-back between two calls: what is covered stays covered, because a lost
\* cell leaves an error pending, and what is gone stays gone, because the cache
\* holds nothing old to bring back.
LEMMA WriteBackStep == IInv /\ KernelWriteBack => IInv'
<1> SUFFICES ASSUME IInv, KernelWriteBack PROVE IInv'
  OBVIOUS
<1>1. /\ file' \in WriteBacks(file, Cow)
      /\ fs' = fs /\ logical_size' = logical_size /\ pattern' = pattern /\ at' = at
      /\ fd' = fd /\ mode' = mode /\ total_written' = total_written /\ result' = result
  BY DEF KernelWriteBack, Args
<1>2. file \in File /\ Fresh(file) /\ Slack(logical_size) \in SUBSET Cells
  BY DEF IInv, TypeOK, Slack
<1>3. /\ file' \in File /\ file'.size = file.size /\ Fresh(file')
      /\ Covered(file, Slack(logical_size)) => Covered(file', Slack(logical_size))
      /\ Gone(file, Slack(logical_size)) => Gone(file', Slack(logical_size))
  BY <1>1, <1>2, WriteBacksLemma
<1>4. TypeOK'
  BY <1>1, <1>3 DEF IInv, TypeOK
<1>5. DescriptorClosed'
  BY <1>1 DEF IInv, DescriptorClosed
<1>6. SlackInv'
  <2>1. ASSUME at = "write" PROVE Covered(file', WrittenSlack)
    <3>1. Covered(file, WrittenSlack)
      BY <2>1 DEF IInv, SlackInv
    <3>2. CASE WrittenSlack \in SUBSET Cells
      BY <1>1, <1>2, <3>1, <3>2, WriteBacksLemma
    <3>3. WrittenSlack \in SUBSET Cells
      <4>1. /\ total_written = 0 \/ total_written < Fill
            /\ Boundary(logical_size) <= Capacity
            /\ logical_size \in 0 .. Capacity /\ total_written \in 0 .. Capacity
        BY <2>1 DEF IInv, SlackInv, TypeOK
      <4>2. Boundary(logical_size) \in Nat /\ Capacity \in Nat
        BY <4>1, BoundaryType, StorageAssumption
      <4>3. logical_size + total_written <= Capacity
        BY <4>1, <4>2 DEF Fill
      <4> QED
        BY <4>1, <4>2, <4>3 DEF WrittenSlack, Cells
    <3> QED
      BY <3>2, <3>3
  <2>2. Covered(file, Slack(logical_size))' <=> Covered(file', Slack(logical_size))
    BY <1>1 DEF Covered, Slack, Boundary
  <2>3. Gone(file, Slack(logical_size))' <=> Gone(file', Slack(logical_size))
    BY <1>1 DEF Gone, Slack, Boundary
  <2>4. Covered(file, WrittenSlack)' <=> Covered(file', WrittenSlack)
    BY <1>1 DEF Covered, WrittenSlack
  <2>5. Boundary(logical_size)' = Boundary(logical_size) /\ Fill' = Fill
    BY <1>1 DEF Boundary, Fill
  <2> QED
    BY <1>1, <1>3, <2>1, <2>2, <2>3, <2>4, <2>5 DEF IInv, SlackInv
<1>7. EliminatedMeansOverwritten'
  <2>1. Slack(logical_size)' = Slack(logical_size) /\ Cow' = Cow
    BY <1>1 DEF Slack, Boundary, Cow
  <2> QED
    BY <1>1, <1>3, <2>1 DEF IInv, EliminatedMeansOverwritten, Gone
<1> QED
  BY <1>1, <1>3, <1>4, <1>5, <1>6, <1>7 DEF IInv, Fresh

\* The caller's next call: nothing but the program counter moves.
LEMMA CallStep == IInv /\ Call => IInv'
<1> SUFFICES ASSUME IInv, Call PROVE IInv'
  OBVIOUS
<1>1. /\ UNCHANGED <<Args, file, fd, mode, total_written, result>>
      /\ at \in {"idle", "returned"}
      /\ at' = NextCall[result.call] /\ result.call # "discard"
  BY DEF Call, Goto
<1>2. result.call \in {"none", "flush", "slack"}
  BY <1>1 DEF IInv, TypeOK, Results
<1>3. at' \in {"flush", "slack", "discard"}
  BY <1>1, <1>2 DEF NextCall
<1>4. /\ file' \in File /\ Fresh(file') /\ at' \in Labels
      /\ fd' \in BOOLEAN /\ mode' \in Modes /\ result' \in Results
  BY <1>1, <1>3 DEF IInv, TypeOK, Labels
<1>5. total_written' = 0
  BY <1>1 DEF IInv, SlackInv
<1>6. DescriptorClosed'
  BY <1>1, <1>3 DEF IInv, DescriptorClosed
<1> QED
  BY <1>1, <1>3, <1>4, <1>5, <1>6, FrameLemma

\* IInv is inductive.
LEMMA StepInv == IInv /\ [Next]_vars => IInv'
<1> SUFFICES ASSUME IInv, [Next]_vars PROVE IInv'
  OBVIOUS
<1>1. CASE Call
  BY <1>1, CallStep
<1>2. CASE KernelWriteBack
  BY <1>2, WriteBackStep
<1>3. CASE Step
  BY <1>3, FlushStep, BeforeGrowStep, GrowSeekStep, WriteSlackStep, SyncRestoreFinishStep,
     DiscardStep DEF Step
<1>4. CASE UNCHANGED vars
  BY <1>4 DEF vars, IInv, TypeOK, Fresh, DescriptorClosed, SlackInv, Covered, Gone, WrittenSlack,
     Fill, Slack, Boundary, EliminatedMeansOverwritten, Cow
<1> QED
  BY <1>1, <1>2, <1>3, <1>4 DEF Next

\* The variables of the platform layer keep their types, for every volume,
\* allocation unit, file size and kind of filesystem.
THEOREM TypeCorrect == Spec => []TypeOK
<1>1. IInv => TypeOK
  BY DEF IInv
<1> QED
  BY InitInv, StepInv, <1>1, PTL DEF Spec

\* No path through flush_file_to_media, eliminate_slack_space and
\* discard_file_blocks returns with the descriptor open, or uses it closed.
THEOREM DescriptorSafe == Spec => []DescriptorClosed
<1>1. IInv => DescriptorClosed
  BY DEF IInv
<1> QED
  BY InitInv, StepInv, <1>1, PTL DEF Spec

\* Slack that eliminate_slack_space reports as eliminated holds no old data on
\* the media, and the size is back, whatever the kernel wrote back, lost or
\* refused on the way and however short the writes were.
THEOREM SlackHonest == Spec => []EliminatedMeansOverwritten
<1>1. IInv => EliminatedMeansOverwritten
  BY DEF IInv
<1> QED
  BY InitInv, StepInv, <1>1, PTL DEF Spec

----------------------------------------------------------------------------
\* Steps of the contract.

Stale == {i \in Body(logical_size) \union Slack(logical_size) : file.media[i] = "orig"}

Resized == Running # "slack" /\ file.size # logical_size

\* The contract's variables, and its own copies of the operators of PageCache.
LEMMA AbstractState ==
  /\ Contract!vars = <<logical_size, Running, Stale, Resized, file.hole, result>>
  /\ \A n : Contract!Body(n) = Body(n) /\ Contract!Slack(n) = Slack(n)
            /\ Contract!FullUnits(n) = FullUnits(n)
BY DEF Contract!vars, Stale, Resized, Contract!Body, Contract!Slack, Contract!FullUnits,
       Contract!Cells, Contract!Boundary, Body, Slack, FullUnits, Cells, Boundary

\* The function that is running, before and after a step.
LEMMA RunningIs ==
  /\ at \in {"idle", "returned"} => Running = "none"
  /\ at = "flush" => Running = "flush"
  /\ at \in {"discard", "punch", "fsync"} => Running = "discard"
  /\ at \in {"slack", "identify", "fiemap", "grow", "seek", "write", "sync", "restore",
             "finish"} => Running = "slack"
BY DEF Running

\* The same after a step.
LEMMA RunningWillBe ==
  /\ at' \in {"idle", "returned"} => Running' = "none"
  /\ at' = "flush" => Running' = "flush"
  /\ at' \in {"discard", "punch", "fsync"} => Running' = "discard"
  /\ at' \in {"slack", "identify", "fiemap", "grow", "seek", "write", "sync", "restore",
              "finish"} => Running' = "slack"
BY DEF Running

\* Old data that does not come back to the file does not come back to the contract.
LEMMA StaleShrinks ==
  ASSUME logical_size' = logical_size, Old(file') \subseteq Old(file)
  PROVE  /\ Stale' \in SUBSET Stale
         /\ Gone(file', Body(logical_size)) => Stale' \intersect Body(logical_size) = {}
         /\ Gone(file', Slack(logical_size)) => Stale' \intersect Slack(logical_size) = {}
<1>1. Body(logical_size)' = Body(logical_size) /\ Slack(logical_size)' = Slack(logical_size)
  BY DEF Body, Slack, Boundary
<1>2. Body(logical_size) \subseteq Cells /\ Slack(logical_size) \subseteq Cells
  BY DEF Body, Slack
<1> QED
  BY <1>1, <1>2 DEF Stale, Old, Gone

\* A step inside a function, or by the kernel.
LEMMA OverwriteStep ==
  ASSUME logical_size' = logical_size, Old(file') \subseteq Old(file), Running' = Running,
         Running = "slack" \/ file'.size = file.size,
         file'.hole = file.hole, result' = result
  PROVE  [Contract!Next]_(Contract!vars)
<1>1. Stale' \in SUBSET Stale
  BY StaleShrinks
<1>2. Resized' = Resized
  BY DEF Resized
<1>3. Contract!Overwrite
  BY <1>1, <1>2 DEF Contract!Overwrite, Stale, Resized
<1> QED
  BY <1>3 DEF Contract!Next

\* The step that gives the units back.
LEMMA FreeStep ==
  ASSUME logical_size' = logical_size, file'.media = file.media,
         Running = "discard", Running' = "discard",
         file'.size = file.size, result' = result,
         file'.hole \in {FullUnits(logical_size), Body(logical_size) \union Slack(logical_size)}
  PROVE  [Contract!Next]_(Contract!vars)
<1>1. Stale' = Stale
  BY DEF Stale, Body, Slack, Boundary
<1>2. Resized' = Resized
  BY DEF Resized
<1>3. Contract!Free
  BY <1>1, <1>2, AbstractState DEF Contract!Free, Stale, Resized
<1> QED
  BY <1>3 DEF Contract!Next

\* A call.
LEMMA InvokeStep ==
  ASSUME logical_size' = logical_size, file' = file, result' = result,
         Running = "none", Running' \in {"flush", "slack", "discard"},
         Running' = "slack" => file.size = logical_size
  PROVE  [Contract!Next]_(Contract!vars)
<1>1. Stale' = Stale
  BY DEF Stale, Body, Slack, Boundary
<1>2. Resized' = Resized
  BY DEF Resized
<1>3. Contract!Invoke(Running')
  BY <1>1, <1>2 DEF Contract!Invoke, Stale, Resized
<1> QED
  BY <1>3 DEF Contract!Next

\* What every return has in common.
LEMMA ReplyAfterStep ==
  ASSUME NEW call, NEW ok, NEW status, NEW refused, ReturnAfter(call, ok, status, refused),
         Running = call, logical_size' = logical_size, Old(file') \subseteq Old(file)
  PROVE  /\ Contract!ReplyAfter(call, ok, status, refused)
         /\ result'.ok = ok /\ result'.status = status /\ result'.refused = refused
         /\ Running' = "none"
<1>1. Stale' \in SUBSET Stale
  BY StaleShrinks
<1>2. /\ at' = "returned"
      /\ result' = [call |-> call, ok |-> ok, status |-> status, refused |-> refused]
  BY DEF ReturnAfter
<1>3. Running' = "none"
  BY <1>2, RunningWillBe
<1> QED
  BY <1>1, <1>2, <1>3 DEF Contract!ReplyAfter, Stale

\* And what those have that leave no size behind.
LEMMA ReplyStep ==
  ASSUME NEW call, NEW ok, NEW status, Return(call, ok, status), Running = call,
         logical_size' = logical_size, Old(file') \subseteq Old(file)
  PROVE  /\ Contract!Reply(call, ok, status)
         /\ result'.ok = ok /\ result'.status = status /\ Running' = "none"
BY ReplyAfterStep DEF Return, Contract!Reply

\* flush_file_to_media returns.
LEMMA FlushReturnsStep ==
  ASSUME NEW ok \in BOOLEAN, NEW status, Return("flush", ok, status), Running = "flush",
         logical_size' = logical_size, Quiet(file, file'),
         ok => Gone(file', Body(logical_size))
  PROVE  [Contract!Next]_(Contract!vars)
<1>1. /\ Contract!Reply("flush", ok, status) /\ result'.ok = ok /\ result'.status = status
      /\ Running' = "none"
  BY ReplyStep DEF Quiet
<1>2. ok => Stale' \intersect Contract!Body(logical_size) = {}
  BY StaleShrinks, AbstractState DEF Quiet
<1>3. Resized' = Resized /\ file'.hole = file.hole
  BY <1>1 DEF Resized, Quiet
<1>4. Contract!Reply("flush", result'.ok, result'.status)
  BY <1>1 DEF Contract!Reply
<1>5. Contract!FlushReturns(result'.ok, result'.status)
  BY <1>1, <1>2, <1>3, <1>4 DEF Contract!FlushReturns, Stale, Resized
<1> QED
  BY <1>5 DEF Contract!Next

\* eliminate_slack_space returns a success.
LEMMA SlackSucceedsStep ==
  ASSUME NEW status \in SlackSuccess, Return("slack", TRUE, status), Running = "slack",
         logical_size' = logical_size, Quiet(file, file'),
         Gone(file', Slack(logical_size)), file'.size = logical_size
  PROVE  [Contract!Next]_(Contract!vars)
<1>1. /\ Contract!Reply("slack", TRUE, status) /\ result'.status = status /\ Running' = "none"
  BY ReplyStep DEF Quiet
<1>2. Stale' \intersect Contract!Slack(logical_size) = {}
  BY StaleShrinks, AbstractState DEF Quiet
<1>3. Resized' = Resized /\ file'.hole = file.hole
  BY DEF Resized, Quiet
<1>4. Contract!Reply("slack", TRUE, result'.status)
  BY <1>1 DEF Contract!Reply
<1>5. Contract!SlackSucceeds(result'.status)
  BY <1>1, <1>2, <1>3, <1>4 DEF Contract!SlackSucceeds, Stale, Resized
<1> QED
  BY <1>5 DEF Contract!Next

\* It returns a skip.
LEMMA SlackSkipsStep ==
  ASSUME NEW ok \in BOOLEAN, NEW status \in SlackSkipped, Return("slack", ok, status),
         Running = "slack", logical_size' = logical_size, Quiet(file, file'),
         file.size = logical_size
  PROVE  [Contract!Next]_(Contract!vars)
<1>1. /\ Contract!Reply("slack", ok, status) /\ result'.ok = ok /\ result'.status = status
      /\ Running' = "none"
  BY ReplyStep DEF Quiet
<1>2. Resized' = Resized /\ file'.hole = file.hole
  BY DEF Resized, Quiet
<1>3. Contract!Reply("slack", result'.ok, result'.status)
  BY <1>1 DEF Contract!Reply
<1>4. Contract!SlackSkips(result'.ok, result'.status)
  BY <1>1, <1>2, <1>3 DEF Contract!SlackSkips, Resized
<1> QED
  BY <1>4 DEF Contract!Next

\* It fails, the size being what it was or the system having refused to restore it.
LEMMA SlackFailsStep ==
  ASSUME NEW refused \in BOOLEAN, ReturnAfter("slack", FALSE, "FAILED", refused),
         Running = "slack", logical_size' = logical_size, file'.hole = file.hole,
         Old(file') \subseteq Old(file),
         ~ refused => file'.size = logical_size
  PROVE  [Contract!Next]_(Contract!vars)
<1>1. /\ Contract!ReplyAfter("slack", FALSE, "FAILED", refused)
      /\ result'.status = "FAILED" /\ result'.refused = refused
  BY ReplyAfterStep
<1>2. "FAILED" \notin SlackSuccess \union SlackSkipped
  BY DEF SlackSuccess, SlackSkipped
<1>3. Resized' \in BOOLEAN /\ (~ refused => Resized' = Resized)
  BY DEF Resized
<1>4. Contract!SlackFails("FAILED", refused)
  BY <1>1, <1>2, <1>3 DEF Contract!SlackFails, Resized
<1>5. Contract!SlackFails(result'.status, result'.refused)
  BY <1>1, <1>4
<1> QED
  BY <1>5 DEF Contract!Next

\* discard_file_blocks returns.
LEMMA DiscardReturnsStep ==
  ASSUME NEW ok \in BOOLEAN, NEW status, Return("discard", ok, status), Running = "discard",
         logical_size' = logical_size, Quiet(file, file'),
         IF ok THEN FullUnits(logical_size) \subseteq file.hole ELSE file.hole = {}
  PROVE  [Contract!Next]_(Contract!vars)
<1>1. /\ Contract!Reply("discard", ok, status) /\ result'.ok = ok /\ result'.status = status
      /\ Running' = "none"
  BY ReplyStep DEF Quiet
<1>2. Resized' = Resized /\ file'.hole = file.hole
  BY <1>1 DEF Resized, Quiet
<1>3. Contract!Reply("discard", result'.ok, result'.status)
  BY <1>1 DEF Contract!Reply
<1>4. Contract!DiscardReturns(result'.ok, result'.status)
  BY <1>1, <1>2, <1>3, AbstractState DEF Contract!DiscardReturns, Resized
<1> QED
  BY <1>4 DEF Contract!Next

----------------------------------------------------------------------------
\* The contract needs to know more of the file: until the grow it has the size it
\* came with, until the punch it has no hole, and what the punch frees is known
\* when discard_file_blocks returns.

BeforeGrow == {"idle", "flush", "slack", "identify", "fiemap", "grow"}

CallInv ==
  /\ at = "idle" => result.call = "none"
  /\ at = "returned" => result.call # "none"
  /\ at \in BeforeGrow => file.size = logical_size
  /\ at = "returned" /\ result.call = "flush" => file.size = logical_size
  /\ at \in {"idle", "flush"} => Covered(file, Body(logical_size))
  /\ at = "fsync" => file.hole = FullUnits(logical_size)
  /\ at # "fsync" /\ (at = "returned" => result.call # "discard") => file.hole = {}

\* It holds of the file as the overwrite passes leave it.
LEMMA InitCalls == Init => CallInv
<1> SUFFICES ASSUME Init PROVE CallInv
  OBVIOUS
<1>1. /\ logical_size \in 0 .. Capacity /\ pattern # "orig" /\ at = "idle"
      /\ result.call = "none"
  BY PlatformAssumption DEF Init, NoResult
<1>2. PICK cached \in SUBSET (1 .. logical_size) :
        file = Overwritten(logical_size, pattern, cached,
                           IF fs = "inline" THEN {} ELSE Slack(logical_size))
  BY DEF Init
<1> DEFINE old == IF fs = "inline" THEN {} ELSE Slack(logical_size)
<1>3. old \intersect Body(logical_size) = {}
  BY <1>1, StorageAssumption DEF Slack, Body
<1> HIDE DEF old
<1>4. /\ file.size = logical_size /\ file.hole = {} /\ file.dirty = cached
      /\ file.media = [i \in Cells |-> IF i \in cached \union old THEN "orig"
                                      ELSE IF i <= logical_size THEN pattern ELSE "zero"]
  BY <1>2 DEF Overwritten, old
<1>5. Covered(file, Body(logical_size))
  <2> SUFFICES ASSUME NEW i \in Body(logical_size), i \notin cached
               PROVE  file.media[i] # "orig"
    BY <1>4 DEF Covered
  <2>1. i \in Cells /\ i \notin old
    BY <1>3 DEF Body
  <2> QED
    BY <1>1, <1>4, <2>1
<1> QED
  BY <1>1, <1>4, <1>5 DEF CallInv

\* A function returns.
LEMMA CallReturn ==
  ASSUME NEW call \in {"flush", "slack", "discard"}, NEW ok, NEW status,
         NEW refused, ReturnAfter(call, ok, status, refused), logical_size' = logical_size,
         call = "flush" => file'.size = logical_size,
         call # "discard" => file'.hole = {}
  PROVE  CallInv'
<1>1. at' = "returned" /\ result'.call = call
  BY DEF ReturnAfter
<1> QED
  BY <1>1 DEF CallInv, BeforeGrow

\* A sync whose outcome is ignored is quiet.
LEMMA IgnoredSyncLemma ==
  ASSUME file \in File, Fresh(file), IgnoredSync
  PROVE  Quiet(file, file')
BY QuietLemma DEF IgnoredSync

\* eliminate_slack_space fails: before the grow, or with the size put back, or
\* refused.
LEMMA SlackFailed ==
  ASSUME IInv, CallInv, UNCHANGED Args, Running = "slack", file.hole = {},
         NEW f, Quiet(file, f),
         \/ Return("slack", FALSE, "FAILED") /\ file' = f /\ file.size = logical_size
         \/ FailUnrestored /\ file' = f
         \/ GiveUp(f)
  PROVE  CallInv' /\ [Contract!Next]_(Contract!vars)
<1>1. /\ logical_size' = logical_size /\ logical_size \in 0 .. Capacity
      /\ file' = f \/ file' \in Truncations(f, logical_size)
  BY DEF GiveUp, Args, IInv
<1>7. ASSUME file' \in Truncations(f, logical_size)
      PROVE  file'.size = logical_size /\ file'.hole = f.hole /\ file'.media = f.media
  <2>1. {} \in SUBSET Cells /\ f \in File
    BY DEF Quiet
  <2> QED
    BY <1>1, <1>7, <2>1, TruncationsLemma
<1>5. PICK refused \in BOOLEAN :
        /\ ReturnAfter("slack", FALSE, "FAILED", refused)
        /\ refused \/ file'.size = logical_size
  <2>1. ASSUME Return("slack", FALSE, "FAILED"), file' \in Truncations(f, logical_size)
        PROVE  ReturnAfter("slack", FALSE, "FAILED", FALSE) /\ file'.size = logical_size
    BY <1>7, <2>1 DEF Return
  <2>2. ASSUME Return("slack", FALSE, "FAILED"), file' = f, file.size = logical_size
        PROVE  ReturnAfter("slack", FALSE, "FAILED", FALSE) /\ file'.size = logical_size
    BY <2>2 DEF Return, Quiet
  <2> QED
    BY <2>1, <2>2 DEF GiveUp, FailUnrestored
<1>2. f \in File /\ f.hole = {} /\ Old(f) \subseteq Old(file)
  BY DEF Quiet
<1>3. file'.hole = {} /\ Old(file') \subseteq Old(file)
  <2>1. CASE file' = f
    BY <1>2, <2>1
  <2>2. CASE file' \in Truncations(f, logical_size)
    BY <1>2, <1>7, <2>2, SameOld
  <2> QED
    BY <1>1, <2>1, <2>2
<1>4. CallInv'
  BY <1>1, <1>3, <1>5, CallReturn
<1>6. file'.hole = file.hole
  BY <1>3
<1> QED
  BY <1>1, <1>3, <1>4, <1>5, <1>6, SlackFailsStep

\* flush_file_to_media keeps its promise.
LEMMA FlushKeeps ==
  IInv /\ CallInv /\ (FlushOpenFails \/ FlushSync) => CallInv' /\ [Contract!Next]_(Contract!vars)
<1> SUFFICES ASSUME IInv, CallInv, FlushOpenFails \/ FlushSync
             PROVE  CallInv' /\ [Contract!Next]_(Contract!vars)
  OBVIOUS
<1>0. /\ file \in File /\ Fresh(file) /\ logical_size' = logical_size /\ at = "flush"
      /\ file.size = logical_size /\ file.hole = {}
      /\ Covered(file, Body(logical_size)) /\ Body(logical_size) \in SUBSET Cells
  BY DEF IInv, TypeOK, CallInv, BeforeGrow, FlushOpenFails, FlushSync, Args, Body
<1>r. Running = "flush"
  BY <1>0, RunningIs
<1>p. ASSUME NEW ok \in BOOLEAN, NEW status, Return("flush", ok, status), Quiet(file, file'),
             ok => Gone(file', Body(logical_size))
      PROVE  CallInv' /\ [Contract!Next]_(Contract!vars)
  <2>1. file'.size = logical_size /\ file'.hole = {}
    BY <1>0, <1>p DEF Quiet
  <2>2. CallInv'
    BY <1>0, <1>p, <2>1, CallReturn DEF Return
  <2> QED
    BY <1>0, <1>r, <1>p, <2>2, FlushReturnsStep
<1>1. CASE FlushOpenFails
  <2>1. Return("flush", FALSE, "FAILED") /\ file' = file
    BY <1>1 DEF FlushOpenFails
  <2>2. Quiet(file, file')
    BY <1>0, <2>1 DEF Quiet
  <2> QED
    BY <1>p, <2>1, <2>2
<1>2. CASE FlushSync
  <2>1. ASSUME SyncPossible(file), file' = Synced(file, Cow), Return("flush", TRUE, "SUCCESS")
        PROVE  CallInv' /\ [Contract!Next]_(Contract!vars)
    <3>1. Quiet(file, file') /\ Gone(file', Body(logical_size))
      BY <1>0, <2>1, QuietLemma, SyncedLemma
    <3> QED
      BY <1>p, <2>1, <3>1
  <2>2. ASSUME file' \in SyncFailures(file, Cow), Return("flush", FALSE, "FAILED")
        PROVE  CallInv' /\ [Contract!Next]_(Contract!vars)
    <3>1. Quiet(file, file')
      BY <1>0, <2>2, QuietLemma
    <3> QED
      BY <1>p, <2>2, <3>1
  <2> QED
    BY <1>2, <2>1, <2>2 DEF FlushSync
<1> QED
  BY <1>1, <1>2

\* eliminate_slack_space up to the grow: a skip has not touched the size.
LEMMA BeforeGrowKeeps ==
  IInv /\ CallInv /\ (SlackEmpty \/ SlackOpen \/ FstatFails \/ Identify \/ FiemapUnsupported
                        \/ FiemapError \/ Fiemap)
    => CallInv' /\ [Contract!Next]_(Contract!vars)
<1> SUFFICES ASSUME IInv, CallInv,
                    SlackEmpty \/ SlackOpen \/ FstatFails \/ Identify \/ FiemapUnsupported
                      \/ FiemapError \/ Fiemap
             PROVE  CallInv' /\ [Contract!Next]_(Contract!vars)
  OBVIOUS
<1>0. /\ file \in File /\ Fresh(file) /\ UNCHANGED Args /\ logical_size' = logical_size
      /\ at \in {"slack", "identify", "fiemap"}
      /\ file.size = logical_size /\ file.hole = {}
  <2>1. at \in {"slack", "identify", "fiemap"} /\ UNCHANGED Args
    BY DEF SlackEmpty, SlackOpen, FstatFails, Identify, FiemapUnsupported, FiemapError, Fiemap,
       Args
  <2> QED
    BY <2>1 DEF IInv, TypeOK, CallInv, BeforeGrow, Args
<1>r. Running = "slack"
  BY <1>0, RunningIs
<1>q. Quiet(file, file')
  <2>1. CASE file' = file
    BY <1>0, <2>1 DEF Quiet
  <2>2. CASE file' \in SyncFailures(file, Cow)
    BY <1>0, <2>2, QuietLemma
  <2>3. CASE SyncPossible(file) /\ file' = Synced(file, Cow)
    BY <1>0, <2>3, QuietLemma
  <2> QED
    BY <2>1, <2>2, <2>3
       DEF SlackEmpty, SlackOpen, FstatFails, Identify, FiemapUnsupported, FiemapError, Fiemap
<1>f. ASSUME Return("slack", FALSE, "FAILED")
      PROVE  CallInv' /\ [Contract!Next]_(Contract!vars)
  BY <1>0, <1>r, <1>q, <1>f, SlackFailed
<1>k. ASSUME NEW ok \in BOOLEAN, NEW status \in SlackSkipped, Return("slack", ok, status)
      PROVE  CallInv' /\ [Contract!Next]_(Contract!vars)
  <2>1. CallInv'
    BY <1>0, <1>q, <1>k, CallReturn DEF Quiet, Return
  <2> QED
    BY <1>0, <1>r, <1>q, <1>k, <2>1, SlackSkipsStep
<1>g. ASSUME at' \in {"identify", "fiemap", "grow"}, result' = result
      PROVE  CallInv' /\ [Contract!Next]_(Contract!vars)
  <2>1. CallInv'
    BY <1>0, <1>q, <1>g DEF Quiet, CallInv, BeforeGrow
  <2>2. Running' = "slack"
    BY <1>g, RunningWillBe
  <2> QED
    BY <1>0, <1>r, <1>q, <1>g, <2>1, <2>2, OverwriteStep DEF Quiet
<1>s. {"SKIPPED_EMPTY_FILE", "SKIPPED_COW_FILESYSTEM", "SKIPPED_NO_SLACK",
       "SKIPPED_INLINE_INODE_DATA"} \subseteq SlackSkipped
  BY DEF SlackSkipped
<1>1. CASE SlackEmpty
  BY <1>1, <1>k, <1>s DEF SlackEmpty
<1>2. CASE SlackOpen
  BY <1>2, <1>f, <1>g DEF SlackOpen
<1>3. CASE FstatFails \/ FiemapError
  BY <1>3, <1>f DEF FstatFails, FiemapError
<1>4. CASE Identify
  <2>1. \/ Return("slack", FALSE, "SKIPPED_COW_FILESYSTEM")
        \/ Return("slack", TRUE, "SKIPPED_NO_SLACK")
        \/ at' \in {"grow", "fiemap"} /\ result' = result
    BY <1>4 DEF Identify
  <2> QED
    BY <1>g, <1>k, <1>s, <2>1
<1>5. CASE FiemapUnsupported
  BY <1>5, <1>g DEF FiemapUnsupported
<1>6. CASE Fiemap
  <2>1. \/ Return("slack", FALSE, "FAILED")
        \/ Return("slack", TRUE, "SKIPPED_INLINE_INODE_DATA")
        \/ Goto("grow")
    BY <1>6 DEF Fiemap
  <2> QED
    BY <1>f, <1>g, <1>k, <1>s, <2>1 DEF Goto
<1> QED
  BY <1>1, <1>2, <1>3, <1>4, <1>5, <1>6

\* From the grow to the return.
LEMMA SlackKeeps ==
  IInv /\ CallInv /\ (Grow \/ Seek \/ WriteSlack \/ SyncSlack \/ Restore \/ Finish)
    => CallInv' /\ [Contract!Next]_(Contract!vars)
<1> SUFFICES ASSUME IInv, CallInv, Grow \/ Seek \/ WriteSlack \/ SyncSlack \/ Restore \/ Finish
             PROVE  CallInv' /\ [Contract!Next]_(Contract!vars)
  OBVIOUS
<1>0. /\ file \in File /\ Fresh(file) /\ UNCHANGED Args /\ logical_size' = logical_size
      /\ at \in {"grow", "seek", "write", "sync", "restore", "finish"}
      /\ file.hole = {} /\ logical_size \in 0 .. Capacity
  <2>1. at \in {"grow", "seek", "write", "sync", "restore", "finish"} /\ UNCHANGED Args
    BY DEF Grow, Seek, WriteSlack, SyncSlack, Restore, Finish, Args
  <2> QED
    BY <2>1 DEF IInv, TypeOK, CallInv, Args
<1>r. Running = "slack"
  BY <1>0, RunningIs
<1>q. Quiet(file, file)
  BY <1>0 DEF Quiet
<1>f. ASSUME NEW f, Quiet(file, f),
             \/ Return("slack", FALSE, "FAILED") /\ file' = f /\ file.size = logical_size
             \/ FailUnrestored /\ file' = f
             \/ GiveUp(f)
      PROVE  CallInv' /\ [Contract!Next]_(Contract!vars)
  BY <1>0, <1>r, <1>f, SlackFailed
<1>g. ASSUME at' \in {"seek", "write", "sync", "restore", "finish"}, result' = result,
             file'.hole = {}, Old(file') \subseteq Old(file)
      PROVE  CallInv' /\ [Contract!Next]_(Contract!vars)
  <2>1. CallInv'
    BY <1>g DEF CallInv, BeforeGrow
  <2>2. Running' = "slack"
    BY <1>g, RunningWillBe
  <2> QED
    BY <1>0, <1>r, <1>g, <2>1, <2>2, OverwriteStep
<1>t. ASSUME NEW n \in 0 .. Capacity, file' \in Truncations(file, n)
      PROVE  file'.hole = {} /\ Old(file') \subseteq Old(file)
  <2>1. {} \in SUBSET Cells
    OBVIOUS
  <2>2. file'.hole = file.hole /\ file'.media = file.media
    BY <1>0, <1>t, <2>1, TruncationsLemma
  <2> QED
    BY <1>0, <2>2, SameOld
<1>1. CASE Grow
  <2>3. file.size = logical_size
    BY <1>1 DEF Grow, CallInv, BeforeGrow
  <2>1. ASSUME Return("slack", FALSE, "FAILED"), UNCHANGED file
        PROVE  CallInv' /\ [Contract!Next]_(Contract!vars)
    BY <1>f, <1>q, <2>1, <2>3
  <2>2. ASSUME Boundary(logical_size) <= Capacity,
               file' \in Truncations(file, Boundary(logical_size)), Goto("seek")
        PROVE  CallInv' /\ [Contract!Next]_(Contract!vars)
    <3>1. Boundary(logical_size) \in 0 .. Capacity
      BY <1>0, <2>2, BoundaryType, StorageAssumption
    <3> QED
      BY <1>g, <1>t, <2>2, <3>1 DEF Goto
  <2> QED
    BY <1>1, <2>1, <2>2 DEF Grow
<1>2. CASE Seek
  <2>1. ASSUME Goto("write"), UNCHANGED file
        PROVE  CallInv' /\ [Contract!Next]_(Contract!vars)
    BY <1>0, <1>g, <2>1 DEF Goto
  <2> QED
    BY <1>2, <1>f, <1>q, <2>1 DEF Seek
<1>3. CASE WriteSlack
  <2>1. ASSUME NEW lo, NEW hi, file' = Write(file, lo, hi, pattern),
               at' \in {"sync", "write"}, result' = result
        PROVE  CallInv' /\ [Contract!Next]_(Contract!vars)
    <3>1. file'.hole = file.hole /\ file'.media = file.media
      BY <2>1 DEF Write
    <3> QED
      BY <1>0, <1>g, <2>1, <3>1, SameOld
  <2>2. \/ GiveUp(file)
        \/ \E lo, hi : /\ file' = Write(file, lo, hi, pattern)
                       /\ at' \in {"sync", "write"} /\ result' = result
    BY <1>3 DEF WriteSlack
  <2> QED
    BY <1>f, <1>q, <2>1, <2>2
<1>4. CASE SyncSlack
  <2>1. ASSUME SyncPossible(file), file' = Synced(file, Cow), Goto("restore")
        PROVE  CallInv' /\ [Contract!Next]_(Contract!vars)
    <3>1. Quiet(file, file')
      BY <1>0, <2>1, QuietLemma
    <3> QED
      BY <1>0, <1>g, <2>1, <3>1 DEF Quiet, Goto
  <2>2. ASSUME NEW f \in SyncFailures(file, Cow), GiveUp(f)
        PROVE  CallInv' /\ [Contract!Next]_(Contract!vars)
    <3>1. Quiet(file, f)
      BY <1>0, QuietLemma
    <3> QED
      BY <1>f, <2>2, <3>1
  <2> QED
    BY <1>4, <2>1, <2>2 DEF SyncSlack
<1>5. CASE Restore
  <2>1. ASSUME FailUnrestored, UNCHANGED file
        PROVE  CallInv' /\ [Contract!Next]_(Contract!vars)
    BY <1>f, <1>q, <2>1
  <2>2. ASSUME file' \in Truncations(file, logical_size), Goto("finish")
        PROVE  CallInv' /\ [Contract!Next]_(Contract!vars)
    BY <1>0, <1>g, <1>t, <2>2 DEF Goto
  <2> QED
    BY <1>5, <2>1, <2>2 DEF Restore
<1>6. CASE Finish
  <2>1. IgnoredSync /\ at = "finish"
    BY <1>6 DEF Finish
  <2>2. PICK status \in SlackSuccess : Return("slack", TRUE, status)
    BY <1>6 DEF Finish, SlackSuccess
  <2>3. Gone(file, Slack(logical_size)) /\ file.size = logical_size
    BY <2>1 DEF IInv, SlackInv
  <2>4. Quiet(file, file')
    BY <1>0, <2>1, IgnoredSyncLemma
  <2>5. file'.size = logical_size /\ file'.hole = {} /\ Gone(file', Slack(logical_size))
    <3>1. Slack(logical_size) \in SUBSET Cells
      BY DEF Slack
    <3> QED
      BY <1>0, <2>3, <2>4, <3>1, GoneStays DEF Quiet
  <2>6. CallInv'
    BY <1>0, <2>2, <2>5, CallReturn DEF Return
  <2> QED
    BY <1>0, <1>r, <2>2, <2>4, <2>5, <2>6, SlackSucceedsStep
<1> QED
  BY <1>1, <1>2, <1>3, <1>4, <1>5, <1>6

\* discard_file_blocks reports a TRIM exactly when it punched.
LEMMA DiscardKeeps ==
  IInv /\ CallInv /\ (DiscardEmpty \/ DiscardOpenFails \/ DiscardOpen \/ PunchFails \/ PunchHole
                        \/ FsyncDiscard)
    => CallInv' /\ [Contract!Next]_(Contract!vars)
<1> SUFFICES ASSUME IInv, CallInv,
                    DiscardEmpty \/ DiscardOpenFails \/ DiscardOpen \/ PunchFails \/ PunchHole
                      \/ FsyncDiscard
             PROVE  CallInv' /\ [Contract!Next]_(Contract!vars)
  OBVIOUS
<1>0. /\ file \in File /\ Fresh(file) /\ logical_size' = logical_size
      /\ at \in {"discard", "punch", "fsync"} /\ logical_size \in 0 .. Capacity
      /\ at # "fsync" => file.hole = {}
      /\ at = "fsync" => file.hole = FullUnits(logical_size)
  <2>1. at \in {"discard", "punch", "fsync"} /\ logical_size' = logical_size
    BY DEF DiscardEmpty, DiscardOpenFails, DiscardOpen, PunchFails, PunchHole, FsyncDiscard, Args
  <2> QED
    BY <2>1 DEF IInv, TypeOK, CallInv
<1>r. Running = "discard"
  BY <1>0, RunningIs
<1>p. ASSUME NEW ok \in BOOLEAN, NEW status, Return("discard", ok, status), Quiet(file, file'),
             ok <=> at = "fsync"
      PROVE  CallInv' /\ [Contract!Next]_(Contract!vars)
  <2>1. CallInv'
    BY <1>0, <1>p, CallReturn DEF Return
  <2> QED
    BY <1>0, <1>r, <1>p, <2>1, DiscardReturnsStep
<1>1. CASE DiscardEmpty \/ DiscardOpenFails \/ PunchFails
  <2>1. file' = file /\ at # "fsync"
        /\ \E status : Return("discard", FALSE, status)
    BY <1>1 DEF DiscardEmpty, DiscardOpenFails, PunchFails
  <2>2. Quiet(file, file')
    BY <1>0, <2>1 DEF Quiet
  <2> QED
    BY <1>p, <2>1, <2>2
<1>2. CASE DiscardOpen
  <2>1. IgnoredSync /\ at = "discard" /\ at' = "punch" /\ result' = result
    BY <1>2 DEF DiscardOpen
  <2>2. Quiet(file, file')
    BY <1>0, <2>1, IgnoredSyncLemma
  <2>3. CallInv'
    BY <1>0, <2>1, <2>2 DEF CallInv, BeforeGrow, Quiet
  <2>4. Running' = "discard"
    BY <2>1, RunningWillBe
  <2> QED
    BY <1>0, <1>r, <2>1, <2>2, <2>3, <2>4, OverwriteStep DEF Quiet
<1>3. CASE PunchHole
  <2>1. /\ file' = Punch(file, logical_size) /\ at = "punch" /\ at' = "fsync"
        /\ result' = result
    BY <1>3 DEF PunchHole, Goto
  <2>2. /\ file'.media = file.media /\ file'.size = file.size
        /\ file'.hole = file.hole \union FullUnits(logical_size)
    BY <2>1 DEF Punch
  <2>3. file'.hole = FullUnits(logical_size)
    BY <1>0, <2>1, <2>2
  <2>4. FullUnits(logical_size)' = FullUnits(logical_size)
    BY <1>0 DEF FullUnits
  <2>5. CallInv'
    BY <2>1, <2>3, <2>4 DEF CallInv, BeforeGrow
  <2>6. Running' = "discard"
    BY <2>1, RunningWillBe
  <2> QED
    BY <1>0, <1>r, <2>1, <2>2, <2>3, <2>5, <2>6, FreeStep
<1>4. CASE FsyncDiscard
  <2>1. IgnoredSync /\ at = "fsync" /\ Return("discard", TRUE, "SUCCESS")
    BY <1>4 DEF FsyncDiscard
  <2>2. Quiet(file, file')
    BY <1>0, <2>1, IgnoredSyncLemma
  <2> QED
    BY <1>p, <2>1, <2>2
<1> QED
  BY <1>1, <1>2, <1>3, <1>4

\* Write-back between two calls is nothing the contract could notice.
LEMMA WriteBackKeeps ==
  IInv /\ CallInv /\ KernelWriteBack => CallInv' /\ [Contract!Next]_(Contract!vars)
<1> SUFFICES ASSUME IInv, CallInv, KernelWriteBack
             PROVE  CallInv' /\ [Contract!Next]_(Contract!vars)
  OBVIOUS
<1>1. /\ file' \in WriteBacks(file, Cow) /\ logical_size' = logical_size /\ at' = at
      /\ result' = result
  BY DEF KernelWriteBack, Args
<1>2. file \in File /\ Fresh(file) /\ Body(logical_size) \in SUBSET Cells
  BY DEF IInv, TypeOK, Body
<1>3. /\ file'.size = file.size /\ file'.hole = file.hole
      /\ Covered(file, Body(logical_size)) => Covered(file', Body(logical_size))
  BY <1>1, <1>2, WriteBacksLemma
<1>4. Quiet(file, file')
  BY <1>1, <1>2, QuietLemma
<1>5. /\ Covered(file, Body(logical_size))' <=> Covered(file', Body(logical_size))
      /\ FullUnits(logical_size)' = FullUnits(logical_size)
  BY <1>1 DEF Covered, Body, FullUnits
<1>6. CallInv'
  BY <1>1, <1>3, <1>5 DEF CallInv
<1>7. Running' = Running
  BY <1>1 DEF Running
<1> QED
  BY <1>1, <1>4, <1>6, <1>7, OverwriteStep DEF Quiet

\* The caller's next call.
LEMMA CallKeeps == IInv /\ CallInv /\ Call => CallInv' /\ [Contract!Next]_(Contract!vars)
<1> SUFFICES ASSUME IInv, CallInv, Call PROVE CallInv' /\ [Contract!Next]_(Contract!vars)
  OBVIOUS
<1>1. /\ logical_size' = logical_size /\ file' = file /\ result' = result
      /\ at \in {"idle", "returned"}
      /\ at' = NextCall[result.call] /\ result.call # "discard"
  BY DEF Call, Goto, Args
<1>2. result.call \in {"none", "flush", "slack"}
  BY <1>1 DEF IInv, TypeOK, Results
<1>3. /\ result.call = "none" => at' = "flush" /\ at = "idle"
      /\ result.call = "flush" => at' = "slack" /\ at = "returned"
      /\ result.call = "slack" => at' = "discard"
  BY <1>1, <1>2 DEF NextCall, CallInv
<1>4. /\ at' \in {"flush", "slack", "discard"} /\ file.hole = {}
      /\ at = "idle" => file.size = logical_size /\ Covered(file, Body(logical_size))
      /\ at = "returned" /\ result.call = "flush" => file.size = logical_size
  BY <1>1, <1>2, <1>3 DEF CallInv, BeforeGrow
<1>5. CallInv'
  <2>1. Covered(file, Body(logical_size))' <=> Covered(file, Body(logical_size))
    BY <1>1 DEF Covered, Body
  <2> QED
    BY <1>1, <1>2, <1>3, <1>4, <2>1 DEF CallInv, BeforeGrow
<1>6. Running = "none" /\ Running' = at'
  BY <1>1, <1>4, RunningIs, RunningWillBe
<1>7. Running' = "slack" => file.size = logical_size
  BY <1>2, <1>3, <1>4, <1>6
<1> QED
  BY <1>1, <1>4, <1>5, <1>6, <1>7, InvokeStep

\* Call by call, platform_fs_posix.cpp does what platform_fs.hpp promises: a
\* flush that reports success has the payload on the media, a reported success
\* or skip left the size alone, a TRIM is reported exactly when whole units were
\* given back, old data never comes back, and a failure restores the size unless
\* the call that restores it is refused.
THEOREM PosixKeepsContract == Spec => ImplementsContract
<1>1. Init => CallInv /\ Contract!Init
  <2> SUFFICES ASSUME Init PROVE CallInv /\ Contract!Init
    OBVIOUS
  <2>1. IInv /\ CallInv /\ at = "idle" /\ result = NoResult
    BY InitInv, InitCalls DEF Init
  <2>2. /\ logical_size \in 0 .. Capacity /\ file.hole = {} /\ file.size = logical_size
        /\ Running = "none"
    BY <2>1, RunningIs DEF IInv, CallInv, BeforeGrow
  <2>3. /\ Contract!Body(logical_size) = Body(logical_size)
        /\ Contract!Slack(logical_size) = Slack(logical_size)
    BY AbstractState
  <2> QED
    BY <2>1, <2>2, <2>3 DEF Contract!Init, Contract!NoResult, NoResult
<1>2. IInv /\ CallInv /\ [Next]_vars => CallInv' /\ [Contract!Next]_(Contract!vars)
  <2> SUFFICES ASSUME IInv, CallInv, [Next]_vars
               PROVE  CallInv' /\ [Contract!Next]_(Contract!vars)
    OBVIOUS
  <2>1. CASE Call
    BY <2>1, CallKeeps
  <2>2. CASE KernelWriteBack
    BY <2>2, WriteBackKeeps
  <2>3. CASE Step
    BY <2>3, FlushKeeps, BeforeGrowKeeps, SlackKeeps, DiscardKeeps DEF Step
  <2>4. CASE UNCHANGED vars
    <3>1. /\ file' = file /\ logical_size' = logical_size /\ at' = at /\ result' = result
      BY <2>4 DEF vars
    <3>2. CallInv'
      BY <3>1 DEF CallInv, Covered, Body, FullUnits
    <3>3. Running' = Running
      BY <3>1 DEF Running
    <3> QED
      BY <3>1, <3>2, <3>3, OverwriteStep
  <2> QED
    BY <2>1, <2>2, <2>3, <2>4 DEF Next
<1> QED
  BY InitInv, StepInv, <1>1, <1>2, PTL DEF Spec, ImplementsContract, Contract!Spec
==============================================================================
