-------------------------- MODULE PlatformWin32Proofs --------------------------
(***************************************************************************)
(* For any volume, cluster, file size and attributes: the Win32 platform   *)
(* functions keep their types, report slack as eliminated only when it is, *)
(* and do, call by call, what PlatformFs promises.  The inductive          *)
(* invariant follows the slack as PlatformPosixProofs does, and adds what  *)
(* the promises need: until the grow the file has the size it came with,   *)
(* until the discard it has no hole, and what the discard frees is known   *)
(* when it returns.                                                        *)
(***************************************************************************)
EXTENDS PlatformWin32, PageCacheProofs

WrittenSlack == logical_size + 1 .. logical_size + total_written

SlackInv ==
  /\ at \notin {"write", "sync", "restore", "finish"} => total_written = 0
  /\ at \in {"seek", "write"} => Boundary(logical_size) <= Capacity
  /\ at = "write" => /\ total_written = 0 \/ total_written < Fill
                     /\ Covered(file, WrittenSlack)
  /\ at = "sync" => Covered(file, Slack(logical_size))
  /\ at \in {"restore", "finish"} => Gone(file, Slack(logical_size))
  /\ at = "finish" => file.size = logical_size
  /\ at = "returned" /\ result.status \in SlackSuccess =>
       Gone(file, Slack(logical_size)) /\ file.size = logical_size

BeforeGrow == {"idle", "flush", "slack", "attributes", "open", "grow"}

\* What one call leaves for the next.
CallInv ==
  /\ at = "idle" => result.call = "none"
  /\ at = "returned" => result.call # "none"
  /\ at \in BeforeGrow => file.size = logical_size
  /\ at = "returned" /\ result.call = "flush" => file.size = logical_size
  /\ at \in {"idle", "flush"} => Covered(file, Body(logical_size))
  /\ at = "invoked" => FullUnits(logical_size) \subseteq file.hole
  /\ at # "invoked" /\ (at = "returned" => result.call # "discard") => file.hole = {}

\* Growing to a cluster moves a resident file out of its MFT record.
ResidentInv ==
  resident => /\ logical_size < Unit
              /\ file.size = logical_size
              /\ at \notin {"seek", "write", "sync", "restore", "finish"}

IInv ==
  /\ TypeOK
  /\ logical_size \in 0 .. Capacity
  /\ pattern # "orig"
  /\ Fresh(file)
  /\ ResidentInv
  /\ SlackInv
  /\ CallInv

----------------------------------------------------------------------------
\* The length discard_file_blocks computes, of a size that is known: the size
\* rounded up to the cluster or, when that is not known, the size.
LEMMA Aligned ==
  ASSUME logical_size \in 0 .. Capacity
  PROVE  /\ AlignedLength(Unit) = Boundary(logical_size)
         /\ AlignedLength(1) = logical_size
<1>1. logical_size # SizeError
  BY StorageAssumption DEF SizeError
<1>2. logical_size < Wrap /\ logical_size \in Nat /\ Wrap \in Nat
  BY StorageAssumption
<1>3. (((logical_size + 1 - 1) % Wrap) \div 1) * 1 = logical_size
  <2>1. (logical_size + 1 - 1) % Wrap = logical_size
    BY <1>2
  <2>2. (logical_size \div 1) * 1 = logical_size
    BY <1>2
  <2> QED
    BY <2>1, <2>2
<1>4. (((logical_size + Unit - 1) % Wrap) \div Unit) * Unit = Boundary(logical_size)
  BY RoundedUp, RoundingFits
<1> QED
  BY <1>1, <1>3, <1>4 DEF AlignedLength

\* So the clusters the discard frees are all those that lie in the payload, or,
\* when the cluster size was found out, also the one the file ends in.
LEMMA FreedUnits ==
  ASSUME logical_size \in 0 .. Capacity
  PROVE  /\ FullUnits(AlignedLength(Unit)) = Body(logical_size) \union Slack(logical_size)
         /\ FullUnits(AlignedLength(1)) = FullUnits(logical_size)
         /\ FullUnits(logical_size) \subseteq Body(logical_size)
         /\ logical_size < Unit => FullUnits(logical_size) = {}
         /\ logical_size <= AlignedLength(Unit)
BY Aligned, RoundedUp, RoundingFits, WholeUnits

----------------------------------------------------------------------------
\* Steps of the contract.

Stale == {i \in Body(logical_size) \union Slack(logical_size) : file.media[i] = "orig"}

Resized == Running # "slack" /\ file.size # logical_size

\* The contract's variables, and its own copies of the operators of PageCache.
LEMMA AbstractState ==
  /\ Contract!vars = <<logical_size, Running, Stale, Resized, file.hole, result>>
  /\ \A n : Contract!Body(n) = Body(n) /\ Contract!Slack(n) = Slack(n)
            /\ Contract!FullUnits(n) = FullUnits(n)
BY DEF Contract!vars, Stale, Resized, Contract!Body, Contract!Slack, Contract!FullUnits,
       Contract!Cells, Contract!Boundary, Body, Slack, FullUnits, Cells, Boundary

\* The function that is running, before and after a step.
LEMMA RunningIs ==
  /\ at \in {"idle", "returned"} => Running = "none"
  /\ at = "flush" => Running = "flush"
  /\ at \in {"discard", "sparse", "zero", "invoked"} => Running = "discard"
  /\ at \in {"slack", "attributes", "open", "grow", "seek", "write", "sync", "restore",
             "finish"} => Running = "slack"
BY DEF Running

\* The same after a step.
LEMMA RunningWillBe ==
  /\ at' \in {"idle", "returned"} => Running' = "none"
  /\ at' = "flush" => Running' = "flush"
  /\ at' \in {"discard", "sparse", "zero", "invoked"} => Running' = "discard"
  /\ at' \in {"slack", "attributes", "open", "grow", "seek", "write", "sync", "restore",
              "finish"} => Running' = "slack"
BY DEF Running

\* Old data that does not come back to the file does not come back to the contract.
LEMMA StaleShrinks ==
  ASSUME logical_size' = logical_size, Old(file') \subseteq Old(file)
  PROVE  /\ Stale' \in SUBSET Stale
         /\ Gone(file', Body(logical_size)) => Stale' \intersect Body(logical_size) = {}
         /\ Gone(file', Slack(logical_size)) => Stale' \intersect Slack(logical_size) = {}
<1>1. Body(logical_size)' = Body(logical_size) /\ Slack(logical_size)' = Slack(logical_size)
  BY DEF Body, Slack, Boundary
<1>2. Body(logical_size) \subseteq Cells /\ Slack(logical_size) \subseteq Cells
  BY DEF Body, Slack
<1> QED
  BY <1>1, <1>2 DEF Stale, Old, Gone

\* A step inside a function, or by the kernel.
LEMMA OverwriteStep ==
  ASSUME logical_size' = logical_size, Old(file') \subseteq Old(file), Running' = Running,
         Running = "slack" \/ file'.size = file.size,
         file'.hole = file.hole, result' = result
  PROVE  [Contract!Next]_(Contract!vars)
<1>1. Stale' \in SUBSET Stale
  BY StaleShrinks
<1>2. Resized' = Resized
  BY DEF Resized
<1>3. Contract!Overwrite
  BY <1>1, <1>2 DEF Contract!Overwrite, Stale, Resized
<1> QED
  BY <1>3 DEF Contract!Next

\* The step that gives the units back.
LEMMA FreeStep ==
  ASSUME logical_size' = logical_size, file'.media = file.media,
         Running = "discard", Running' = "discard",
         file'.size = file.size, result' = result,
         file'.hole \in {FullUnits(logical_size), Body(logical_size) \union Slack(logical_size)}
  PROVE  [Contract!Next]_(Contract!vars)
<1>1. Stale' = Stale
  BY DEF Stale, Body, Slack, Boundary
<1>2. Resized' = Resized
  BY DEF Resized
<1>3. Contract!Free
  BY <1>1, <1>2, AbstractState DEF Contract!Free, Stale, Resized
<1> QED
  BY <1>3 DEF Contract!Next

\* A call.
LEMMA InvokeStep ==
  ASSUME logical_size' = logical_size, file' = file, result' = result,
         Running = "none", Running' \in {"flush", "slack", "discard"},
         Running' = "slack" => file.size = logical_size
  PROVE  [Contract!Next]_(Contract!vars)
<1>1. Stale' = Stale
  BY DEF Stale, Body, Slack, Boundary
<1>2. Resized' = Resized
  BY DEF Resized
<1>3. Contract!Invoke(Running')
  BY <1>1, <1>2 DEF Contract!Invoke, Stale, Resized
<1> QED
  BY <1>3 DEF Contract!Next

\* What every return has in common.
LEMMA ReplyAfterStep ==
  ASSUME NEW call, NEW ok, NEW status, NEW refused, ReturnAfter(call, ok, status, refused),
         Running = call, logical_size' = logical_size, Old(file') \subseteq Old(file)
  PROVE  /\ Contract!ReplyAfter(call, ok, status, refused)
         /\ result'.ok = ok /\ result'.status = status /\ result'.refused = refused
         /\ Running' = "none"
<1>1. Stale' \in SUBSET Stale
  BY StaleShrinks
<1>2. /\ at' = "returned"
      /\ result' = [call |-> call, ok |-> ok, status |-> status, refused |-> refused]
  BY DEF ReturnAfter
<1>3. Running' = "none"
  BY <1>2, RunningWillBe
<1> QED
  BY <1>1, <1>2, <1>3 DEF Contract!ReplyAfter, Stale

\* And what those have that leave no size behind.
LEMMA ReplyStep ==
  ASSUME NEW call, NEW ok, NEW status, Return(call, ok, status), Running = call,
         logical_size' = logical_size, Old(file') \subseteq Old(file)
  PROVE  /\ Contract!Reply(call, ok, status)
         /\ result'.ok = ok /\ result'.status = status /\ Running' = "none"
BY ReplyAfterStep DEF Return, Contract!Reply

\* flush_file_to_media returns.
LEMMA FlushReturnsStep ==
  ASSUME NEW ok \in BOOLEAN, NEW status, Return("flush", ok, status), Running = "flush",
         logical_size' = logical_size, Quiet(file, file'),
         ok => Gone(file', Body(logical_size))
  PROVE  [Contract!Next]_(Contract!vars)
<1>1. /\ Contract!Reply("flush", ok, status) /\ result'.ok = ok /\ result'.status = status
      /\ Running' = "none"
  BY ReplyStep DEF Quiet
<1>2. ok => Stale' \intersect Contract!Body(logical_size) = {}
  BY StaleShrinks, AbstractState DEF Quiet
<1>3. Resized' = Resized /\ file'.hole = file.hole
  BY <1>1 DEF Resized, Quiet
<1>4. Contract!Reply("flush", result'.ok, result'.status)
  BY <1>1 DEF Contract!Reply
<1>5. Contract!FlushReturns(result'.ok, result'.status)
  BY <1>1, <1>2, <1>3, <1>4 DEF Contract!FlushReturns, Stale, Resized
<1> QED
  BY <1>5 DEF Contract!Next

\* eliminate_slack_space returns a success.
LEMMA SlackSucceedsStep ==
  ASSUME NEW status \in SlackSuccess, Return("slack", TRUE, status), Running = "slack",
         logical_size' = logical_size, Quiet(file, file'),
         Gone(file', Slack(logical_size)), file'.size = logical_size
  PROVE  [Contract!Next]_(Contract!vars)
<1>1. /\ Contract!Reply("slack", TRUE, status) /\ result'.status = status /\ Running' = "none"
  BY ReplyStep DEF Quiet
<1>2. Stale' \intersect Contract!Slack(logical_size) = {}
  BY StaleShrinks, AbstractState DEF Quiet
<1>3. Resized' = Resized /\ file'.hole = file.hole
  BY DEF Resized, Quiet
<1>4. Contract!Reply("slack", TRUE, result'.status)
  BY <1>1 DEF Contract!Reply
<1>5. Contract!SlackSucceeds(result'.status)
  BY <1>1, <1>2, <1>3, <1>4 DEF Contract!SlackSucceeds, Stale, Resized
<1> QED
  BY <1>5 DEF Contract!Next

\* It returns a skip.
LEMMA SlackSkipsStep ==
  ASSUME NEW ok \in BOOLEAN, NEW status \in SlackSkipped, Return("slack", ok, status),
         Running = "slack", logical_size' = logical_size, Quiet(file, file'),
         file.size = logical_size
  PROVE  [Contract!Next]_(Contract!vars)
<1>1. /\ Contract!Reply("slack", ok, status) /\ result'.ok = ok /\ result'.status = status
      /\ Running' = "none"
  BY ReplyStep DEF Quiet
<1>2. Resized' = Resized /\ file'.hole = file.hole
  BY DEF Resized, Quiet
<1>3. Contract!Reply("slack", result'.ok, result'.status)
  BY <1>1 DEF Contract!Reply
<1>4. Contract!SlackSkips(result'.ok, result'.status)
  BY <1>1, <1>2, <1>3 DEF Contract!SlackSkips, Resized
<1> QED
  BY <1>4 DEF Contract!Next

\* It fails, the size being what it was or the system having refused to restore it.
LEMMA SlackFailsStep ==
  ASSUME NEW refused \in BOOLEAN, ReturnAfter("slack", FALSE, "FAILED", refused),
         Running = "slack", logical_size' = logical_size, file'.hole = file.hole,
         Old(file') \subseteq Old(file),
         ~ refused => file'.size = logical_size
  PROVE  [Contract!Next]_(Contract!vars)
<1>1. /\ Contract!ReplyAfter("slack", FALSE, "FAILED", refused)
      /\ result'.status = "FAILED" /\ result'.refused = refused
  BY ReplyAfterStep
<1>2. "FAILED" \notin SlackSuccess \union SlackSkipped
  BY DEF SlackSuccess, SlackSkipped
<1>3. Resized' \in BOOLEAN /\ (~ refused => Resized' = Resized)
  BY DEF Resized
<1>4. Contract!SlackFails("FAILED", refused)
  BY <1>1, <1>2, <1>3 DEF Contract!SlackFails, Resized
<1>5. Contract!SlackFails(result'.status, result'.refused)
  BY <1>1, <1>4
<1> QED
  BY <1>5 DEF Contract!Next

\* discard_file_blocks returns.
LEMMA DiscardReturnsStep ==
  ASSUME NEW ok \in BOOLEAN, NEW status, Return("discard", ok, status), Running = "discard",
         logical_size' = logical_size, Quiet(file, file'),
         IF ok THEN FullUnits(logical_size) \subseteq file.hole ELSE file.hole = {}
  PROVE  [Contract!Next]_(Contract!vars)
<1>1. /\ Contract!Reply("discard", ok, status) /\ result'.ok = ok /\ result'.status = status
      /\ Running' = "none"
  BY ReplyStep DEF Quiet
<1>2. Resized' = Resized /\ file'.hole = file.hole
  BY <1>1 DEF Resized, Quiet
<1>3. Contract!Reply("discard", result'.ok, result'.status)
  BY <1>1 DEF Contract!Reply
<1>4. Contract!DiscardReturns(result'.ok, result'.status)
  BY <1>1, <1>2, <1>3, AbstractState DEF Contract!DiscardReturns, Resized
<1> QED
  BY <1>4 DEF Contract!Next

----------------------------------------------------------------------------
\* The inductive invariant.

\* IInv holds of the file as the overwrite passes leave it.
LEMMA InitInv == Init => IInv
<1> SUFFICES ASSUME Init PROVE IInv
  OBVIOUS
<1>1. /\ fs \in FsKinds /\ logical_size \in 0 .. Capacity /\ attributes \subseteq Attributes
      /\ resident \in BOOLEAN /\ pattern \in Content \ {"orig"}
      /\ at = "idle" /\ fs_name = "UNKNOWN" /\ total_written = 0 /\ result = NoResult
      /\ resident => logical_size < Unit
  BY Win32Assumption DEF Init, Possible
<1>2. PICK cached \in SUBSET (1 .. logical_size) :
        file = Overwritten(logical_size, pattern, cached,
                           IF resident THEN {} ELSE Slack(logical_size))
  BY DEF Init
<1> DEFINE old == IF resident THEN {} ELSE Slack(logical_size)
<1>3. cached \in SUBSET Cells
  BY <1>1, StorageAssumption DEF Cells
<1>o. old \intersect Body(logical_size) = {}
  BY <1>1, StorageAssumption DEF Slack, Body
<1> HIDE DEF old
<1>e. file = Overwritten(logical_size, pattern, cached, old)
  BY <1>2 DEF old
<1>4. /\ [i \in Cells |-> IF i <= logical_size THEN pattern ELSE "zero"] \in [Cells -> Content]
      /\ [i \in Cells |-> IF i \in cached \union old THEN "orig"
                         ELSE IF i <= logical_size THEN pattern ELSE "zero"]
           \in [Cells -> Content]
  BY <1>1 DEF Content
<1>5. file \in File
  BY <1>1, <1>e, <1>3, <1>4 DEF File, Overwritten
<1>6. /\ file.size = logical_size /\ file.hole = {} /\ file.dirty = cached
      /\ file.cache = [i \in Cells |-> IF i <= logical_size THEN pattern ELSE "zero"]
      /\ file.media = [i \in Cells |-> IF i \in cached \union old THEN "orig"
                                      ELSE IF i <= logical_size THEN pattern ELSE "zero"]
  BY <1>e DEF Overwritten
<1>7. Fresh(file)
  BY <1>1, <1>6 DEF Fresh
<1>8. Covered(file, Body(logical_size))
  <2> SUFFICES ASSUME NEW i \in Body(logical_size), i \notin cached
               PROVE  file.media[i] # "orig"
    BY <1>6 DEF Covered
  <2>1. i \in Cells /\ i \notin old
    BY <1>o DEF Body
  <2> QED
    BY <1>1, <1>6, <2>1
<1>9. TypeOK
  <2>1. result \in Results
    BY <1>1 DEF Results, NoResult, Status
  <2>2. at \in Labels /\ fs_name \in AllFsKinds \union {"UNKNOWN"}
    BY <1>1 DEF Labels
  <2>3. total_written \in 0 .. Capacity
    BY <1>1, StorageAssumption
  <2> QED
    BY <1>1, <1>5, <2>1, <2>2, <2>3 DEF TypeOK
<1>10. CallInv
  BY <1>1, <1>6, <1>8 DEF CallInv, NoResult
<1>11. SlackInv /\ ResidentInv
  BY <1>1, <1>6 DEF SlackInv, ResidentInv
<1> QED
  BY <1>1, <1>7, <1>9, <1>10, <1>11 DEF IInv

\* What is left to show of an action that ends outside the part of
\* eliminate_slack_space between the seek and the return of a success.
LEMMA FrameLemma ==
  ASSUME IInv, UNCHANGED <<fs, logical_size, pattern>>, attributes' \subseteq Attributes,
         resident' \in BOOLEAN, file' \in File, Fresh(file'), at' \in Labels,
         fs_name' \in AllFsKinds \union {"UNKNOWN"}, total_written' = 0, result' \in Results,
         ResidentInv', CallInv',
         at' \notin {"write", "sync", "restore", "finish"},
         at' = "seek" => Boundary(logical_size) <= Capacity,
         at' = "returned" => result'.status \notin SlackSuccess
  PROVE  IInv'
<1>1. /\ fs' = fs /\ logical_size' = logical_size /\ pattern' = pattern
  OBVIOUS
<1>2. TypeOK'
  BY <1>1, StorageAssumption DEF IInv, TypeOK
<1>3. Fresh(file)'
  BY DEF Fresh
<1>4. SlackInv'
  BY <1>1 DEF SlackInv, Boundary
<1> QED
  BY <1>1, <1>2, <1>3, <1>4 DEF IInv

\* Every outcome a function can return has the type of result.
LEMMA ReturnLemma ==
  ASSUME NEW call \in {"flush", "slack", "discard"}, NEW ok \in BOOLEAN,
         NEW status \in Status, NEW refused \in BOOLEAN, ReturnAfter(call, ok, status, refused)
  PROVE  /\ at' \in Labels /\ fs_name' \in AllFsKinds \union {"UNKNOWN"} /\ total_written' = 0
         /\ at' = "returned"
         /\ result' \in Results /\ result'.call = call /\ result'.status = status
BY DEF ReturnAfter, Labels, Results

\* A return that claims no overwritten slack.
LEMMA PlainReturnAfter ==
  ASSUME IInv, UNCHANGED <<Volume, attributes>>, file' \in File, Fresh(file'),
         NEW call \in {"flush", "slack", "discard"}, NEW ok \in BOOLEAN,
         NEW status \in Status, NEW refused \in BOOLEAN, ReturnAfter(call, ok, status, refused),
         status \notin SlackSuccess,
         resident => file'.size = logical_size,
         call = "flush" => file'.size = logical_size,
         call # "discard" => file'.hole = {}
  PROVE  IInv'
<1>1. /\ fs' = fs /\ logical_size' = logical_size /\ pattern' = pattern /\ resident' = resident
      /\ attributes' = attributes /\ attributes \subseteq Attributes /\ resident \in BOOLEAN
  BY DEF Volume, IInv, TypeOK
<1>2. /\ at' \in Labels /\ fs_name' \in AllFsKinds \union {"UNKNOWN"} /\ total_written' = 0
      /\ at' = "returned"
      /\ result' \in Results /\ result'.call = call /\ result'.status = status
  BY ReturnLemma
<1>3. ResidentInv'
  BY <1>1, <1>2 DEF IInv, ResidentInv
<1>4. CallInv'
  BY <1>1, <1>2 DEF CallInv, BeforeGrow
<1> QED
  BY <1>1, <1>2, <1>3, <1>4, FrameLemma

\* The same, of a return that has left no size behind.
LEMMA PlainReturn ==
  ASSUME IInv, UNCHANGED <<Volume, attributes>>, file' \in File, Fresh(file'),
         NEW call \in {"flush", "slack", "discard"}, NEW ok \in BOOLEAN,
         NEW status \in Status, Return(call, ok, status), status \notin SlackSuccess,
         resident => file'.size = logical_size,
         call = "flush" => file'.size = logical_size,
         call # "discard" => file'.hole = {}
  PROVE  IInv'
BY PlainReturnAfter DEF Return

\* FlushFileBuffers with its outcome ignored is quiet, and so are quiet steps in a row.
LEMMA FlushedLemma ==
  ASSUME NEW f \in File, Fresh(f), NEW g \in Flushed(f)
  PROVE  Quiet(f, g)
BY QuietLemma DEF Flushed

\* set_size to the size of before: the media stays what it is.
LEMMA SetSizeLemma ==
  ASSUME NEW f \in File, Fresh(f), NEW n \in 0 .. Capacity, NEW g \in set_size(f, n)
  PROVE  g \in File /\ g.size = n /\ g.hole = f.hole /\ Fresh(g) /\ g.media = f.media
<1>1. g \in Truncations(f, n)
  BY DEF set_size
<1>2. {} \in SUBSET Cells
  OBVIOUS
<1> QED
  BY <1>1, <1>2, TruncationsLemma

\* An error path of eliminate_slack_space after the grow.
LEMMA GiveUpLemma ==
  ASSUME IInv, UNCHANGED <<Volume, attributes>>, at \in {"seek", "write", "sync"},
         NEW f, Quiet(file, f), GiveUp(f)
  PROVE  IInv' /\ [Contract!Next]_(Contract!vars)
<1>1. /\ logical_size \in 0 .. Capacity /\ file.hole = {} /\ logical_size' = logical_size
      /\ resident => file.size = logical_size
  BY DEF IInv, CallInv, ResidentInv, Volume
<1>2. "FAILED" \in Status /\ "FAILED" \notin SlackSuccess
  BY DEF Status, SlackSuccess
<1>3. PICK g \in {f} \union set_size(f, logical_size), refused \in BOOLEAN :
        /\ file' \in Flushed(g)
        /\ ReturnAfter("slack", FALSE, "FAILED", refused)
        /\ (refused /\ g = f) \/ g \in set_size(f, logical_size)
  <2>1. ASSUME FailUnrestored, file' \in Flushed(f)
        PROVE  ReturnAfter("slack", FALSE, "FAILED", TRUE)
    BY <2>1 DEF FailUnrestored
  <2>2. ASSUME Return("slack", FALSE, "FAILED")
        PROVE  ReturnAfter("slack", FALSE, "FAILED", FALSE)
    BY <2>2 DEF Return
  <2> QED
    BY <2>1, <2>2 DEF GiveUp
<1>4. /\ f \in File /\ f.size = file.size /\ f.hole = file.hole /\ Fresh(f)
      /\ Old(f) \subseteq Old(file)
  BY DEF Quiet
<1>5. /\ g \in File /\ Fresh(g) /\ g.hole = file.hole /\ Old(g) \subseteq Old(file)
      /\ g.size = file.size \/ g.size = logical_size
      /\ refused \/ g.size = logical_size
  <2>1. CASE g = f /\ refused
    BY <1>4, <2>1
  <2>2. CASE g \in set_size(f, logical_size)
    <3>1. g \in File /\ g.size = logical_size /\ g.hole = f.hole /\ Fresh(g) /\ g.media = f.media
      BY <1>1, <1>4, <2>2, SetSizeLemma
    <3>2. Old(g) = Old(f)
      BY <3>1, SameOld
    <3> QED
      BY <1>4, <3>1, <3>2
  <2> QED
    BY <1>3, <2>1, <2>2
<1>6. Quiet(g, file')
  BY <1>3, <1>5, FlushedLemma
<1>7. /\ file' \in File /\ Fresh(file') /\ file'.hole = file.hole
      /\ Old(file') \subseteq Old(file)
      /\ file'.size = file.size \/ file'.size = logical_size
      /\ refused \/ file'.size = logical_size
  BY <1>5, <1>6 DEF Quiet
<1>8. IInv'
  BY <1>1, <1>2, <1>3, <1>7, PlainReturnAfter
<1>9. Running = "slack"
  BY RunningIs
<1> QED
  BY <1>1, <1>3, <1>7, <1>8, <1>9, SlackFailsStep

\* flush_file_to_media: what it reports as flushed is on the media.
LEMMA FlushStep == IInv /\ Flush => IInv' /\ [Contract!Next]_(Contract!vars)
<1> SUFFICES ASSUME IInv, Flush PROVE IInv' /\ [Contract!Next]_(Contract!vars)
  OBVIOUS
<1>0. /\ file \in File /\ Fresh(file) /\ UNCHANGED <<Volume, attributes>>
      /\ logical_size' = logical_size /\ at = "flush"
      /\ file.size = logical_size /\ file.hole = {}
      /\ Covered(file, Body(logical_size)) /\ Body(logical_size) \in SUBSET Cells
  BY DEF IInv, TypeOK, CallInv, BeforeGrow, Flush, Volume, Body
<1>s. /\ "SUCCESS" \in Status /\ "FAILED" \in Status
      /\ "SUCCESS" \notin SlackSuccess /\ "FAILED" \notin SlackSuccess
  BY DEF Status, SlackSuccess
<1>r. Running = "flush"
  BY <1>0, RunningIs
<1>p. ASSUME NEW ok \in BOOLEAN, NEW status \in {"SUCCESS", "FAILED"},
             Return("flush", ok, status), Quiet(file, file'),
             ok => Gone(file', Body(logical_size))
      PROVE  IInv' /\ [Contract!Next]_(Contract!vars)
  <2>1. /\ file' \in File /\ Fresh(file') /\ file'.size = file.size /\ file'.hole = file.hole
        /\ status \in Status /\ status \notin SlackSuccess
    BY <1>p, <1>s DEF Quiet
  <2>2. IInv'
    BY <1>0, <1>p, <2>1, PlainReturn
  <2> QED
    BY <1>0, <1>r, <1>p, <2>2, FlushReturnsStep
<1>1. CASE Return("flush", FALSE, "FAILED") /\ UNCHANGED file
  <2>1. Quiet(file, file')
    BY <1>0, <1>1 DEF Quiet
  <2> QED
    BY <1>1, <1>p, <2>1
<1>2. CASE SyncPossible(file) /\ file' = Synced(file, Cow) /\ Return("flush", TRUE, "SUCCESS")
  <2>1. Quiet(file, file')
    BY <1>0, <1>2, QuietLemma
  <2>2. Gone(file', Body(logical_size))
    BY <1>0, <1>2, SyncedLemma
  <2> QED
    BY <1>2, <1>p, <2>1, <2>2
<1>3. CASE file' \in SyncFailures(file, Cow) /\ Return("flush", FALSE, "FAILED")
  <2>1. Quiet(file, file')
    BY <1>0, <1>3, QuietLemma
  <2> QED
    BY <1>3, <1>p, <2>1
<1> QED
  BY <1>1, <1>2, <1>3 DEF Flush

\* eliminate_slack_space up to the grow: it reads, or skips, or fails.
LEMMA BeforeGrowStep ==
  IInv /\ (SlackEnter \/ CheckAttributes \/ OpenAndLocate)
    => IInv' /\ [Contract!Next]_(Contract!vars)
<1> SUFFICES ASSUME IInv, SlackEnter \/ CheckAttributes \/ OpenAndLocate
             PROVE  IInv' /\ [Contract!Next]_(Contract!vars)
  OBVIOUS
<1>0. /\ file \in File /\ Fresh(file) /\ UNCHANGED <<Volume, attributes, file>>
      /\ logical_size' = logical_size /\ at \in {"slack", "attributes", "open"}
      /\ file.size = logical_size /\ file.hole = {} /\ total_written = 0
      /\ attributes \subseteq Attributes /\ resident \in BOOLEAN
      /\ fs \in FsKinds /\ fs_name \in AllFsKinds \union {"UNKNOWN"} /\ result \in Results
      /\ resident => logical_size < Unit
  <2>1. at \in {"slack", "attributes", "open"} /\ UNCHANGED <<Volume, attributes, file>>
    BY DEF SlackEnter, CheckAttributes, OpenAndLocate
  <2> QED
    BY <2>1 DEF IInv, TypeOK, CallInv, SlackInv, ResidentInv, BeforeGrow, Volume
<1>s. /\ "FAILED" \in Status /\ "FAILED" \notin SlackSuccess
      /\ SlackSkipped \subseteq Status /\ SlackSkipped \intersect SlackSuccess = {}
  BY DEF Status, SlackSuccess, SlackSkipped
<1>r. Running = "slack"
  BY <1>0, RunningIs
<1>q. Quiet(file, file') /\ Old(file') \subseteq Old(file)
  BY <1>0 DEF Quiet
<1>f. ASSUME Return("slack", FALSE, "FAILED")
      PROVE  IInv' /\ [Contract!Next]_(Contract!vars)
  <2>1. IInv'
    BY <1>0, <1>s, <1>f, PlainReturn
  <2> QED
    BY <1>0, <1>r, <1>q, <1>f, <2>1, SlackFailsStep DEF Return
<1>k. ASSUME NEW ok \in BOOLEAN, NEW status \in SlackSkipped, Return("slack", ok, status)
      PROVE  IInv' /\ [Contract!Next]_(Contract!vars)
  <2>1. IInv'
    BY <1>0, <1>s, <1>k, PlainReturn
  <2> QED
    BY <1>0, <1>r, <1>q, <1>k, <2>1, SlackSkipsStep
<1>g. ASSUME at' \in {"attributes", "open", "grow"}, UNCHANGED <<total_written, result>>,
             fs_name' \in AllFsKinds \union {"UNKNOWN"}
      PROVE  IInv' /\ [Contract!Next]_(Contract!vars)
  <2>1. /\ at' \in Labels /\ total_written' = 0 /\ result' \in Results /\ resident' = resident
        /\ file' = file /\ attributes' = attributes /\ result' = result
    BY <1>0, <1>g DEF Labels, Volume
  <2>2. ResidentInv' /\ CallInv'
    BY <1>0, <1>g, <2>1 DEF ResidentInv, CallInv, BeforeGrow
  <2>3. UNCHANGED <<fs, logical_size, pattern>>
    BY <1>0 DEF Volume
  <2>4. IInv'
    BY <1>0, <1>g, <2>1, <2>2, <2>3, FrameLemma
  <2>5. Running' = "slack"
    BY <1>g, RunningWillBe
  <2> QED
    BY <1>0, <1>r, <1>q, <2>1, <2>4, <2>5, OverwriteStep
<1>1. CASE SlackEnter
  <2>1. CASE Return("slack", TRUE, "SKIPPED_EMPTY_FILE")
    <3>1. "SKIPPED_EMPTY_FILE" \in SlackSkipped
      BY DEF SlackSkipped
    <3> QED
      BY <1>k, <2>1, <3>1
  <2>2. CASE fs_name' \in fs_name_of /\ at' = "attributes" /\ UNCHANGED <<total_written, result>>
    <3>1. fs_name' \in AllFsKinds \union {"UNKNOWN"}
      BY <1>0, <2>2, Win32Assumption DEF fs_name_of
    <3> QED
      BY <1>g, <2>2, <3>1
  <2> QED
    BY <1>1, <2>1, <2>2 DEF SlackEnter
<1>2. CASE CheckAttributes
  <2>1. CASE Return("slack", FALSE, "FAILED")
    BY <1>f, <2>1
  <2>2. CASE Refusal # "none" /\ Return("slack", FALSE, Refusal)
    <3>1. Refusal \in SlackSkipped
      BY <2>2 DEF Refusal, SlackSkipped
    <3> QED
      BY <1>k, <2>2, <3>1
  <2>3. CASE Return("slack", TRUE, "SKIPPED_NO_SLACK")
    <3>1. "SKIPPED_NO_SLACK" \in SlackSkipped
      BY DEF SlackSkipped
    <3> QED
      BY <1>k, <2>3, <3>1
  <2>4. CASE Goto("open")
    BY <1>0, <1>g, <2>4 DEF Goto
  <2>5. \/ Return("slack", FALSE, "FAILED")
        \/ Refusal # "none" /\ Return("slack", FALSE, Refusal)
        \/ Return("slack", TRUE, "SKIPPED_NO_SLACK")
        \/ Goto("open")
    BY <1>2 DEF CheckAttributes
  <2> QED
    BY <2>1, <2>2, <2>3, <2>4, <2>5
<1>3. CASE OpenAndLocate
  <2>1. CASE Return("slack", FALSE, "FAILED")
    BY <1>f, <2>1
  <2>2. CASE Return("slack", TRUE, "SKIPPED_RESIDENT_MFT_DATA")
    <3>1. "SKIPPED_RESIDENT_MFT_DATA" \in SlackSkipped
      BY DEF SlackSkipped
    <3> QED
      BY <1>k, <2>2, <3>1
  <2>3. CASE Goto("grow")
    BY <1>0, <1>g, <2>3 DEF Goto
  <2>4. \/ Return("slack", FALSE, "FAILED")
        \/ Return("slack", TRUE, "SKIPPED_RESIDENT_MFT_DATA")
        \/ Goto("grow")
    BY <1>3 DEF OpenAndLocate
  <2> QED
    BY <2>1, <2>2, <2>3, <2>4
<1> QED
  BY <1>1, <1>2, <1>3

\* Growing and seeking: nothing of the slack is written yet.
LEMMA GrowSeekStep == IInv /\ (Grow \/ Seek) => IInv' /\ [Contract!Next]_(Contract!vars)
<1> SUFFICES ASSUME IInv, Grow \/ Seek PROVE IInv' /\ [Contract!Next]_(Contract!vars)
  OBVIOUS
<1>0. /\ file \in File /\ Fresh(file) /\ at \in {"grow", "seek"}
      /\ logical_size \in 0 .. Capacity /\ pattern \in Content /\ pattern # "orig"
      /\ fs' = fs /\ logical_size' = logical_size /\ pattern' = pattern
      /\ attributes' = attributes
      /\ file.hole = {} /\ total_written = 0
      /\ attributes \subseteq Attributes /\ resident \in BOOLEAN
      /\ fs \in FsKinds /\ fs_name \in AllFsKinds \union {"UNKNOWN"} /\ result \in Results
      /\ ResidentInv
      /\ at = "seek" => Boundary(logical_size) <= Capacity
  <2>1. /\ at \in {"grow", "seek"} /\ fs' = fs /\ logical_size' = logical_size
        /\ pattern' = pattern /\ attributes' = attributes
    BY DEF Grow, Seek, Volume
  <2> QED
    BY <2>1 DEF IInv, TypeOK, CallInv, SlackInv
<1>s. "FAILED" \in Status /\ "FAILED" \notin SlackSuccess
  BY DEF Status, SlackSuccess
<1>r. Running = "slack"
  BY <1>0, RunningIs
<1>1. CASE Grow
  <2>1. CASE Return("slack", FALSE, "FAILED") /\ UNCHANGED <<file, resident>>
    <3>1. IInv'
      BY <1>0, <1>s, <2>1, PlainReturn DEF Volume, ResidentInv
    <3>2. file.size = logical_size
      BY <1>1 DEF Grow, IInv, CallInv, BeforeGrow
    <3> QED
      BY <1>0, <1>r, <2>1, <3>1, <3>2, SlackFailsStep DEF Return
  <2>2. CASE /\ Boundary(logical_size) <= Capacity
             /\ file' \in set_size(file, Boundary(logical_size))
             /\ resident' = FALSE
             /\ Goto("seek")
    <3>1. Boundary(logical_size) \in 0 .. Capacity
      BY <1>0, <2>2, BoundaryType, StorageAssumption
    <3>2. file' \in File /\ file'.hole = file.hole /\ Fresh(file') /\ file'.media = file.media
      BY <1>0, <2>2, <3>1, SetSizeLemma
    <3>3. /\ at' = "seek" /\ at' \in Labels /\ fs_name' = fs_name /\ result' = result
          /\ total_written' = 0
      BY <1>0, <2>2 DEF Goto, Labels
    <3>4. ResidentInv' /\ CallInv'
      BY <1>0, <2>2, <3>2, <3>3 DEF ResidentInv, CallInv, BeforeGrow
    <3>5. IInv'
      BY <1>0, <2>2, <3>2, <3>3, <3>4, FrameLemma
    <3>6. Running' = "slack" /\ Old(file') \subseteq Old(file)
      BY <3>2, <3>3, RunningWillBe, SameOld
    <3> QED
      BY <1>0, <1>r, <3>2, <3>3, <3>5, <3>6, OverwriteStep
  <2> QED
    BY <1>1, <2>1, <2>2 DEF Grow
<1>2. CASE Seek
  <2>0. at = "seek" /\ UNCHANGED <<Volume, attributes>> /\ resident' = resident
    BY <1>2 DEF Seek, Volume
  <2>1. CASE GiveUp(file)
    <3>1. Quiet(file, file)
      BY <1>0 DEF Quiet
    <3> QED
      BY <2>0, <2>1, <3>1, GiveUpLemma
  <2>2. CASE Goto("write") /\ UNCHANGED file
    <3>1. /\ at' = "write" /\ fs_name' = fs_name /\ result' = result /\ file' = file
          /\ total_written' = 0
      BY <1>0, <2>2 DEF Goto
    <3>2. TypeOK'
      BY <1>0, <2>0, <3>1, StorageAssumption DEF TypeOK, Labels
    <3>3. Fresh(file)' /\ ResidentInv' /\ CallInv'
      BY <1>0, <2>0, <3>1 DEF Fresh, ResidentInv, CallInv, BeforeGrow
    <3>4. SlackInv'
      <4>1. Boundary(logical_size') <= Capacity
        BY <1>0, <2>0
      <4>2. WrittenSlack' = {}
        BY <1>0, <3>1 DEF WrittenSlack
      <4> QED
        BY <3>1, <4>1, <4>2 DEF SlackInv, Covered
    <3>5. IInv'
      BY <1>0, <3>2, <3>3, <3>4 DEF IInv
    <3>6. Running' = "slack"
      BY <3>1, RunningWillBe
    <3> QED
      BY <1>0, <1>r, <3>1, <3>5, <3>6, OverwriteStep
  <2> QED
    BY <1>2, <2>1, <2>2 DEF Seek
<1> QED
  BY <1>1, <1>2

\* The write loop: each WriteFile extends what is covered, the last to all of it.
LEMMA WriteSlackStep == IInv /\ WriteSlack => IInv' /\ [Contract!Next]_(Contract!vars)
<1> SUFFICES ASSUME IInv, WriteSlack PROVE IInv' /\ [Contract!Next]_(Contract!vars)
  OBVIOUS
<1>0. /\ file \in File /\ Fresh(file) /\ fs \in FsKinds /\ attributes \subseteq Attributes
      /\ fs_name \in AllFsKinds \union {"UNKNOWN"} /\ result \in Results
      /\ resident \in BOOLEAN /\ ResidentInv /\ file.hole = {}
      /\ logical_size \in 0 .. Capacity /\ pattern \in Content \ {"orig"}
      /\ total_written \in 0 .. Capacity
      /\ at = "write" /\ UNCHANGED <<Volume, attributes>>
  BY DEF IInv, TypeOK, CallInv, WriteSlack
<1>1. /\ fs' = fs /\ logical_size' = logical_size /\ pattern' = pattern
      /\ resident' = resident /\ attributes' = attributes
  BY <1>0 DEF Volume
<1>2. /\ Boundary(logical_size) <= Capacity
      /\ total_written = 0 \/ total_written < Fill
      /\ Covered(file, WrittenSlack)
  BY <1>0 DEF IInv, SlackInv
<1>3. Boundary(logical_size) \in 0 .. Capacity /\ Fill \in Int
  BY <1>0, <1>2, BoundaryType, StorageAssumption DEF Fill
<1>4. ASSUME GiveUp(file) PROVE IInv' /\ [Contract!Next]_(Contract!vars)
  <2>1. Quiet(file, file)
    BY <1>0 DEF Quiet
  <2> QED
    BY <1>0, <1>4, <2>1, GiveUpLemma
<1>5. ASSUME NEW cells \in 1 .. Fill - total_written,
             file' = Write(file, logical_size + total_written + 1,
                           logical_size + total_written + cells, pattern),
             total_written' = total_written + cells,
             at' = IF total_written' = Fill THEN "sync" ELSE "write",
             UNCHANGED <<fs_name, result>>
      PROVE  IInv' /\ [Contract!Next]_(Contract!vars)
  <2> DEFINE lo == logical_size + total_written + 1
             hi == logical_size + total_written + cells
  <2>0. cells \in Nat \ {0} /\ cells <= Fill - total_written /\ Capacity \in Nat
    BY <1>0, <1>3, StorageAssumption
  <2>1. lo \in Nat \ {0} /\ hi \in 0 .. Capacity
    BY <1>0, <1>3, <2>0 DEF Fill
  <2>2. WrittenSlack \in SUBSET Cells
    BY <1>0, <1>3, <1>2, StorageAssumption DEF WrittenSlack, Cells, Fill
  <2>3. /\ file' \in File /\ Fresh(file') /\ file'.media = file.media /\ file'.hole = file.hole
        /\ Covered(file', WrittenSlack \union (lo .. hi))
    <3>1. pattern \in Content \ {"orig"} /\ file \in File /\ Fresh(file)
      BY <1>0
    <3>2. file' = Write(file, lo, hi, pattern)
      BY <1>5
    <3> HIDE DEF lo, hi
    <3> QED
      BY <1>2, <2>1, <2>2, <3>1, <3>2, WriteLemma
  <2>4. WrittenSlack' = WrittenSlack \union (lo .. hi)
    BY <1>0, <1>1, <1>3, <1>5 DEF WrittenSlack
  <2>5. at' \in {"sync", "write"} /\ Fill' = Fill /\ fs_name' = fs_name /\ result' = result
    BY <1>1, <1>5 DEF Fill, Boundary
  <2>6. total_written' \in 0 .. Capacity /\ total_written' <= Fill
    BY <1>0, <1>3, <1>5, <2>0 DEF Fill
  <2>7. TypeOK'
    BY <1>0, <1>1, <2>3, <2>5, <2>6 DEF TypeOK, Labels
  <2>8. ~ resident
    BY <1>0 DEF ResidentInv
  <2>9. ResidentInv' /\ CallInv'
    BY <1>0, <1>1, <2>3, <2>5, <2>8 DEF ResidentInv, CallInv, BeforeGrow
  <2>10. SlackInv'
    <3>1. Boundary(logical_size)' <= Capacity
      BY <1>1, <1>2 DEF Boundary
    <3>2. CASE at' = "write"
      <4>1. total_written' < Fill'
        BY <1>3, <1>5, <2>5, <2>6, <3>2
      <4> QED
        BY <2>3, <2>4, <3>1, <3>2, <4>1 DEF SlackInv
    <3>3. CASE at' = "sync"
      <4>1. total_written' = Fill
        BY <1>5, <3>3
      <4>2. Slack(logical_size)' \subseteq WrittenSlack'
        BY <1>0, <1>1, <1>3, <4>1 DEF Slack, WrittenSlack, Fill, Boundary
      <4> QED
        BY <2>3, <2>4, <3>3, <4>2 DEF SlackInv, Covered
    <3> QED
      BY <2>5, <3>2, <3>3
  <2>11. IInv'
    BY <1>0, <1>1, <2>3, <2>7, <2>9, <2>10 DEF IInv, Fresh
  <2>12. Running = "slack" /\ Running' = "slack" /\ Old(file') \subseteq Old(file)
    BY <1>0, <2>3, <2>5, RunningIs, RunningWillBe, SameOld
  <2> QED
    BY <1>1, <2>3, <2>5, <2>11, <2>12, OverwriteStep
<1> QED
  BY <1>4, <1>5 DEF WriteSlack

\* From the sync to the return: what was covered is gone, and stays gone.
LEMMA SyncRestoreFinishStep ==
  IInv /\ (FlushSlack \/ Restore \/ Finish) => IInv' /\ [Contract!Next]_(Contract!vars)
<1> SUFFICES ASSUME IInv, FlushSlack \/ Restore \/ Finish
             PROVE  IInv' /\ [Contract!Next]_(Contract!vars)
  OBVIOUS
<1>0. /\ file \in File /\ Fresh(file) /\ fs \in FsKinds /\ attributes \subseteq Attributes
      /\ fs_name \in AllFsKinds \union {"UNKNOWN"} /\ result \in Results
      /\ resident = FALSE /\ file.hole = {}
      /\ logical_size \in 0 .. Capacity /\ pattern \in Content /\ pattern # "orig"
      /\ total_written \in 0 .. Capacity
      /\ at \in {"sync", "restore", "finish"} /\ UNCHANGED <<Volume, attributes>>
  <2>1. at \in {"sync", "restore", "finish"} /\ UNCHANGED <<Volume, attributes>>
    BY DEF FlushSlack, Restore, Finish
  <2> QED
    BY <2>1 DEF IInv, TypeOK, CallInv, ResidentInv
<1>1. /\ fs' = fs /\ logical_size' = logical_size /\ pattern' = pattern
      /\ resident' = resident /\ attributes' = attributes
      /\ Slack(logical_size) \in SUBSET Cells
  BY <1>0 DEF Volume, Slack
<1>s. /\ "FAILED" \in Status /\ "FAILED" \notin SlackSuccess
      /\ SlackSuccess \subseteq Status /\ "SUCCESS_CLUSTER_MODE" \in SlackSuccess
  BY DEF Status, SlackSuccess
<1>r. Running = "slack"
  BY <1>0, RunningIs
<1>2. ASSUME at' \in {"restore", "finish"}, UNCHANGED <<fs_name, total_written, result>>,
             file' \in File, Fresh(file'), file'.hole = file.hole, Old(file') \subseteq Old(file),
             Gone(file', Slack(logical_size)),
             at' = "finish" => file'.size = logical_size
      PROVE  IInv' /\ [Contract!Next]_(Contract!vars)
  <2>1. TypeOK'
    BY <1>0, <1>1, <1>2 DEF TypeOK, Labels
  <2>2. ResidentInv' /\ CallInv'
    BY <1>0, <1>1, <1>2 DEF ResidentInv, CallInv, BeforeGrow
  <2>3. SlackInv'
    <3>1. Slack(logical_size)' = Slack(logical_size)
      BY <1>1 DEF Slack, Boundary
    <3> QED
      BY <1>1, <1>2, <3>1 DEF SlackInv, Gone
  <2>4. IInv'
    BY <1>0, <1>1, <1>2, <2>1, <2>2, <2>3 DEF IInv, Fresh
  <2>5. Running' = "slack"
    BY <1>2, RunningWillBe
  <2> QED
    BY <1>1, <1>2, <1>r, <2>4, <2>5, OverwriteStep
<1>3. CASE FlushSlack
  <2>1. ASSUME SyncPossible(file), file' = Synced(file, Cow), Goto("restore")
        PROVE  IInv' /\ [Contract!Next]_(Contract!vars)
    <3>1. Covered(file, Slack(logical_size))
      BY <1>3 DEF IInv, SlackInv, FlushSlack
    <3>2. Gone(file', Slack(logical_size))
      BY <1>0, <1>1, <2>1, <3>1, SyncedLemma
    <3>3. Quiet(file, file')
      BY <1>0, <2>1, QuietLemma
    <3> QED
      BY <1>2, <2>1, <3>2, <3>3 DEF Quiet, Goto
  <2>2. ASSUME NEW f \in SyncFailures(file, Cow), GiveUp(f)
        PROVE  IInv' /\ [Contract!Next]_(Contract!vars)
    <3>1. Quiet(file, f)
      BY <1>0, QuietLemma
    <3>2. at = "sync"
      BY <1>3 DEF FlushSlack
    <3> QED
      BY <1>0, <2>2, <3>1, <3>2, GiveUpLemma
  <2> QED
    BY <1>3, <2>1, <2>2 DEF FlushSlack
<1>4. CASE Restore
  <2>1. ASSUME FailUnrestored, UNCHANGED file
        PROVE  IInv' /\ [Contract!Next]_(Contract!vars)
    <3>1. IInv'
      BY <1>0, <1>s, <2>1, PlainReturnAfter DEF FailUnrestored
    <3> QED
      BY <1>1, <1>r, <2>1, <3>1, SlackFailsStep DEF FailUnrestored
  <2>2. ASSUME file' \in set_size(file, logical_size), Goto("finish")
        PROVE  IInv' /\ [Contract!Next]_(Contract!vars)
    <3>1. Gone(file, Slack(logical_size))
      BY <1>4 DEF IInv, SlackInv, Restore
    <3>2. /\ file' \in File /\ Fresh(file') /\ file'.size = logical_size
          /\ file'.hole = file.hole /\ file'.media = file.media
      BY <1>0, <2>2, SetSizeLemma
    <3>3. Old(file') = Old(file) /\ Gone(file', Slack(logical_size))
      BY <3>1, <3>2, SameOld DEF Gone
    <3> QED
      BY <1>2, <2>2, <3>2, <3>3 DEF Goto
  <2> QED
    BY <1>4, <2>1, <2>2 DEF Restore
<1>5. CASE Finish
  <2>1. /\ file' \in Flushed(file) /\ Return("slack", TRUE, "SUCCESS_CLUSTER_MODE")
        /\ at = "finish"
    BY <1>5 DEF Finish
  <2>2. Gone(file, Slack(logical_size)) /\ file.size = logical_size
    BY <2>1 DEF IInv, SlackInv
  <2>3. Quiet(file, file')
    BY <1>0, <2>1, FlushedLemma
  <2>4. /\ file' \in File /\ Fresh(file') /\ file'.size = logical_size /\ file'.hole = {}
        /\ Gone(file', Slack(logical_size))
    BY <1>0, <1>1, <2>2, <2>3, GoneStays DEF Quiet
  <2>5. /\ at' \in Labels /\ fs_name' \in AllFsKinds \union {"UNKNOWN"} /\ total_written' = 0
        /\ at' = "returned" /\ result' \in Results /\ result'.call = "slack"
    BY <1>s, <2>1, ReturnLemma DEF Return
  <2>6. TypeOK'
    <3>1. total_written' \in 0 .. Capacity
      BY <2>5, StorageAssumption
    <3> QED
      BY <1>0, <1>1, <2>4, <2>5, <3>1 DEF TypeOK
  <2>7. ResidentInv' /\ CallInv'
    BY <1>0, <1>1, <2>4, <2>5 DEF ResidentInv, CallInv, BeforeGrow
  <2>8. SlackInv'
    <3>1. Slack(logical_size)' = Slack(logical_size)
      BY <1>1 DEF Slack, Boundary
    <3> QED
      BY <1>1, <2>4, <2>5, <3>1 DEF SlackInv, Gone
  <2>9. IInv'
    BY <1>0, <1>1, <2>4, <2>6, <2>7, <2>8 DEF IInv, Fresh
  <2> QED
    BY <1>1, <1>r, <1>s, <2>1, <2>3, <2>4, <2>9, SlackSucceedsStep
<1> QED
  BY <1>3, <1>4, <1>5

\* discard_file_blocks: what it reports as given back is, and what it does not
\* report is not.
LEMMA DiscardStep ==
  IInv /\ (DiscardOpen \/ SetSparse \/ ZeroData \/ Invoked)
    => IInv' /\ [Contract!Next]_(Contract!vars)
<1> SUFFICES ASSUME IInv, DiscardOpen \/ SetSparse \/ ZeroData \/ Invoked
             PROVE  IInv' /\ [Contract!Next]_(Contract!vars)
  OBVIOUS
<1>0. /\ file \in File /\ Fresh(file) /\ fs \in FsKinds /\ attributes \subseteq Attributes
      /\ fs_name \in AllFsKinds \union {"UNKNOWN"} /\ result \in Results
      /\ resident \in BOOLEAN /\ total_written = 0 /\ logical_size \in 0 .. Capacity
      /\ resident => logical_size < Unit /\ file.size = logical_size
      /\ at # "invoked" => file.hole = {}
      /\ at = "invoked" => FullUnits(logical_size) \subseteq file.hole
      /\ at \in {"discard", "sparse", "zero", "invoked"} /\ UNCHANGED Volume
  <2>1. at \in {"discard", "sparse", "zero", "invoked"} /\ UNCHANGED Volume
    BY DEF DiscardOpen, SetSparse, ZeroData, Invoked, Volume
  <2> QED
    BY <2>1 DEF IInv, TypeOK, CallInv, SlackInv, ResidentInv
<1>1. fs' = fs /\ logical_size' = logical_size /\ pattern' = pattern /\ resident' = resident
  BY <1>0 DEF Volume
<1>s. /\ {"FAILED", "SKIPPED_EMPTY_FILE", "SUCCESS_HOLE_PUNCH"} \subseteq Status
      /\ {"FAILED", "SKIPPED_EMPTY_FILE", "SUCCESS_HOLE_PUNCH"} \intersect SlackSuccess = {}
  BY DEF Status, SlackSuccess, SlackSkipped
<1>r. Running = "discard"
  BY <1>0, RunningIs
\* A return that leaves the file alone.
<1>2. ASSUME NEW ok \in BOOLEAN,
             NEW status \in {"FAILED", "SKIPPED_EMPTY_FILE", "SUCCESS_HOLE_PUNCH"},
             Return("discard", ok, status), UNCHANGED <<file, attributes>>,
             ok <=> at = "invoked"
      PROVE  IInv' /\ [Contract!Next]_(Contract!vars)
  <2>1. Quiet(file, file')
    BY <1>0, <1>2 DEF Quiet
  <2>2. status \in Status /\ status \notin SlackSuccess
    BY <1>s
  <2>3. IInv'
    BY <1>0, <1>2, <2>2, PlainReturn
  <2> QED
    BY <1>0, <1>1, <1>r, <1>2, <2>1, <2>3, DiscardReturnsStep
\* A step from one call of the function to the next.
<1>3. ASSUME at' \in {"sparse", "zero", "invoked"}, UNCHANGED <<fs_name, total_written, result>>,
             file' \in File, Fresh(file'), file'.size = file.size, attributes' \subseteq Attributes,
             at' # "invoked" => file'.hole = {},
             at' = "invoked" => FullUnits(logical_size) \subseteq file'.hole
      PROVE  IInv'
  <2>1. /\ at' \in Labels /\ total_written' = 0 /\ result' \in Results
        /\ UNCHANGED <<fs, logical_size, pattern>>
    BY <1>0, <1>1, <1>3 DEF Labels
  <2>2. ResidentInv'
    BY <1>0, <1>1, <1>3 DEF ResidentInv
  <2>3. FullUnits(logical_size)' = FullUnits(logical_size)
    BY <1>1 DEF FullUnits
  <2>4. CallInv'
    BY <1>3, <2>3 DEF CallInv, BeforeGrow
  <2> QED
    BY <1>0, <1>1, <1>3, <2>1, <2>2, <2>4, FrameLemma
<1>4. CASE DiscardOpen
  <2>1. ASSUME Return("discard", FALSE, "SKIPPED_EMPTY_FILE") \/ Return("discard", FALSE, "FAILED"),
               UNCHANGED file
        PROVE  IInv' /\ [Contract!Next]_(Contract!vars)
    BY <1>2, <1>4, <2>1 DEF DiscardOpen
  <2>2. ASSUME file' \in Flushed(file), Goto("sparse")
        PROVE  IInv' /\ [Contract!Next]_(Contract!vars)
    <3>1. /\ at' = "sparse" /\ UNCHANGED <<fs_name, total_written, result>>
          /\ attributes' = attributes /\ at = "discard"
      BY <1>4, <2>2 DEF Goto, DiscardOpen
    <3>2. Quiet(file, file')
      BY <1>0, <2>2, FlushedLemma
    <3>3. IInv'
      BY <1>0, <1>3, <3>1, <3>2 DEF Quiet
    <3>4. Running' = "discard"
      BY <3>1, RunningWillBe
    <3> QED
      BY <1>1, <1>r, <3>1, <3>2, <3>3, <3>4, OverwriteStep DEF Quiet
  <2> QED
    BY <1>4, <2>1, <2>2 DEF DiscardOpen
<1>5. CASE SetSparse
  <2>1. ASSUME Return("discard", FALSE, "FAILED"), UNCHANGED attributes
        PROVE  IInv' /\ [Contract!Next]_(Contract!vars)
    BY <1>2, <1>5, <2>1 DEF SetSparse
  <2>2. ASSUME attributes' = attributes \union {"SPARSE"}, Goto("zero")
        PROVE  IInv' /\ [Contract!Next]_(Contract!vars)
    <3>1. /\ at' = "zero" /\ UNCHANGED <<fs_name, total_written, result>>
          /\ file' = file /\ at = "sparse" /\ attributes' \subseteq Attributes
      BY <1>0, <1>5, <2>2 DEF Goto, SetSparse, Attributes
    <3>2. IInv'
      BY <1>0, <1>3, <3>1
    <3>3. Running' = "discard"
      BY <3>1, RunningWillBe
    <3> QED
      BY <1>1, <1>r, <3>1, <3>2, <3>3, OverwriteStep
  <2> QED
    BY <1>5, <2>1, <2>2 DEF SetSparse
<1>6. CASE ZeroData
  <2>0. at = "zero" /\ attributes' = attributes
    BY <1>6 DEF ZeroData
  <2>1. ASSUME Return("discard", FALSE, "FAILED"), UNCHANGED file
        PROVE  IInv' /\ [Contract!Next]_(Contract!vars)
    BY <1>2, <2>0, <2>1
  <2>2. ASSUME NEW length \in {AlignedLength(Unit), AlignedLength(1)},
               file' = IF resident
                         THEN Write(file, 1, IF length < file.size THEN length ELSE file.size,
                                    "zero")
                         ELSE Punch(file, length),
               Goto("invoked")
        PROVE  IInv' /\ [Contract!Next]_(Contract!vars)
    <3>1. at' = "invoked" /\ UNCHANGED <<fs_name, total_written, result>>
      BY <2>2 DEF Goto
    <3>2. /\ file' \in File /\ Fresh(file') /\ file'.media = file.media
          /\ file'.size = file.size
          /\ file'.hole \in {FullUnits(logical_size),
                             Body(logical_size) \union Slack(logical_size)}
      <4>0. {} \in SUBSET Cells
        OBVIOUS
      <4>1. CASE resident
        <5>1. file' = Write(file, 1, logical_size, "zero")
          <6>1. file.size = logical_size /\ logical_size \in Nat
            BY <1>0, <4>1
          <6>2. length \in {Boundary(logical_size), logical_size}
            BY <1>0, <2>2, Aligned
          <6>3. Boundary(logical_size) \in Nat /\ logical_size <= Boundary(logical_size)
            BY <1>0, RoundedUp, RoundingFits
          <6>4. (IF length < file.size THEN length ELSE file.size) = logical_size
            BY <6>1, <6>2, <6>3
          <6> QED
            BY <2>2, <4>1, <6>4
        <5>2. file' \in File /\ Fresh(file') /\ file'.media = file.media /\ file'.hole = file.hole
          <6>1. file \in File /\ Fresh(file) /\ logical_size \in 0 .. Capacity
            BY <1>0
          <6>2. Body(logical_size) \in SUBSET Cells
            BY DEF Body
          <6> DEFINE lo == 1
                     c  == "zero"
          <6>3. /\ lo \in Nat \ {0} /\ c \in Content \ {"orig"}
                /\ file' = Write(file, lo, logical_size, c)
            BY <5>1 DEF Content
          <6> HIDE DEF lo, c
          <6>4. /\ file' \in File /\ file'.media = file.media /\ file'.hole = file.hole
                /\ Fresh(file) => Fresh(file')
                /\ Covered(file, Body(logical_size))
                     => Covered(file', Body(logical_size) \union (lo .. logical_size))
            BY <6>1, <6>2, <6>3, WriteLemma
          <6> QED
            BY <6>1, <6>4
        <5>3. file'.size = file.size
          BY <1>0, <4>1, <5>1 DEF Write
        <5>4. FullUnits(logical_size) = {}
          BY <1>0, <4>1, FreedUnits
        <5> QED
          BY <1>0, <2>0, <5>2, <5>3, <5>4
      <4>2. CASE ~ resident
        <5>1. file' = Punch(file, length)
          BY <2>2, <4>2
        <5>2. file' \in File /\ Fresh(file') /\ file'.media = file.media
          BY <1>0, <4>0, <5>1, PunchLemma
        <5>3. file'.size = file.size /\ file'.hole = file.hole \union FullUnits(length)
          BY <5>1 DEF Punch
        <5>4. FullUnits(length) \in {FullUnits(logical_size),
                                     Body(logical_size) \union Slack(logical_size)}
          BY <1>0, <2>2, FreedUnits
        <5>5. file'.hole = FullUnits(length)
          BY <1>0, <2>0, <5>3
        <5> QED
          BY <5>2, <5>3, <5>4, <5>5
      <4> QED
        BY <1>0, <4>1, <4>2
    <3>3. FullUnits(logical_size) \subseteq file'.hole
      BY <1>0, <3>2, FreedUnits
    <3>4. IInv'
      BY <1>0, <1>3, <2>0, <3>1, <3>2, <3>3
    <3>5. Running' = "discard"
      BY <3>1, RunningWillBe
    <3> QED
      BY <1>1, <1>r, <3>1, <3>2, <3>4, <3>5, FreeStep
  <2>3. Unit > 0
    BY StorageAssumption
  <2>4. ASSUME NEW size \in {Unit, 0}
        PROVE  AlignedLength(IF size > 0 THEN size ELSE 1)
                 \in {AlignedLength(Unit), AlignedLength(1)}
    BY <2>3
  <2>5. \/ Return("discard", FALSE, "FAILED") /\ UNCHANGED file
        \/ \E length \in {AlignedLength(Unit), AlignedLength(1)} :
             /\ file' = IF resident
                          THEN Write(file, 1, IF length < file.size THEN length ELSE file.size,
                                     "zero")
                          ELSE Punch(file, length)
             /\ Goto("invoked")
    BY <1>6, <2>4 DEF ZeroData, cluster_size_of
  <2> QED
    BY <2>1, <2>2, <2>5
<1>7. CASE Invoked
  BY <1>2, <1>7 DEF Invoked
<1> QED
  BY <1>4, <1>5, <1>6, <1>7

\* The lazy writer: what is covered stays covered, because a lost cell leaves an
\* error pending, and nothing old comes back.
LEMMA WriteBackStep == IInv /\ LazyWriter => IInv' /\ [Contract!Next]_(Contract!vars)
<1> SUFFICES ASSUME IInv, LazyWriter PROVE IInv' /\ [Contract!Next]_(Contract!vars)
  OBVIOUS
<1>1. /\ file' \in WriteBacks(file, Cow)
      /\ fs' = fs /\ logical_size' = logical_size /\ pattern' = pattern /\ at' = at
      /\ resident' = resident /\ attributes' = attributes /\ fs_name' = fs_name
      /\ total_written' = total_written /\ result' = result
  BY DEF LazyWriter, Volume
<1>2. /\ file \in File /\ Fresh(file)
      /\ Slack(logical_size) \in SUBSET Cells /\ Body(logical_size) \in SUBSET Cells
  BY DEF IInv, TypeOK, Slack, Body
<1>3. /\ file' \in File /\ file'.size = file.size /\ file'.hole = file.hole /\ Fresh(file')
      /\ Covered(file, Slack(logical_size)) => Covered(file', Slack(logical_size))
      /\ Covered(file, Body(logical_size)) => Covered(file', Body(logical_size))
      /\ Gone(file, Slack(logical_size)) => Gone(file', Slack(logical_size))
  BY <1>1, <1>2, WriteBacksLemma
<1>4. Quiet(file, file')
  BY <1>1, <1>2, QuietLemma
<1>5. TypeOK'
  BY <1>1, <1>3 DEF IInv, TypeOK
<1>6. /\ Slack(logical_size)' = Slack(logical_size) /\ Body(logical_size)' = Body(logical_size)
      /\ Boundary(logical_size)' = Boundary(logical_size) /\ Fill' = Fill
      /\ WrittenSlack' = WrittenSlack /\ FullUnits(logical_size)' = FullUnits(logical_size)
  BY <1>1 DEF Slack, Body, Boundary, Fill, WrittenSlack, FullUnits
<1>7. SlackInv'
  <2>1. ASSUME at = "write" PROVE Covered(file', WrittenSlack)
    <3>1. Covered(file, WrittenSlack)
      BY <2>1 DEF IInv, SlackInv
    <3>2. WrittenSlack \in SUBSET Cells
      <4>1. /\ total_written = 0 \/ total_written < Fill
            /\ Boundary(logical_size) <= Capacity
            /\ logical_size \in 0 .. Capacity /\ total_written \in 0 .. Capacity
        BY <2>1 DEF IInv, SlackInv, TypeOK
      <4>2. Boundary(logical_size) \in Nat /\ Capacity \in Nat
        BY <4>1, BoundaryType, StorageAssumption
      <4>3. logical_size + total_written <= Capacity
        BY <4>1, <4>2 DEF Fill
      <4> QED
        BY <4>1, <4>2, <4>3 DEF WrittenSlack, Cells
    <3> QED
      BY <1>1, <1>2, <3>1, <3>2, WriteBacksLemma
  <2>2. Covered(file, Slack(logical_size))' <=> Covered(file', Slack(logical_size))
    BY <1>6 DEF Covered
  <2>3. Gone(file, Slack(logical_size))' <=> Gone(file', Slack(logical_size))
    BY <1>6 DEF Gone
  <2>4. Covered(file, WrittenSlack)' <=> Covered(file', WrittenSlack)
    BY <1>6 DEF Covered
  <2> QED
    BY <1>1, <1>3, <1>6, <2>1, <2>2, <2>3, <2>4 DEF IInv, SlackInv
<1>8. CallInv'
  <2>1. Covered(file, Body(logical_size))' <=> Covered(file', Body(logical_size))
    BY <1>6 DEF Covered
  <2> QED
    BY <1>1, <1>3, <1>6, <2>1 DEF IInv, CallInv
<1>9. ResidentInv'
  BY <1>1, <1>3 DEF IInv, ResidentInv
<1>10. IInv'
  BY <1>1, <1>3, <1>5, <1>7, <1>8, <1>9 DEF IInv, Fresh
<1>11. Running' = Running
  BY <1>1 DEF Running
<1> QED
  BY <1>1, <1>4, <1>10, <1>11, OverwriteStep DEF Quiet

\* The caller's next call: nothing but the program counter moves.
LEMMA CallStep == IInv /\ Call => IInv' /\ [Contract!Next]_(Contract!vars)
<1> SUFFICES ASSUME IInv, Call PROVE IInv' /\ [Contract!Next]_(Contract!vars)
  OBVIOUS
<1>1. /\ UNCHANGED <<Volume, attributes, file, fs_name, total_written, result>>
      /\ at \in {"idle", "returned"}
      /\ at' = NextCall[result.call] /\ result.call # "discard"
  BY DEF Call, Goto
<1>2. result.call \in {"none", "flush", "slack"}
  BY <1>1 DEF IInv, TypeOK, Results
<1>3. /\ result.call = "none" => at' = "flush" /\ at = "idle"
      /\ result.call = "flush" => at' = "slack" /\ at = "returned"
      /\ result.call = "slack" => at' = "discard"
  BY <1>1, <1>2 DEF NextCall, IInv, CallInv
<1>4. /\ file \in File /\ Fresh(file) /\ attributes \subseteq Attributes /\ resident \in BOOLEAN
      /\ fs_name \in AllFsKinds \union {"UNKNOWN"} /\ result \in Results
      /\ total_written = 0 /\ file.hole = {} /\ ResidentInv
      /\ at = "idle" => file.size = logical_size /\ Covered(file, Body(logical_size))
      /\ at = "returned" /\ result.call = "flush" => file.size = logical_size
  BY <1>1 DEF IInv, TypeOK, SlackInv, CallInv, BeforeGrow
<1>5. /\ fs' = fs /\ logical_size' = logical_size /\ pattern' = pattern /\ resident' = resident
      /\ attributes' = attributes /\ file' = file /\ result' = result /\ fs_name' = fs_name
      /\ total_written' = total_written /\ at' \in {"flush", "slack", "discard"}
  BY <1>1, <1>2, <1>3 DEF Volume
<1>6. ResidentInv'
  BY <1>4, <1>5 DEF ResidentInv
<1>7. CallInv'
  <2>1. Covered(file, Body(logical_size))' <=> Covered(file, Body(logical_size))
    BY <1>5 DEF Covered, Body
  <2> QED
    BY <1>2, <1>3, <1>4, <1>5, <2>1 DEF CallInv, BeforeGrow
<1>8. at' \in Labels
  BY <1>5 DEF Labels
<1>9. IInv'
  BY <1>4, <1>5, <1>6, <1>7, <1>8, FrameLemma
<1>10. Running = "none" /\ Running' = at'
  BY <1>1, <1>5, RunningIs, RunningWillBe
<1>11. Running' = "slack" => file.size = logical_size
  BY <1>2, <1>3, <1>4, <1>10
<1> QED
  BY <1>5, <1>9, <1>10, <1>11, InvokeStep

\* IInv is inductive, and every step is one the contract allows.
LEMMA StepInv == IInv /\ [Next]_vars => IInv' /\ [Contract!Next]_(Contract!vars)
<1> SUFFICES ASSUME IInv, [Next]_vars PROVE IInv' /\ [Contract!Next]_(Contract!vars)
  OBVIOUS
<1>1. CASE Call
  BY <1>1, CallStep
<1>2. CASE LazyWriter
  BY <1>2, WriteBackStep
<1>3. CASE Step
  BY <1>3, FlushStep, BeforeGrowStep, GrowSeekStep, WriteSlackStep, SyncRestoreFinishStep,
     DiscardStep DEF Step
<1>4. CASE UNCHANGED vars
  <2>1. /\ fs' = fs /\ attributes' = attributes /\ resident' = resident /\ file' = file
        /\ logical_size' = logical_size /\ pattern' = pattern /\ at' = at
        /\ fs_name' = fs_name /\ total_written' = total_written /\ result' = result
    BY <1>4 DEF vars
  <2>2. IInv'
    BY <2>1 DEF IInv, TypeOK, Fresh, ResidentInv, SlackInv, CallInv, Covered, Gone, WrittenSlack,
       Fill, Slack, Body, FullUnits, Boundary
  <2>3. Running' = Running
    BY <2>1 DEF Running
  <2> QED
    BY <2>1, <2>2, <2>3, OverwriteStep
<1> QED
  BY <1>1, <1>2, <1>3, <1>4 DEF Next

----------------------------------------------------------------------------
\* The variables of the Win32 functions keep their types, for every volume,
\* cluster, file size and set of attributes.
THEOREM Win32TypeCorrect == Spec => []TypeOK
<1>1. IInv => TypeOK
  BY DEF IInv
<1>2. IInv /\ [Next]_vars => IInv'
  BY StepInv
<1> QED
  BY InitInv, <1>1, <1>2, PTL DEF Spec

\* Slack that eliminate_slack_space reports as SUCCESS_CLUSTER_MODE holds no old
\* data on the media, and the size is back, whatever the lazy writer wrote or
\* lost on the way, whichever call failed and however short the writes were.
THEOREM Win32SlackHonest == Spec => []EliminatedMeansOverwritten
<1>1. IInv => EliminatedMeansOverwritten
  BY DEF IInv, SlackInv, EliminatedMeansOverwritten, Gone
<1>2. IInv /\ [Next]_vars => IInv'
  BY StepInv
<1> QED
  BY InitInv, <1>1, <1>2, PTL DEF Spec

\* Call by call, platform_fs_win32.cpp does what platform_fs.hpp promises: a
\* flush that reports success has the payload on the media, a reported success
\* or skip left the size alone, a TRIM is reported exactly when the clusters of
\* the payload were given back, old data never comes back, and a failure restores
\* the size unless the call that restores it is refused.
THEOREM Win32KeepsContract == Spec => ImplementsContract
<1>1. Init => Contract!Init
  <2> SUFFICES ASSUME Init PROVE Contract!Init
    OBVIOUS
  <2>1. IInv /\ at = "idle" /\ result = NoResult
    BY InitInv DEF Init
  <2>2. /\ logical_size \in 0 .. Capacity /\ file.hole = {} /\ file.size = logical_size
        /\ Running = "none"
    BY <2>1, RunningIs DEF IInv, CallInv, BeforeGrow
  <2>3. /\ Contract!Body(logical_size) = Body(logical_size)
        /\ Contract!Slack(logical_size) = Slack(logical_size)
    BY AbstractState
  <2> QED
    BY <2>1, <2>2, <2>3 DEF Contract!Init, Contract!NoResult, NoResult
<1>2. IInv /\ [Next]_vars => IInv' /\ [Contract!Next]_(Contract!vars)
  BY StepInv
<1> QED
  BY InitInv, <1>1, <1>2, PTL DEF Spec, ImplementsContract, Contract!Spec
==============================================================================
