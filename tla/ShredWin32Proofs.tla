--------------------------- MODULE ShredWin32Proofs ---------------------------
(***************************************************************************)
(* shred_file on Windows, for any volume, cluster, file size, attributes,  *)
(* buffer size and set of configurations.  The invariants are those of     *)
(* ShredPosixProofs, each on top of the ones before:                       *)
(*   Inv          the two program counters take turns, and nothing         *)
(*                irreversible is done to the file before the verdict;     *)
(*   Bounded      every variable keeps its type, no counter leaves the     *)
(*                volume, and the slack loop stays inside its cluster;     *)
(*   Judging      the record claims nothing early, and the TRIM it claims  *)
(*                for a file of known size was done;                       *)
(*   SlackTrue,   what cache and media hold of the slack and of the        *)
(*   PayloadTrue  payload at each stage, and that it does not come back.   *)
(* What differs is what Windows brings: a flush whose outcome is dropped,  *)
(* attributes that make the code leave the slack alone (and of which the   *)
(* discard adds one), data in the MFT record, and a length rounded up to   *)
(* clusters where Linux punches the size itself.                           *)
(***************************************************************************)
EXTENDS ShredWin32, PageCacheProofs

SlackLabels == {"slack", "attributes", "open", "grow", "seek", "write", "sync", "restore",
                "finish"}

DiscardLabels == {"discard", "sparse", "zero", "invoked"}

\* The stages after the verdict, after the slack, and after the passes.
Judged    == {"discard", "mask0", "maskA", "shrink", "unlink"}
SlackDone == Judged \union {"verify", "checking"}
Passed    == SlackDone \union {"flush", "slack"}

Records == [passes_completed         : Nat,
            slack_space_eliminated   : BOOLEAN,
            slack_space_status       : P!Status,
            trim_invoked             : BOOLEAN,
            verification_type        : {"NONE", "BYTE_ZERO_CHECK", "SHANNON_ENTROPY_CHECK"},
            verification_passed      : BOOLEAN,
            metadata_scrub_completed : BOOLEAN,
            status                   : RecordStatus]

Typed ==
  /\ config \in Configs
  /\ file.size \in Nat
  /\ file_size \in Nat
  /\ passes_executed \in 0 .. PassCount(config)
  /\ written \in Nat
  /\ total_written \in Nat
  /\ result \in P!Results
  /\ record \in Records

\* A platform function runs only while shred_file waits for it, and when
\* eliminate_slack_space returns it has set a status.
Turns ==
  /\ at = "flush" => pc = "flush"
  /\ at \in SlackLabels => pc = "slack"
  /\ at \in DiscardLabels => pc = "discard"
  /\ (pc = "slack" /\ at = "returned") => result.status # "NOT_ATTEMPTED"

\* What the stages so far have left behind.
Progress ==
  /\ pc = "pass" => passes_executed < PassCount(config)
  /\ pc \in Passed => file_size = 0 \/ passes_executed = PassCount(config)
  /\ pc \in SlackDone => record.slack_space_status # "NOT_ATTEMPTED"
  /\ pc \in Judged => record.verification_type # "NONE"
  /\ pc \notin Judged \union {"done"} => file.hole = {} /\ name = "original"

Inv == Typed /\ Turns /\ Progress /\ NothingLostBeforeVerdict

----------------------------------------------------------------------------
\* The number of passes of a configuration is a number.
LEMMA PassCountType == ASSUME NEW c \in Configs PROVE PassCount(c) \in Nat
<1>1. c \in [method : Methods, passes : Nat, zero_fill : BOOLEAN]
  BY ShredderAssumption
<1>2. c.method \in Methods /\ c.passes \in Nat
  BY <1>1
<1> QED
  BY <1>2 DEF PassCount, Methods

\* The switches agree on every configuration.
LEMMA SwitchesLemma ==
  ASSUME NEW c \in Configs, PassCount(c) > 0
  PROVE  /\ FinalPattern(c) = PassContent(c, PassCount(c))
         /\ FinalPassZero(c) <=> FinalPattern(c) = "zero"
<1>1. c \in [method : Methods, passes : Nat, zero_fill : BOOLEAN]
  BY ShredderAssumption
<1>2. c.method \in Methods /\ c.passes \in Nat
  BY <1>1
<1>3. CASE c.method = "PRNG_CUSTOM" /\ c.zero_fill
  BY <1>2, <1>3 DEF PassCount, PassContent, FinalPattern, FinalPassZero
<1>4. CASE c.method = "PRNG_CUSTOM" /\ ~ c.zero_fill
  BY <1>2, <1>4 DEF PassCount, PassContent, FinalPattern, FinalPassZero
<1>5. CASE c.method # "PRNG_CUSTOM"
  BY <1>2, <1>5 DEF PassCount, PassContent, FinalPattern, FinalPassZero, Methods
<1> QED
  BY <1>3, <1>4, <1>5

\* The file operations of the platform layer other than the punch give nothing
\* back, and leave a size that is a number.

\* The boundary of a size is a number.
LEMMA RoundedType == ASSUME NEW n \in Nat PROVE P!Boundary(n) \in Nat
<1>1. n % Unit \in 0 .. Unit - 1
  BY StorageAssumption
<1>2. n + (Unit - (n % Unit)) \in Nat
  BY <1>1, StorageAssumption
<1>3. (n + (Unit - (n % Unit))) % Wrap \in Nat
  BY <1>2, StorageAssumption
<1> QED
  BY <1>3 DEF P!Boundary

\* A sync, whether it works or not.
LEMMA SyncKeeps ==
  ASSUME NEW f, NEW cow, NEW g, g \in P!SyncFailures(f, cow) \/ g = P!Synced(f, cow)
  PROVE  g.hole = f.hole /\ g.size = f.size
<1>1. CASE g = P!Synced(f, cow)
  BY <1>1 DEF P!Synced, P!Store
<1>2. CASE g \in P!SyncFailures(f, cow)
  <2>1. PICK stored \in SUBSET f.dirty :
          g \in {P!Store(f, cow, stored, lost, "none") : lost \in SUBSET (f.dirty \ stored)}
    BY <1>2 DEF P!SyncFailures
  <2>2. PICK lost \in SUBSET (f.dirty \ stored) : g = P!Store(f, cow, stored, lost, "none")
    BY <2>1
  <2> QED
    BY <2>2 DEF P!Store
<1> QED
  BY <1>1, <1>2

\* The kernel's own write-back.
LEMMA WriteBackKeeps ==
  ASSUME NEW f, NEW cow, NEW g, g \in P!WriteBacks(f, cow)
  PROVE  g.hole = f.hole /\ g.size = f.size
<1>1. PICK i \in f.dirty : \/ g = P!Store(f, cow, {i}, {}, f.error)
                           \/ g = P!Store(f, cow, {}, {i}, "pending")
  BY DEF P!WriteBacks
<1> QED
  BY <1>1 DEF P!Store

\* A new end of file.
LEMMA TruncationKeeps ==
  ASSUME NEW f, NEW n \in Nat, NEW g, g \in P!Truncations(f, n)
  PROVE  g.hole = f.hole /\ g.size \in Nat
BY DEF P!Truncations

----------------------------------------------------------------------------

\* FlushFileBuffers whose outcome is not looked at.
LEMMA FlushedKeeps ==
  ASSUME NEW f, NEW g \in P!Flushed(f)
  PROVE  g.hole = f.hole /\ g.size = f.size
BY SyncKeeps DEF P!Flushed

\* The same for the size, which set_size refuses when it is not known.
LEMMA SetSizeKeeps ==
  ASSUME NEW f, NEW n \in Nat, NEW g \in P!set_size(f, n)
  PROVE  g.hole = f.hole /\ g.size \in Nat
BY TruncationKeeps DEF P!set_size

\* The length that is zeroed is a number.
LEMMA AlignedType ==
  ASSUME file_size \in Nat, NEW u \in {Unit, 1}
  PROVE  P!AlignedLength(u) \in Nat
<1>1. Unit \in Nat \ {0} /\ Wrap \in Nat \ {0} /\ u \in Nat \ {0}
  BY StorageAssumption
<1> DEFINE n == file_size + u - 1
<1>2. n \in Nat
  BY <1>1
<1> HIDE DEF n
<1>3. n % Wrap \in Nat
  BY <1>1, <1>2
<1>4. ASSUME NEW m \in Nat PROVE (m \div u) * u \in Nat
  <2>1. m \div u \in Nat
    BY <1>1
  <2> QED
    BY <1>1, <2>1
<1> QED
  BY <1>3, <1>4 DEF P!AlignedLength, n

\* A call of shred_file starts with nothing given back and nothing renamed.
LEMMA InitInv == Init => Inv
<1> SUFFICES ASSUME Init PROVE Inv
  OBVIOUS
<1>1. /\ at = "idle" /\ result = NoResult /\ pc = "start" /\ config \in Configs
      /\ file_size = 0 /\ passes_executed = 0 /\ written = 0 /\ name = "original"
      /\ record = NewRecord /\ total_written = 0
  BY DEF Init, ShredderInit
<1>2. PICK n \in Sizes : \E unwritten \in SUBSET Body(n) :
        file = Target(n, unwritten, ~ resident)
  BY DEF Init, ShredderInit
<1>3. file.size \in Nat /\ file.hole = {}
  BY <1>2, ShredderAssumption, StorageAssumption DEF Target
<1>4. PassCount(config) \in Nat
  BY <1>1, PassCountType
<1>5. record \in Records
  BY <1>1 DEF NewRecord, Records, P!Status, RecordStatus
<1>6. result \in P!Results
  BY <1>1 DEF NoResult, P!Results, P!Status
<1>7. Typed
  BY <1>1, <1>3, <1>4, <1>5, <1>6 DEF Typed
<1>8. Turns
  BY <1>1 DEF Turns, SlackLabels, DiscardLabels
<1>9. Progress /\ NothingLostBeforeVerdict
  BY <1>1, <1>3 DEF Progress, Passed, SlackDone, Judged, NothingLostBeforeVerdict
<1> QED
  BY <1>7, <1>8, <1>9 DEF Inv

----------------------------------------------------------------------------
\* What is left to show of a step of the platform layer: it stays within its
\* function or returns from it with a status, and gives blocks back only in
\* discard_file_blocks.
LEMMA PlatformFrame ==
  ASSUME Inv, UNCHANGED shredderVars,
         file'.size \in Nat, total_written' \in Nat, result' \in P!Results,
         file'.hole = file.hole \/ pc = "discard",
         \/ at' = at
         \/ at = "flush" /\ at' = "returned"
         \/ at \in SlackLabels /\ at' \in SlackLabels
         \/ at \in SlackLabels /\ at' = "returned" /\ result'.status # "NOT_ATTEMPTED"
         \/ at \in DiscardLabels /\ at' \in DiscardLabels \union {"returned"},
         at' = at => result' = result
  PROVE  Inv'
<1>1. /\ pc' = pc /\ config' = config /\ file_size' = file_size
      /\ passes_executed' = passes_executed /\ written' = written
      /\ name' = name /\ record' = record
  BY DEF shredderVars
<1>2. Typed'
  BY <1>1 DEF Inv, Typed
<1>3. Turns'
  BY <1>1 DEF Inv, Turns, SlackLabels, DiscardLabels
<1>4. Progress'
  BY <1>1 DEF Inv, Progress, Passed, SlackDone, Judged
<1>5. NothingLostBeforeVerdict'
  BY <1>1 DEF Inv, NothingLostBeforeVerdict, Progress, Passed, SlackDone, Judged
<1> QED
  BY <1>2, <1>3, <1>4, <1>5 DEF Inv

\* A slack function that has failed, with the size restored or not.
Failed == P!Return("slack", FALSE, "FAILED") \/ P!FailUnrestored

\* Every function of the platform layer returns one of the listed outcomes.
LEMMA PlatformReturns ==
  ASSUME NEW call \in {"flush", "slack", "discard"}, NEW ok \in BOOLEAN,
         NEW status \in P!Status, status # "NOT_ATTEMPTED",
         P!Return(call, ok, status) \/ Failed
  PROVE  /\ at' = "returned" /\ total_written' \in Nat
         /\ result' \in P!Results /\ result'.status # "NOT_ATTEMPTED"
<1>1. CASE P!Return(call, ok, status)
  BY <1>1 DEF P!Return, P!ReturnAfter, P!Results
<1>2. CASE P!Return("slack", FALSE, "FAILED")
  BY <1>2 DEF P!Return, P!ReturnAfter, P!Results, P!Status
<1>3. CASE P!FailUnrestored
  BY <1>3 DEF P!FailUnrestored, P!ReturnAfter, P!Results, P!Status
<1> QED
  BY <1>1, <1>2, <1>3 DEF Failed


\* Up to the grow eliminate_slack_space returns or goes on, one way or the other.
LEMMA EarlyReturns ==
  ASSUME P!SlackEnter \/ P!CheckAttributes \/ P!OpenAndLocate
  PROVE  \/ \E ok \in BOOLEAN, status \in P!Status \ {"NOT_ATTEMPTED"} :
              P!Return("slack", ok, status)
         \/ at' \in SlackLabels /\ at' # at /\ UNCHANGED <<total_written, result>>
<1>1. P!SlackSkipped \union {"FAILED"} \subseteq P!Status \ {"NOT_ATTEMPTED"}
  BY DEF P!Status, P!SlackSkipped
<1>2. ASSUME NEW ok \in BOOLEAN, NEW status \in P!SlackSkipped \union {"FAILED"},
             P!Return("slack", ok, status)
      PROVE  \E o \in BOOLEAN, s \in P!Status \ {"NOT_ATTEMPTED"} : P!Return("slack", o, s)
  BY <1>1, <1>2
<1>3. CASE P!SlackEnter
  BY <1>2, <1>3 DEF P!SlackEnter, P!SlackSkipped, SlackLabels
<1>4. CASE P!CheckAttributes
  <2>1. P!Refusal \in P!SlackSkipped \union {"none"}
    BY DEF P!Refusal, P!SlackSkipped
  <2>2. \/ P!Return("slack", FALSE, "FAILED")
        \/ P!Refusal # "none" /\ P!Return("slack", FALSE, P!Refusal)
        \/ P!Return("slack", TRUE, "SKIPPED_NO_SLACK")
        \/ P!Goto("open")
    BY <1>4 DEF P!CheckAttributes
  <2>3. at = "attributes"
    BY <1>4 DEF P!CheckAttributes
  <2>4. CASE P!Refusal # "none" /\ P!Return("slack", FALSE, P!Refusal)
    BY <1>2, <2>1, <2>4
  <2>5. CASE P!Return("slack", FALSE, "FAILED") \/ P!Return("slack", TRUE, "SKIPPED_NO_SLACK")
    BY <1>2, <2>5 DEF P!SlackSkipped
  <2>6. CASE P!Goto("open")
    BY <2>3, <2>6 DEF P!Goto, SlackLabels
  <2> QED
    BY <2>2, <2>4, <2>5, <2>6
<1>5. CASE P!OpenAndLocate
  <2>1. \/ P!Return("slack", FALSE, "FAILED")
        \/ P!Return("slack", TRUE, "SKIPPED_RESIDENT_MFT_DATA")
        \/ P!Goto("grow")
    BY <1>5 DEF P!OpenAndLocate, P!check_residency
  <2>2. at = "open"
    BY <1>5 DEF P!OpenAndLocate
  <2>3. CASE \/ P!Return("slack", FALSE, "FAILED")
             \/ P!Return("slack", TRUE, "SKIPPED_RESIDENT_MFT_DATA")
    BY <1>2, <2>3 DEF P!SlackSkipped
  <2>4. CASE P!Goto("grow")
    BY <2>2, <2>4 DEF P!Goto, SlackLabels
  <2> QED
    BY <2>1, <2>3, <2>4
<1> QED
  BY <1>3, <1>4, <1>5

\* flush_file_to_media.
LEMMA FlushKeepsInv == Inv /\ UNCHANGED shredderVars /\ P!Flush => Inv'
<1> SUFFICES ASSUME Inv, UNCHANGED shredderVars, P!Flush
             PROVE  Inv'
  OBVIOUS
<1>1. at = "flush"
  BY DEF P!Flush
<1>2. file'.hole = file.hole /\ file'.size = file.size
  BY SyncKeeps DEF P!Flush
<1>3. \/ P!Return("flush", FALSE, "FAILED")
      \/ P!Return("flush", TRUE, "SUCCESS")
  BY DEF P!Flush
<1>4. "FAILED" \in P!Status /\ "SUCCESS" \in P!Status
  BY DEF P!Status
<1>5. /\ at' = "returned" /\ total_written' \in Nat /\ result' \in P!Results
  BY <1>3, <1>4, PlatformReturns
<1> QED
  BY <1>1, <1>2, <1>5, PlatformFrame DEF Inv, Typed

\* What is zeroed or given back leaves the size a number.
LEMMA ZeroKeeps ==
  ASSUME file.size \in Nat, file_size \in Nat, P!ZeroData
  PROVE  file'.size \in Nat
<1>1. CASE file' = file
  BY <1>1
<1>2. ASSUME NEW unit \in {Unit, 1}, NEW inside,
             inside = (IF P!AlignedLength(unit) < file.size THEN P!AlignedLength(unit)
                       ELSE file.size),
             file' = IF resident THEN P!Write(file, 1, inside, "zero")
                     ELSE P!Punch(file, P!AlignedLength(unit))
      PROVE  file'.size \in Nat
  <2>1. P!AlignedLength(unit) \in Nat
    BY AlignedType
  <2>2. inside \in Nat
    BY <1>2, <2>1
  <2> QED
    BY <1>2, <2>2 DEF P!Write, P!Punch
<1>3. \A size \in P!cluster_size_of : (IF size > 0 THEN size ELSE 1) \in {Unit, 1}
  BY DEF P!cluster_size_of
<1> QED
  BY <1>1, <1>2, <1>3 DEF P!ZeroData

\* discard_file_blocks: the only function that gives clusters back.
LEMMA DiscardKeepsInv ==
  Inv /\ UNCHANGED shredderVars
    /\ (P!DiscardOpen \/ P!SetSparse \/ P!ZeroData \/ P!Invoked) => Inv'
<1> SUFFICES ASSUME Inv, UNCHANGED shredderVars,
                    P!DiscardOpen \/ P!SetSparse \/ P!ZeroData \/ P!Invoked
             PROVE  Inv'
  OBVIOUS
<1>1. at \in DiscardLabels
  BY DEF P!DiscardOpen, P!SetSparse, P!ZeroData, P!Invoked, DiscardLabels
<1>2. pc = "discard"
  BY <1>1 DEF Inv, Turns
<1>3. file'.size \in Nat
  BY FlushedKeeps, ZeroKeeps DEF P!DiscardOpen, P!SetSparse, P!Invoked, Inv, Typed
<1>4. \/ P!Return("discard", FALSE, "SKIPPED_EMPTY_FILE")
      \/ P!Return("discard", FALSE, "FAILED")
      \/ P!Return("discard", TRUE, "SUCCESS_HOLE_PUNCH")
      \/ at' \in DiscardLabels /\ at' # at /\ UNCHANGED <<total_written, result>>
  BY DEF P!DiscardOpen, P!SetSparse, P!ZeroData, P!Invoked, P!Goto, DiscardLabels
<1>5. /\ "FAILED" \in P!Status /\ "SUCCESS_HOLE_PUNCH" \in P!Status
      /\ "SKIPPED_EMPTY_FILE" \in P!Status
  BY DEF P!Status, P!SlackSkipped
<1>6. /\ at' \in DiscardLabels \union {"returned"} /\ at' # at
      /\ total_written' \in Nat /\ result' \in P!Results
  <2>1. "returned" \notin DiscardLabels
    BY DEF DiscardLabels
  <2> QED
    BY <1>1, <1>4, <1>5, <2>1, PlatformReturns DEF Inv, Typed
<1> QED
  BY <1>1, <1>2, <1>3, <1>6, PlatformFrame DEF Inv, Typed

\* The error path after the grow restores the size, flushes and returns.
LEMMA GiveUpKeeps ==
  ASSUME file_size \in Nat, NEW f, f.hole = file.hole, f.size \in Nat, P!GiveUp(f)
  PROVE  /\ file'.hole = file.hole /\ file'.size \in Nat
         /\ Failed
<1>1. PICK g \in {f} \union P!set_size(f, file_size) : file' \in P!Flushed(g)
  BY DEF P!GiveUp
<1>2. g.hole = file.hole /\ g.size \in Nat
  BY SetSizeKeeps
<1>3. file'.hole = file.hole /\ file'.size \in Nat
  BY <1>1, <1>2, FlushedKeeps
<1> QED
  BY <1>3 DEF P!GiveUp, Failed

\* eliminate_slack_space up to the grow.
LEMMA BeforeGrowKeepsInv ==
  Inv /\ UNCHANGED shredderVars
    /\ (P!SlackEnter \/ P!CheckAttributes \/ P!OpenAndLocate) => Inv'
<1> SUFFICES ASSUME Inv, UNCHANGED shredderVars,
                    P!SlackEnter \/ P!CheckAttributes \/ P!OpenAndLocate
             PROVE  Inv'
  OBVIOUS
<1>1. at \in SlackLabels /\ "returned" \notin SlackLabels
  BY DEF P!SlackEnter, P!CheckAttributes, P!OpenAndLocate, SlackLabels
<1>2. file' = file
  BY DEF P!SlackEnter, P!CheckAttributes, P!OpenAndLocate
<1>3. \/ \E ok \in BOOLEAN, status \in P!Status \ {"NOT_ATTEMPTED"} :
           P!Return("slack", ok, status)
      \/ at' \in SlackLabels /\ at' # at /\ UNCHANGED <<total_written, result>>
  BY EarlyReturns
<1>4. /\ \/ at' \in SlackLabels
         \/ at' = "returned" /\ result'.status # "NOT_ATTEMPTED"
      /\ at' # at /\ total_written' \in Nat /\ result' \in P!Results
  BY <1>1, <1>3, PlatformReturns DEF Inv, Typed
<1> QED
  BY <1>1, <1>2, <1>4, PlatformFrame DEF Inv, Typed

\* eliminate_slack_space from the grow to the return.
LEMMA GrowAndAfterKeepsInv ==
  Inv /\ UNCHANGED shredderVars
    /\ (P!Grow \/ P!Seek \/ P!WriteSlack \/ P!FlushSlack \/ P!Restore \/ P!Finish) => Inv'
<1> SUFFICES ASSUME Inv, UNCHANGED shredderVars,
                    P!Grow \/ P!Seek \/ P!WriteSlack \/ P!FlushSlack \/ P!Restore \/ P!Finish
             PROVE  Inv'
  OBVIOUS
<1>1. at \in SlackLabels /\ "returned" \notin SlackLabels
  BY DEF P!Grow, P!Seek, P!WriteSlack, P!FlushSlack, P!Restore, P!Finish, SlackLabels
<1>2. /\ file_size \in Nat /\ file.size \in Nat /\ total_written \in Nat
      /\ result \in P!Results
  BY DEF Inv, Typed
<1>3. SUFFICES /\ file'.hole = file.hole /\ file'.size \in Nat
               /\ \/ \E ok \in BOOLEAN, status \in P!Status \ {"NOT_ATTEMPTED"} :
                       P!Return("slack", ok, status) \/ Failed
                  \/ /\ at' \in SlackLabels /\ (at' = at => result' = result)
                     /\ total_written' \in Nat /\ result' \in P!Results
  <2>1. CASE \E ok \in BOOLEAN, status \in P!Status \ {"NOT_ATTEMPTED"} :
               P!Return("slack", ok, status) \/ Failed
    <3>1. PICK ok \in BOOLEAN, status \in P!Status \ {"NOT_ATTEMPTED"} :
                 P!Return("slack", ok, status) \/ Failed
      BY <2>1
    <3>2. /\ at' = "returned" /\ total_written' \in Nat
          /\ result' \in P!Results /\ result'.status # "NOT_ATTEMPTED"
      BY <3>1, PlatformReturns
    <3> QED
      BY <1>1, <1>3, <3>2, PlatformFrame
  <2>2. CASE /\ at' \in SlackLabels /\ (at' = at => result' = result)
             /\ total_written' \in Nat /\ result' \in P!Results
    BY <1>1, <1>3, <2>2, PlatformFrame
  <2> QED
    BY <1>3, <2>1, <2>2
<1>s. /\ "FAILED" \in P!Status \ {"NOT_ATTEMPTED"}
      /\ P!SlackSuccess \subseteq P!Status \ {"NOT_ATTEMPTED"}
  BY DEF P!Status, P!SlackSuccess
<1>4. CASE P!Grow
  <2>1. \/ P!Return("slack", FALSE, "FAILED") /\ UNCHANGED file
        \/ file' \in P!set_size(file, P!Boundary(file_size)) /\ P!Goto("seek")
    BY <1>4 DEF P!Grow
  <2>2. P!Boundary(file_size) \in Nat
    BY <1>2, RoundedType
  <2>3. file'.hole = file.hole /\ file'.size \in Nat
    BY <1>2, <2>1, <2>2, SetSizeKeeps
  <2> QED
    BY <1>2, <1>4, <1>s, <2>1, <2>3 DEF P!Goto, P!Grow, SlackLabels
<1>5. CASE P!Seek
  <2>1. CASE P!GiveUp(file)
    BY <1>2, <1>s, <2>1, GiveUpKeeps
  <2>2. CASE P!Goto("write") /\ UNCHANGED file
    BY <1>2, <1>5, <2>2 DEF P!Goto, P!Seek, SlackLabels
  <2> QED
    BY <1>5, <2>1, <2>2 DEF P!Seek
<1>6. CASE P!WriteSlack
  <2>1. CASE P!GiveUp(file)
    BY <1>2, <1>s, <2>1, GiveUpKeeps
  <2>2. ASSUME NEW n \in 1 .. P!Fill - total_written,
               file' = P!Write(file, file_size + total_written + 1,
                               file_size + total_written + n, FinalPattern(config)),
               total_written' = total_written + n,
               at' = (IF total_written' = P!Fill THEN "sync" ELSE "write"),
               UNCHANGED <<fs_name, result>>
        PROVE  /\ file'.hole = file.hole /\ file'.size \in Nat
               /\ at' \in SlackLabels /\ result' = result
               /\ total_written' \in Nat
    <3>1. n \in Nat
      BY <2>2
    <3>2. total_written' \in Nat /\ file_size + total_written + n \in Nat
      BY <1>2, <2>2, <3>1
    <3> QED
      BY <1>2, <2>2, <3>2 DEF P!Write, SlackLabels
  <2> QED
    BY <1>2, <1>6, <2>1, <2>2 DEF P!WriteSlack
<1>7. CASE P!FlushSlack
  <2>1. CASE file' = P!Synced(file, P!Cow) /\ P!Goto("restore")
    BY <1>2, <2>1, SyncKeeps DEF P!Goto, SlackLabels
  <2>2. ASSUME NEW f \in P!SyncFailures(file, P!Cow), P!GiveUp(f)
        PROVE  /\ file'.hole = file.hole /\ file'.size \in Nat
               /\ Failed
    <3>1. f.hole = file.hole /\ f.size \in Nat
      BY <1>2, SyncKeeps
    <3> QED
      BY <1>2, <2>2, <3>1, GiveUpKeeps
  <2> QED
    BY <1>7, <1>s, <2>1, <2>2 DEF P!FlushSlack
<1>8. CASE P!Restore
  <2>1. \/ P!FailUnrestored /\ UNCHANGED file
        \/ file' \in P!set_size(file, file_size) /\ P!Goto("finish")
    BY <1>8 DEF P!Restore
  <2>2. file'.hole = file.hole /\ file'.size \in Nat
    BY <1>2, <2>1, SetSizeKeeps
  <2> QED
    BY <1>2, <1>8, <1>s, <2>1, <2>2 DEF P!Goto, P!Restore, Failed, SlackLabels
<1>9. CASE P!Finish
  <2>1. file'.hole = file.hole /\ file'.size \in Nat
    BY <1>2, <1>9, FlushedKeeps DEF P!Finish
  <2>2. \E status \in P!SlackSuccess : P!Return("slack", TRUE, status)
    BY <1>9 DEF P!Finish, P!SlackSuccess
  <2> QED
    BY <1>s, <2>1, <2>2
<1> QED
  BY <1>4, <1>5, <1>6, <1>7, <1>8, <1>9

\* A step of the lazy writer: the file is written back, nothing else moves.
LEMMA KernelKeepsInv == Inv /\ Kernel => Inv'
<1> SUFFICES ASSUME Inv, Kernel PROVE Inv'
  OBVIOUS
<1>1. /\ UNCHANGED shredderVars /\ file' \in P!WriteBacks(file, P!Cow)
      /\ UNCHANGED <<at, total_written, result>>
  BY DEF Kernel, P!LazyWriter
<1>2. file'.hole = file.hole /\ file'.size = file.size
  BY <1>1, WriteBackKeeps
<1> QED
  BY <1>1, <1>2, PlatformFrame DEF Inv, Typed

\* Every step of the platform layer.
LEMMA PlatformKeepsInv == Inv /\ Platform => Inv'
BY FlushKeepsInv, BeforeGrowKeepsInv, GrowAndAfterKeepsInv, DiscardKeepsInv DEF Platform, P!Step
\* The steps of shred_file.

\* A failed pass ends shred_file with the file in place.
LEMMA FailKeepsInv ==
  ASSUME Inv, pc \in {"open", "pass"}, FailOverwrite, UNCHANGED platformVars,
         UNCHANGED <<result, config, file_size, name>>,
         file'.size \in Nat, file'.hole = file.hole
  PROVE  Inv'
<1>1. /\ pc' = "done" /\ record' = [record EXCEPT !.status = "FAILED_OVERWRITE"]
      /\ UNCHANGED <<at, passes_executed, written, total_written>>
  BY DEF FailOverwrite, platformVars
<1>2. record' \in Records
  BY <1>1 DEF Inv, Typed, Records, RecordStatus
<1>3. Typed'
  BY <1>1, <1>2 DEF Inv, Typed
<1>4. Turns'
  BY <1>1 DEF Inv, Turns, SlackLabels, DiscardLabels
<1>5. Progress'
  BY <1>1 DEF Progress, Passed, SlackDone, Judged
<1>6. file.hole = {} /\ name = "original"
  BY DEF Inv, Progress, Judged
<1>7. NothingLostBeforeVerdict'
  BY <1>6 DEF NothingLostBeforeVerdict
<1> QED
  BY <1>3, <1>4, <1>5, <1>7 DEF Inv

\* After a pass, or before the first, shred_file goes on to the next one or to
\* the flush; and goes to the flush with all passes done.
LEMMA AfterPassKeepsInv ==
  ASSUME Inv, pc \in {"open", "pass"}, NEW n \in 0 .. PassCount(config), AfterPass(n),
         UNCHANGED platformVars, UNCHANGED <<result, config, file_size, name>>,
         file'.size \in Nat, file'.hole = file.hole
  PROVE  Inv'
<1>1. /\ passes_executed' = n /\ written' = 0 /\ total_written' = total_written
  BY DEF AfterPass, platformVars
<1>2. PassCount(config) \in Nat /\ file_size \in Nat /\ record \in Records
  BY PassCountType DEF Inv, Typed
<1>3. file.hole = {} /\ name = "original"
  BY DEF Inv, Progress, Judged
<1>4. NothingLostBeforeVerdict'
  BY <1>3 DEF NothingLostBeforeVerdict
<1>5. CASE file_size > 0 /\ n < PassCount(config)
  <2>1. pc' = "pass" /\ UNCHANGED <<at, record>>
    BY <1>5 DEF AfterPass
  <2>2. Typed'
    BY <1>1, <1>2, <2>1 DEF Inv, Typed
  <2>3. Turns'
    BY <2>1 DEF Inv, Turns, SlackLabels, DiscardLabels
  <2>4. Progress'
    BY <1>1, <1>2, <1>3, <1>5, <2>1 DEF Progress, Passed, SlackDone, Judged, PassCount
  <2> QED
    BY <1>4, <2>2, <2>3, <2>4 DEF Inv
<1>6. CASE ~ (file_size > 0 /\ n < PassCount(config))
  <2>1. /\ pc' = "flush" /\ at' = "flush"
        /\ record' = [record EXCEPT !.passes_completed = n]
    BY <1>6 DEF AfterPass
  <2>2. record' \in Records
    BY <1>2, <2>1 DEF Records
  <2>3. Typed'
    BY <1>1, <1>2, <2>2 DEF Inv, Typed
  <2>4. Turns'
    BY <2>1 DEF Turns, SlackLabels, DiscardLabels
  <2>5. file_size = 0 \/ n = PassCount(config)
    BY <1>2, <1>6
  <2>6. Progress'
    BY <1>1, <1>3, <2>1, <2>5 DEF Progress, Passed, SlackDone, Judged, PassCount
  <2> QED
    BY <1>4, <2>3, <2>4, <2>6 DEF Inv
<1> QED
  BY <1>5, <1>6

\* The entry and the overwrite passes.
LEMMA PassesKeepInv ==
  Inv /\ UNCHANGED platformVars /\ (NotRegular \/ Measure \/ OpenTarget \/ WriteChunk) => Inv'
<1> SUFFICES ASSUME Inv, UNCHANGED platformVars,
                    NotRegular \/ Measure \/ OpenTarget \/ WriteChunk
             PROVE  Inv'
  OBVIOUS
<1>0. /\ Typed /\ Turns /\ Progress /\ total_written' = total_written
  BY DEF Inv, platformVars
<1>1. CASE NotRegular
  <2>1. /\ pc = "start" /\ pc' = "done"
        /\ record' = [record EXCEPT !.status = "SKIPPED_NOT_REGULAR_FILE"]
        /\ UNCHANGED <<file, at, result, config, file_size, passes_executed, written, name>>
    BY <1>1 DEF NotRegular
  <2>2. record' \in Records
    BY <1>0, <2>1 DEF Typed, Records, RecordStatus
  <2>3. Typed' /\ Turns' /\ Progress'
    BY <1>0, <2>1, <2>2 DEF Typed, Turns, Progress, Passed, SlackDone, Judged, SlackLabels,
       DiscardLabels
  <2>4. NothingLostBeforeVerdict'
    BY <1>0, <2>1 DEF Progress, Judged, NothingLostBeforeVerdict
  <2> QED
    BY <2>3, <2>4 DEF Inv
<1>2. CASE Measure
  <2>1. /\ pc = "start" /\ pc' = "open" /\ file_size' \in {file.size, SizeError}
        /\ UNCHANGED <<file, at, result, config, passes_executed, written, name, record>>
    BY <1>2 DEF Measure
  <2>2. SizeError \in Nat
    BY StorageAssumption DEF SizeError
  <2>3. Typed'
    BY <1>0, <2>1, <2>2 DEF Typed
  <2>4. Turns' /\ Progress'
    BY <1>0, <2>1 DEF Turns, Progress, Passed, SlackDone, Judged, SlackLabels, DiscardLabels
  <2>5. NothingLostBeforeVerdict'
    BY <1>0, <2>1 DEF Progress, Judged, NothingLostBeforeVerdict
  <2> QED
    BY <2>3, <2>4, <2>5 DEF Inv
<1>3. CASE OpenTarget
  <2>1. /\ pc \in {"open", "pass"} /\ UNCHANGED file
        /\ UNCHANGED <<result, config, file_size, name>>
    BY <1>3 DEF OpenTarget
  <2>2. 0 \in 0 .. PassCount(config)
    BY <1>0, PassCountType DEF Typed
  <2>3. file'.size \in Nat /\ file'.hole = file.hole
    BY <1>0, <2>1 DEF Typed
  <2>4. CASE FailOverwrite
    BY <2>1, <2>3, <2>4, FailKeepsInv
  <2>5. CASE AfterPass(0)
    BY <2>1, <2>2, <2>3, <2>5, AfterPassKeepsInv
  <2> QED
    BY <1>3, <2>4, <2>5 DEF OpenTarget
<1>4. CASE WriteChunk
  <2> DEFINE content == PassContent(config, passes_executed + 1)
             chunk   == Chunk(written)
  <2>0. /\ pc = "pass" /\ UNCHANGED <<result, config, file_size, name>>
    BY <1>4 DEF WriteChunk
  <2>1. /\ passes_executed < PassCount(config) /\ PassCount(config) \in Nat
        /\ passes_executed + 1 \in 0 .. PassCount(config)
    BY <1>0, <2>0, PassCountType DEF Progress, Typed
  <2>3. chunk \in Int
    BY <1>0, ShredderAssumption DEF Chunk, Typed
  <2>4. file'.hole = file.hole /\ file'.size \in Nat
    <3>1. PICK k \in Int : file' = Write(file, written + 1, written + k, content)
      BY <1>4, <2>3 DEF WriteChunk
    <3>2. /\ file'.hole = file.hole
          /\ file'.size = file.size \/ (file'.size = written + k /\ written + k > file.size)
      BY <1>0, <3>1 DEF Write, Typed
    <3> QED
      BY <1>0, <3>1, <3>2 DEF Typed
  <2>5. \/ /\ written' = written + chunk /\ written + chunk < file_size
           /\ UNCHANGED <<pc, at, passes_executed, record>>
        \/ AfterPass(passes_executed + 1)
        \/ FailOverwrite
    BY <1>4 DEF WriteChunk
  <2>6. CASE /\ written' = written + chunk /\ written + chunk < file_size
             /\ UNCHANGED <<pc, at, passes_executed, record>>
    <3>1. written' \in Nat
      BY <1>0, <2>3, <2>6, ShredderAssumption DEF Typed, Chunk
    <3>2. Typed'
      BY <1>0, <2>0, <2>4, <2>6, <3>1 DEF Typed
    <3>3. Turns'
      BY <1>0, <2>0, <2>6 DEF Turns
    <3>4. Progress'
      BY <1>0, <2>0, <2>1, <2>4, <2>6 DEF Progress, Passed, SlackDone, Judged, PassCount
    <3>5. NothingLostBeforeVerdict'
      BY <1>0, <2>0, <2>4 DEF Progress, Judged, NothingLostBeforeVerdict
    <3> QED
      BY <3>2, <3>3, <3>4, <3>5 DEF Inv
  <2>7. pc \in {"open", "pass"}
    BY <2>0
  <2> QED
    BY <2>0, <2>1, <2>4, <2>5, <2>6, <2>7, FailKeepsInv, AfterPassKeepsInv
<1> QED
  BY <1>1, <1>2, <1>3, <1>4

\* The results of flush_file_to_media and eliminate_slack_space are taken.  The
\* status of the latter is what the verdict will rest on: it has been set.
LEMMA FlushAndSlackKeepInv ==
  Inv /\ UNCHANGED platformVars /\ (AfterFlush \/ AfterSlack) => Inv'
<1> SUFFICES ASSUME Inv, UNCHANGED platformVars, AfterFlush \/ AfterSlack
             PROVE  Inv'
  OBVIOUS
<1>0. /\ Typed /\ Turns /\ Progress /\ total_written' = total_written
      /\ file.hole = {} /\ name = "original"
  BY DEF Inv, platformVars, Progress, Judged, AfterFlush, AfterSlack
<1>1. NoResult \in P!Results
  BY DEF NoResult, P!Results, P!Status
<1>2. CASE AfterFlush
  <2>1. /\ pc = "flush" /\ pc' = "slack" /\ at' = "slack" /\ result' = NoResult
        /\ UNCHANGED <<file, config, file_size, passes_executed, written, name, record>>
    BY <1>2 DEF AfterFlush
  <2>2. Typed'
    BY <1>0, <1>1, <2>1 DEF Typed
  <2>3. Turns' /\ Progress' /\ NothingLostBeforeVerdict'
    BY <1>0, <2>1 DEF Turns, Progress, Passed, SlackDone, Judged, SlackLabels, DiscardLabels,
       NothingLostBeforeVerdict
  <2> QED
    BY <2>2, <2>3 DEF Inv
<1>3. CASE AfterSlack
  <2>1. /\ pc = "slack" /\ at = "returned" /\ pc' = "verify" /\ at' = "idle"
        /\ result' = NoResult
        /\ record' = [record EXCEPT !.slack_space_eliminated = result.ok,
                                    !.slack_space_status = result.status]
        /\ UNCHANGED <<file, config, file_size, passes_executed, written, name>>
    BY <1>3 DEF AfterSlack
  <2>2. /\ record \in Records /\ result.ok \in BOOLEAN
        /\ result.status \in P!Status \ {"NOT_ATTEMPTED"}
    BY <1>0, <2>1 DEF Typed, Turns, P!Results
  <2>3. record' \in Records /\ record'.slack_space_status = result.status
    BY <2>1, <2>2 DEF Records
  <2>4. Typed'
    BY <1>0, <1>1, <2>1, <2>3 DEF Typed
  <2>5. Turns' /\ NothingLostBeforeVerdict'
    BY <1>0, <2>1 DEF Turns, SlackLabels, DiscardLabels, NothingLostBeforeVerdict
  <2>6. Progress'
    BY <1>0, <2>1, <2>2, <2>3 DEF Progress, Passed, SlackDone, Judged
  <2> QED
    BY <2>4, <2>5, <2>6 DEF Inv
<1> QED
  BY <1>2, <1>3

\* Giving the verdict opens the way to the discard, and sets its type.
LEMMA VerdictKeepsInv ==
  ASSUME Inv, pc \in {"verify", "checking"}, NEW passed \in BOOLEAN, Verdict(passed),
         UNCHANGED platformVars,
         UNCHANGED <<file, result, config, file_size, passes_executed, written, name>>
  PROVE  Inv'
<1>0. /\ Typed /\ Progress /\ total_written' = total_written
      /\ file.hole = {} /\ name = "original"
  BY DEF Inv, platformVars, Progress, Judged
<1>1. /\ record' = [record EXCEPT !.verification_type = VerificationType,
                                  !.verification_passed = passed]
      /\ pc' = "discard" /\ at' = "discard"
  BY DEF Verdict
<1>2. VerificationType \in {"BYTE_ZERO_CHECK", "SHANNON_ENTROPY_CHECK"}
  BY DEF VerificationType
<1>3. /\ record' \in Records /\ record'.verification_type = VerificationType
      /\ record'.slack_space_status = record.slack_space_status
  BY <1>0, <1>1, <1>2 DEF Typed, Records
<1>4. Typed'
  BY <1>0, <1>3 DEF Typed
<1>5. Turns' /\ NothingLostBeforeVerdict'
  BY <1>0, <1>1 DEF Turns, SlackLabels, DiscardLabels, NothingLostBeforeVerdict
<1>6. Progress'
  BY <1>0, <1>1, <1>2, <1>3 DEF Progress, Passed, SlackDone, Judged, PassCount
<1> QED
  BY <1>4, <1>5, <1>6 DEF Inv

\* The read-back.
LEMMA ReadBackKeepsInv ==
  Inv /\ UNCHANGED platformVars /\ (OpenReadBack \/ ReadChunk) => Inv'
<1> SUFFICES ASSUME Inv, UNCHANGED platformVars, OpenReadBack \/ ReadChunk
             PROVE  Inv'
  OBVIOUS
<1>1. /\ pc \in {"verify", "checking"}
      /\ UNCHANGED <<file, result, config, file_size, passes_executed, written, name>>
  BY DEF OpenReadBack, ReadChunk
<1>2. \/ \E passed \in BOOLEAN : Verdict(passed)
      \/ pc' \in {pc, "checking"} /\ UNCHANGED <<at, record>>
  <2>1. \A n, seen : Verdicts(n, seen) \subseteq BOOLEAN
    BY DEF Verdicts, EntropyVerdicts
  <2>2. CASE OpenReadBack
    BY <2>2 DEF OpenReadBack
  <2>3. CASE ReadChunk
    <3>1. PICK m \in 0 .. Chunk(checked) :
                 \E bytes \in [checked + 1 .. checked + m -> Content] :
                   LET seen == mix \union {bytes[i] : i \in checked + 1 .. checked + m}
                   IN  IF FinalPassZero(config) /\ ~ seen \subseteq {"zero"}
                         THEN Verdict(FALSE)
                         ELSE IF KeepReading(m, Chunk(checked), checked')
                         THEN mix' = seen /\ UNCHANGED <<pc, at, record>>
                         ELSE \E passed \in Verdicts(checked', seen) : Verdict(passed)
      BY <2>3 DEF ReadChunk
    <3>2. PICK seen :
                 IF FinalPassZero(config) /\ ~ seen \subseteq {"zero"}
                   THEN Verdict(FALSE)
                   ELSE IF KeepReading(m, Chunk(checked), checked')
                   THEN mix' = seen /\ UNCHANGED <<pc, at, record>>
                   ELSE \E passed \in Verdicts(checked', seen) : Verdict(passed)
      BY <3>1
    <3>3. CASE FinalPassZero(config) /\ ~ seen \subseteq {"zero"}
      BY <3>2, <3>3
    <3>4. CASE ~ (FinalPassZero(config) /\ ~ seen \subseteq {"zero"})
      <4>1. CASE KeepReading(m, Chunk(checked), checked')
        BY <3>2, <3>4, <4>1
      <4>2. CASE ~ KeepReading(m, Chunk(checked), checked')
        <5>1. PICK passed \in Verdicts(checked', seen) : Verdict(passed)
          BY <3>2, <3>4, <4>2
        <5> QED
          BY <2>1, <5>1
      <4> QED
        BY <4>1, <4>2
    <3> QED
      BY <3>3, <3>4
  <2> QED
    BY <2>2, <2>3
<1>3. ASSUME NEW passed \in BOOLEAN, Verdict(passed) PROVE Inv'
  BY <1>1, <1>3, VerdictKeepsInv
<1>4. CASE pc' \in {pc, "checking"} /\ UNCHANGED <<at, record>>
  <2>1. /\ Typed /\ Turns /\ Progress /\ total_written' = total_written
        /\ file.hole = {} /\ name = "original"
    BY <1>1 DEF Inv, platformVars, Progress, Judged
  <2>2. Typed'
    BY <1>1, <1>4, <2>1 DEF Typed
  <2>3. Turns' /\ NothingLostBeforeVerdict'
    BY <1>1, <1>4, <2>1 DEF Turns, SlackLabels, DiscardLabels, NothingLostBeforeVerdict
  <2>4. Progress'
    BY <1>1, <1>4, <2>1 DEF Progress, Passed, SlackDone, Judged, PassCount
  <2> QED
    BY <2>2, <2>3, <2>4 DEF Inv
<1> QED
  BY <1>2, <1>3, <1>4

\* The result of discard_file_blocks, the renames and the unlink: all of them
\* behind the verdict.
LEMMA ScrubKeepsInv ==
  Inv /\ UNCHANGED platformVars
    /\ (AfterDiscard \/ MaskZeros \/ MaskAs \/ ShrinkName \/ Unlink) => Inv'
<1> SUFFICES ASSUME Inv, UNCHANGED platformVars,
                    AfterDiscard \/ MaskZeros \/ MaskAs \/ ShrinkName \/ Unlink
             PROVE  Inv'
  OBVIOUS
<1>1. /\ pc \in Judged /\ pc' \in (Judged \ {"discard"}) \union {"done"}
      /\ UNCHANGED <<config, file_size, passes_executed, written>>
  BY DEF AfterDiscard, MaskZeros, MaskAs, ShrinkName, Rename, Unlink, Judged
<1>2. /\ Typed /\ Turns /\ Progress /\ total_written' = total_written
  BY DEF Inv, platformVars
<1>3. /\ file_size = 0 \/ passes_executed = PassCount(config)
      /\ record.slack_space_status # "NOT_ATTEMPTED"
      /\ record.verification_type # "NONE"
  BY <1>1, <1>2 DEF Progress, Passed, SlackDone
<1>4. file'.size = file.size /\ result' \in P!Results
  <2>1. CASE AfterDiscard
    <3>1. NoResult \in P!Results
      BY DEF NoResult, P!Results, P!Status
    <3> QED
      BY <2>1, <3>1 DEF AfterDiscard
  <2>2. CASE MaskZeros \/ MaskAs \/ ShrinkName \/ Unlink
    <3>1. file' = file \/ file' = Dropped(file)
      BY <2>2 DEF MaskZeros, MaskAs, ShrinkName, Rename, Unlink
    <3>2. result' = result
      BY <2>2 DEF MaskZeros, MaskAs, ShrinkName, Rename, Unlink
    <3> QED
      BY <1>2, <3>1, <3>2 DEF Dropped, Typed
  <2> QED
    BY <2>1, <2>2
<1>5. /\ record' \in Records
      /\ record'.slack_space_status = record.slack_space_status
      /\ record'.verification_type = record.verification_type
  <2>1. record \in Records
    BY <1>2 DEF Typed
  <2>2. CASE AfterDiscard
    <3>1. result.ok \in BOOLEAN
      BY <1>2 DEF Typed, P!Results
    <3> QED
      BY <2>1, <2>2, <3>1 DEF AfterDiscard, Records
  <2>3. CASE MaskZeros \/ MaskAs \/ ShrinkName
    BY <2>1, <2>3 DEF MaskZeros, MaskAs, ShrinkName, Rename
  <2>4. CASE Unlink
    <3>1. PICK removed \in BOOLEAN :
            record' = [record EXCEPT !.metadata_scrub_completed = removed /\ all_renames_succeeded,
                                     !.status = FinalStatus(removed /\ all_renames_succeeded)]
      BY <2>4 DEF Unlink
    <3>2. /\ (removed /\ all_renames_succeeded) \in BOOLEAN
          /\ FinalStatus(removed /\ all_renames_succeeded) \in RecordStatus
      BY DEF FinalStatus, RecordStatus
    <3> QED
      BY <2>1, <3>1, <3>2 DEF Records
  <2> QED
    BY <2>2, <2>3, <2>4
<1>6. Typed'
  BY <1>1, <1>2, <1>4, <1>5 DEF Typed
<1>7. at' \notin {"flush"} \union SlackLabels \union DiscardLabels
  <2>1. CASE AfterDiscard
    BY <2>1 DEF AfterDiscard, SlackLabels, DiscardLabels
  <2>2. CASE ~ AfterDiscard
    <3>1. at' = at /\ pc \notin {"flush", "slack", "discard"}
      BY <2>2 DEF MaskZeros, MaskAs, ShrinkName, Rename, Unlink
    <3> QED
      BY <1>2, <3>1 DEF Turns
  <2> QED
    BY <2>1, <2>2
<1>8. Turns'
  BY <1>1, <1>7 DEF Turns, Judged
<1>9. Progress' /\ NothingLostBeforeVerdict'
  BY <1>1, <1>3, <1>5 DEF Progress, NothingLostBeforeVerdict, Passed, SlackDone, Judged, PassCount
<1> QED
  BY <1>6, <1>8, <1>9 DEF Inv

----------------------------------------------------------------------------
\* Inv is inductive.
LEMMA StepInv == Inv /\ [Next]_vars => Inv'
<1> SUFFICES ASSUME Inv, [Next]_vars PROVE Inv'
  OBVIOUS
<1>1. CASE Shred
  BY <1>1, PassesKeepInv, FlushAndSlackKeepInv, ReadBackKeepsInv, ScrubKeepsInv
  DEF Shred, ShredStep
<1>2. CASE Platform
  BY <1>2, PlatformKeepsInv
<1>3. CASE Kernel
  BY <1>3, KernelKeepsInv
<1>4. CASE UNCHANGED vars
  <2>1. /\ UNCHANGED shredderVars
        /\ UNCHANGED <<file, at, result, total_written>>
    BY <1>4 DEF vars, platformVars
  <2> QED
    BY <2>1, PlatformFrame DEF Inv, Typed
<1> QED
  BY <1>1, <1>2, <1>3, <1>4 DEF Next, Program

\* Nothing irreversible happens early on Windows either: clusters are given back,
\* and the name is changed or removed, only after the last pass, the slack and the
\* verdict, on every volume, for every configuration, whichever calls fail.
THEOREM Win32NothingLostEarly == Spec => []NothingLostBeforeVerdict
<1>1. Inv => NothingLostBeforeVerdict
  BY DEF Inv
<1> QED
  BY InitInv, StepInv, <1>1, PTL DEF Spec

\* The passes, the slack pattern and the kind of verification agree for every
\* method and every number of passes, whatever the platform layer does.
THEOREM Win32SwitchesAgree == Spec => []SwitchesAgree
<1>1. Inv => SwitchesAgree
  BY SwitchesLemma DEF Inv, Typed, SwitchesAgree
<1> QED
  BY InitInv, StepInv, <1>1, PTL DEF Spec

----------------------------------------------------------------------------
\* Types, and the bounds that keep the counters in them: the platform layer
\* grows a file only as far as the volume goes, and writes inside what it grew.
Bounded ==
  /\ TypeOK
  /\ fs_name \in {fs, "UNKNOWN"}
  /\ pc = "pass" => written < file_size
  /\ at \in {"seek", "write", "sync", "restore", "finish"} => Boundary(file_size) <= Capacity
  /\ at \in {"write", "sync", "restore", "finish"} => file_size \in 0 .. Capacity
  /\ at = "write" => total_written = 0 \/ total_written < P!Fill
  /\ at \notin {"write", "sync", "restore", "finish"} => total_written = 0

\* The platform layer's file is the shredder's: the operators on it are the same.
LEMMA SameFile ==
  /\ P!SizeError = SizeError
  /\ \A n : P!Boundary(n) = Boundary(n)
  /\ \A n : P!FullUnits(n) = FullUnits(n)
  /\ \A f : P!SyncPossible(f) = SyncPossible(f)
  /\ \A f, cow : P!Synced(f, cow) = Synced(f, cow)
  /\ \A f, cow : P!SyncFailures(f, cow) = SyncFailures(f, cow)
  /\ \A f, cow : P!WriteBacks(f, cow) = WriteBacks(f, cow)
  /\ \A f, n : P!Truncations(f, n) = Truncations(f, n)
  /\ \A f, n : P!Punch(f, n) = Punch(f, n)
  /\ \A f, lo, hi, c : P!Write(f, lo, hi, c) = Write(f, lo, hi, c)
<1>1. /\ P!SizeError = SizeError
      /\ \A n : P!Boundary(n) = Boundary(n)
      /\ \A n : P!FullUnits(n) = FullUnits(n)
      /\ \A f : P!SyncPossible(f) = SyncPossible(f)
  BY DEF P!SizeError, SizeError, P!Boundary, Boundary, P!FullUnits, FullUnits, P!Cells, Cells,
     P!SyncPossible, SyncPossible
<1>2. \A f, cow, stored, lost, error :
        P!Store(f, cow, stored, lost, error) = Store(f, cow, stored, lost, error)
  BY DEF P!Store, Store, P!Cells, Cells
<1>3. \A f, cow : P!Synced(f, cow) = Synced(f, cow)
  BY <1>2 DEF P!Synced, Synced
<1>4. \A f, cow : P!SyncFailures(f, cow) = SyncFailures(f, cow)
  <2> SUFFICES ASSUME NEW f, NEW cow PROVE P!SyncFailures(f, cow) = SyncFailures(f, cow)
    OBVIOUS
  <2>1. ASSUME NEW g \in P!SyncFailures(f, cow) PROVE g \in SyncFailures(f, cow)
    <3>1. PICK stored \in SUBSET f.dirty :
            g \in {P!Store(f, cow, stored, lost, "none") : lost \in SUBSET (f.dirty \ stored)}
      BY DEF P!SyncFailures
    <3>2. PICK lost \in SUBSET (f.dirty \ stored) : g = P!Store(f, cow, stored, lost, "none")
      BY <3>1
    <3>3. g \in {Store(f, cow, stored, l, "none") : l \in SUBSET (f.dirty \ stored)}
      BY <1>2, <3>2
    <3> QED
      BY <3>3 DEF SyncFailures
  <2>2. ASSUME NEW g \in SyncFailures(f, cow) PROVE g \in P!SyncFailures(f, cow)
    <3>1. PICK stored \in SUBSET f.dirty :
            g \in {Store(f, cow, stored, lost, "none") : lost \in SUBSET (f.dirty \ stored)}
      BY DEF SyncFailures
    <3>2. PICK lost \in SUBSET (f.dirty \ stored) : g = Store(f, cow, stored, lost, "none")
      BY <3>1
    <3>3. g \in {P!Store(f, cow, stored, l, "none") : l \in SUBSET (f.dirty \ stored)}
      BY <1>2, <3>2
    <3> QED
      BY <3>3 DEF P!SyncFailures
  <2> QED
    BY <2>1, <2>2
<1>5. \A f, cow : P!WriteBacks(f, cow) = WriteBacks(f, cow)
  BY <1>2 DEF P!WriteBacks, WriteBacks
<1>6. \A f, n : P!Truncations(f, n) = Truncations(f, n)
  BY <1>1 DEF P!Truncations, Truncations, P!Slack, Slack, P!Cells, Cells, P!Boundary, Boundary
<1>7. \A f, n : P!Punch(f, n) = Punch(f, n)
  BY DEF P!Punch, Punch, P!FullUnits, FullUnits, P!Body, Body, P!Cells, Cells
<1>8. \A f, lo, hi, c : P!Write(f, lo, hi, c) = Write(f, lo, hi, c)
  BY DEF P!Write, Write, P!Cells, Cells
<1> QED
  BY <1>1, <1>3, <1>4, <1>5, <1>6, <1>7, <1>8

\* While the slack is being written all the numbers involved fit the volume.
LEMMA FillBound ==
  ASSUME Bounded, at = "write"
  PROVE  /\ file_size \in 0 .. Capacity /\ total_written \in Nat /\ P!Fill \in Int
         /\ P!Fill = Boundary(file_size) - file_size /\ Boundary(file_size) \in 0 .. Capacity
         /\ Capacity \in Nat
<1>1. file_size \in 0 .. Capacity /\ Boundary(file_size) <= Capacity /\ total_written \in Nat
  BY StorageAssumption DEF Bounded, TypeOK, ShredderTypeOK
<1>2. Boundary(file_size) \in Nat
  BY <1>1, BoundaryType, StorageAssumption
<1> QED
  BY <1>1, <1>2, SameFile, StorageAssumption DEF P!Fill

\* A sync, whether its outcome is looked at or not.
Tried(f, g) ==
  \/ SyncPossible(f) /\ g = Synced(f, P!Cow)
  \/ g \in SyncFailures(f, P!Cow)

\* The platform layer's words for what it does to the file are those.
LEMMA PlatformWords ==
  /\ \A f : \A g \in P!Flushed(f) : Tried(f, g)
  /\ \A f, n : \A g \in P!set_size(f, n) : n # SizeError /\ g \in Truncations(f, n)
<1>1. ASSUME NEW f, NEW g \in P!Flushed(f) PROVE Tried(f, g)
  BY SameFile DEF P!Flushed, Tried
<1>2. ASSUME NEW f, NEW n, NEW g \in P!set_size(f, n)
      PROVE  n # SizeError /\ g \in Truncations(f, n)
  BY SameFile DEF P!set_size
<1> QED
  BY <1>1, <1>2

\* What may be done to the file on the way out of eliminate_slack_space: a sync
\* that failed, the old size restored, a sync.
GivenUp(f, g) ==
  \/ Tried(f, g)
  \/ \E n \in 0 .. Capacity : \E h \in Truncations(f, n) : Tried(h, g)

\* The error path.
LEMMA GiveUpOps ==
  ASSUME file_size \in 0 .. Capacity \union {SizeError}, NEW f, P!GiveUp(f)
  PROVE  GivenUp(f, file')
<1>1. PICK g \in {f} \union P!set_size(f, file_size) : file' \in P!Flushed(g)
  BY DEF P!GiveUp
<1>2. Tried(g, file')
  BY <1>1, PlatformWords
<1>3. CASE g = f
  BY <1>2, <1>3 DEF GivenUp
<1>4. CASE g \in P!set_size(f, file_size)
  <2>1. file_size # SizeError /\ g \in Truncations(f, file_size)
    BY <1>4, PlatformWords
  <2> QED
    BY <1>2, <2>1 DEF GivenUp
<1> QED
  BY <1>1, <1>3, <1>4

\* What discard_file_blocks zeroes: cells inside the file, or whole clusters.
LEMMA ZeroOps ==
  ASSUME file_size \in 0 .. Capacity \union {SizeError}, file \in File, P!ZeroData
  PROVE  \/ file' = file
         \/ \E hi \in 0 .. Capacity : file' = Write(file, 1, hi, "zero")
         \/ \E n : file' = Punch(file, n)
<1>0. file.size \in 0 .. Capacity /\ Capacity \in Nat /\ file_size \in Nat
  BY StorageAssumption DEF File, SizeError
<1>1. CASE file' = file
  BY <1>1
<1>2. ASSUME NEW unit \in {Unit, 1}, NEW inside,
             inside = (IF P!AlignedLength(unit) < file.size THEN P!AlignedLength(unit)
                       ELSE file.size),
             file' = IF resident THEN P!Write(file, 1, inside, "zero")
                     ELSE P!Punch(file, P!AlignedLength(unit))
      PROVE  \/ \E hi \in 0 .. Capacity : file' = Write(file, 1, hi, "zero")
             \/ \E n : file' = Punch(file, n)
  <2>1. P!AlignedLength(unit) \in Nat
    BY <1>0, AlignedType
  <2>2. inside \in 0 .. Capacity
    BY <1>0, <1>2, <2>1
  <2>3. CASE resident
    BY <1>2, <2>2, <2>3, SameFile
  <2>4. CASE ~ resident
    BY <1>2, <2>4, SameFile
  <2> QED
    BY <2>3, <2>4
<1>3. \A size \in P!cluster_size_of : (IF size > 0 THEN size ELSE 1) \in {Unit, 1}
  BY DEF P!cluster_size_of
<1> QED
  BY <1>1, <1>2, <1>3 DEF P!ZeroData

\* The operations the platform layer and the lazy writer ever apply to the file.
LEMMA PlatformOps ==
  ASSUME Bounded, UNCHANGED shredderVars, P!Step \/ P!LazyWriter
  PROVE  \/ file' = file
         \/ file' \in WriteBacks(file, P!Cow)
         \/ \E f : (f = file \/ f \in SyncFailures(file, P!Cow)) /\ GivenUp(f, file')
         \/ \E n \in 0 .. Capacity : file' \in Truncations(file, n)
         \/ \E lo \in Nat \ {0}, hi \in 0 .. Capacity, c \in {FinalPattern(config), "zero"} :
              file' = Write(file, lo, hi, c)
         \/ \E n : file' = Punch(file, n)
<1>0. file_size \in 0 .. Capacity \union {SizeError} /\ Capacity \in Nat /\ file \in File
  BY StorageAssumption DEF Bounded, TypeOK, ShredderTypeOK
<1>1. CASE P!LazyWriter
  BY <1>1, SameFile DEF P!LazyWriter
<1>2. CASE P!SlackEnter \/ P!CheckAttributes \/ P!OpenAndLocate \/ P!SetSparse \/ P!Invoked
  BY <1>2 DEF P!SlackEnter, P!CheckAttributes, P!OpenAndLocate, P!SetSparse, P!Invoked
<1>3. ASSUME Tried(file, file')
      PROVE  \E f : (f = file \/ f \in SyncFailures(file, P!Cow)) /\ GivenUp(f, file')
  BY <1>3 DEF GivenUp
<1>4. CASE P!Flush
  <2>1. file' = file \/ Tried(file, file')
    BY <1>4, SameFile DEF P!Flush, Tried
  <2> QED
    BY <1>3, <2>1
<1>5. CASE P!DiscardOpen \/ P!Finish
  <2>1. file' = file \/ Tried(file, file')
    BY <1>5, PlatformWords DEF P!DiscardOpen, P!Finish
  <2> QED
    BY <1>3, <2>1
<1>6. CASE P!Grow
  <2>1. \/ file' = file
        \/ Boundary(file_size) <= Capacity /\ file' \in Truncations(file, Boundary(file_size))
    BY <1>6, SameFile, PlatformWords DEF P!Grow
  <2>2. Boundary(file_size) \in Nat
    BY <1>0, BoundaryType, StorageAssumption DEF SizeError
  <2> QED
    BY <1>0, <2>1, <2>2
<1>7. CASE P!Seek
  BY <1>0, <1>7, GiveUpOps DEF P!Seek
<1>8. CASE P!WriteSlack
  <2>1. CASE P!GiveUp(file)
    BY <1>0, <2>1, GiveUpOps
  <2>2. ASSUME NEW n \in 1 .. P!Fill - total_written,
               file' = P!Write(file, file_size + total_written + 1,
                               file_size + total_written + n, FinalPattern(config))
        PROVE  \E lo \in Nat \ {0}, hi \in 0 .. Capacity :
                 file' = Write(file, lo, hi, FinalPattern(config))
    <3>1. at = "write"
      BY <1>8 DEF P!WriteSlack
    <3>2. /\ file_size + total_written + 1 \in Nat \ {0}
          /\ file_size + total_written + n \in 0 .. Capacity
      BY <2>2, <3>1, FillBound
    <3> QED
      BY <2>2, <3>2, SameFile
  <2> QED
    BY <1>8, <2>1, <2>2 DEF P!WriteSlack
<1>9. CASE P!FlushSlack
  <2>1. ASSUME NEW f \in P!SyncFailures(file, P!Cow), P!GiveUp(f)
        PROVE  \E g : (g = file \/ g \in SyncFailures(file, P!Cow)) /\ GivenUp(g, file')
    <3>1. f \in SyncFailures(file, P!Cow)
      BY SameFile
    <3> QED
      BY <1>0, <2>1, <3>1, GiveUpOps
  <2>2. P!SyncPossible(file) /\ file' = P!Synced(file, P!Cow) => Tried(file, file')
    BY SameFile DEF Tried
  <2> QED
    BY <1>3, <1>9, <2>1, <2>2 DEF P!FlushSlack
<1>10. CASE P!Restore
  <2>1. file_size \in 0 .. Capacity
    BY <1>10 DEF P!Restore, Bounded
  <2> QED
    BY <1>10, <2>1, PlatformWords DEF P!Restore
<1>11. CASE P!ZeroData
  <2>1. \A hi : file' = Write(file, 1, hi, "zero") =>
          \E lo \in Nat \ {0} : file' = Write(file, lo, hi, "zero")
    OBVIOUS
  <2> QED
    BY <1>0, <1>11, <2>1, ZeroOps
<1> QED
  BY <1>1, <1>2, <1>4, <1>5, <1>6, <1>7, <1>8, <1>9, <1>10, <1>11 DEF P!Step

\* What the slack is filled with is not old data.
LEMMA FinalPatternType == FinalPattern(config) \in Content \ {"orig"}
BY DEF FinalPattern, Content

\* None of them undoes what is in a set of contents that has the final pattern and
\* zero.
LEMMA PlatformCells ==
  ASSUME Bounded, UNCHANGED shredderVars, P!Step \/ P!LazyWriter,
         NEW S \in SUBSET Cells, NEW C, "zero" \in C, FinalPattern(config) \in C,
         Cached(file, S, C)
  PROVE  /\ file' \in File
         /\ Cached(file', S, C)
         /\ Stored(file, S, C) => Stored(file', S, C)
         /\ P!LazyWriter /\ Reaching(file, S, C) => Reaching(file', S, C)
<1>0. /\ file \in File /\ {} \in SUBSET Cells
      /\ {FinalPattern(config), "zero"} \subseteq Content \ {"orig"}
  BY FinalPatternType DEF Bounded, TypeOK, ShredderTypeOK, Content
<1> DEFINE Kept(f) == f \in File /\ Cached(f, S, C) /\ (Stored(file, S, C) => Stored(f, S, C))
<1>1. Kept(file)
  BY <1>0
<1>2. ASSUME NEW f, Kept(f), NEW g, Tried(f, g) PROVE Kept(g)
  <2>1. CASE SyncPossible(f) /\ g = Synced(f, P!Cow)
    <3>1. g \in File
      BY <1>0, <1>2, <2>1, SyncedLemma
    <3>2. Cached(g, S, C) /\ (Stored(f, S, C) => Stored(g, S, C))
      BY <1>0, <1>2, <2>1, SyncedCells
    <3> QED
      BY <1>2, <3>1, <3>2
  <2>2. CASE g \in SyncFailures(f, P!Cow)
    BY <1>0, <1>2, <2>2, SyncFailuresLemma, SyncFailuresCells
  <2> QED
    BY <1>2, <2>1, <2>2 DEF Tried
<1>3. ASSUME NEW n \in 0 .. Capacity, NEW f, Kept(f), NEW g \in Truncations(f, n)
      PROVE  Kept(g)
  BY <1>0, <1>3, TruncationsLemma, TruncationsCells
<1>4. ASSUME NEW f, Kept(f), NEW g, GivenUp(f, g) PROVE Kept(g)
  <2> HIDE DEF Kept
  <2> QED
    BY <1>2, <1>3, <1>4 DEF GivenUp
<1>5. ASSUME NEW f, f = file \/ f \in SyncFailures(file, P!Cow), GivenUp(f, file')
      PROVE  Kept(file')
  <2>1. Kept(f)
    <3> HIDE DEF Kept
    <3> QED
      BY <1>1, <1>2, <1>5 DEF Tried
  <2> HIDE DEF Kept
  <2> QED
    BY <1>4, <1>5, <2>1
<1>6. ASSUME file' \in WriteBacks(file, P!Cow) PROVE Kept(file')
  BY <1>0, <1>6, WriteBacksLemma, WriteBacksCells
<1>7. ASSUME NEW lo \in Nat \ {0}, NEW hi \in 0 .. Capacity,
             NEW c \in {FinalPattern(config), "zero"}, file' = Write(file, lo, hi, c)
      PROVE  Kept(file')
  <2>1. c \in C /\ c \in Content \ {"orig"}
    BY <1>0
  <2>2. Cached(file', S \union (lo .. hi), C) /\ (Stored(file, S, C) => Stored(file', S, C))
    BY <1>0, <1>7, <2>1, WriteCells
  <2>3. file' \in File
    BY <1>0, <1>7, <2>1, WriteLemma
  <2> QED
    BY <2>2, <2>3 DEF Cached
<1>8. ASSUME NEW n, file' = Punch(file, n) PROVE Kept(file')
  <2>1. file' \in File
    BY <1>0, <1>8, PunchLemma
  <2>2. Cached(file', S, C) /\ (Stored(file, S, C) => Stored(file', S, C))
    BY <1>0, <1>8, PunchCells
  <2> QED
    BY <2>1, <2>2
<1>9. Kept(file')
  <2> HIDE DEF Kept
  <2> QED
    BY <1>1, <1>3, <1>5, <1>6, <1>7, <1>8, PlatformOps
<1>10. P!LazyWriter => file' \in WriteBacks(file, P!Cow)
  BY SameFile DEF P!LazyWriter
<1> QED
  BY <1>0, <1>9, <1>10, WriteBacksCells

----------------------------------------------------------------------------
\* A call of shred_file starts with every variable in its type.
LEMMA InitBounded == Init => Bounded
<1> SUFFICES ASSUME Init PROVE Bounded
  OBVIOUS
<1>1. /\ at = "idle" /\ result = NoResult /\ pc = "start" /\ config \in Configs
      /\ file_size = 0 /\ passes_executed = 0 /\ written = 0 /\ name = "original"
      /\ flush_ok = FALSE /\ checked = 0 /\ mix = {} /\ all_renames_succeeded = TRUE
      /\ record = NewRecord /\ total_written = 0 /\ fs \in FsKinds
      /\ attributes \subseteq P!Attributes /\ resident \in BOOLEAN /\ fs_name = "UNKNOWN"
  BY VolumeAssumption DEF Init, ShredderInit
<1>2. PICK n \in Sizes : \E unwritten \in SUBSET Body(n) :
        file = Target(n, unwritten, ~ resident)
  BY DEF Init, ShredderInit
<1>3. PICK unwritten \in SUBSET Body(n) : file = Target(n, unwritten, ~ resident)
  BY <1>2
<1>4. n \in 0 .. Capacity /\ unwritten \in SUBSET Cells /\ Capacity \in Nat
  BY ShredderAssumption, StorageAssumption DEF Body
<1>5. file \in File
  <2> DEFINE hasTail == ~ resident
  <2>1. /\ [i \in Cells |-> IF i <= n THEN "orig" ELSE "zero"] \in [Cells -> Content]
        /\ [i \in Cells |-> IF i <= n \/ (hasTail /\ i \in Slack(n)) THEN "orig" ELSE "zero"]
             \in [Cells -> Content]
    <3> HIDE DEF hasTail
    <3> QED
      BY DEF Content
  <2> QED
    BY <1>3, <1>4, <2>1 DEF Target, File
<1>6. PassCount(config) \in Nat
  BY <1>1, PassCountType
<1>7. result \in P!Results /\ "NOT_ATTEMPTED" \in P!Status
  BY <1>1 DEF NoResult, P!Results, P!Status
<1>8. ShredderTypeOK(P!Status)
  <2>1. 0 \in 0 .. Capacity /\ 0 \in 0 .. PassCount(config)
    BY <1>4, <1>6
  <2>2. record \in [passes_completed         : 0 .. PassCount(config),
                   slack_space_eliminated   : BOOLEAN,
                   slack_space_status       : P!Status,
                   trim_invoked             : BOOLEAN,
                   verification_type        : {"NONE", "BYTE_ZERO_CHECK", "SHANNON_ENTROPY_CHECK"},
                   verification_passed      : BOOLEAN,
                   metadata_scrub_completed : BOOLEAN,
                   status                   : RecordStatus]
    BY <1>1, <1>7, <2>1 DEF NewRecord, RecordStatus
  <2>3. pc \in Stages /\ name \in Names /\ mix \in SUBSET Content
    BY <1>1 DEF Stages, Names
  <2> QED
    BY <1>1, <1>5, <2>1, <2>2, <2>3 DEF ShredderTypeOK
<1>9. TypeOK
  <2>1. at \in P!Labels /\ fs_name \in P!AllFsKinds \union {"UNKNOWN"}
    BY <1>1 DEF P!Labels
  <2>2. total_written \in 0 .. Capacity
    BY <1>1, <1>4
  <2>3. resident \in BOOLEAN /\ attributes \subseteq P!Attributes /\ fs \in FsKinds
    BY <1>1
  <2> QED
    BY <1>7, <1>8, <2>1, <2>2, <2>3 DEF TypeOK
<1> QED
  BY <1>1, <1>9 DEF Bounded

\* What is left to show of a step of the platform layer.
Stepped ==
  /\ fs' = fs
  /\ at' \in P!Labels
  /\ attributes' \subseteq P!Attributes
  /\ (SlackLeftAlone <=> SlackLeftAlone')
  /\ resident' \in {resident, FALSE}
  /\ fs_name' \in {fs, "UNKNOWN"}
  /\ result' \in P!Results
  /\ total_written' \in 0 .. Capacity
  /\ at' \in {"seek", "write", "sync", "restore", "finish"} => Boundary(file_size) <= Capacity
  /\ at' \in {"write", "sync", "restore", "finish"} => file_size \in 0 .. Capacity
  /\ at' = "write" => total_written' = 0 \/ total_written' < P!Fill
  /\ at' \notin {"write", "sync", "restore", "finish"} => total_written' = 0

\* That is enough.
LEMMA SteppedBounded ==
  ASSUME Bounded, UNCHANGED shredderVars, P!Step \/ P!LazyWriter, Stepped
  PROVE  Bounded'
<1>1. file' \in File
  <2>1. /\ {} \in SUBSET Cells /\ "zero" \in Content /\ FinalPattern(config) \in Content
        /\ Cached(file, {}, Content)
    BY FinalPatternType DEF Cached, Content
  <2> QED
    BY <2>1, PlatformCells
<1>2. /\ pc' = pc /\ config' = config /\ file_size' = file_size
      /\ passes_executed' = passes_executed /\ written' = written /\ flush_ok' = flush_ok
      /\ checked' = checked /\ mix' = mix /\ name' = name
      /\ all_renames_succeeded' = all_renames_succeeded /\ record' = record
  BY DEF shredderVars
<1>3. ShredderTypeOK(P!Status)'
  BY <1>1, <1>2 DEF Bounded, TypeOK, ShredderTypeOK
<1>4. TypeOK'
  <2>1. fs_name' \in P!AllFsKinds \union {"UNKNOWN"} /\ resident' \in BOOLEAN
    BY VolumeAssumption DEF Stepped, Bounded, TypeOK
  <2> QED
    BY <1>3, <2>1 DEF Stepped, Bounded, TypeOK
<1> QED
  BY <1>2, <1>4 DEF Bounded, Stepped, Boundary, P!Fill, P!Boundary

\* A platform function that returns leaves nothing of itself behind.
LEMMA ReturnStepped ==
  ASSUME Bounded, NEW call \in {"flush", "slack", "discard"}, NEW ok \in BOOLEAN,
         NEW status \in P!Status, P!Return(call, ok, status) \/ Failed,
         UNCHANGED <<fs, resident, attributes>>
  PROVE  Stepped
<1>1. /\ at' = "returned" /\ fs_name' = "UNKNOWN" /\ total_written' = 0
      /\ result' \in P!Results
  <2>1. CASE P!Return(call, ok, status)
    BY <2>1 DEF P!Return, P!ReturnAfter, P!Results
  <2>2. CASE P!Return("slack", FALSE, "FAILED")
    BY <2>2 DEF P!Return, P!ReturnAfter, P!Results, P!Status
  <2>3. CASE P!FailUnrestored
    BY <2>3 DEF P!FailUnrestored, P!ReturnAfter, P!Results, P!Status
  <2> QED
    BY <2>1, <2>2, <2>3 DEF Failed
<1>2. at' \in P!Labels /\ total_written' \in 0 .. Capacity
  BY <1>1, StorageAssumption DEF P!Labels
<1>3. attributes' \subseteq P!Attributes /\ (SlackLeftAlone <=> SlackLeftAlone')
  BY DEF Bounded, TypeOK, SlackLeftAlone
<1> QED
  BY <1>1, <1>2, <1>3 DEF Stepped

\* Within a function the volume is left alone.
LEMMA GotoStepped ==
  ASSUME Bounded, UNCHANGED <<fs, resident, attributes, result>>,
         fs_name' \in {fs_name, fs, "UNKNOWN"}, at' \in P!Labels,
         total_written' \in 0 .. Capacity,
         at' \in {"seek", "write", "sync", "restore", "finish"} => Boundary(file_size) <= Capacity,
         at' \in {"write", "sync", "restore", "finish"} => file_size \in 0 .. Capacity,
         at' = "write" => total_written' = 0 \/ total_written' < P!Fill,
         at' \notin {"write", "sync", "restore", "finish"} => total_written' = 0
  PROVE  Stepped
<1>1. /\ attributes' \subseteq P!Attributes /\ (SlackLeftAlone <=> SlackLeftAlone')
      /\ result' \in P!Results /\ fs_name' \in {fs, "UNKNOWN"} /\ fs' = fs
      /\ resident' \in {resident, FALSE}
  BY DEF Bounded, TypeOK, SlackLeftAlone
<1> QED
  BY <1>1 DEF Stepped

\* flush_file_to_media, and eliminate_slack_space up to the grow.
LEMMA BeforeGrowBounded ==
  Bounded /\ UNCHANGED shredderVars
    /\ (P!Flush \/ P!SlackEnter \/ P!CheckAttributes \/ P!OpenAndLocate) => Stepped
<1> SUFFICES ASSUME Bounded, UNCHANGED shredderVars,
                    P!Flush \/ P!SlackEnter \/ P!CheckAttributes \/ P!OpenAndLocate
             PROVE  Stepped
  OBVIOUS
<1>1. UNCHANGED <<fs, resident, attributes>>
  BY DEF P!Flush, P!SlackEnter, P!CheckAttributes, P!OpenAndLocate, P!Volume
<1>2. total_written = 0 /\ total_written \in 0 .. Capacity
  BY DEF P!Flush, P!SlackEnter, P!CheckAttributes, P!OpenAndLocate, Bounded, TypeOK
<1>3. CASE P!Flush
  <2>1. "FAILED" \in P!Status /\ "SUCCESS" \in P!Status
    BY DEF P!Status
  <2>2. P!Return("flush", FALSE, "FAILED") \/ P!Return("flush", TRUE, "SUCCESS")
    BY <1>3 DEF P!Flush
  <2> QED
    BY <1>1, <2>1, <2>2, ReturnStepped
<1>4. CASE P!SlackEnter \/ P!CheckAttributes \/ P!OpenAndLocate
  <2>1. CASE \E ok \in BOOLEAN, status \in P!Status \ {"NOT_ATTEMPTED"} :
               P!Return("slack", ok, status)
    BY <1>1, <2>1, ReturnStepped
  <2>2. CASE at' \in {"attributes", "open", "grow"} /\ UNCHANGED <<total_written, result>>
               /\ fs_name' \in {fs_name, fs, "UNKNOWN"}
    <3>1. at' \in P!Labels
      BY <2>2 DEF P!Labels
    <3> QED
      BY <1>1, <1>2, <2>2, <3>1, GotoStepped
  <2>3. \/ at' = "returned"
        \/ at' \in {"attributes", "open", "grow"} /\ UNCHANGED <<total_written, result>>
             /\ fs_name' \in {fs_name, fs, "UNKNOWN"}
    BY <1>4 DEF P!SlackEnter, P!CheckAttributes, P!OpenAndLocate, P!Return, P!ReturnAfter, P!Goto,
       P!fs_name_of, P!check_residency
  <2>4. "returned" \notin SlackLabels
    BY DEF SlackLabels
  <2> QED
    BY <1>4, <2>1, <2>2, <2>3, <2>4, EarlyReturns
<1> QED
  BY <1>3, <1>4

\* discard_file_blocks, which may add the sparse attribute.
LEMMA DiscardBounded ==
  Bounded /\ UNCHANGED shredderVars
    /\ (P!DiscardOpen \/ P!SetSparse \/ P!ZeroData \/ P!Invoked) => Stepped
<1> SUFFICES ASSUME Bounded, UNCHANGED shredderVars,
                    P!DiscardOpen \/ P!SetSparse \/ P!ZeroData \/ P!Invoked
             PROVE  Stepped
  OBVIOUS
<1>1. fs' = fs /\ resident' = resident
  BY DEF P!DiscardOpen, P!SetSparse, P!ZeroData, P!Invoked, P!Volume
<1>2. /\ total_written = 0 /\ total_written \in 0 .. Capacity /\ result \in P!Results
      /\ fs_name \in {fs, "UNKNOWN"} /\ attributes \subseteq P!Attributes
  BY DEF P!DiscardOpen, P!SetSparse, P!ZeroData, P!Invoked, Bounded, TypeOK
<1>3. /\ "FAILED" \in P!Status /\ "SUCCESS_HOLE_PUNCH" \in P!Status
      /\ "SKIPPED_EMPTY_FILE" \in P!Status
  BY DEF P!Status, P!SlackSkipped
<1>4. \/ /\ attributes' = attributes
         /\ \/ P!Return("discard", FALSE, "SKIPPED_EMPTY_FILE")
            \/ P!Return("discard", FALSE, "FAILED")
            \/ P!Return("discard", TRUE, "SUCCESS_HOLE_PUNCH")
      \/ /\ attributes' = attributes \/ attributes' = attributes \union {"SPARSE"}
         /\ at' \in {"sparse", "zero", "invoked"}
         /\ UNCHANGED <<fs_name, total_written, result>>
  BY DEF P!DiscardOpen, P!SetSparse, P!ZeroData, P!Invoked, P!Goto
<1>5. CASE /\ attributes' = attributes
           /\ \/ P!Return("discard", FALSE, "SKIPPED_EMPTY_FILE")
              \/ P!Return("discard", FALSE, "FAILED")
              \/ P!Return("discard", TRUE, "SUCCESS_HOLE_PUNCH")
  BY <1>1, <1>3, <1>5, ReturnStepped
<1>6. CASE /\ attributes' = attributes \/ attributes' = attributes \union {"SPARSE"}
           /\ at' \in {"sparse", "zero", "invoked"}
           /\ UNCHANGED <<fs_name, total_written, result>>
  <2>1. attributes' \subseteq P!Attributes
    BY <1>2, <1>6 DEF P!Attributes
  <2>2. SlackLeftAlone <=> SlackLeftAlone'
    BY <1>1, <1>6 DEF SlackLeftAlone
  <2>3. at' \in P!Labels
    BY <1>6 DEF P!Labels
  <2> QED
    BY <1>1, <1>2, <1>6, <2>1, <2>2, <2>3 DEF Stepped
<1> QED
  BY <1>4, <1>5, <1>6

\* eliminate_slack_space from the grow to the return.
LEMMA GrowAndAfterBounded ==
  Bounded /\ UNCHANGED shredderVars
    /\ (P!Grow \/ P!Seek \/ P!WriteSlack \/ P!FlushSlack \/ P!Restore \/ P!Finish) => Stepped
<1> SUFFICES ASSUME Bounded, UNCHANGED shredderVars,
                    P!Grow \/ P!Seek \/ P!WriteSlack \/ P!FlushSlack \/ P!Restore \/ P!Finish
             PROVE  Stepped
  OBVIOUS
<1>2. /\ result \in P!Results /\ total_written \in 0 .. Capacity
      /\ file_size \in 0 .. Capacity \union {SizeError} /\ fs_name \in {fs, "UNKNOWN"}
      /\ attributes \subseteq P!Attributes
  BY DEF Bounded, TypeOK, ShredderTypeOK
<1>s. "FAILED" \in P!Status /\ "SUCCESS_CLUSTER_MODE" \in P!Status
  BY DEF P!Status, P!SlackSuccess
<1>5. CASE P!Grow
  <2>1. \/ P!Return("slack", FALSE, "FAILED") /\ UNCHANGED <<fs, resident, attributes>>
        \/ /\ P!Goto("seek") /\ P!Boundary(file_size) <= Capacity
           /\ resident' = FALSE /\ UNCHANGED <<fs, attributes>>
    BY <1>5 DEF P!Grow
  <2>2. total_written = 0
    BY <1>5 DEF Bounded, P!Grow
  <2>3. CASE P!Return("slack", FALSE, "FAILED") /\ UNCHANGED <<fs, resident, attributes>>
    BY <1>s, <2>3, ReturnStepped
  <2>4. CASE /\ P!Goto("seek") /\ P!Boundary(file_size) <= Capacity
             /\ resident' = FALSE /\ UNCHANGED <<fs, attributes>>
    <3>1. SlackLeftAlone <=> SlackLeftAlone'
      BY <2>4 DEF SlackLeftAlone
    <3>2. at' = "seek" /\ UNCHANGED <<fs_name, total_written, result>>
      BY <2>4 DEF P!Goto
    <3>3. at' \in P!Labels
      BY <3>2 DEF P!Labels
    <3>4. Boundary(file_size) <= Capacity
      BY <2>4, SameFile
    <3> QED
      BY <1>2, <2>2, <2>4, <3>1, <3>2, <3>3, <3>4 DEF Stepped
  <2> QED
    BY <2>1, <2>3, <2>4
<1>6. CASE P!Seek \/ P!WriteSlack \/ P!FlushSlack \/ P!Restore \/ P!Finish
  <2>0. UNCHANGED <<fs, resident, attributes>>
    BY <1>6 DEF P!Seek, P!WriteSlack, P!FlushSlack, P!Restore, P!Finish, P!Volume
  <2>1. ASSUME NEW f, P!GiveUp(f) PROVE Stepped
    BY <1>s, <2>0, <2>1, ReturnStepped DEF P!GiveUp, Failed
  <2>2. CASE P!Seek
    <3>1. \/ P!GiveUp(file)
          \/ P!Goto("write") /\ file_size # SizeError
      BY <2>2, SameFile DEF P!Seek
    <3>2. total_written = 0 /\ Boundary(file_size) <= Capacity
      BY <2>2 DEF Bounded, P!Seek
    <3> QED
      BY <1>2, <2>0, <2>1, <3>1, <3>2, GotoStepped DEF P!Goto, P!Labels
  <2>3. CASE P!WriteSlack
    <3>1. at = "write"
      BY <2>3 DEF P!WriteSlack
    <3>2. ASSUME NEW n \in 1 .. P!Fill - total_written,
                 total_written' = total_written + n,
                 at' = (IF total_written' = P!Fill THEN "sync" ELSE "write"),
                 UNCHANGED <<fs_name, result>>
          PROVE  Stepped
      <4>1. Boundary(file_size) <= Capacity
        BY <3>1 DEF Bounded
      <4>2. total_written' \in 0 .. Capacity /\ total_written' <= P!Fill
        BY <3>1, <3>2, FillBound
      <4>3. at' = "write" => total_written' < P!Fill
        BY <3>1, <3>2, <4>2, FillBound
      <4>4. at' \in {"sync", "write"} /\ file_size \in 0 .. Capacity
        BY <3>1, <3>2, FillBound
      <4>5. at' \in P!Labels
        BY <4>4 DEF P!Labels
      <4> QED
        BY <1>2, <2>0, <3>2, <4>1, <4>2, <4>3, <4>4, <4>5, GotoStepped
    <3> QED
      BY <2>1, <2>3, <3>2 DEF P!WriteSlack
  <2>4. CASE P!FlushSlack \/ P!Restore
    <3>1. /\ file_size \in 0 .. Capacity /\ Boundary(file_size) <= Capacity
      BY <2>4 DEF Bounded, P!FlushSlack, P!Restore
    <3>2. \/ \E f : P!GiveUp(f)
          \/ P!FailUnrestored
          \/ P!Goto("restore")
          \/ P!Goto("finish")
      BY <2>4 DEF P!FlushSlack, P!Restore
    <3>3. CASE P!FailUnrestored
      BY <1>s, <2>0, <3>3, ReturnStepped DEF Failed
    <3>4. CASE P!Goto("restore") \/ P!Goto("finish")
      BY <1>2, <2>0, <3>1, <3>4, GotoStepped DEF P!Goto, P!Labels
    <3> QED
      BY <2>1, <3>2, <3>3, <3>4
  <2>5. CASE P!Finish
    BY <1>s, <2>0, <2>5, ReturnStepped DEF P!Finish
  <2> QED
    BY <1>6, <2>2, <2>3, <2>4, <2>5
<1> QED
  BY <1>5, <1>6

\* Every step of the platform layer and of the lazy writer.
LEMMA PlatformStepped ==
  ASSUME Bounded, Platform \/ Kernel
  PROVE  Stepped
<1>1. CASE Platform
  BY <1>1, BeforeGrowBounded, GrowAndAfterBounded, DiscardBounded DEF Platform, P!Step
<1>2. CASE Kernel
  <2>1. /\ UNCHANGED <<fs, resident, attributes, at, fs_name, total_written, result>>
    BY <1>2 DEF Kernel, P!LazyWriter, P!Volume
  <2>2. at' \in P!Labels /\ total_written' \in 0 .. Capacity
    BY <2>1 DEF Bounded, TypeOK
  <2> QED
    BY <2>1, <2>2, GotoStepped DEF Bounded
<1> QED
  BY <1>1, <1>2

\* And that is enough.
LEMMA PlatformBounded == Bounded /\ (Platform \/ Kernel) => Bounded'
<1> SUFFICES ASSUME Bounded, Platform \/ Kernel PROVE Bounded'
  OBVIOUS
<1>1. UNCHANGED shredderVars /\ (P!Step \/ P!LazyWriter)
  BY DEF Platform, Kernel
<1> QED
  BY <1>1, PlatformStepped, SteppedBounded
----------------------------------------------------------------------------
\* The audit record of a call with the configuration at hand.
Audit == [passes_completed         : 0 .. PassCount(config),
          slack_space_eliminated   : BOOLEAN,
          slack_space_status       : P!Status,
          trim_invoked             : BOOLEAN,
          verification_type        : {"NONE", "BYTE_ZERO_CHECK", "SHANNON_ENTROPY_CHECK"},
          verification_passed      : BOOLEAN,
          metadata_scrub_completed : BOOLEAN,
          status                   : RecordStatus]

\* A pass writes anything but old data.
LEMMA PassContentType ==
  ASSUME NEW k PROVE PassContent(config, k) \in Content \ {"orig"} \/ config.method \notin Methods
BY DEF PassContent, Content, Methods

\* The configuration names one of the five methods.
LEMMA MethodType == ASSUME Inv PROVE config.method \in Methods
<1>1. config \in [method : Methods, passes : Nat, zero_fill : BOOLEAN]
  BY ShredderAssumption DEF Inv, Typed
<1> QED
  BY <1>1

\* What is left to show of a step of shred_file.
LEMMA ShredFrame ==
  ASSUME Inv, Bounded, UNCHANGED platformVars,
         pc # "slack" \/ (at = "returned" /\ at' = "idle"),
         at' \in {at, "idle", "flush", "slack", "discard"},
         result' \in {result, NoResult},
         config' = config, record' \in Audit, file' \in File,
         file_size' \in {file_size, file.size, SizeError},
         passes_executed' \in 0 .. PassCount(config), written' \in 0 .. Capacity,
         checked' \in 0 .. Capacity, mix' \in SUBSET Content, name' \in Names,
         all_renames_succeeded' \in BOOLEAN, flush_ok' \in BOOLEAN, pc' \in Stages,
         pc' = "pass" => written' < file_size'
  PROVE  Bounded'
<1>1. /\ Turns /\ TypeOK /\ file \in File /\ file_size \in 0 .. Capacity \union {SizeError}
  BY DEF Inv, Bounded, TypeOK, ShredderTypeOK
<1>2. /\ UNCHANGED <<fs, attributes, resident, fs_name, total_written>>
  BY DEF platformVars
<1>3. at \notin {"seek", "write", "sync", "restore", "finish"}
  BY <1>1 DEF Turns, SlackLabels
<1>4. total_written' = 0 /\ at' \notin {"seek", "write", "sync", "restore", "finish"}
  BY <1>2, <1>3 DEF Bounded
<1>5. file.size \in 0 .. Capacity
  BY <1>1 DEF File
<1>6. ShredderTypeOK(P!Status)'
  BY <1>1, <1>5 DEF TypeOK, ShredderTypeOK, Audit, PassCount, SizeError
<1>7. at' \in P!Labels /\ result' \in P!Results
  <2>1. NoResult \in P!Results
    BY DEF NoResult, P!Results, P!Status
  <2> QED
    BY <1>1, <2>1 DEF TypeOK, P!Labels
<1>8. TypeOK'
  BY <1>1, <1>2, <1>6, <1>7 DEF TypeOK
<1> QED
  BY <1>2, <1>4, <1>8 DEF Bounded

\* What TypeOK says, one variable at a time.
LEMMA Types ==
  ASSUME Bounded
  PROVE  /\ record \in Audit /\ file \in File /\ file.size \in 0 .. Capacity
         /\ passes_executed \in 0 .. PassCount(config) /\ written \in 0 .. Capacity
         /\ checked \in 0 .. Capacity /\ mix \in SUBSET Content /\ name \in Names
         /\ all_renames_succeeded \in BOOLEAN /\ flush_ok \in BOOLEAN /\ pc \in Stages
         /\ file_size \in 0 .. Capacity \union {SizeError} /\ file_size \in Nat
         /\ result \in P!Results /\ config \in Configs
         /\ Capacity \in Nat /\ PassCount(config) \in Nat /\ SizeError \in Nat
<1>1. ShredderTypeOK(P!Status) /\ result \in P!Results
  BY DEF Bounded, TypeOK
<1>2. Capacity \in Nat /\ SizeError \in Nat
  BY StorageAssumption DEF SizeError
<1>3. config \in Configs /\ file_size \in 0 .. Capacity \union {SizeError}
  BY <1>1 DEF ShredderTypeOK
<1>4. PassCount(config) \in Nat /\ file_size \in Nat
  BY <1>2, <1>3, PassCountType
<1> QED
  BY <1>1, <1>2, <1>3, <1>4 DEF ShredderTypeOK, Audit, File

\* A chunk is never empty and never reaches past the size it is taken from.
LEMMA ChunkType ==
  ASSUME NEW done \in Nat, NEW size \in Nat, file_size = size, done < size
  PROVE  Chunk(done) \in Nat \ {0} /\ done + Chunk(done) <= size
BY ShredderAssumption DEF Chunk

\* The entry and the overwrite passes.
LEMMA PassesBounded ==
  Inv /\ Bounded /\ UNCHANGED platformVars /\ (NotRegular \/ Measure \/ OpenTarget \/ WriteChunk)
    => Bounded'
<1> SUFFICES ASSUME Inv, Bounded, UNCHANGED platformVars,
                    NotRegular \/ Measure \/ OpenTarget \/ WriteChunk
             PROVE  Bounded'
  OBVIOUS
<1>0. /\ record \in Audit /\ file \in File /\ file.size \in 0 .. Capacity
      /\ passes_executed \in 0 .. PassCount(config) /\ written \in 0 .. Capacity
      /\ checked \in 0 .. Capacity /\ mix \in SUBSET Content /\ name \in Names
      /\ all_renames_succeeded \in BOOLEAN /\ flush_ok \in BOOLEAN /\ pc \in Stages
      /\ file_size \in 0 .. Capacity \union {SizeError} /\ file_size \in Nat
      /\ Capacity \in Nat /\ PassCount(config) \in Nat
  BY Types
<1>1. CASE NotRegular
  <2>1. record' \in Audit
    BY <1>0, <1>1 DEF NotRegular, Audit, RecordStatus, PassCount
  <2>2. /\ pc = "start" /\ pc' = "done"
        /\ UNCHANGED <<file, at, result, config, file_size, passes_executed, written, flush_ok,
                       checked, mix, name, all_renames_succeeded>>
    BY <1>1 DEF NotRegular
  <2>3. pc' \in Stages
    BY <2>2 DEF Stages
  <2> QED
    BY <1>0, <2>1, <2>2, <2>3, ShredFrame
<1>2. CASE Measure
  <2>1. /\ pc = "start" /\ pc' = "open" /\ file_size' \in {file.size, SizeError}
        /\ UNCHANGED <<file, at, result, config, passes_executed, written, flush_ok, checked, mix,
                       name, all_renames_succeeded, record>>
    BY <1>2 DEF Measure
  <2>2. pc' \in Stages
    BY <2>1 DEF Stages
  <2> QED
    BY <1>0, <2>1, <2>2, ShredFrame
<1>3. ASSUME pc \in {"open", "pass"}, FailOverwrite, file' \in File,
             UNCHANGED <<result, config, file_size, flush_ok, checked, mix, name,
                         all_renames_succeeded>>
      PROVE  Bounded'
  <2>1. /\ pc' = "done" /\ record' = [record EXCEPT !.status = "FAILED_OVERWRITE"]
        /\ UNCHANGED <<at, passes_executed, written>>
    BY <1>3 DEF FailOverwrite
  <2>2. record' \in Audit
    BY <1>0, <2>1 DEF Audit, RecordStatus
  <2>3. pc' \in Stages
    BY <2>1 DEF Stages
  <2> QED
    BY <1>0, <1>3, <2>1, <2>2, <2>3, ShredFrame
<1>4. ASSUME pc \in {"open", "pass"}, NEW n \in 0 .. PassCount(config), AfterPass(n),
             file' \in File,
             UNCHANGED <<result, config, file_size, flush_ok, checked, mix, name,
                         all_renames_succeeded>>
      PROVE  Bounded'
  <2>1. /\ passes_executed' = n /\ written' = 0 /\ written' \in 0 .. Capacity
        /\ \/ pc' = "pass" /\ file_size > 0 /\ UNCHANGED <<at, record>>
           \/ /\ pc' = "flush" /\ at' = "flush"
              /\ record' = [record EXCEPT !.passes_completed = n]
    BY <1>0, <1>4 DEF AfterPass
  <2>2. record' \in Audit
    BY <1>0, <2>1 DEF Audit
  <2>3. pc' \in Stages
    BY <2>1 DEF Stages
  <2> QED
    BY <1>0, <1>4, <2>1, <2>2, <2>3, ShredFrame
<1>5. CASE OpenTarget
  <2>1. /\ pc = "open"
        /\ UNCHANGED <<file, result, config, file_size, flush_ok, checked, mix, name,
                       all_renames_succeeded>>
    BY <1>5 DEF OpenTarget
  <2>2. 0 \in 0 .. PassCount(config)
    BY <1>0
  <2> QED
    BY <1>0, <1>3, <1>4, <1>5, <2>1, <2>2 DEF OpenTarget
<1>6. CASE WriteChunk
  <2> DEFINE content == PassContent(config, passes_executed + 1)
             chunk   == Chunk(written)
  <2>1. /\ pc = "pass" /\ written < file_size
        /\ UNCHANGED <<result, config, file_size, flush_ok, checked, mix, name,
                       all_renames_succeeded>>
    BY <1>6 DEF WriteChunk, Bounded
  <2>2. content \in Content \ {"orig"}
    BY PassContentType, MethodType
  <2>3. chunk \in Nat \ {0}
    BY <1>0, <2>1, ChunkType
  <2>4. ASSUME NEW m \in 0 .. chunk, written + m <= Capacity,
               file' = Write(file, written + 1, written + m, content)
        PROVE  file' \in File
    <3>1. written + 1 \in Nat \ {0} /\ written + m \in 0 .. Capacity /\ {} \in SUBSET Cells
      BY <1>0, <2>3, <2>4
    <3> QED
      BY <1>0, <2>2, <2>4, <3>1, WriteLemma
  <2>5. passes_executed + 1 \in 0 .. PassCount(config)
    BY <1>0, <2>1 DEF Inv, Progress
  <2>6. CASE /\ written + chunk <= Capacity
             /\ file' = Write(file, written + 1, written + chunk, content)
             /\ IF written + chunk < file_size
                  THEN written' = written + chunk /\ UNCHANGED <<pc, at, passes_executed, record>>
                  ELSE AfterPass(passes_executed + 1)
    <3>1. file' \in File
      BY <2>3, <2>4, <2>6
    <3>2. CASE written + chunk < file_size
      <4>1. written' = written + chunk /\ UNCHANGED <<pc, at, passes_executed, record>>
        BY <2>6, <3>2
      <4>2. written' \in 0 .. Capacity /\ written' < file_size'
        BY <1>0, <2>1, <2>3, <2>6, <3>2, <4>1
      <4> QED
        BY <1>0, <2>1, <3>1, <4>1, <4>2, ShredFrame
    <3>3. CASE ~ (written + chunk < file_size)
      BY <1>4, <2>1, <2>5, <2>6, <3>1, <3>3
    <3> QED
      BY <3>2, <3>3
  <2>7. CASE /\ \E m \in 0 .. chunk :
                  /\ written + m <= Capacity
                  /\ file' = Write(file, written + 1, written + m, content)
             /\ FailOverwrite
    BY <1>3, <2>1, <2>4, <2>7
  <2> QED
    BY <1>6, <2>6, <2>7 DEF WriteChunk
<1> QED
  BY <1>1, <1>2, <1>5, <1>6

\* The results of the platform functions are taken.
LEMMA ResultsBounded ==
  Inv /\ Bounded /\ UNCHANGED platformVars /\ (AfterFlush \/ AfterSlack \/ AfterDiscard)
    => Bounded'
<1> SUFFICES ASSUME Inv, Bounded, UNCHANGED platformVars,
                    AfterFlush \/ AfterSlack \/ AfterDiscard
             PROVE  Bounded'
  OBVIOUS
<1>0. /\ record \in Audit /\ file \in File /\ result \in P!Results
      /\ passes_executed \in 0 .. PassCount(config) /\ written \in 0 .. Capacity
      /\ checked \in 0 .. Capacity /\ mix \in SUBSET Content /\ name \in Names
      /\ all_renames_succeeded \in BOOLEAN /\ flush_ok \in BOOLEAN
  BY Types
<1>1. /\ result.ok \in BOOLEAN /\ result.status \in P!Status
  BY <1>0 DEF P!Results
<1>2. /\ at = "returned" /\ result' = NoResult /\ at' \in {"slack", "idle"}
      /\ pc = "slack" => at' = "idle"
      /\ pc' \in Stages \ {"pass"} /\ flush_ok' \in BOOLEAN
      /\ UNCHANGED <<file, config, file_size, passes_executed, written, checked, mix, name,
                     all_renames_succeeded>>
  BY <1>0, <1>1 DEF AfterFlush, AfterSlack, AfterDiscard, Stages
<1>3. record' \in Audit
  <2>1. CASE AfterFlush
    BY <1>0, <2>1 DEF AfterFlush, Audit, PassCount
  <2>2. CASE AfterSlack
    BY <1>0, <1>1, <2>2 DEF AfterSlack, Audit
  <2>3. CASE AfterDiscard
    BY <1>0, <1>1, <2>3 DEF AfterDiscard, Audit
  <2> QED
    BY <2>1, <2>2, <2>3
<1> QED
  BY <1>0, <1>2, <1>3, ShredFrame

\* The read-back.
LEMMA ReadBackBounded ==
  Inv /\ Bounded /\ UNCHANGED platformVars /\ (OpenReadBack \/ ReadChunk) => Bounded'
<1> SUFFICES ASSUME Inv, Bounded, UNCHANGED platformVars, OpenReadBack \/ ReadChunk
             PROVE  Bounded'
  OBVIOUS
<1>0. /\ record \in Audit /\ file \in File /\ file.size \in 0 .. Capacity
      /\ passes_executed \in 0 .. PassCount(config) /\ written \in 0 .. Capacity
      /\ checked \in 0 .. Capacity /\ mix \in SUBSET Content /\ name \in Names
      /\ all_renames_succeeded \in BOOLEAN /\ flush_ok \in BOOLEAN
      /\ Capacity \in Nat /\ file_size \in Nat
  BY Types
<1>1. /\ pc \in {"verify", "checking"}
      /\ UNCHANGED <<file, result, config, file_size, passes_executed, written, flush_ok,
                     name, all_renames_succeeded>>
  BY DEF OpenReadBack, ReadChunk
<1>2. ASSUME NEW passed \in BOOLEAN, Verdict(passed), checked' \in 0 .. Capacity PROVE Bounded'
  <2>1. /\ record' = [record EXCEPT !.verification_type = VerificationType,
                                    !.verification_passed = passed]
        /\ mix' = {} /\ pc' = "discard" /\ at' = "discard"
    BY <1>2 DEF Verdict
  <2>2. record' \in Audit
    BY <1>0, <2>1 DEF Audit, VerificationType
  <2>3. pc' \in Stages
    BY <2>1 DEF Stages
  <2> QED
    BY <1>0, <1>1, <1>2, <2>1, <2>2, <2>3, ShredFrame
<1>3. ASSUME pc' = "checking", UNCHANGED <<at, record>>, mix' \in SUBSET Content,
             checked' \in 0 .. Capacity
      PROVE  Bounded'
  <2>1. pc' \in Stages
    BY <1>3 DEF Stages
  <2>2. record' \in Audit
    BY <1>0, <1>1, <1>3 DEF Audit
  <2> QED
    BY <1>0, <1>1, <1>3, <2>1, <2>2, ShredFrame
<1>4. CASE OpenReadBack
  <2>1. checked' \in 0 .. Capacity
    BY <1>0, <1>4 DEF OpenReadBack
  <2> QED
    BY <1>0, <1>2, <1>3, <1>4, <2>1 DEF OpenReadBack
<1>5. CASE ReadChunk
  <2>1. pc = "checking"
    BY <1>5 DEF ReadChunk
  <2>2. PICK m \in 0 .. Chunk(checked) :
               \E bytes \in [checked + 1 .. checked + m -> Content] :
                 LET seen == mix \union {bytes[i] : i \in checked + 1 .. checked + m}
                 IN  /\ checked + m <= file.size
                     /\ checked' = checked + m
                     /\ IF FinalPassZero(config) /\ ~ seen \subseteq {"zero"}
                          THEN Verdict(FALSE)
                          ELSE IF KeepReading(m, Chunk(checked), checked')
                          THEN mix' = seen /\ UNCHANGED <<pc, at, record>>
                          ELSE \E passed \in Verdicts(checked', seen) : Verdict(passed)
    BY <1>5 DEF ReadChunk
  <2>3. PICK bytes \in [checked + 1 .. checked + m -> Content] :
               LET seen == mix \union {bytes[i] : i \in checked + 1 .. checked + m}
               IN  /\ checked + m <= file.size
                   /\ checked' = checked + m
                   /\ IF FinalPassZero(config) /\ ~ seen \subseteq {"zero"}
                        THEN Verdict(FALSE)
                        ELSE IF KeepReading(m, Chunk(checked), checked')
                        THEN mix' = seen /\ UNCHANGED <<pc, at, record>>
                        ELSE \E passed \in Verdicts(checked', seen) : Verdict(passed)
    BY <2>2
  <2> DEFINE seen == mix \union {bytes[i] : i \in checked + 1 .. checked + m}
  <2>4. seen \in SUBSET Content
    BY <1>0
  <2> HIDE DEF seen
  <2>5. /\ checked + m <= file.size
        /\ checked' = checked + m
        /\ IF FinalPassZero(config) /\ ~ seen \subseteq {"zero"}
             THEN Verdict(FALSE)
             ELSE IF KeepReading(m, Chunk(checked), checked')
             THEN mix' = seen /\ UNCHANGED <<pc, at, record>>
             ELSE \E passed \in Verdicts(checked', seen) : Verdict(passed)
    BY <2>3 DEF seen
  <2>6. Chunk(checked) \in Int
    BY <1>0, ShredderAssumption DEF Chunk
  <2>7. checked' \in 0 .. Capacity
    BY <1>0, <2>5, <2>6
  <2>8. Verdicts(checked', seen) \subseteq BOOLEAN
    BY DEF Verdicts, EntropyVerdicts
  <2> QED
    BY <1>2, <1>3, <2>1, <2>4, <2>5, <2>7, <2>8
<1> QED
  BY <1>4, <1>5

\* The renames and the unlink.
LEMMA ScrubBounded ==
  Inv /\ Bounded /\ UNCHANGED platformVars /\ (MaskZeros \/ MaskAs \/ ShrinkName \/ Unlink)
    => Bounded'
<1> SUFFICES ASSUME Inv, Bounded, UNCHANGED platformVars,
                    MaskZeros \/ MaskAs \/ ShrinkName \/ Unlink
             PROVE  Bounded'
  OBVIOUS
<1>0. /\ record \in Audit /\ file \in File
      /\ passes_executed \in 0 .. PassCount(config) /\ written \in 0 .. Capacity
      /\ checked \in 0 .. Capacity /\ mix \in SUBSET Content /\ name \in Names
      /\ all_renames_succeeded \in BOOLEAN /\ flush_ok \in BOOLEAN
  BY Types
<1>1. CASE MaskZeros \/ MaskAs \/ ShrinkName
  <2>1. /\ pc # "slack" /\ pc' \in Stages \ {"pass"} /\ name' \in Names
        /\ all_renames_succeeded' \in BOOLEAN
        /\ UNCHANGED <<file, at, result, config, file_size, passes_executed, written, flush_ok,
                       checked, mix, record>>
    BY <1>0, <1>1 DEF MaskZeros, MaskAs, ShrinkName, Rename, Names, Stages
  <2>2. record' \in Audit
    BY <1>0, <2>1 DEF Audit
  <2> QED
    BY <1>0, <2>1, <2>2, ShredFrame
<1>2. CASE Unlink
  <2>1. PICK removed \in BOOLEAN :
          /\ name' = IF removed THEN "none" ELSE name
          /\ file' = IF removed THEN Dropped(file) ELSE file
          /\ record' = [record EXCEPT !.metadata_scrub_completed = removed /\ all_renames_succeeded,
                                      !.status = FinalStatus(removed /\ all_renames_succeeded)]
    BY <1>2 DEF Unlink
  <2>2. /\ pc = "unlink" /\ pc' = "done"
        /\ UNCHANGED <<at, result, config, file_size, passes_executed, written, flush_ok,
                       checked, mix, all_renames_succeeded>>
    BY <1>2 DEF Unlink
  <2>3. file' \in File
    BY <1>0, <2>1, DroppedCells
  <2>4. /\ (removed /\ all_renames_succeeded) \in BOOLEAN
        /\ FinalStatus(removed /\ all_renames_succeeded) \in RecordStatus
    BY DEF FinalStatus, RecordStatus
  <2>5. record' \in Audit
    BY <1>0, <2>1, <2>2, <2>4 DEF Audit
  <2>6. name' \in Names /\ pc' \in Stages
    BY <1>0, <2>1, <2>2 DEF Names, Stages
  <2> QED
    BY <1>0, <2>2, <2>3, <2>5, <2>6, ShredFrame
<1> QED
  BY <1>1, <1>2

\* Every step keeps the types and the bounds.
LEMMA StepBounded == Inv /\ Bounded /\ [Next]_vars => Bounded'
<1>1. Inv /\ Bounded /\ Shred => Bounded'
  BY PassesBounded, ResultsBounded, ReadBackBounded, ScrubBounded DEF Shred, ShredStep
<1>2. Bounded /\ UNCHANGED vars => Bounded'
  <2> SUFFICES ASSUME Bounded, UNCHANGED vars PROVE Bounded'
    OBVIOUS
  <2>1. /\ UNCHANGED <<file, at, result, pc, config, file_size, passes_executed, written>>
        /\ UNCHANGED <<flush_ok, checked, mix, name, all_renames_succeeded, record>>
        /\ UNCHANGED <<fs, attributes, resident, fs_name, total_written>>
    BY DEF vars, shredderVars, platformVars
  <2>2. ShredderTypeOK(P!Status)'
    BY <2>1 DEF Bounded, TypeOK, ShredderTypeOK
  <2>3. TypeOK'
    BY <2>1, <2>2 DEF Bounded, TypeOK
  <2>4. Boundary(file_size)' = Boundary(file_size) /\ P!Fill' = P!Fill
    BY <2>1 DEF Boundary, P!Fill, P!Boundary
  <2> QED
    BY <2>1, <2>3, <2>4 DEF Bounded
<1> QED
  BY <1>1, <1>2, PlatformBounded DEF Next, Program

----------------------------------------------------------------------------

\* Of a file whose size is known, the length that is zeroed is its clusters, or its
\* size when the cluster size could not be found out.
LEMMA Aligned ==
  ASSUME file_size \in 0 .. Capacity
  PROVE  /\ P!AlignedLength(Unit) = Boundary(file_size)
         /\ P!AlignedLength(1) = file_size
<1>1. file_size # P!SizeError
  BY StorageAssumption DEF P!SizeError
<1>2. file_size < Wrap /\ file_size \in Nat /\ Wrap \in Nat
  BY StorageAssumption
<1>3. (((file_size + 1 - 1) % Wrap) \div 1) * 1 = file_size
  <2>1. (file_size + 1 - 1) % Wrap = file_size
    BY <1>2
  <2>2. (file_size \div 1) * 1 = file_size
    BY <1>2
  <2> QED
    BY <2>1, <2>2
<1>4. (((file_size + Unit - 1) % Wrap) \div Unit) * Unit = Boundary(file_size)
  BY RoundedUp, RoundingFits
<1> QED
  BY <1>1, <1>3, <1>4 DEF P!AlignedLength

----------------------------------------------------------------------------
\* Of a file whose size is known, the whole clusters have been given back.
GivenBack == file_size # SizeError => FullUnits(file_size) \subseteq file.hole

\* Data in the MFT record fills no cluster, as long as it stays there.
MftData ==
  /\ (pc = "start" /\ resident) => file.size < Unit
  /\ (pc \notin {"start", "done"} /\ resident) => file_size < Unit \/ file_size = SizeError

\* The verdict and the TRIM: nothing is claimed before its time, and from the
\* zeroing to the record the claim follows what was done.
Judging ==
  /\ pc # "done" => record.status = "PENDING"
  /\ pc \notin Judged \union {"done"} =>
       record.verification_type = "NONE" /\ ~ record.verification_passed
  /\ pc \notin {"mask0", "maskA", "shrink", "unlink", "done"} => ~ record.trim_invoked
  /\ MftData
  /\ at \in {"discard", "sparse", "zero"} => file.hole = {}
  /\ at = "invoked" => GivenBack
  /\ (pc = "discard" /\ at = "returned") => IF result.ok THEN GivenBack ELSE file.hole = {}
  /\ TrimOfKnownSizeReported
  /\ ZeroCheckReadsAll

\* Nothing is claimed before the call has done anything.
LEMMA InitJudging == Init => Judging
<1> SUFFICES ASSUME Init PROVE Judging
  OBVIOUS
<1>1. at = "idle" /\ pc = "start" /\ record = NewRecord
  BY DEF Init, ShredderInit
<1>2. resident => file.size < Unit
  BY DEF Init, P!Possible
<1> QED
  BY <1>1, <1>2 DEF Judging, MftData, NewRecord, Judged, TrimOfKnownSizeReported,
     TrimReportedHonestly, ZeroCheckReadsAll

\* What is left to show of a step of the platform layer or of the lazy writer.
LEMMA PlatformJudging ==
  ASSUME Inv, Bounded, Judging, Platform \/ Kernel,
         at' \in {"discard", "sparse", "zero"} => file'.hole = {},
         at' = "invoked" => GivenBack',
         (pc = "discard" /\ at' = "returned") =>
           IF result'.ok THEN GivenBack' ELSE file'.hole = {},
         pc = "start" => file'.size = file.size,
         pc \in {"mask0", "maskA", "shrink", "unlink", "done"} => file'.hole = file.hole
  PROVE  Judging'
<1>1. /\ pc' = pc /\ record' = record /\ file_size' = file_size /\ checked' = checked
  BY DEF Platform, Kernel, shredderVars
<1>2. resident' => resident
  BY PlatformStepped DEF Stepped
<1>3. MftData'
  BY <1>1, <1>2 DEF Judging, MftData
<1>4. FullUnits(file_size)' = FullUnits(file_size)
  BY <1>1 DEF FullUnits
<1> QED
  BY <1>1, <1>3, <1>4 DEF Judging, TrimOfKnownSizeReported, TrimReportedHonestly,
     ZeroCheckReadsAll

\* Before discard_file_blocks the platform layer has no part in it.
LEMMA ElsewhereJudging ==
  Inv /\ Bounded /\ Judging /\ UNCHANGED shredderVars
    /\ (P!Flush \/ P!SlackEnter \/ P!CheckAttributes \/ P!OpenAndLocate
          \/ P!Grow \/ P!Seek \/ P!WriteSlack \/ P!FlushSlack \/ P!Restore \/ P!Finish)
  => Judging'
<1> SUFFICES ASSUME Inv, Bounded, Judging, UNCHANGED shredderVars,
                    \/ P!Flush \/ P!SlackEnter \/ P!CheckAttributes \/ P!OpenAndLocate
                    \/ P!Grow \/ P!Seek \/ P!WriteSlack \/ P!FlushSlack \/ P!Restore \/ P!Finish
             PROVE  Judging'
  OBVIOUS
<1>1. at \in {"flush"} \union SlackLabels
  BY DEF P!Flush, P!SlackEnter, P!CheckAttributes, P!OpenAndLocate, P!Grow, P!Seek,
     P!WriteSlack, P!FlushSlack, P!Restore, P!Finish, SlackLabels
<1>2. at' \notin DiscardLabels
  BY DEF P!Flush, P!SlackEnter, P!CheckAttributes, P!OpenAndLocate, P!Grow, P!Seek,
     P!WriteSlack, P!FlushSlack, P!Restore, P!Finish, P!Return, P!ReturnAfter, P!Goto, P!GiveUp, P!FailUnrestored, DiscardLabels
<1>3. pc \in {"flush", "slack"}
  BY <1>1 DEF Inv, Turns
<1>4. Platform
  BY DEF Platform, P!Step
<1> QED
  BY <1>2, <1>3, <1>4, PlatformJudging DEF DiscardLabels

\* Zeroing the range gives the whole clusters back, whichever unit it was rounded
\* up with; there are none in the MFT record.
LEMMA ZeroGives ==
  ASSUME Inv, Bounded, Judging, UNCHANGED shredderVars, P!ZeroData, at' = "invoked"
  PROVE  GivenBack'
<1>0. pc = "discard" /\ file_size' = file_size
  BY DEF P!ZeroData, Inv, Turns, DiscardLabels, shredderVars
<1> SUFFICES ASSUME file_size # SizeError PROVE FullUnits(file_size) \subseteq file'.hole
  BY <1>0 DEF GivenBack, FullUnits
<1>1. file_size \in 0 .. Capacity
  BY Types
<1>2. CASE resident
  <2>1. FullUnits(file_size) = {}
    BY <1>0, <1>1, <1>2, WholeUnits DEF Judging, MftData
  <2> QED
    BY <2>1
<1>3. CASE ~ resident
  <2>1. PICK unit \in {Unit, 1} : file' = P!Punch(file, P!AlignedLength(unit))
    BY <1>3 DEF P!ZeroData, P!Return, P!ReturnAfter, P!cluster_size_of
  <2>2. FullUnits(P!AlignedLength(unit)) \subseteq file'.hole
    BY <2>1, SameFile DEF Punch
  <2>3. FullUnits(file_size) \subseteq FullUnits(P!AlignedLength(Unit))
    BY <1>1, Aligned, RoundedUp, RoundingFits, WholeUnits
  <2> QED
    BY <1>1, <2>2, <2>3, Aligned
<1> QED
  BY <1>2, <1>3

\* discard_file_blocks says TRUE on the path through the zeroing, and only there.
LEMMA DiscardJudging ==
  Inv /\ Bounded /\ Judging /\ UNCHANGED shredderVars
    /\ (P!DiscardOpen \/ P!SetSparse \/ P!ZeroData \/ P!Invoked) => Judging'
<1> SUFFICES ASSUME Inv, Bounded, Judging, UNCHANGED shredderVars,
                    P!DiscardOpen \/ P!SetSparse \/ P!ZeroData \/ P!Invoked
             PROVE  Judging'
  OBVIOUS
<1>1. pc = "discard" /\ Platform
  BY DEF P!DiscardOpen, P!SetSparse, P!ZeroData, P!Invoked, DiscardLabels, Inv, Turns,
     Platform, P!Step
<1>2. CASE P!DiscardOpen
  <2>1. /\ file'.hole = file.hole /\ at = "discard" /\ at' \in {"sparse", "returned"}
        /\ at' = "returned" => result'.ok = FALSE
    BY <1>2, FlushedKeeps DEF P!DiscardOpen, P!Return, P!ReturnAfter, P!Goto
  <2> QED
    BY <1>1, <2>1, PlatformJudging DEF Judging
<1>3. CASE P!SetSparse
  <2>1. /\ file' = file /\ at = "sparse" /\ at' \in {"zero", "returned"}
        /\ at' = "returned" => result'.ok = FALSE
    BY <1>3 DEF P!SetSparse, P!Return, P!ReturnAfter, P!Goto
  <2> QED
    BY <1>1, <2>1, PlatformJudging DEF Judging
<1>4. CASE P!ZeroData
  <2>1. /\ at = "zero" /\ at' \in {"invoked", "returned"}
        /\ at' = "returned" => result'.ok = FALSE /\ file' = file
    BY <1>4 DEF P!ZeroData, P!Return, P!ReturnAfter, P!Goto
  <2>2. at' = "invoked" => GivenBack'
    BY <1>4, ZeroGives
  <2> QED
    BY <1>1, <2>1, <2>2, PlatformJudging DEF Judging
<1>5. CASE P!Invoked
  <2>1. /\ file' = file /\ at = "invoked" /\ at' = "returned" /\ result'.ok
        /\ file_size' = file_size
    BY <1>5 DEF P!Invoked, P!Return, P!ReturnAfter, shredderVars
  <2>2. GivenBack'
    BY <2>1 DEF Judging, GivenBack, FullUnits
  <2> QED
    BY <1>1, <2>1, <2>2, PlatformJudging
<1> QED
  BY <1>2, <1>3, <1>4, <1>5

\* Write-back gives no clusters back.
LEMMA KernelJudging == Inv /\ Bounded /\ Judging /\ Kernel => Judging'
<1> SUFFICES ASSUME Inv, Bounded, Judging, Kernel PROVE Judging'
  OBVIOUS
<1>1. /\ UNCHANGED shredderVars /\ file' \in P!WriteBacks(file, P!Cow)
      /\ UNCHANGED <<at, result>>
  BY DEF Kernel, P!LazyWriter
<1>2. file'.hole = file.hole /\ file'.size = file.size
  BY <1>1, WriteBackKeeps
<1>3. file_size' = file_size
  BY <1>1 DEF shredderVars
<1>4. GivenBack => GivenBack'
  BY <1>2, <1>3 DEF GivenBack, FullUnits
<1> QED
  BY <1>1, <1>2, <1>4, PlatformJudging DEF Judging

\* shred_file itself never moves the data, and takes the size as it finds it.
LEMMA ShredMft ==
  ASSUME Judging, UNCHANGED platformVars, ShredStep
  PROVE  MftData'
<1>1. resident' <=> resident
  BY DEF platformVars
<1>2. CASE NotRegular
  BY <1>2 DEF NotRegular, MftData
<1>3. CASE Measure
  <2>1. pc = "start" /\ pc' = "open" /\ file_size' \in {file.size, SizeError}
    BY <1>3 DEF Measure
  <2> QED
    BY <1>1, <2>1 DEF Judging, MftData, SizeError
<1>4. CASE OpenTarget \/ WriteChunk
  <2>1. pc \in {"open", "pass"} /\ pc' \in {"pass", "flush", "done"} /\ file_size' = file_size
    BY <1>4 DEF OpenTarget, WriteChunk, FailOverwrite, AfterPass
  <2> QED
    BY <1>1, <2>1 DEF Judging, MftData, SizeError
<1>5. CASE \/ AfterFlush \/ AfterSlack \/ OpenReadBack \/ ReadChunk \/ AfterDiscard
           \/ MaskZeros \/ MaskAs \/ ShrinkName \/ Unlink
  <2>1. /\ pc \notin {"start", "done"} /\ pc' # "start" /\ file_size' = file_size
    BY <1>5 DEF AfterFlush, AfterSlack, OpenReadBack, ReadChunk, AfterDiscard, Verdict,
       MaskZeros, MaskAs, ShrinkName, Rename, Unlink
  <2> QED
    BY <1>1, <2>1 DEF Judging, MftData, SizeError
<1> QED
  BY <1>2, <1>3, <1>4, <1>5 DEF ShredStep
\* The steps of shred_file up to the verdict: nothing is given back yet.
LEMMA BeforeVerdictJudging ==
  Inv /\ Bounded /\ Judging /\ UNCHANGED platformVars
    /\ (NotRegular \/ Measure \/ OpenTarget \/ WriteChunk \/ AfterFlush \/ AfterSlack)
  => Judging'
<1> SUFFICES ASSUME Inv, Bounded, Judging, UNCHANGED platformVars,
                    NotRegular \/ Measure \/ OpenTarget \/ WriteChunk \/ AfterFlush \/ AfterSlack
             PROVE  Judging'
  OBVIOUS
<1>m. MftData'
  BY ShredMft DEF ShredStep
<1>0. record \in Audit
  BY Types
<1>1. pc \in {"start", "open", "pass", "flush", "slack"}
  BY DEF NotRegular, Measure, OpenTarget, WriteChunk, AfterFlush, AfterSlack
<1>2. /\ record.status = "PENDING" /\ record.verification_type = "NONE"
      /\ ~ record.verification_passed /\ ~ record.trim_invoked
  BY <1>1 DEF Judging, Judged
<1>3. file.hole = {}
  BY <1>1 DEF Inv, Progress, Judged
<1>4. file'.hole = {}
  BY <1>3 DEF NotRegular, Measure, OpenTarget, WriteChunk, AfterFlush, AfterSlack, Write
<1>5. /\ record'.verification_type = "NONE"
      /\ ~ record'.verification_passed /\ ~ record'.trim_invoked
      /\ pc' # "done" => record'.status = "PENDING"
      /\ pc' \notin Judged
  BY <1>0, <1>2 DEF NotRegular, Measure, OpenTarget, WriteChunk, AfterFlush, AfterSlack,
     FailOverwrite, AfterPass, Audit, Judged
<1>6. at' \notin DiscardLabels
  <2>1. at \notin DiscardLabels
    BY <1>1 DEF Inv, Turns
  <2> QED
    BY <2>1 DEF NotRegular, Measure, OpenTarget, WriteChunk, AfterFlush, AfterSlack,
       FailOverwrite, AfterPass, DiscardLabels
<1> QED
  BY <1>m, <1>4, <1>5, <1>6 DEF Judging, DiscardLabels, Judged, TrimOfKnownSizeReported,
     TrimReportedHonestly, ZeroCheckReadsAll

\* The read-back passes a zero check only at the end of the file.
LEMMA ReadBackJudging ==
  Inv /\ Bounded /\ Judging /\ UNCHANGED platformVars /\ (OpenReadBack \/ ReadChunk) => Judging'
<1> SUFFICES ASSUME Inv, Bounded, Judging, UNCHANGED platformVars, OpenReadBack \/ ReadChunk
             PROVE  Judging'
  OBVIOUS
<1>m. MftData'
  BY ShredMft DEF ShredStep
<1>0. record \in Audit
  BY Types
<1>1. /\ pc \in {"verify", "checking"}
      /\ UNCHANGED <<file, result, config, file_size>>
  BY DEF OpenReadBack, ReadChunk
<1>2. /\ record.status = "PENDING" /\ record.verification_type = "NONE"
      /\ ~ record.verification_passed /\ ~ record.trim_invoked /\ file.hole = {}
  BY <1>1 DEF Inv, Judging, Progress, Judged
<1>3. at \notin DiscardLabels
  BY <1>1 DEF Inv, Turns
<1>4. ASSUME NEW passed \in BOOLEAN, Verdict(passed),
             (passed /\ FinalPassZero(config)) => checked' = file_size
      PROVE  Judging'
  <2>1. /\ record'.status = "PENDING" /\ ~ record'.trim_invoked
        /\ record'.verification_type = VerificationType /\ record'.verification_passed = passed
        /\ pc' = "discard" /\ at' = "discard"
    BY <1>0, <1>2, <1>4 DEF Verdict, Audit
  <2>2. file'.hole = {} /\ file_size' = file_size
    BY <1>1, <1>2
  <2>3. ZeroCheckReadsAll'
    BY <1>4, <2>1, <2>2 DEF ZeroCheckReadsAll, VerificationType
  <2> QED
    BY <1>m, <2>1, <2>2, <2>3 DEF Judging, Judged, TrimOfKnownSizeReported,
       TrimReportedHonestly
<1>5. CASE pc' = "checking" /\ UNCHANGED <<at, record>>
  BY <1>m, <1>1, <1>2, <1>3, <1>5 DEF Judging, Judged, DiscardLabels,
     TrimOfKnownSizeReported, TrimReportedHonestly, ZeroCheckReadsAll
<1>6. CASE OpenReadBack
  <2>1. \/ file_size = 0 /\ checked' = 0 /\ Verdict(TRUE)
        \/ Verdict(FALSE)
        \/ pc' = "checking" /\ UNCHANGED <<at, record>>
    BY <1>6 DEF OpenReadBack
  <2> QED
    BY <1>4, <1>5, <2>1
<1>7. CASE ReadChunk
  <2>1. pc = "checking"
    BY <1>7 DEF ReadChunk
  <2>2. PICK m \in 0 .. Chunk(checked) :
               \E bytes \in [checked + 1 .. checked + m -> Content] :
                 LET seen == mix \union {bytes[i] : i \in checked + 1 .. checked + m}
                 IN  IF FinalPassZero(config) /\ ~ seen \subseteq {"zero"}
                       THEN Verdict(FALSE)
                       ELSE IF KeepReading(m, Chunk(checked), checked')
                       THEN mix' = seen /\ UNCHANGED <<pc, at, record>>
                       ELSE \E passed \in Verdicts(checked', seen) : Verdict(passed)
    BY <1>7 DEF ReadChunk
  <2>3. PICK seen :
               IF FinalPassZero(config) /\ ~ seen \subseteq {"zero"}
                 THEN Verdict(FALSE)
                 ELSE IF KeepReading(m, Chunk(checked), checked')
                 THEN mix' = seen /\ UNCHANGED <<pc, at, record>>
                 ELSE \E passed \in Verdicts(checked', seen) : Verdict(passed)
    BY <2>2
  <2>4. ASSUME NEW passed \in Verdicts(checked', seen), Verdict(passed)
        PROVE  Judging'
    <3>1. passed \in BOOLEAN /\ ((passed /\ FinalPassZero(config)) => checked' = file_size)
      BY DEF Verdicts, EntropyVerdicts
    <3> QED
      BY <1>4, <2>4, <3>1
  <2> QED
    BY <1>4, <1>5, <2>1, <2>3, <2>4
<1> QED
  BY <1>6, <1>7

\* The record takes over what discard_file_blocks said, and keeps it.
LEMMA ScrubJudging ==
  Inv /\ Bounded /\ Judging /\ UNCHANGED platformVars
    /\ (AfterDiscard \/ MaskZeros \/ MaskAs \/ ShrinkName \/ Unlink) => Judging'
<1> SUFFICES ASSUME Inv, Bounded, Judging, UNCHANGED platformVars,
                    AfterDiscard \/ MaskZeros \/ MaskAs \/ ShrinkName \/ Unlink
             PROVE  Judging'
  OBVIOUS
<1>m. MftData'
  BY ShredMft DEF ShredStep
<1>0. record \in Audit /\ file \in File
  BY Types
<1>1. CASE AfterDiscard
  <2>1. /\ pc = "discard" /\ at = "returned" /\ pc' = "mask0" /\ at' = "idle"
        /\ record' = [record EXCEPT !.trim_invoked = result.ok]
        /\ UNCHANGED <<file, config, file_size, checked>>
    BY <1>1 DEF AfterDiscard
  <2>2. record' \in Audit /\ record'.trim_invoked = result.ok
        /\ record'.status = record.status
        /\ record'.verification_passed = record.verification_passed
        /\ record'.verification_type = record.verification_type
    BY <1>0, <2>1, Types DEF Audit, P!Results
  <2>3. FullUnits(file_size)' = FullUnits(file_size)
    BY <2>1 DEF FullUnits
  <2> QED
    BY <1>m, <2>1, <2>2, <2>3 DEF Judging, GivenBack, Judged, TrimOfKnownSizeReported,
       TrimReportedHonestly, ZeroCheckReadsAll
<1>2. CASE MaskZeros \/ MaskAs \/ ShrinkName \/ Unlink
  <2>1. /\ pc \in {"mask0", "maskA", "shrink", "unlink"}
        /\ pc' \in {"maskA", "shrink", "unlink", "done"}
        /\ UNCHANGED <<at, result, config, file_size, checked>>
        /\ file'.hole = file.hole
    BY <1>0, <1>2, DroppedCells DEF MaskZeros, MaskAs, ShrinkName, Rename, Unlink
  <2>2. /\ record'.trim_invoked = record.trim_invoked
        /\ record'.verification_passed = record.verification_passed
        /\ record'.verification_type = record.verification_type
        /\ pc' # "done" => record'.status = record.status
    BY <1>0, <1>2 DEF MaskZeros, MaskAs, ShrinkName, Rename, Unlink, Audit
  <2>3. at \notin DiscardLabels
    BY <2>1 DEF Inv, Turns
  <2>4. FullUnits(file_size)' = FullUnits(file_size)
    BY <2>1 DEF FullUnits
  <2> QED
    BY <1>m, <2>1, <2>2, <2>3, <2>4 DEF Judging, Judged, DiscardLabels,
       TrimOfKnownSizeReported, TrimReportedHonestly, ZeroCheckReadsAll
<1> QED
  BY <1>1, <1>2

\* Every step keeps the claims true.
LEMMA StepJudging == Inv /\ Bounded /\ Judging /\ [Next]_vars => Judging'
<1>1. Inv /\ Bounded /\ Judging /\ Shred => Judging'
  BY BeforeVerdictJudging, ReadBackJudging, ScrubJudging DEF Shred, ShredStep
<1>2. Inv /\ Bounded /\ Judging /\ Platform => Judging'
  BY ElsewhereJudging, DiscardJudging DEF Platform, P!Step
<1>3. Judging /\ UNCHANGED vars => Judging'
  <2> SUFFICES ASSUME Judging, UNCHANGED vars PROVE Judging'
    OBVIOUS
  <2>1. UNCHANGED <<file, at, result, pc, file_size, checked, record, resident>>
    BY DEF vars, shredderVars, platformVars
  <2> QED
    BY <2>1 DEF Judging, MftData, GivenBack, TrimOfKnownSizeReported, TrimReportedHonestly,
       ZeroCheckReadsAll, FullUnits
<1> QED
  BY <1>1, <1>2, <1>3, KernelJudging DEF Next, Program

\* On Windows a TRIM is recorded exactly when the whole clusters of a file of known
\* size have been given back, whatever length FSCTL_SET_ZERO_DATA was asked to zero
\* and wherever the data lies.
THEOREM Win32TrimHonest == Spec => []TrimOfKnownSizeReported
<1>1. Judging => TrimOfKnownSizeReported
  BY DEF Judging
<1> QED
  BY InitInv, StepInv, InitBounded, StepBounded, InitJudging, StepJudging, <1>1, PTL DEF Spec

\* No zero check passes on a file it has not read to the end, on Windows either.
THEOREM Win32ZeroCheckComplete == Spec => []ZeroCheckReadsAll
<1>1. Judging => ZeroCheckReadsAll
  BY DEF Judging
<1> QED
  BY InitInv, StepInv, InitBounded, StepBounded, InitJudging, StepJudging, <1>1, PTL DEF Spec

----------------------------------------------------------------------------
\* The slack, from the target as it was found to the verdict.

\* What the passes and the kernel can write.
New == Content \ {"orig"}

Tail         == Slack(file_size)
Beyond       == {i \in Cells : i > file.size}
WrittenSlack == file_size + 1 .. file_size + total_written

\* The slack counts as settled; a sparse file's is left alone.
Settled(status, ok) == (ok \/ status \in SkippedPrefix) /\ status # "SKIPPED_SPARSE_FILE"

\* Before the size is measured the slack is not known: what lies past the end is
\* known instead.
SlackTrue ==
  /\ pc = "start" => /\ file_size = 0
                     /\ Cached(file, Beyond, New)
                     /\ resident => Stored(file, Beyond, New)
  /\ pc # "start" => /\ Cached(file, Tail, New)
                     /\ resident => Stored(file, Tail, New)
  /\ at = "write" => Reaching(file, WrittenSlack, New)
  /\ at = "sync" => Reaching(file, Tail, New)
  /\ at \in {"restore", "finish"} => Stored(file, Tail, New)
  /\ (pc = "slack" /\ at = "returned" /\ ~ SlackLeftAlone
        /\ Settled(result.status, result.ok)) => Stored(file, Tail, New)
  /\ (pc \in SlackDone /\ ~ SlackLeftAlone
        /\ Settled(record.slack_space_status, record.slack_space_eliminated)) =>
       Stored(file, Tail, New)
  /\ SuccessVerifiedIsTrue

\* The slack is made of cells.
LEMMA TailCells == Tail \in SUBSET Cells /\ Beyond \in SUBSET Cells
BY DEF Tail, Beyond, Slack

\* A size the code could not determine has no slack: its cells would lie beyond
\* any volume.
LEMMA NoTailPastVolume ==
  ASSUME NEW n \in Nat, n > Capacity \/ n % Unit = 0 PROVE Slack(n) = {}
<1>1. CASE n % Unit = 0
  <2>1. Boundary(n) = n
    BY <1>1 DEF Boundary
  <2> QED
    BY <2>1 DEF Slack
<1>2. CASE n > Capacity
  BY <1>2, StorageAssumption DEF Slack, Cells
<1> QED
  BY <1>1, <1>2

\* The target as it is found: past its end the cache holds zeros, and a file whose
\* data is in its MFT record has no cluster to hold anything there.
LEMMA InitSlackTrue == Init => SlackTrue
<1> SUFFICES ASSUME Init PROVE SlackTrue
  OBVIOUS
<1>1. /\ at = "idle" /\ pc = "start" /\ record = NewRecord /\ file_size = 0
  BY DEF Init, ShredderInit
<1>2. PICK n \in Sizes : \E unwritten \in SUBSET Body(n) :
        file = Target(n, unwritten, ~ resident)
  BY DEF Init, ShredderInit
<1>3. PICK unwritten \in SUBSET Body(n) : file = Target(n, unwritten, ~ resident)
  BY <1>2
<1>4. n \in Nat
  BY ShredderAssumption, StorageAssumption
<1>5. Cached(file, Beyond, New)
  BY <1>3, <1>4 DEF Cached, Beyond, New, Target, Content, Cells
<1>6. resident => Stored(file, Beyond, New)
  BY <1>3, <1>4 DEF Stored, Beyond, New, Target, Content, Cells
<1> QED
  BY <1>1, <1>5, <1>6 DEF SlackTrue, SlackDone, Judged, NewRecord, SuccessVerifiedIsTrue

\* What a step of the platform layer or the kernel leaves of what is known of
\* the slack: all but what a sync or a truncation may disturb.
LEMMA PlatformTail ==
  ASSUME Inv, Bounded, SlackTrue, UNCHANGED shredderVars, P!Step \/ P!LazyWriter
  PROVE  /\ pc # "start" => Cached(file', Tail, New)
         /\ Tail' = Tail
         /\ pc # "start" /\ Stored(file, Tail, New) => Stored(file', Tail, New)
         /\ pc # "start" /\ resident => Stored(file', Tail, New)
<1>1. "zero" \in New /\ FinalPattern(config) \in New
  BY FinalPatternType DEF New, Content
<1>2. file_size' = file_size
  BY DEF shredderVars
<1>3. Tail' = Tail
  BY <1>2 DEF Tail, Slack, Boundary
<1>4. ASSUME pc # "start"
      PROVE  /\ Cached(file', Tail, New)
             /\ Stored(file, Tail, New) => Stored(file', Tail, New)
  <2>1. Cached(file, Tail, New)
    BY <1>4 DEF SlackTrue
  <2> QED
    BY <1>1, <2>1, TailCells, PlatformCells
<1> QED
  BY <1>3, <1>4 DEF SlackTrue

\* What is left to show of a step of the platform layer.
LEMMA SlackFrame ==
  ASSUME Inv, Bounded, Judging, SlackTrue, Platform,
         at' = "write" => Reaching(file', WrittenSlack', New),
         at' = "sync" => Reaching(file', Tail, New),
         at' \in {"restore", "finish"} => Stored(file', Tail, New),
         (pc = "slack" /\ at' = "returned" /\ ~ SlackLeftAlone
            /\ Settled(result'.status, result'.ok)) => Stored(file', Tail, New)
  PROVE  SlackTrue'
<1>1. /\ pc' = pc /\ record' = record /\ name' = name /\ file_size' = file_size
      /\ UNCHANGED shredderVars /\ P!Step
  BY DEF Platform, shredderVars
<1>2. at \in {"flush"} \union SlackLabels \union DiscardLabels
  BY <1>1 DEF P!Step, P!Flush, P!SlackEnter, P!CheckAttributes, P!OpenAndLocate, P!Grow, P!Seek,
     P!WriteSlack, P!FlushSlack, P!Restore, P!Finish, P!DiscardOpen, P!SetSparse, P!ZeroData,
     P!Invoked, SlackLabels, DiscardLabels
<1>3. pc \in {"flush", "slack", "discard"}
  BY <1>2 DEF Inv, Turns
<1>4. /\ Cached(file', Tail, New) /\ Tail' = Tail
      /\ Stored(file, Tail, New) => Stored(file', Tail, New)
      /\ resident => Stored(file', Tail, New)
  BY <1>1, <1>3, PlatformTail
<1>5. resident' => resident
  BY PlatformStepped DEF Stepped
<1>s. SlackLeftAlone <=> SlackLeftAlone'
  <2>1. Stepped
    BY PlatformStepped
  <2> QED
    BY <2>1, Zenon DEF Stepped
<1>6. SuccessVerifiedIsTrue'
  <2>1. record'.status # "SUCCESS_VERIFIED"
    BY <1>1, <1>3 DEF Judging
  <2> QED
    BY <2>1 DEF SuccessVerifiedIsTrue
<1> QED
  BY <1>1, <1>3, <1>4, <1>5, <1>s, <1>6 DEF SlackTrue

\* flush_file_to_media and discard_file_blocks have no part in the slack.
LEMMA ElsewhereSlack ==
  Inv /\ Bounded /\ Judging /\ SlackTrue /\ UNCHANGED shredderVars
    /\ (P!Flush \/ P!DiscardOpen \/ P!SetSparse \/ P!ZeroData \/ P!Invoked) => SlackTrue'
<1> SUFFICES ASSUME Inv, Bounded, Judging, SlackTrue, UNCHANGED shredderVars,
                    P!Flush \/ P!DiscardOpen \/ P!SetSparse \/ P!ZeroData \/ P!Invoked
             PROVE  SlackTrue'
  OBVIOUS
<1>1. Platform
  BY DEF Platform, P!Step
<1>2. /\ at \in {"flush"} \union DiscardLabels
      /\ at' \in {"sparse", "zero", "invoked", "returned"}
  BY DEF P!Flush, P!DiscardOpen, P!SetSparse, P!ZeroData, P!Invoked, P!Return, P!ReturnAfter, P!Goto,
     DiscardLabels
<1>3. pc # "slack"
  BY <1>2 DEF Inv, Turns
<1> QED
  BY <1>1, <1>2, <1>3, SlackFrame

\* A failure claims nothing.
LEMMA FailedSlack ==
  ASSUME Inv, Bounded, Judging, SlackTrue, Platform, Failed
  PROVE  SlackTrue'
<1>1. at' = "returned" /\ result'.ok = FALSE /\ result'.status = "FAILED"
  BY DEF P!Return, P!ReturnAfter, P!FailUnrestored, Failed
<1>2. ~ Settled(result'.status, result'.ok)
  BY <1>1 DEF Settled, SkippedPrefix
<1> QED
  BY <1>1, <1>2, SlackFrame

\* What the code refuses is a file whose slack is left alone, or a sparse one; what
\* it takes for resident is resident, since only NTFS is asked.
LEMMA RefusedSlack ==
  ASSUME Bounded
  PROVE  /\ P!Refusal \in {"none", "SKIPPED_SPARSE_FILE"} \/ SlackLeftAlone
         /\ ("RESIDENT_OR_UNSUPPORTED" \in P!check_residency /\ fs_name = "NTFS") => resident
<1>1. fs_name \in {fs, "UNKNOWN"} /\ attributes \subseteq P!Attributes
  BY DEF Bounded, TypeOK
<1>2. ("RESIDENT_OR_UNSUPPORTED" \in P!check_residency /\ fs_name = "NTFS") => resident
  BY <1>1 DEF P!check_residency
<1> SUFFICES P!Refusal \in {"none", "SKIPPED_SPARSE_FILE"} \/ SlackLeftAlone
  BY <1>2
<1>3. CASE "COMPRESSED" \in attributes
  <2>1. "COMPRESSED" \in attributes \ {"SPARSE"}
    BY <1>3
  <2> QED
    BY <2>1 DEF SlackLeftAlone
<1>4. CASE attributes = {"ENCRYPTED"}
  <2>1. "ENCRYPTED" \in attributes \ {"SPARSE"}
    BY <1>4
  <2> QED
    BY <2>1 DEF SlackLeftAlone
<1>5. CASE "COMPRESSED" \notin attributes /\ "SPARSE" \in attributes
  <2>1. attributes # {} /\ attributes # {"ENCRYPTED"}
    BY <1>5
  <2>2. P!Refusal = "SKIPPED_SPARSE_FILE"
    BY <1>5, <2>1 DEF P!Refusal
  <2> QED
    BY <2>2
<1>6. CASE attributes = {}
  <2>1. "COMPRESSED" \notin attributes /\ "SPARSE" \notin attributes
        /\ attributes # {"ENCRYPTED"}
    BY <1>6
  <2>2. CASE fs_name = "ReFS"
    <3>1. fs = "ReFS"
      BY <1>1, <2>2
    <3> QED
      BY <3>1 DEF SlackLeftAlone
  <2>3. CASE fs_name # "ReFS"
    <3>1. ~ P!is_cow_filesystem(fs_name)
      BY <2>3 DEF P!is_cow_filesystem
    <3>2. P!Refusal = "none"
      BY <2>1, <3>1 DEF P!Refusal
    <3> QED
      BY <3>2
  <2> QED
    BY <2>2, <2>3
<1>7. attributes = {} \/ "COMPRESSED" \in attributes \/ "SPARSE" \in attributes
        \/ attributes = {"ENCRYPTED"}
  BY <1>1 DEF P!Attributes
<1> QED
  BY <1>3, <1>4, <1>5, <1>6, <1>7

\* eliminate_slack_space up to the grow: whatever is skipped holds no old data.
LEMMA BeforeGrowSlack ==
  Inv /\ Bounded /\ Judging /\ SlackTrue /\ UNCHANGED shredderVars
    /\ (P!SlackEnter \/ P!CheckAttributes \/ P!OpenAndLocate) => SlackTrue'
<1> SUFFICES ASSUME Inv, Bounded, Judging, SlackTrue, UNCHANGED shredderVars,
                    P!SlackEnter \/ P!CheckAttributes \/ P!OpenAndLocate
             PROVE  SlackTrue'
  OBVIOUS
<1>1. Platform /\ P!Step
  BY DEF Platform, P!Step
<1>2. at \in SlackLabels
  BY DEF P!SlackEnter, P!CheckAttributes, P!OpenAndLocate, SlackLabels
<1>3. pc = "slack"
  BY <1>2 DEF Inv, Turns
<1>4. \/ P!Return("slack", FALSE, "FAILED")
      \/ file_size = 0 /\ P!Return("slack", TRUE, "SKIPPED_EMPTY_FILE")
      \/ P!Refusal # "none" /\ P!Return("slack", FALSE, P!Refusal)
      \/ file_size % Unit = 0 /\ P!Return("slack", TRUE, "SKIPPED_NO_SLACK")
      \/ resident /\ P!Return("slack", TRUE, "SKIPPED_RESIDENT_MFT_DATA")
      \/ at' \in {"attributes", "open", "grow"}
  <2>1. CASE P!SlackEnter
    BY <2>1 DEF P!SlackEnter
  <2>2. CASE P!CheckAttributes
    BY <2>2 DEF P!CheckAttributes, P!Goto, P!cluster_size_of
  <2>3. CASE P!OpenAndLocate
    <3>1. \/ P!Return("slack", FALSE, "FAILED")
          \/ /\ "RESIDENT_OR_UNSUPPORTED" \in P!check_residency /\ fs_name = "NTFS"
             /\ P!Return("slack", TRUE, "SKIPPED_RESIDENT_MFT_DATA")
          \/ P!Goto("grow")
      BY <2>3 DEF P!OpenAndLocate
    <3>2. P!Goto("grow") => at' = "grow"
      BY DEF P!Goto
    <3> QED
      BY <3>1, <3>2, RefusedSlack
  <2> QED
    BY <2>1, <2>2, <2>3
<1>5. CASE P!Return("slack", FALSE, "FAILED")
  BY <1>1, <1>5, FailedSlack DEF Failed
<1>6. CASE \/ file_size = 0 /\ P!Return("slack", TRUE, "SKIPPED_EMPTY_FILE")
           \/ file_size % Unit = 0 /\ P!Return("slack", TRUE, "SKIPPED_NO_SLACK")
  <2>1. file_size \in Nat /\ 0 % Unit = 0
    BY Types, StorageAssumption
  <2>2. Tail = {}
    BY <1>6, <2>1, NoTailPastVolume DEF Tail
  <2>3. Stored(file', Tail, New)
    BY <2>2 DEF Stored
  <2>4. at' = "returned"
    BY <1>6 DEF P!Return, P!ReturnAfter
  <2> QED
    BY <1>1, <2>3, <2>4, SlackFrame
<1>7. CASE P!Refusal # "none" /\ P!Return("slack", FALSE, P!Refusal)
  <2>1. at' = "returned" /\ result'.ok = FALSE /\ result'.status = P!Refusal
    BY <1>7 DEF P!Return, P!ReturnAfter
  <2>2. SlackLeftAlone \/ ~ Settled(result'.status, result'.ok)
    BY <1>7, <2>1, RefusedSlack DEF Settled
  <2> QED
    BY <1>1, <2>1, <2>2, SlackFrame
<1>8. CASE resident /\ P!Return("slack", TRUE, "SKIPPED_RESIDENT_MFT_DATA")
  <2>1. Stored(file', Tail, New)
    BY <1>1, <1>3, <1>8, PlatformTail
  <2>2. at' = "returned"
    BY <1>8 DEF P!Return, P!ReturnAfter
  <2> QED
    BY <1>1, <2>1, <2>2, SlackFrame
<1>9. CASE at' \in {"attributes", "open", "grow"}
  BY <1>1, <1>9, SlackFrame
<1> QED
  BY <1>4, <1>5, <1>6, <1>7, <1>8, <1>9

\* From the grow to the return: what is written is on its way, the sync that
\* succeeds puts it on the media, and there it stays.
LEMMA GrowAndAfterSlack ==
  Inv /\ Bounded /\ Judging /\ SlackTrue /\ UNCHANGED shredderVars
    /\ (P!Grow \/ P!Seek \/ P!WriteSlack \/ P!FlushSlack \/ P!Restore \/ P!Finish) => SlackTrue'
<1> SUFFICES ASSUME Inv, Bounded, Judging, SlackTrue, UNCHANGED shredderVars,
                    P!Grow \/ P!Seek \/ P!WriteSlack \/ P!FlushSlack \/ P!Restore \/ P!Finish
             PROVE  SlackTrue'
  OBVIOUS
<1>1. Platform /\ P!Step
  BY DEF Platform, P!Step
<1>2. at \in SlackLabels
  BY DEF P!Grow, P!Seek, P!WriteSlack, P!FlushSlack, P!Restore, P!Finish, SlackLabels
<1>3. pc = "slack" /\ file \in File /\ file_size' = file_size /\ config' = config
  BY <1>2, Types DEF Inv, Turns, shredderVars
<1>4. /\ Cached(file, Tail, New) /\ Tail \in SUBSET Cells /\ Tail' = Tail
      /\ Stored(file, Tail, New) => Stored(file', Tail, New)
  BY <1>1, <1>3, TailCells, PlatformTail DEF SlackTrue
<1>5. ASSUME NEW f, P!GiveUp(f) PROVE SlackTrue'
  BY <1>1, <1>2, <1>5, FailedSlack DEF P!GiveUp, Failed
<1>6. CASE P!Grow
  <2>1. P!Return("slack", FALSE, "FAILED") \/ at' = "seek"
    BY <1>6 DEF P!Grow, P!Goto
  <2> QED
    BY <1>1, <1>2, <2>1, FailedSlack, SlackFrame DEF Failed
<1>7. CASE P!Seek
  <2>1. CASE P!Goto("write") /\ UNCHANGED file
    <3>1. at' = "write" /\ total_written' = 0
      BY <1>7, <2>1 DEF P!Goto, P!Seek, Bounded
    <3>2. WrittenSlack' = {}
      BY <1>3, <3>1, Types DEF WrittenSlack
    <3>3. Reaching(file', WrittenSlack', New)
      BY <3>2 DEF Reaching
    <3> QED
      BY <1>1, <1>2, <3>1, <3>3, SlackFrame
  <2> QED
    BY <1>5, <1>7, <2>1 DEF P!Seek
<1>8. CASE P!WriteSlack
  <2>1. at = "write"
    BY <1>8 DEF P!WriteSlack
  <2>2. ASSUME NEW n \in 1 .. P!Fill - total_written,
               file' = P!Write(file, file_size + total_written + 1,
                               file_size + total_written + n, FinalPattern(config)),
               total_written' = total_written + n,
               at' = (IF total_written' = P!Fill THEN "sync" ELSE "write")
        PROVE  SlackTrue'
    <3> DEFINE lo == file_size + total_written + 1
               hi == file_size + total_written + n
    <3>1. /\ file_size \in 0 .. Capacity /\ total_written \in Nat /\ P!Fill \in Int
          /\ P!Fill = Boundary(file_size) - file_size /\ Boundary(file_size) \in 0 .. Capacity
          /\ Capacity \in Nat
      BY <2>1, FillBound
    <3>2. /\ lo \in Nat \ {0} /\ hi \in 0 .. Capacity
          /\ file' = Write(file, lo, hi, FinalPattern(config))
      BY <2>2, <3>1, SameFile
    <3>3. /\ WrittenSlack \in SUBSET Cells /\ WrittenSlack \subseteq Tail
          /\ WrittenSlack' = WrittenSlack \union (lo .. hi)
      <4>1. total_written <= P!Fill
        BY <2>1, <2>2, <3>1 DEF Bounded
      <4> QED
        BY <1>3, <2>2, <3>1, <4>1 DEF WrittenSlack, Tail, Slack, Cells
    <3>4. Cached(file, WrittenSlack, New) /\ Reaching(file, WrittenSlack, New)
      BY <1>4, <2>1, <3>3 DEF Cached, SlackTrue
    <3>5. FinalPattern(config) \in New
      BY FinalPatternType DEF New
    <3>6. Reaching(file', WrittenSlack', New)
      BY <1>3, <3>2, <3>3, <3>4, <3>5, WriteCells
    <3>7. at' = "sync" => Reaching(file', Tail, New)
      <4>1. at' = "sync" => Tail \subseteq WrittenSlack'
        BY <1>3, <2>2, <3>1 DEF Tail, Slack, WrittenSlack
      <4> QED
        BY <3>6, <4>1 DEF Reaching
    <3>8. at' \in {"write", "sync"}
      BY <2>2
    <3> QED
      BY <1>1, <1>2, <3>6, <3>7, <3>8, SlackFrame
  <2> QED
    BY <1>5, <1>8, <2>2 DEF P!WriteSlack
<1>9. CASE P!FlushSlack
  <2>1. CASE SyncPossible(file) /\ file' = Synced(file, P!Cow) /\ P!Goto("restore")
    <3>1. Reaching(file, Tail, New) /\ at' = "restore"
      BY <1>9, <2>1 DEF SlackTrue, P!FlushSlack, P!Goto
    <3>2. Stored(file', Tail, New)
      BY <1>3, <1>4, <2>1, <3>1, SyncedCells
    <3> QED
      BY <1>1, <1>2, <3>1, <3>2, SlackFrame
  <2> QED
    BY <1>5, <1>9, <2>1, SameFile DEF P!FlushSlack
<1>10. CASE P!Restore
  <2>1. P!FailUnrestored \/ at' = "finish"
    BY <1>10 DEF P!Restore, P!Goto
  <2>2. Stored(file', Tail, New)
    BY <1>4, <1>10 DEF SlackTrue, P!Restore
  <2> QED
    BY <1>1, <1>2, <2>1, <2>2, FailedSlack, SlackFrame DEF Failed
<1>11. CASE P!Finish
  <2>1. at' = "returned"
    BY <1>11 DEF P!Finish, P!Return, P!ReturnAfter
  <2>2. Stored(file', Tail, New)
    BY <1>4, <1>11 DEF SlackTrue, P!Finish
  <2> QED
    BY <1>1, <1>2, <2>1, <2>2, SlackFrame
<1> QED
  BY <1>6, <1>7, <1>8, <1>9, <1>10, <1>11

----------------------------------------------------------------------------
\* Write-back between any two steps, of the program's or of the user's.
LEMMA KernelSlack == Inv /\ Bounded /\ Judging /\ SlackTrue /\ Kernel => SlackTrue'
<1> SUFFICES ASSUME Inv, Bounded, Judging, SlackTrue, Kernel PROVE SlackTrue'
  OBVIOUS
<1>1. /\ UNCHANGED shredderVars /\ P!LazyWriter /\ file' \in P!WriteBacks(file, P!Cow)
      /\ UNCHANGED <<fs, resident, attributes, at, total_written, result>>
  BY DEF Kernel, P!LazyWriter, P!Volume
<1>2. /\ pc' = pc /\ record' = record /\ name' = name /\ file_size' = file_size
  BY <1>1 DEF shredderVars
<1>3. file' \in WriteBacks(file, P!Cow) /\ file \in File /\ file'.size = file.size
  BY <1>1, SameFile, WriteBackKeeps, Types
<1>4. /\ Tail' = Tail /\ Slack(file_size)' = Tail
      /\ Beyond' = Beyond /\ WrittenSlack' = WrittenSlack
  BY <1>1, <1>2, <1>3 DEF Tail, Slack, Boundary, Beyond, WrittenSlack
<1>5. ASSUME NEW S \in SUBSET Cells, Cached(file, S, New)
      PROVE  /\ Cached(file', S, New)
             /\ Reaching(file, S, New) => Reaching(file', S, New)
             /\ Stored(file, S, New) => Stored(file', S, New)
  BY <1>3, <1>5, WriteBacksCells
<1>6. pc = "start" => /\ Cached(file', Beyond, New)
                      /\ resident => Stored(file', Beyond, New)
  BY <1>5, TailCells DEF SlackTrue
<1>7. pc # "start" => /\ Cached(file', Tail, New)
                      /\ Reaching(file, Tail, New) => Reaching(file', Tail, New)
                      /\ Stored(file, Tail, New) => Stored(file', Tail, New)
  BY <1>5, TailCells DEF SlackTrue
<1>8. ASSUME at = "write" PROVE Reaching(file', WrittenSlack, New)
  <2>1. pc # "start"
    BY <1>8 DEF Inv, Turns, SlackLabels
  <2>2. CASE total_written = 0
    <3>1. WrittenSlack = {}
      BY <2>2, Types DEF WrittenSlack
    <3> QED
      BY <3>1 DEF Reaching
  <2>3. CASE total_written # 0
    <3>1. total_written < P!Fill
      BY <1>8, <2>3 DEF Bounded
    <3>2. WrittenSlack \in SUBSET Cells /\ WrittenSlack \subseteq Tail
      BY <1>8, <3>1, FillBound DEF WrittenSlack, Tail, Slack, Cells
    <3>3. Cached(file, WrittenSlack, New)
      BY <2>1, <3>2 DEF SlackTrue, Cached
    <3> QED
      BY <1>5, <1>8, <3>2, <3>3 DEF SlackTrue
  <2> QED
    BY <2>2, <2>3
<1>9. at \in {"sync", "restore", "finish"} \/ pc \in {"slack", "done"} \union SlackDone
        => pc # "start"
  BY DEF Inv, Turns, SlackLabels, SlackDone, Judged
<1>10. SuccessVerifiedIsTrue'
  <2>0. SlackLeftAlone' <=> SlackLeftAlone
    BY <1>1 DEF SlackLeftAlone
  <2>1. ASSUME record.status = "SUCCESS_VERIFIED", ~ SlackLeftAlone,
               record.slack_space_status # "SKIPPED_SPARSE_FILE"
        PROVE  name = "none" /\ Stored(file', Tail, New)
    <3>1. name = "none" /\ OnMedia(Tail) = {} /\ pc # "start"
      BY <2>1 DEF SlackTrue, SuccessVerifiedIsTrue, Tail, Judging
    <3>2. Stored(file, Tail, New)
      BY <1>3, <3>1, TailCells DEF OnMedia, Stored, New, File
    <3> QED
      BY <1>7, <3>1, <3>2
  <2> QED
    BY <1>2, <1>4, <2>0, <2>1 DEF SuccessVerifiedIsTrue, OnMedia, Stored, New
<1>11. (SlackLeftAlone' <=> SlackLeftAlone) /\ (resident' <=> resident)
  BY <1>1 DEF SlackLeftAlone
<1> QED
  BY <1>1, <1>2, <1>4, <1>6, <1>7, <1>8, <1>9, <1>10, <1>11 DEF SlackTrue

\* NotRegular: the target as it was found.
LEMMA EntrySlack ==
  Inv /\ Bounded /\ Judging /\ SlackTrue /\ UNCHANGED platformVars
    /\ (NotRegular \/ Measure) => SlackTrue'
<1> SUFFICES ASSUME Inv, Bounded, Judging, SlackTrue, UNCHANGED platformVars,
                    NotRegular \/ Measure
             PROVE  SlackTrue'
  OBVIOUS
<1>1. /\ pc = "start" /\ pc' \in {"open", "done"} /\ UNCHANGED <<file, at, result>>
      /\ (resident' <=> resident) /\ record'.status # "SUCCESS_VERIFIED"
      /\ pc' = "done" => file_size' = file_size
      /\ pc' = "open" => file_size' \in {file.size, SizeError}
  BY Types DEF NotRegular, Measure, platformVars, Judging, Audit
<1>2. at \notin {"flush"} \union SlackLabels \union DiscardLabels
  BY <1>1 DEF Inv, Turns, SlackLabels, DiscardLabels
<1>3. Slack(file_size') \subseteq Beyond
  <2>1. CASE pc' = "done"
    <3>1. file_size = 0 /\ 0 % Unit = 0
      BY <1>1, StorageAssumption DEF SlackTrue
    <3>2. Slack(0) = {}
      BY <3>1, NoTailPastVolume
    <3> QED
      BY <1>1, <2>1, <3>1, <3>2
  <2>2. CASE pc' = "open" /\ file_size' = SizeError
    <3>1. SizeError \in Nat /\ SizeError > Capacity
      BY Types, StorageAssumption DEF SizeError
    <3> QED
      BY <2>2, <3>1, NoTailPastVolume
  <2>3. CASE pc' = "open" /\ file_size' = file.size
    BY <2>3, Types DEF Slack, Beyond, Cells
  <2> QED
    BY <1>1, <2>1, <2>2, <2>3
<1>4. Tail' = Slack(file_size')
  BY DEF Tail, Slack, Boundary
<1>5. Cached(file', Tail', New) /\ (resident => Stored(file', Tail', New))
  BY <1>1, <1>3, <1>4 DEF SlackTrue, Cached, Stored
<1> QED
  BY <1>1, <1>2, <1>5 DEF SlackTrue, SlackDone, Judged, SuccessVerifiedIsTrue, SlackLabels

\* What is left to show of a step of shred_file itself.
LEMMA ShredSlack ==
  ASSUME Inv, Bounded, Judging, SlackTrue, pc # "start", pc' # "start",
         UNCHANGED platformVars, file_size' = file_size,
         Cached(file', Tail, New), Stored(file, Tail, New) => Stored(file', Tail, New),
         at' = at \/ at' \in {"idle", "flush", "slack", "discard"},
         pc' = "slack" => at' = "slack",
         (pc' \in SlackDone /\ ~ SlackLeftAlone
            /\ Settled(record'.slack_space_status, record'.slack_space_eliminated)) =>
              Stored(file', Tail, New),
         SuccessVerifiedIsTrue',
         at \notin SlackLabels
  PROVE  SlackTrue'
<1>1. /\ Tail' = Tail /\ (resident' <=> resident)
      /\ (SlackLeftAlone' <=> SlackLeftAlone)
  BY DEF platformVars, Tail, Slack, Boundary, SlackLeftAlone
<1>2. at' \notin {"write", "sync", "restore", "finish"}
  BY DEF SlackLabels
<1>3. (pc' = "slack" /\ at' = "returned") => FALSE
  OBVIOUS
<1> QED
  BY <1>1, <1>2, <1>3 DEF SlackTrue

----------------------------------------------------------------------------
\* What a pass writes.
LEMMA ChunkFile ==
  ASSUME Bounded, WriteChunk
  PROVE  \E hi \in 0 .. Capacity :
           file' = Write(file, written + 1, hi, PassContent(config, passes_executed + 1))
<1>1. pc = "pass" /\ written < file_size /\ written \in Nat /\ file_size \in Nat
  BY Types DEF WriteChunk, Bounded
<1>2. Chunk(written) \in Nat \ {0}
  BY <1>1, ChunkType
<1>3. ASSUME NEW m \in 0 .. Chunk(written), written + m <= Capacity
      PROVE  written + m \in 0 .. Capacity
  BY <1>1, <1>2, <1>3, Types
<1>4. \E m \in 0 .. Chunk(written) :
        /\ written + m <= Capacity
        /\ file' = Write(file, written + 1, written + m, PassContent(config, passes_executed + 1))
  BY <1>2 DEF WriteChunk
<1> QED
  BY <1>3, <1>4

\* The passes write nothing old to the slack.
LEMMA PassesSlack ==
  Inv /\ Bounded /\ Judging /\ SlackTrue /\ UNCHANGED platformVars
    /\ (OpenTarget \/ WriteChunk) => SlackTrue'
<1> SUFFICES ASSUME Inv, Bounded, Judging, SlackTrue, UNCHANGED platformVars,
                    OpenTarget \/ WriteChunk
             PROVE  SlackTrue'
  OBVIOUS
<1>1. /\ pc \in {"open", "pass"} /\ pc' \in {"pass", "flush", "done"} /\ file_size' = file_size
      /\ at' = at \/ at' = "flush"
  BY DEF OpenTarget, WriteChunk, FailOverwrite, AfterPass
<1>2. at \notin SlackLabels
  BY <1>1 DEF Inv, Turns
<1>3. Cached(file, Tail, New)
  BY <1>1 DEF SlackTrue
<1>4. Cached(file', Tail, New) /\ (Stored(file, Tail, New) => Stored(file', Tail, New))
  <2>1. CASE OpenTarget
    BY <1>3, <2>1 DEF OpenTarget
  <2>2. CASE WriteChunk
    <3>1. PICK hi \in 0 .. Capacity :
            file' = Write(file, written + 1, hi, PassContent(config, passes_executed + 1))
      BY <2>2, ChunkFile
    <3>2. PassContent(config, passes_executed + 1) \in New /\ written + 1 \in Nat \ {0}
          /\ file \in File
      BY Types, PassContentType, MethodType DEF New
    <3>3. /\ Cached(file', Tail \union (written + 1 .. hi), New)
          /\ Stored(file, Tail, New) => Stored(file', Tail, New)
      BY <1>3, <3>1, <3>2, TailCells, WriteCells
    <3> QED
      BY <3>3 DEF Cached
  <2> QED
    BY <2>1, <2>2
<1>5. SuccessVerifiedIsTrue'
  <2>1. record.status = "PENDING" /\ record \in Audit
    BY <1>1, Types DEF Judging
  <2>2. record'.status # "SUCCESS_VERIFIED"
    BY <2>1 DEF OpenTarget, WriteChunk, FailOverwrite, AfterPass, Audit
  <2> QED
    BY <2>2 DEF SuccessVerifiedIsTrue
<1> QED
  BY <1>1, <1>2, <1>4, <1>5, ShredSlack DEF SlackDone, Judged

\* The outcome of eliminate_slack_space goes into the record, and stays there.
LEMMA MiddleSlack ==
  Inv /\ Bounded /\ Judging /\ SlackTrue /\ UNCHANGED platformVars
    /\ (AfterFlush \/ AfterSlack \/ OpenReadBack \/ ReadChunk \/ AfterDiscard) => SlackTrue'
<1> SUFFICES ASSUME Inv, Bounded, Judging, SlackTrue, UNCHANGED platformVars,
                    AfterFlush \/ AfterSlack \/ OpenReadBack \/ ReadChunk \/ AfterDiscard
             PROVE  SlackTrue'
  OBVIOUS
<1>1. /\ pc \in {"flush", "slack", "verify", "checking", "discard"}
      /\ pc' \in {"slack", "verify", "checking", "discard", "mask0"}
      /\ file' = file /\ file_size' = file_size
      /\ at' = at \/ at' \in {"idle", "slack", "discard"}
      /\ pc' = "slack" => at' = "slack"
  BY DEF AfterFlush, AfterSlack, OpenReadBack, ReadChunk, AfterDiscard, Verdict
<1>2. at \notin SlackLabels
  <2>1. CASE AfterSlack
    BY <2>1 DEF AfterSlack, SlackLabels
  <2>2. CASE AfterFlush \/ OpenReadBack \/ ReadChunk \/ AfterDiscard
    BY <2>2 DEF AfterFlush, OpenReadBack, ReadChunk, AfterDiscard, Inv, Turns
  <2> QED
    BY <2>1, <2>2
<1>3. record \in Audit /\ result \in P!Results
  BY Types
<1>4. Cached(file', Tail, New) /\ (Stored(file, Tail, New) => Stored(file', Tail, New))
  BY <1>1 DEF SlackTrue
<1>5. ASSUME pc' \in SlackDone, ~ SlackLeftAlone,
             Settled(record'.slack_space_status, record'.slack_space_eliminated)
      PROVE  Stored(file', Tail, New)
  <2>1. CASE AfterSlack
    <3>1. /\ pc = "slack" /\ at = "returned"
          /\ record'.slack_space_status = result.status
          /\ record'.slack_space_eliminated = result.ok
      BY <1>3, <2>1 DEF AfterSlack, Audit, P!Results
    <3> QED
      BY <1>1, <1>5, <3>1 DEF SlackTrue
  <2>2. CASE AfterFlush \/ OpenReadBack \/ ReadChunk \/ AfterDiscard
    <3>1. /\ record'.slack_space_status = record.slack_space_status
          /\ record'.slack_space_eliminated = record.slack_space_eliminated
      BY <1>3, <2>2 DEF AfterFlush, OpenReadBack, ReadChunk, AfterDiscard, Verdict, Audit
    <3>2. pc \in SlackDone
      BY <1>5, <2>2 DEF AfterFlush, OpenReadBack, ReadChunk, AfterDiscard, SlackDone, Judged
    <3> QED
      BY <1>1, <1>5, <3>1, <3>2 DEF SlackTrue
  <2> QED
    BY <2>1, <2>2
<1>6. SuccessVerifiedIsTrue'
  <2>1. record.status = "PENDING"
    BY <1>1 DEF Judging
  <2>2. record'.status # "SUCCESS_VERIFIED"
    BY <1>3, <2>1 DEF AfterFlush, AfterSlack, OpenReadBack, ReadChunk, AfterDiscard, Verdict,
       Audit
  <2> QED
    BY <2>2 DEF SuccessVerifiedIsTrue
<1> QED
  BY <1>1, <1>2, <1>4, <1>5, <1>6, ShredSlack

\* Only a verdict that counts the slack as settled, on a file that is gone, is
\* SUCCESS_VERIFIED.
LEMMA ScrubSlack ==
  Inv /\ Bounded /\ Judging /\ SlackTrue /\ UNCHANGED platformVars
    /\ (MaskZeros \/ MaskAs \/ ShrinkName \/ Unlink) => SlackTrue'
<1> SUFFICES ASSUME Inv, Bounded, Judging, SlackTrue, UNCHANGED platformVars,
                    MaskZeros \/ MaskAs \/ ShrinkName \/ Unlink
             PROVE  SlackTrue'
  OBVIOUS
<1>1. /\ pc \in {"mask0", "maskA", "shrink", "unlink"}
      /\ pc' \in {"maskA", "shrink", "unlink", "done"}
      /\ file_size' = file_size /\ at' = at
  BY DEF MaskZeros, MaskAs, ShrinkName, Rename, Unlink
<1>2. at \notin SlackLabels /\ record \in Audit /\ file \in File
  BY <1>1, Types DEF Inv, Turns
<1>3. Cached(file, Tail, New)
  BY <1>1 DEF SlackTrue
<1>4. file' = file \/ file' = Dropped(file)
  BY DEF MaskZeros, MaskAs, ShrinkName, Rename, Unlink
<1>5. Cached(file', Tail, New) /\ (Stored(file, Tail, New) => Stored(file', Tail, New))
  <2>1. file'.cache = file.cache /\ file'.media = file.media
    BY <1>2, <1>4, DroppedCells
  <2> QED
    BY <1>3, <2>1 DEF Cached, Stored
<1>6. /\ record'.slack_space_status = record.slack_space_status
      /\ record'.slack_space_eliminated = record.slack_space_eliminated
  BY <1>2 DEF MaskZeros, MaskAs, ShrinkName, Rename, Unlink, Audit
<1>7. (~ SlackLeftAlone /\ Settled(record.slack_space_status, record.slack_space_eliminated)) =>
        Stored(file', Tail, New)
  BY <1>1, <1>5 DEF SlackTrue, SlackDone, Judged
<1>8. SuccessVerifiedIsTrue'
  <2>1. CASE MaskZeros \/ MaskAs \/ ShrinkName
    <3>1. record'.status # "SUCCESS_VERIFIED"
      BY <1>1, <2>1 DEF MaskZeros, MaskAs, ShrinkName, Rename, Judging
    <3> QED
      BY <3>1 DEF SuccessVerifiedIsTrue
  <2>2. CASE Unlink
    <3> SUFFICES ASSUME record'.status = "SUCCESS_VERIFIED", ~ SlackLeftAlone',
                        record'.slack_space_status # "SKIPPED_SPARSE_FILE"
                 PROVE  name' = "none" /\ OnMedia(Slack(file_size))' = {}
      BY DEF SuccessVerifiedIsTrue
    <3>1. PICK removed \in BOOLEAN :
            /\ name' = IF removed THEN "none" ELSE name
            /\ record' = [record EXCEPT
                            !.metadata_scrub_completed = removed /\ all_renames_succeeded,
                            !.status = FinalStatus(removed /\ all_renames_succeeded)]
      BY <2>2 DEF Unlink
    <3>2. FinalStatus(removed /\ all_renames_succeeded) = "SUCCESS_VERIFIED"
      BY <1>2, <3>1 DEF Audit
    <3>3. /\ removed
          /\ Settled(record.slack_space_status, record.slack_space_eliminated)
      BY <1>6, <3>2 DEF FinalStatus, Settled
    <3>4. ~ SlackLeftAlone
      BY DEF platformVars, SlackLeftAlone
    <3>5. Stored(file', Tail, New) /\ Slack(file_size)' = Tail
      BY <1>1, <1>7, <3>3, <3>4 DEF Tail, Slack, Boundary
    <3> QED
      BY <3>1, <3>3, <3>5 DEF OnMedia, Stored, New
  <2> QED
    BY <2>1, <2>2
<1> QED
  BY <1>1, <1>2, <1>5, <1>6, <1>7, <1>8, ShredSlack

\* Every step keeps what is known of the slack.
LEMMA StepSlackTrue == Inv /\ Bounded /\ Judging /\ SlackTrue /\ [Next]_vars => SlackTrue'
<1>1. Inv /\ Bounded /\ Judging /\ SlackTrue /\ Shred => SlackTrue'
  BY EntrySlack, PassesSlack, MiddleSlack, ScrubSlack DEF Shred, ShredStep
<1>2. Inv /\ Bounded /\ Judging /\ SlackTrue /\ Platform => SlackTrue'
  BY ElsewhereSlack, BeforeGrowSlack, GrowAndAfterSlack DEF Platform, P!Step
<1>3. SlackTrue /\ UNCHANGED vars => SlackTrue'
  <2> SUFFICES ASSUME SlackTrue, UNCHANGED vars PROVE SlackTrue'
    OBVIOUS
  <2>1. /\ UNCHANGED <<file, at, result, pc, file_size, name, record, total_written>>
        /\ (resident' <=> resident) /\ (SlackLeftAlone' <=> SlackLeftAlone)
    BY DEF vars, shredderVars, platformVars, SlackLeftAlone
  <2>2. /\ Tail' = Tail /\ Beyond' = Beyond /\ WrittenSlack' = WrittenSlack
        /\ OnMedia(Slack(file_size))' = OnMedia(Slack(file_size))
    BY <2>1 DEF Tail, Beyond, WrittenSlack, Slack, Boundary, OnMedia
  <2> QED
    BY <2>1, <2>2 DEF SlackTrue, SuccessVerifiedIsTrue
<1> QED
  BY <1>1, <1>2, <1>3, KernelSlack DEF Next, Program

\* On Windows SUCCESS_VERIFIED goes into the audit record only for a file that is
\* gone and, unless its volume or an attribute keeps the code from its slack, whose
\* slack holds no old data on the media.
THEOREM Win32SuccessHonest == Spec => []SuccessVerifiedIsTrue
<1>1. SlackTrue => SuccessVerifiedIsTrue
  BY DEF SlackTrue
<1> QED
  BY InitInv, StepInv, InitBounded, StepBounded, InitJudging, StepJudging, InitSlackTrue,
     StepSlackTrue, <1>1, PTL DEF Spec

----------------------------------------------------------------------------
\* What may be left of the payload once the last pass is done.
Clean == {FinalPattern(config), "zero"}

Payload == Body(file_size)

Passing == {PassContent(config, passes_executed + 1)}

\* Cell after cell of the pass under way, then of the whole payload.
PayloadTrue ==
  /\ pc = "pass" => /\ Cached(file, Body(written), Passing)
                    /\ Reaching(file, Body(written), Passing)
  /\ (pc \in Passed /\ passes_executed > 0) => Cached(file, Payload, Clean)
  /\ (at = "flush" /\ passes_executed > 0) => Reaching(file, Payload, Clean)
  /\ (pc = "flush" /\ at = "returned" /\ result.ok /\ passes_executed > 0) =>
       Stored(file, Payload, Clean)
  /\ flush_ok => pc \in SlackDone \union {"slack", "done"}
  /\ (flush_ok /\ passes_executed > 0) =>
       Cached(file, Payload, Clean) /\ Stored(file, Payload, Clean)

\* The payload is made of cells.
LEMMA PayloadCells == Payload \in SUBSET Cells /\ \A n : Body(n) \in SUBSET Cells
BY DEF Payload, Body

\* Before the first pass nothing is claimed of the payload.
LEMMA InitPayload == Init => PayloadTrue
<1> SUFFICES ASSUME Init PROVE PayloadTrue
  OBVIOUS
<1>1. at = "idle" /\ pc = "start" /\ flush_ok = FALSE
  BY DEF Init, ShredderInit
<1> QED
  BY <1>1 DEF PayloadTrue, Passed, SlackDone, Judged

\* What the platform layer and the kernel leave of what is known of the payload.
LEMMA PlatformPayload ==
  ASSUME Inv, Bounded, PayloadTrue, UNCHANGED shredderVars, P!Step \/ P!LazyWriter
  PROVE  /\ Payload' = Payload /\ Clean' = Clean /\ Passing' = Passing
         /\ pc \in Passed /\ passes_executed > 0 => Cached(file', Payload, Clean)
         /\ pc \in Passed /\ passes_executed > 0 /\ Stored(file, Payload, Clean) =>
              Stored(file', Payload, Clean)
         /\ flush_ok /\ passes_executed > 0 =>
              Cached(file', Payload, Clean) /\ Stored(file', Payload, Clean)
<1>1. "zero" \in Clean /\ FinalPattern(config) \in Clean
  BY DEF Clean
<1>2. /\ file_size' = file_size /\ config' = config /\ passes_executed' = passes_executed
  BY DEF shredderVars
<1>3. Payload' = Payload /\ Clean' = Clean /\ Passing' = Passing
  BY <1>2 DEF Payload, Body, Clean, FinalPattern, Passing, PassContent
<1>4. ASSUME Cached(file, Payload, Clean)
      PROVE  /\ Cached(file', Payload, Clean)
             /\ Stored(file, Payload, Clean) => Stored(file', Payload, Clean)
  BY <1>1, <1>4, PayloadCells, PlatformCells
<1> QED
  BY <1>3, <1>4 DEF PayloadTrue

\* flush_file_to_media: TRUE is what FlushFileBuffers said, and means what it says.
LEMMA FlushPayload ==
  Inv /\ Bounded /\ PayloadTrue /\ UNCHANGED shredderVars /\ P!Flush
    => PayloadTrue'
<1> SUFFICES ASSUME Inv, Bounded, PayloadTrue, UNCHANGED shredderVars,
                    P!Flush
             PROVE  PayloadTrue'
  OBVIOUS
<1>1. P!Step /\ at = "flush" /\ at' = "returned"
  BY DEF P!Step, P!Flush, P!Return, P!ReturnAfter
<1>2. pc = "flush" /\ pc \in Passed /\ file \in File
  BY <1>1, Types DEF Inv, Turns, Passed
<1>3. /\ pc' = pc /\ flush_ok' = flush_ok /\ passes_executed' = passes_executed
  BY DEF shredderVars
<1>4. /\ Payload' = Payload /\ Clean' = Clean
      /\ passes_executed > 0 => Cached(file', Payload, Clean)
      /\ flush_ok /\ passes_executed > 0 =>
              Cached(file', Payload, Clean) /\ Stored(file', Payload, Clean)
  BY <1>1, <1>2, PlatformPayload
<1>5. (result'.ok /\ passes_executed > 0) => Stored(file', Payload, Clean)
  <2> SUFFICES ASSUME result'.ok, passes_executed > 0 PROVE Stored(file', Payload, Clean)
    OBVIOUS
  <2>1. SyncPossible(file) /\ file' = Synced(file, P!Cow)
    BY SameFile DEF P!Flush, P!Return, P!ReturnAfter
  <2>2. Cached(file, Payload, Clean) /\ Reaching(file, Payload, Clean)
    BY <1>1, <1>2 DEF PayloadTrue
  <2> QED
    BY <1>2, <2>1, <2>2, PayloadCells, SyncedCells
<1> QED
  BY <1>1, <1>2, <1>3, <1>4, <1>5 DEF PayloadTrue

\* The other platform functions leave the payload alone.
LEMMA AfterFlushPayload ==
  Inv /\ Bounded /\ PayloadTrue /\ UNCHANGED shredderVars /\ P!Step /\ at # "flush"
    => PayloadTrue'
<1> SUFFICES ASSUME Inv, Bounded, PayloadTrue, UNCHANGED shredderVars, P!Step, at # "flush"
             PROVE  PayloadTrue'
  OBVIOUS
<1>1. at \in SlackLabels \union DiscardLabels /\ at' # "flush"
  BY DEF P!Step, P!Flush, P!SlackEnter, P!CheckAttributes, P!OpenAndLocate, P!Grow, P!Seek,
     P!WriteSlack, P!FlushSlack, P!Restore, P!Finish, P!DiscardOpen, P!SetSparse, P!ZeroData,
     P!Invoked, P!Return, P!ReturnAfter, P!Goto, P!GiveUp, P!FailUnrestored, SlackLabels, DiscardLabels
<1>2. pc \in {"slack", "discard"} /\ pc \in Passed
  BY <1>1 DEF Inv, Turns, Passed, SlackDone, Judged
<1>3. /\ pc' = pc /\ flush_ok' = flush_ok /\ passes_executed' = passes_executed
  BY DEF shredderVars
<1>4. /\ Payload' = Payload /\ Clean' = Clean
      /\ passes_executed > 0 => Cached(file', Payload, Clean)
      /\ flush_ok /\ passes_executed > 0 =>
              Cached(file', Payload, Clean) /\ Stored(file', Payload, Clean)
  BY <1>2, PlatformPayload
<1> QED
  BY <1>1, <1>2, <1>3, <1>4 DEF PayloadTrue

\* Write-back between any two steps of the passes or of what follows them.
LEMMA KernelPayload == Inv /\ Bounded /\ PayloadTrue /\ Kernel => PayloadTrue'
<1> SUFFICES ASSUME Inv, Bounded, PayloadTrue, Kernel PROVE PayloadTrue'
  OBVIOUS
<1>1. /\ UNCHANGED shredderVars /\ P!LazyWriter /\ at' = at /\ result' = result
      /\ file' \in WriteBacks(file, P!Cow) /\ file \in File
  BY SameFile, Types DEF Kernel, P!LazyWriter
<1>2. /\ pc' = pc /\ flush_ok' = flush_ok /\ passes_executed' = passes_executed
      /\ written' = written
  BY <1>1 DEF shredderVars
<1>3. /\ Payload' = Payload /\ Clean' = Clean /\ Passing' = Passing
      /\ Body(written)' = Body(written)
  BY <1>1, <1>2, PlatformPayload DEF Body
<1>4. ASSUME NEW S \in SUBSET Cells, NEW C, Cached(file, S, C)
      PROVE  /\ Cached(file', S, C)
             /\ Reaching(file, S, C) => Reaching(file', S, C)
             /\ Stored(file, S, C) => Stored(file', S, C)
  BY <1>1, <1>4, WriteBacksCells
<1>5. pc = "pass" => /\ Cached(file', Body(written), Passing)
                     /\ Reaching(file', Body(written), Passing)
  BY <1>4, PayloadCells DEF PayloadTrue
<1>6. (pc \in Passed /\ passes_executed > 0) => Cached(file', Payload, Clean)
  BY <1>4, PayloadCells DEF PayloadTrue
<1>7. (at = "flush" /\ passes_executed > 0) => Reaching(file', Payload, Clean)
  <2> SUFFICES ASSUME at = "flush", passes_executed > 0 PROVE Reaching(file', Payload, Clean)
    OBVIOUS
  <2>1. pc \in Passed
    BY DEF Inv, Turns, Passed
  <2> QED
    BY <1>4, <2>1, PayloadCells DEF PayloadTrue
<1>8. (pc = "flush" /\ at = "returned" /\ result.ok /\ passes_executed > 0) =>
        Stored(file', Payload, Clean)
  <2>1. pc = "flush" => pc \in Passed
    BY DEF Passed
  <2> QED
    BY <1>4, <2>1, PayloadCells DEF PayloadTrue
<1>9. (flush_ok /\ passes_executed > 0) =>
        Cached(file', Payload, Clean) /\ Stored(file', Payload, Clean)
  BY <1>4, PayloadCells DEF PayloadTrue
<1> QED
  BY <1>1, <1>2, <1>3, <1>5, <1>6, <1>7, <1>8, <1>9 DEF PayloadTrue

\* The passes: pass after pass the cells up to written hold what it writes, and
\* the last one leaves the final pattern.
LEMMA PassesPayload ==
  Inv /\ Bounded /\ PayloadTrue /\ UNCHANGED platformVars
    /\ (NotRegular \/ Measure \/ OpenTarget \/ WriteChunk) => PayloadTrue'
<1> SUFFICES ASSUME Inv, Bounded, PayloadTrue, UNCHANGED platformVars,
                    NotRegular \/ Measure \/ OpenTarget \/ WriteChunk
             PROVE  PayloadTrue'
  OBVIOUS
<1>0. /\ file \in File /\ file_size \in Nat /\ written \in Nat /\ Capacity \in Nat
      /\ passes_executed \in Nat /\ PassCount(config) \in Nat /\ config \in Configs
  BY Types
<1>1. /\ pc \in {"start", "open", "pass"} /\ flush_ok' = flush_ok /\ config' = config
  BY DEF NotRegular, Measure, OpenTarget, WriteChunk
<1>2. ~ flush_ok /\ at \notin {"flush"}
  BY <1>1 DEF PayloadTrue, SlackDone, Judged, Inv, Turns
<1>3. CASE NotRegular \/ Measure \/ (OpenTarget /\ FailOverwrite) \/ (WriteChunk /\ FailOverwrite)
  <2>1. pc' \in {"open", "done"} /\ at' = at
    BY <1>3 DEF NotRegular, Measure, FailOverwrite
  <2> QED
    BY <1>1, <1>2, <2>1 DEF PayloadTrue, Passed, SlackDone, Judged
<1>4. CASE OpenTarget /\ AfterPass(0)
  <2>1. /\ passes_executed' = 0 /\ written' = 0
    BY <1>4 DEF AfterPass
  <2>2. Body(written') = {}
    BY <2>1 DEF Body
  <2>3. Cached(file', Body(written'), Passing') /\ Reaching(file', Body(written'), Passing')
    BY <2>2 DEF Cached, Reaching
  <2> QED
    BY <1>1, <1>2, <2>1, <2>3 DEF PayloadTrue
<1>5. CASE WriteChunk /\ ~ FailOverwrite
  <2> DEFINE content == PassContent(config, passes_executed + 1)
             hi == written + Chunk(written)
  <2>1. /\ pc = "pass" /\ hi <= Capacity /\ file' = Write(file, written + 1, hi, content)
        /\ file_size' = file_size
        /\ IF hi < file_size
             THEN written' = hi /\ UNCHANGED <<pc, at, passes_executed, record>>
             ELSE AfterPass(passes_executed + 1)
    BY <1>5 DEF WriteChunk
  <2>2. Chunk(written) \in Nat \ {0} /\ hi <= file_size /\ written < file_size
    BY <1>0, <2>1, ChunkType DEF Bounded
  <2>3. Body(written) \union (written + 1 .. hi) = Body(hi)
    BY <1>0, <2>1, <2>2 DEF Body, Cells
  <2>4. /\ Cached(file, Body(written), Passing) /\ Reaching(file, Body(written), Passing)
        /\ content \in Passing
    BY <2>1 DEF PayloadTrue, Passing
  <2>5. Cached(file', Body(hi), Passing) /\ Reaching(file', Body(hi), Passing)
    <3>1. written + 1 \in Nat \ {0} /\ hi \in 0 .. Capacity
      BY <1>0, <2>1, <2>2
    <3> HIDE DEF content, hi
    <3> QED
      BY <1>0, <2>1, <2>3, <2>4, <3>1, PayloadCells, WriteCells
  <2>6. CASE hi < file_size
    <3>1. /\ written' = hi /\ pc' = pc /\ at' = at /\ passes_executed' = passes_executed
      BY <2>1, <2>6
    <3>2. Passing' = Passing /\ Body(written') = Body(hi)
      BY <1>1, <3>1 DEF Passing, PassContent
    <3> QED
      BY <1>1, <1>2, <2>1, <2>5, <3>1, <3>2 DEF PayloadTrue, Passed, SlackDone, Judged
  <2>7. CASE ~ (hi < file_size)
    <3>1. AfterPass(passes_executed + 1) /\ hi = file_size
      BY <1>0, <2>1, <2>2, <2>7
    <3>2. /\ written' = 0 /\ passes_executed' = passes_executed + 1
          /\ \/ pc' = "pass" /\ at' = at
             \/ /\ pc' = "flush" /\ at' = "flush"
                /\ ~ (file_size > 0 /\ passes_executed + 1 < PassCount(config))
      BY <3>1 DEF AfterPass
    <3>3. CASE pc' = "pass" /\ at' = at
      <4>1. Body(written') = {}
        BY <3>2 DEF Body
      <4>2. Cached(file', Body(written'), Passing') /\ Reaching(file', Body(written'), Passing')
        BY <4>1 DEF Cached, Reaching
      <4> QED
        BY <1>1, <1>2, <3>3, <4>2 DEF PayloadTrue, Passed, SlackDone, Judged
    <3>4. CASE /\ pc' = "flush" /\ at' = "flush"
               /\ ~ (file_size > 0 /\ passes_executed + 1 < PassCount(config))
      <4>1. passes_executed + 1 = PassCount(config)
        BY <1>0, <2>1, <2>2, <3>4 DEF Inv, Progress
      <4>2. content = FinalPattern(config)
        BY <1>0, <4>1, SwitchesLemma
      <4>3. Passing \subseteq Clean
        BY <4>2 DEF Passing, Clean
      <4>4. Payload' = Body(hi) /\ Clean' = Clean
        BY <1>1, <2>1, <3>1 DEF Payload, Body, Clean, FinalPattern
      <4>5. Cached(file', Payload', Clean') /\ Reaching(file', Payload', Clean')
        <5> HIDE DEF hi
        <5> QED
          BY <2>5, <4>3, <4>4 DEF Cached, Reaching
      <4> QED
        BY <1>1, <1>2, <3>4, <4>5 DEF PayloadTrue
    <3> QED
      BY <3>2, <3>3, <3>4
  <2> QED
    BY <2>6, <2>7
<1> QED
  BY <1>3, <1>4, <1>5 DEF OpenTarget

\* What is left to show of a step of shred_file after the passes.
LEMMA PayloadFrame ==
  ASSUME PayloadTrue, pc' # "pass", at' # "flush", pc' # "flush",
         UNCHANGED <<config, file_size, passes_executed>>,
         \A S, C : Cached(file, S, C) => Cached(file', S, C),
         \A S, C : Stored(file, S, C) => Stored(file', S, C),
         pc' \in Passed => pc \in Passed,
         flush_ok' => pc' \in SlackDone \union {"slack", "done"},
         flush_ok' /\ passes_executed > 0 =>
           Cached(file, Payload, Clean) /\ Stored(file, Payload, Clean)
  PROVE  PayloadTrue'
<1>1. Payload' = Payload /\ Clean' = Clean
  BY DEF Payload, Body, Clean, FinalPattern
<1> QED
  BY <1>1 DEF PayloadTrue

\* The rest of shred_file writes nothing, and flush_ok is what the flush said.
LEMMA AfterPassesPayload ==
  Inv /\ Bounded /\ PayloadTrue /\ UNCHANGED platformVars
    /\ (AfterFlush \/ AfterSlack \/ OpenReadBack \/ ReadChunk \/ AfterDiscard
          \/ MaskZeros \/ MaskAs \/ ShrinkName \/ Unlink) => PayloadTrue'
<1> SUFFICES ASSUME Inv, Bounded, PayloadTrue, UNCHANGED platformVars,
                    \/ AfterFlush \/ AfterSlack \/ OpenReadBack \/ ReadChunk \/ AfterDiscard
                    \/ MaskZeros \/ MaskAs \/ ShrinkName \/ Unlink
             PROVE  PayloadTrue'
  OBVIOUS
<1>0. file \in File /\ result \in P!Results /\ flush_ok \in BOOLEAN
  BY Types
<1>1. file' = file \/ file' = Dropped(file)
  BY DEF AfterFlush, AfterSlack, OpenReadBack, ReadChunk, AfterDiscard, MaskZeros, MaskAs,
     ShrinkName, Rename, Unlink
<1>2. file'.cache = file.cache /\ file'.media = file.media
  BY <1>0, <1>1, DroppedCells
<1>3. /\ \A S, C : Cached(file, S, C) => Cached(file', S, C)
      /\ \A S, C : Stored(file, S, C) => Stored(file', S, C)
  BY <1>2 DEF Cached, Stored
<1>4. /\ pc \in Passed
      /\ pc' \in SlackDone \union {"slack", "done"}
      /\ UNCHANGED <<config, file_size, passes_executed>>
      /\ at' = at \/ at' \in {"idle", "slack", "discard"}
  BY DEF AfterFlush, AfterSlack, OpenReadBack, ReadChunk, AfterDiscard, MaskZeros, MaskAs,
     ShrinkName, Rename, Unlink, Verdict, Passed, SlackDone, Judged
<1>5. at' # "flush"
  <2>1. CASE AfterFlush
    BY <2>1 DEF AfterFlush
  <2>2. CASE \/ AfterSlack \/ OpenReadBack \/ ReadChunk \/ AfterDiscard
             \/ MaskZeros \/ MaskAs \/ ShrinkName \/ Unlink
    <3>1. pc # "flush"
      BY <2>2 DEF AfterSlack, OpenReadBack, ReadChunk, AfterDiscard, MaskZeros, MaskAs,
         ShrinkName, Rename, Unlink
    <3> QED
      BY <1>4, <3>1 DEF Inv, Turns
  <2> QED
    BY <2>1, <2>2
<1>6. flush_ok' /\ passes_executed > 0 =>
           Cached(file, Payload, Clean) /\ Stored(file, Payload, Clean)
  <2>1. CASE AfterFlush
    <3>1. pc = "flush" /\ at = "returned" /\ flush_ok' = result.ok /\ pc \in Passed
      BY <1>4, <2>1 DEF AfterFlush
    <3> QED
      BY <3>1 DEF PayloadTrue
  <2>2. CASE \/ AfterSlack \/ OpenReadBack \/ ReadChunk \/ AfterDiscard
             \/ MaskZeros \/ MaskAs \/ ShrinkName \/ Unlink
    <3>1. flush_ok' = flush_ok
      BY <2>2 DEF AfterSlack, OpenReadBack, ReadChunk, AfterDiscard, MaskZeros, MaskAs,
         ShrinkName, Rename, Unlink
    <3> QED
      BY <3>1 DEF PayloadTrue
  <2> QED
    BY <2>1, <2>2
<1>7. pc' # "pass" /\ pc' # "flush"
  BY <1>4 DEF SlackDone, Judged
<1> QED
  BY <1>3, <1>4, <1>5, <1>6, <1>7, PayloadFrame

\* Every step keeps what is known of the payload.
LEMMA StepPayload == Inv /\ Bounded /\ PayloadTrue /\ [Next]_vars => PayloadTrue'
<1>1. Inv /\ Bounded /\ PayloadTrue /\ Shred => PayloadTrue'
  BY PassesPayload, AfterPassesPayload DEF Shred, ShredStep
<1>2. Inv /\ Bounded /\ PayloadTrue /\ Platform => PayloadTrue'
  <2> SUFFICES ASSUME Inv, Bounded, PayloadTrue, Platform PROVE PayloadTrue'
    OBVIOUS
  <2>1. CASE at = "flush"
    <3>1. P!Flush
      BY <2>1 DEF Platform, P!Step, P!SlackEnter, P!CheckAttributes, P!OpenAndLocate, P!Grow,
         P!Seek, P!WriteSlack, P!FlushSlack, P!Restore, P!Finish, P!DiscardOpen, P!SetSparse,
         P!ZeroData, P!Invoked
    <3> QED
      BY <3>1, FlushPayload DEF Platform
  <2>2. CASE at # "flush"
    BY <2>2, AfterFlushPayload DEF Platform
  <2> QED
    BY <2>1, <2>2
<1>3. PayloadTrue /\ UNCHANGED vars => PayloadTrue'
  <2> SUFFICES ASSUME PayloadTrue, UNCHANGED vars PROVE PayloadTrue'
    OBVIOUS
  <2>1. UNCHANGED <<file, at, result, pc, config, file_size, passes_executed, written, flush_ok>>
    BY DEF vars, shredderVars
  <2>2. /\ Payload' = Payload /\ Clean' = Clean /\ Passing' = Passing
        /\ Body(written)' = Body(written)
    BY <2>1 DEF Payload, Body, Clean, FinalPattern, Passing, PassContent
  <2> QED
    BY <2>1, <2>2 DEF PayloadTrue
<1> QED
  BY <1>1, <1>2, <1>3, KernelPayload DEF Next, Program

\* Once flush_file_to_media has reported success on Windows, after a complete pass, the media
\* holds the last pass's pattern, or zeros, in every cell of the payload, and no
\* later failure brings old data back.
THEOREM Win32PayloadOverwritten == Spec => []FlushedPayloadOverwritten
<1>1. PayloadTrue => FlushedPayloadOverwritten
  BY DEF PayloadTrue, FlushedPayloadOverwritten, Stored, Payload, Clean
<1> QED
  BY InitInv, StepInv, InitBounded, StepBounded, InitPayload, StepPayload, <1>1, PTL DEF Spec

\* The state of shred_file and of the Win32 platform layer keeps its types, and no
\* counter leaves the volume, whatever the calls return.
THEOREM Win32ShredTypeCorrect == Spec => []TypeOK
<1>1. Bounded => TypeOK
  BY DEF Bounded
<1> QED
  BY InitInv, StepInv, InitBounded, StepBounded, <1>1, PTL DEF Spec

----------------------------------------------------------------------------
\* The three variables of the abstract call, as FileShredder maps them.
Entry    == CASE name = "original" -> "original" [] name = "none" -> "none" [] OTHER -> "renamed"
Returned == pc = "done" /\ record.verification_passed

\* The names the entry goes through, as the caller of the call sees them.
LEMMA EntryValues ==
  /\ name = "original" => Entry = "original"
  /\ name = "none" => Entry = "none"
  /\ name \in {"zeros", "As", "short"} => Entry = "renamed"
  /\ name' = "original" => Entry' = "original"
  /\ name' = "none" => Entry' = "none"
  /\ name' \in {"zeros", "As", "short"} => Entry' = "renamed"
BY DEF Entry

\* The abstract call's steps under the mapping of FileShredder.
LEMMA CallMapped ==
  /\ Call!vars = <<Entry, record.status, Returned>>
  /\ Call!Init <=> Entry = "original" /\ record.status = "PENDING" /\ Returned = FALSE
  /\ Call!Refuse <=> /\ record.status = "PENDING"
                     /\ Entry = "original"
                     /\ record'.status \in {"SKIPPED_NOT_REGULAR_FILE", "FAILED_OVERWRITE"}
                     /\ UNCHANGED <<Entry, Returned>>
  /\ Call!Mask <=> /\ record.status = "PENDING"
                   /\ Entry' = "renamed"
                   /\ UNCHANGED <<record.status, Returned>>
  /\ Call!Finish <=>
       /\ record.status = "PENDING"
       /\ \/ /\ record'.status = "FAILED_VERIFICATION" /\ Returned' = FALSE
             /\ Entry' \in {Entry, "none"}
          \/ /\ record'.status = "SUCCESS_WITH_WARNINGS" /\ Returned' = TRUE
             /\ Entry' \in {Entry, "none"}
          \/ record'.status = "SUCCESS_VERIFIED" /\ Returned' = TRUE /\ Entry' = "none"
BY DEF Call!vars, Call!Init, Call!Refuse, Call!Mask, Call!Finish, Entry, Returned

\* A call starts as ShredCall says.
LEMMA InitCall == Init => Call!Init
<1>1. Init => name = "original" /\ pc = "start" /\ record.status = "PENDING"
  BY DEF Init, ShredderInit, NewRecord
<1> QED
  BY <1>1, CallMapped, EntryValues DEF Returned

\* A step that neither ends the call nor touches the name is not seen.
LEMMA CallStutter ==
  ASSUME name' = name, record'.status = record.status,
         UNCHANGED <<pc, record>> \/ (pc # "done" /\ pc' # "done")
  PROVE  UNCHANGED Call!vars
<1>1. Entry' = Entry
  BY DEF Entry
<1>2. Returned' = Returned
  BY DEF Returned
<1>3. /\ Call!vars = <<Entry, record.status, Returned>>
      /\ Call!vars' = <<Entry', record'.status, Returned'>>
  BY DEF Call!vars, Entry, Returned
<1> QED
  BY <1>1, <1>2, <1>3

\* The call is refused.
LEMMA CallRefused ==
  ASSUME Judging, record \in Audit, name = "original", name' = name,
         pc \notin Judged \union {"done"},
         \E status \in {"SKIPPED_NOT_REGULAR_FILE", "FAILED_OVERWRITE"} :
           record' = [record EXCEPT !.status = status]
  PROVE  Call!Refuse
<1>1. record.status = "PENDING" /\ ~ record.verification_passed
  BY DEF Judging
<1>2. /\ record'.status \in {"SKIPPED_NOT_REGULAR_FILE", "FAILED_OVERWRITE"}
      /\ record'.verification_passed = record.verification_passed
  BY DEF Audit
<1>3. Entry' = Entry /\ Entry = "original"
  BY EntryValues DEF Entry
<1>4. Returned' = Returned
  BY <1>1, <1>2 DEF Returned
<1> QED
  BY <1>1, <1>2, <1>3, <1>4, CallMapped

\* Every step of shred_file is a step of the call, or not seen.
LEMMA ShredCalls ==
  Inv /\ Bounded /\ Judging /\ Shred => [Call!Next]_Call!vars
<1> SUFFICES ASSUME Inv, Bounded, Judging, ShredStep PROVE [Call!Next]_Call!vars
  BY DEF Shred
<1>0. record \in Audit /\ name \in Names
  BY Types
<1>1. pc \notin Judged \union {"done"} => name = "original" /\ record.status = "PENDING"
  BY DEF Inv, Progress, Judging
<1>2. CASE NotRegular
  <2>1. /\ pc = "start" /\ name' = name
        /\ record' = [record EXCEPT !.status = "SKIPPED_NOT_REGULAR_FILE"]
    BY <1>2 DEF NotRegular
  <2>2. Call!Refuse
    BY <1>0, <1>1, <2>1, CallRefused DEF Judged
  <2> QED
    BY <2>2 DEF Call!Next
<1>3. CASE FailOverwrite /\ (OpenTarget \/ WriteChunk)
  <2>1. /\ pc \in {"open", "pass"} /\ name' = name
        /\ record' = [record EXCEPT !.status = "FAILED_OVERWRITE"]
    BY <1>3 DEF OpenTarget, WriteChunk, FailOverwrite
  <2>2. Call!Refuse
    BY <1>0, <1>1, <2>1, CallRefused DEF Judged
  <2> QED
    BY <2>2 DEF Call!Next
<1>4. CASE \/ Measure \/ AfterFlush \/ AfterSlack \/ OpenReadBack \/ ReadChunk \/ AfterDiscard
           \/ (OpenTarget \/ WriteChunk) /\ ~ FailOverwrite
  <2>1. name' = name /\ pc # "done" /\ pc' # "done"
    BY <1>4 DEF Measure, AfterFlush, AfterSlack, OpenReadBack, ReadChunk, AfterDiscard,
       OpenTarget, WriteChunk, AfterPass, Verdict
  <2>2. record'.status = record.status
    BY <1>0, <1>4 DEF Measure, AfterFlush, AfterSlack, OpenReadBack, ReadChunk, AfterDiscard,
       OpenTarget, WriteChunk, AfterPass, Verdict, Audit
  <2> QED
    BY <2>1, <2>2, CallStutter
<1>5. CASE MaskZeros \/ MaskAs \/ ShrinkName
  <2>1. /\ pc # "done" /\ pc' # "done" /\ record' = record
        /\ name' = name \/ name' \in {"zeros", "As", "short"}
    BY <1>5 DEF MaskZeros, MaskAs, ShrinkName, Rename
  <2>2. CASE name' = name
    BY <2>1, <2>2, CallStutter
  <2>3. CASE name' \in {"zeros", "As", "short"}
    <3>1. record.status = "PENDING" /\ Entry' = "renamed" /\ Returned' = Returned
      BY <2>1, <2>3, EntryValues DEF Judging, Returned
    <3>2. Call!Mask
      BY <2>1, <3>1, CallMapped
    <3> QED
      BY <3>2 DEF Call!Next
  <2> QED
    BY <2>1, <2>2, <2>3
<1>6. CASE Unlink
  <2>1. PICK removed \in BOOLEAN :
          /\ name' = IF removed THEN "none" ELSE name
          /\ record' = [record EXCEPT !.metadata_scrub_completed = removed /\ all_renames_succeeded,
                                      !.status = FinalStatus(removed /\ all_renames_succeeded)]
    BY <1>6 DEF Unlink
  <2>2. pc = "unlink" /\ pc' = "done" /\ record.status = "PENDING"
    BY <1>6 DEF Unlink, Judging
  <2>3. /\ record'.status = FinalStatus(removed /\ all_renames_succeeded)
        /\ record'.verification_passed = record.verification_passed
        /\ record.verification_passed \in BOOLEAN
    BY <1>0, <2>1 DEF Audit
  <2>4. Returned' = record.verification_passed
    BY <2>2, <2>3 DEF Returned
  <2>5. /\ removed => Entry' = "none"
        /\ ~ removed => Entry' = Entry
    BY <2>1, EntryValues DEF Entry
  <2>6. \/ /\ ~ record.verification_passed
           /\ FinalStatus(removed /\ all_renames_succeeded) = "FAILED_VERIFICATION"
        \/ /\ record.verification_passed
           /\ FinalStatus(removed /\ all_renames_succeeded) = "SUCCESS_WITH_WARNINGS"
        \/ /\ record.verification_passed /\ removed
           /\ FinalStatus(removed /\ all_renames_succeeded) = "SUCCESS_VERIFIED"
    BY DEF FinalStatus
  <2>7. Call!Finish
    BY <2>2, <2>3, <2>4, <2>5, <2>6, CallMapped
  <2> QED
    BY <2>7 DEF Call!Next
<1> QED
  BY <1>2, <1>3, <1>4, <1>5, <1>6 DEF ShredStep

\* Every step is one of the abstract call's, or not seen by its caller.
LEMMA StepCall == Inv /\ Bounded /\ Judging /\ [Next]_vars => [Call!Next]_Call!vars
<1>1. Platform \/ Kernel \/ UNCHANGED vars => UNCHANGED Call!vars
  <2> SUFFICES ASSUME Platform \/ Kernel \/ UNCHANGED vars PROVE UNCHANGED Call!vars
    OBVIOUS
  <2>1. UNCHANGED <<pc, name, record>>
    BY DEF Platform, Kernel, vars, shredderVars
  <2> QED
    BY <2>1, CallStutter
<1> QED
  BY <1>1, ShredCalls DEF Next, Program

\* shred_file with the Win32 platform layer does what ShredCall promises its
\* callers: a refused file keeps its name, only SUCCESS_VERIFIED says that it is
\* gone, and the two successes are what returns TRUE.
THEOREM Win32ShredRefinesCall == Spec => ImplementsCall
BY InitInv, StepInv, InitBounded, StepBounded, InitJudging, StepJudging, InitCall, StepCall,
   PTL DEF Spec, Call!Spec, ImplementsCall

----------------------------------------------------------------------------
\* Each count of what is left stays inside its digit.
CountsTyped ==
  /\ StagesLeft \in Nat
  /\ PassesLeft \in 0 .. PassCount(config) /\ PassCount(config) \in Nat
  /\ CallsLeft \in 0 .. MaxCalls - 1
  /\ CellsLeft(total_written) \in 0 .. Capacity

\* Because the types bound what the counts are made of.
LEMMA CountTypes == Bounded => CountsTyped
<1> SUFFICES ASSUME Bounded PROVE CountsTyped
  OBVIOUS
<1>1. /\ pc \in Stages /\ passes_executed \in 0 .. PassCount(config) /\ config \in Configs
      /\ at \in P!Labels /\ written \in 0 .. Capacity /\ checked \in 0 .. Capacity
      /\ total_written \in 0 .. Capacity
  BY DEF Bounded, TypeOK, ShredderTypeOK
<1>2. PassCount(config) \in Nat /\ Capacity \in Nat
  BY <1>1, PassCountType, StorageAssumption
<1>3. StagesLeft \in Nat
  BY <1>1 DEF StagesLeft, Stages
<1>4. CallsLeft \in 0 .. MaxCalls - 1
  BY <1>1 DEF CallsLeft, MaxCalls, P!Labels
<1>5. PassesLeft \in 0 .. PassCount(config)
  BY <1>1, <1>2 DEF PassesLeft
<1>6. CellsLeft(total_written) \in 0 .. Capacity
  BY <1>1, <1>2 DEF CellsLeft
<1> QED
  BY <1>2, <1>3, <1>4, <1>5, <1>6 DEF CountsTyped

\* The first count that changes decides.
Nearer ==
  \/ StagesLeft' < StagesLeft
  \/ StagesLeft' = StagesLeft /\ PassesLeft' < PassesLeft
  \/ StagesLeft' = StagesLeft /\ PassesLeft' = PassesLeft /\ CallsLeft' < CallsLeft
  \/ /\ StagesLeft' = StagesLeft /\ PassesLeft' = PassesLeft /\ CallsLeft' = CallsLeft
     /\ CellsLeft(total_written)' < CellsLeft(total_written)

\* Then the whole count is less.
LEMMA NearerCounts ==
  ASSUME Bounded, Bounded', config' = config, Nearer
  PROVE  Countdown' \in 0 .. Countdown - 1
<1> DEFINE passes == PassCount(config) + 1
           cells  == Capacity + 1
           now    == ((StagesLeft * passes + PassesLeft) * MaxCalls + CallsLeft) * cells
                       + CellsLeft(total_written)
           next   == ((StagesLeft' * passes + PassesLeft') * MaxCalls + CallsLeft') * cells
                       + CellsLeft(total_written)'
<1>1. CountsTyped /\ CountsTyped'
  BY CountTypes, PTL
<1>2. PassCount(config)' = PassCount(config) /\ Capacity \in Nat /\ MaxCalls = 10
  BY StorageAssumption DEF PassCount, MaxCalls
<1>3. /\ StagesLeft \in Nat /\ StagesLeft' \in Nat /\ passes \in Nat /\ cells \in Nat
      /\ PassesLeft \in 0 .. passes - 1 /\ PassesLeft' \in 0 .. passes - 1
      /\ CallsLeft \in 0 .. MaxCalls - 1 /\ CallsLeft' \in 0 .. MaxCalls - 1
      /\ CellsLeft(total_written) \in 0 .. cells - 1
      /\ CellsLeft(total_written)' \in 0 .. cells - 1
  BY <1>1, <1>2 DEF CountsTyped
<1>4. Countdown = now /\ Countdown' = next
  BY <1>2 DEF Countdown, StepsLeft
<1> HIDE DEF passes, cells
<1>5. now \in Nat /\ next \in Nat /\ next < now
  BY <1>2, <1>3, FourDigits DEF Nearer
<1> HIDE DEF now, next
<1> QED
  BY <1>4, <1>5

\* Every call of the platform layer is nearer to the return: none is made twice but
\* the write, which has written something.
LEMMA PlatformNearer == Inv /\ Bounded /\ Platform => Nearer
<1> SUFFICES ASSUME Inv, Bounded, Platform PROVE Nearer
  OBVIOUS
<1>1. /\ pc' = pc /\ config' = config /\ passes_executed' = passes_executed /\ P!Step
  BY DEF Platform, shredderVars
<1>2. StagesLeft' = StagesLeft /\ PassesLeft' = PassesLeft
  BY <1>1 DEF StagesLeft, PassesLeft, PassCount
<1>3. \/ at # "returned" /\ at # "idle" /\ at' = "returned"
      \/ at = "slack" /\ at' = "attributes"
      \/ at = "attributes" /\ at' = "open"
      \/ at = "open" /\ at' = "grow"
      \/ at = "grow" /\ at' = "seek"
      \/ at = "seek" /\ at' = "write"
      \/ at = "sync" /\ at' = "restore"
      \/ at = "restore" /\ at' = "finish"
      \/ at = "discard" /\ at' = "sparse"
      \/ at = "sparse" /\ at' = "zero"
      \/ at = "zero" /\ at' = "invoked"
      \/ at = "write" /\ at' = "sync"
      \/ /\ at = "write" /\ at' = "write"
         /\ \E n \in 1 .. P!Fill - total_written : total_written' = total_written + n
  BY <1>1 DEF P!Step, P!Flush, P!SlackEnter, P!CheckAttributes, P!OpenAndLocate, P!Grow, P!Seek,
     P!WriteSlack, P!FlushSlack, P!Restore, P!Finish, P!DiscardOpen, P!SetSparse, P!ZeroData,
     P!Invoked, P!Return, P!ReturnAfter, P!Goto, P!GiveUp, P!FailUnrestored
<1>4. at \in P!Labels
  BY DEF Bounded, TypeOK
<1>5. CASE at = "write" /\ at' = "write"
  <2>1. PICK n \in 1 .. P!Fill - total_written : total_written' = total_written + n
    BY <1>3, <1>5
  <2>2. /\ pc = "slack" /\ P!Fill \in Int /\ total_written \in Nat /\ Capacity \in Nat
    BY <1>5, FillBound DEF Inv, Turns, SlackLabels
  <2>3. total_written' > total_written /\ total_written' \in Nat
    BY <2>1, <2>2
  <2>4. at' = at
    BY <1>5
  <2>5. CallsLeft' = CallsLeft
    BY <2>4 DEF CallsLeft
  <2>6. CellsLeft(total_written)' < CellsLeft(total_written)
    BY <1>1, <2>2, <2>3 DEF CellsLeft
  <2> QED
    BY <1>2, <2>5, <2>6 DEF Nearer
<1>6. CASE ~ (at = "write" /\ at' = "write")
  <2>1. CallsLeft' < CallsLeft
    BY <1>3, <1>4, <1>6 DEF CallsLeft, P!Labels
  <2> QED
    BY <1>2, <2>1 DEF Nearer
<1> QED
  BY <1>5, <1>6

\* So is every step of shred_file itself: a stage is left for a later one, a pass for
\* the next, and a chunk, written or read, is never empty.
LEMMA ShredNearer == Inv /\ Bounded /\ Shred => Nearer
<1> SUFFICES ASSUME Inv, Bounded, ShredStep, UNCHANGED platformVars PROVE Nearer
  BY DEF Shred
<1>0. /\ file_size \in Nat /\ written \in 0 .. Capacity /\ checked \in 0 .. Capacity
      /\ passes_executed \in 0 .. PassCount(config) /\ PassCount(config) \in Nat
      /\ Capacity \in Nat /\ file.size \in 0 .. Capacity
  BY Types
<1>1. CASE NotRegular \/ Measure \/ OpenTarget \/ AfterFlush \/ AfterSlack \/ OpenReadBack
             \/ AfterDiscard \/ MaskZeros \/ MaskAs \/ ShrinkName \/ Unlink
  <2>1. \/ pc = "start" /\ pc' \in {"open", "done"}
        \/ pc = "open" /\ pc' \in {"pass", "flush", "done"}
        \/ pc = "flush" /\ pc' = "slack"
        \/ pc = "slack" /\ pc' = "verify"
        \/ pc = "verify" /\ pc' \in {"checking", "discard"}
        \/ pc = "discard" /\ pc' = "mask0"
        \/ pc = "mask0" /\ pc' = "maskA"
        \/ pc = "maskA" /\ pc' = "shrink"
        \/ pc = "shrink" /\ pc' = "unlink"
        \/ pc = "unlink" /\ pc' = "done"
    BY <1>1 DEF NotRegular, Measure, OpenTarget, FailOverwrite, AfterPass, AfterFlush,
       AfterSlack, OpenReadBack, Verdict, AfterDiscard, MaskZeros, MaskAs, ShrinkName, Rename,
       Unlink
  <2> QED
    BY <2>1 DEF Nearer, StagesLeft
<1>2. CASE WriteChunk
  <2>1. /\ pc = "pass" /\ config' = config
        /\ \/ pc' \in {"flush", "done"}
           \/ pc' = "pass" /\ passes_executed' = passes_executed + 1
           \/ /\ pc' = "pass" /\ passes_executed' = passes_executed /\ at' = at
              /\ written' = written + Chunk(written)
    BY <1>2 DEF WriteChunk, FailOverwrite, AfterPass
  <2>2. CASE pc' \in {"flush", "done"}
    BY <2>1, <2>2 DEF Nearer, StagesLeft
  <2>3. CASE pc' = "pass" /\ passes_executed' = passes_executed + 1
    <3>1. StagesLeft' = StagesLeft
      BY <2>1, <2>3 DEF StagesLeft
    <3>2. PassCount(config)' = PassCount(config)
      BY <2>1 DEF PassCount
    <3>3. PassesLeft' < PassesLeft
      BY <1>0, <2>3, <3>2 DEF PassesLeft
    <3> QED
      BY <3>1, <3>3 DEF Nearer
  <2>4. CASE /\ pc' = "pass" /\ passes_executed' = passes_executed /\ at' = at
             /\ written' = written + Chunk(written)
    <3>1. StagesLeft' = StagesLeft /\ PassesLeft' = PassesLeft /\ CallsLeft' = CallsLeft
      BY <2>1, <2>4 DEF StagesLeft, PassesLeft, CallsLeft, PassCount
    <3>2. Chunk(written) \in Nat \ {0}
      BY <1>0, <2>1, ChunkType DEF Bounded
    <3>3. CellsLeft(total_written)' < CellsLeft(total_written)
      BY <1>0, <2>1, <2>4, <3>2 DEF CellsLeft
    <3> QED
      BY <3>1, <3>3 DEF Nearer
  <2> QED
    BY <2>1, <2>2, <2>3, <2>4
<1>3. CASE ReadChunk
  <2>1. PICK m \in 0 .. Chunk(checked) :
          /\ checked' = checked + m /\ checked + m <= file.size
          /\ pc = "checking"
          /\ UNCHANGED <<config, passes_executed>>
          /\ \/ pc' = "discard"
             \/ pc' = pc /\ at' = at /\ m = Chunk(checked) /\ checked' < file_size
    BY <1>3 DEF ReadChunk, Verdict, KeepReading
  <2>2. CASE pc' = "discard"
    BY <2>1, <2>2 DEF Nearer, StagesLeft
  <2>3. CASE pc' = pc /\ at' = at /\ m = Chunk(checked) /\ checked' < file_size
    <3>1. StagesLeft' = StagesLeft /\ PassesLeft' = PassesLeft /\ CallsLeft' = CallsLeft
      BY <2>1, <2>3 DEF StagesLeft, PassesLeft, CallsLeft, PassCount
    <3>2. checked < file_size
      <4>1. m \in Int /\ m >= 0
        BY <2>1
      <4> QED
        BY <1>0, <2>1, <2>3, <4>1
    <3>3. Chunk(checked) \in Nat \ {0}
      BY <1>0, <3>2, ChunkType
    <3>4. CellsLeft(total_written)' < CellsLeft(total_written)
      BY <1>0, <2>1, <2>3, <3>3 DEF CellsLeft
    <3> QED
      BY <3>1, <3>4 DEF Nearer
  <2> QED
    BY <2>1, <2>2, <2>3
<1> QED
  BY <1>1, <1>2, <1>3 DEF ShredStep

\* So that every step of the program counts, and none leaves everything as it is.
LEMMA ProgramCounts == Inv /\ Bounded /\ Program => Countdown' \in 0 .. Countdown - 1
<1> SUFFICES ASSUME Inv, Bounded, Program PROVE Countdown' \in 0 .. Countdown - 1
  OBVIOUS
<1>1. Bounded'
  BY StepBounded DEF Next
<1>2. Nearer
  BY PlatformNearer, ShredNearer DEF Program
<1>3. config' = config
  BY DEF Program, Platform, Shred, shredderVars, ShredStep, NotRegular, Measure, OpenTarget,
     WriteChunk, AfterFlush, AfterSlack, OpenReadBack, ReadChunk, AfterDiscard, MaskZeros,
     MaskAs, ShrinkName, Rename, Unlink
<1> QED
  BY <1>1, <1>2, <1>3, NearerCounts

\* What the kernel does while shred_file runs leaves the count as it is.
LEMMA KernelCounts == Kernel => Countdown' = Countdown
<1> SUFFICES ASSUME Kernel PROVE Countdown' = Countdown
  OBVIOUS
<1>1. /\ UNCHANGED <<pc, config, passes_executed, written, checked>>
      /\ UNCHANGED <<at, total_written>>
  BY DEF Kernel, shredderVars, P!LazyWriter
<1> QED
  BY <1>1 DEF Countdown, StepsLeft, StagesLeft, PassesLeft, CallsLeft, CellsLeft, PassCount

\* shred_file on Windows cannot run for ever, for any volume, buffer size and configuration: no
\* call that fails or does less than it was asked for takes it back, and the steps it
\* takes are at most the count it starts with.
THEOREM Win32StepsRunOut == Spec => EachStepCounts
<1> DEFINE Counts == /\ Program => Countdown' \in 0 .. Countdown - 1
                     /\ ~ Program => Countdown' = Countdown
<1>1. Inv /\ Bounded /\ [Next]_vars => [Counts]_vars
  BY ProgramCounts, KernelCounts DEF Next
<1>2. EachStepCounts <=> [][Counts]_vars
  BY DEF EachStepCounts
<1> HIDE DEF Counts
<1> QED
  BY InitInv, StepInv, InitBounded, StepBounded, <1>1, <1>2, PTL DEF Spec
==============================================================================
