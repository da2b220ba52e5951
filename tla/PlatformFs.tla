------------------------------ MODULE PlatformFs ------------------------------
(***************************************************************************)
(* What include/sanitizer/platform_fs.hpp promises, whatever the operating *)
(* system: three functions on one file, each of which takes effect while   *)
(* it runs and reports what it did when it returns.  The file is reduced   *)
(* to what the promises are about: which cells still hold old data on the  *)
(* media, which units have been given back, and whether the file has been  *)
(* left longer or shorter than it was.  PlatformPosix and PlatformWin32     *)
(* implement it.                                                           *)
(***************************************************************************)
EXTENDS PageCache

CONSTANTS
  Success,  \* slack statuses that claim the slack is gone
  Skipped   \* slack statuses that claim there was nothing to do or no way to

VARIABLES
  logical_size,  \* size of the file before the calls
  call,          \* the function running, or "none"
  stale,         \* cells whose old data is still where the file keeps it
  resized,       \* the file was left with another size
  freed,         \* cells given back to the filesystem
  result         \* [call, ok, status, refused] of the last function to return: see NoResult

vars == <<logical_size, call, stale, resized, freed, result>>

\* refused: the system has denied the function the call that takes back its own
\* change of the size.  No caller is told.
NoResult == [call |-> "none", ok |-> FALSE, status |-> "NOT_ATTEMPTED", refused |-> FALSE]

Init ==
  /\ logical_size \in 0 .. Capacity
  /\ call = "none"
  /\ stale \in SUBSET (Body(logical_size) \union Slack(logical_size))
  /\ resized = FALSE
  /\ freed = {}
  /\ result = NoResult

Invoke(f) ==
  /\ call = "none"
  /\ call' = f
  /\ UNCHANGED <<logical_size, stale, resized, freed, result>>

\* Old data can disappear at any time, by the function's hand or the kernel's.
\* It never comes back.
Overwrite ==
  /\ stale' \in SUBSET stale
  /\ UNCHANGED <<logical_size, call, resized, freed, result>>

\* discard_file_blocks gives the whole units back, all at once; the unit the file
\* ends in may go with them.
Free ==
  /\ call = "discard"
  /\ freed' \in {FullUnits(logical_size), Body(logical_size) \union Slack(logical_size)}
  /\ UNCHANGED <<logical_size, call, stale, resized, result>>

ReplyAfter(f, ok, status, refused) ==
  /\ call = f
  /\ call' = "none"
  /\ result' = [call |-> f, ok |-> ok, status |-> status, refused |-> refused]
  /\ stale' \in SUBSET stale
  /\ UNCHANGED logical_size

Reply(f, ok, status) == ReplyAfter(f, ok, status, FALSE)

\* true: the payload is on the media.
FlushReturns(ok, status) ==
  /\ Reply("flush", ok, status)
  /\ ok => stale' \intersect Body(logical_size) = {}
  /\ UNCHANGED <<resized, freed>>

\* SUCCESS*: the slack is overwritten and the size is what it was.
SlackSucceeds(status) ==
  /\ status \in Success
  /\ Reply("slack", TRUE, status)
  /\ stale' \intersect Slack(logical_size) = {}
  /\ UNCHANGED <<resized, freed>>

\* SKIPPED*: the size was never touched.
SlackSkips(ok, status) ==
  /\ status \in Skipped
  /\ Reply("slack", ok, status)
  /\ UNCHANGED <<resized, freed>>

\* FAILED*: never reported as eliminated, and the size is restored.  "Always", the
\* header says; a function to which the system refuses that call cannot.
SlackFails(status, refused) ==
  /\ status \notin Success \union Skipped
  /\ ReplyAfter("slack", FALSE, status, refused)
  /\ resized' \in BOOLEAN
  /\ ~ refused => UNCHANGED resized
  /\ UNCHANGED freed

\* invoked exactly when the units have been given back.
DiscardReturns(ok, status) ==
  /\ Reply("discard", ok, status)
  /\ IF ok THEN FullUnits(logical_size) \subseteq freed ELSE freed = {}
  /\ UNCHANGED <<resized, freed>>

Next ==
  \/ \E f \in {"flush", "slack", "discard"} : Invoke(f)
  \/ Overwrite
  \/ Free
  \/ FlushReturns(result'.ok, result'.status)
  \/ SlackSucceeds(result'.status)
  \/ SlackSkips(result'.ok, result'.status)
  \/ SlackFails(result'.status, result'.refused)
  \/ DiscardReturns(result'.ok, result'.status)

Spec == Init /\ [][Next]_vars
==============================================================================
