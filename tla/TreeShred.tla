------------------------------- MODULE TreeShred -------------------------------
(***************************************************************************)
(* The shred command on its target: FileShredder::shred, shred_directory   *)
(* and export_audit_json, called by handle_shred once the options are      *)
(* read.  One entry of the tree after another is shredded by a call of     *)
(* shred_file, here ShredCall, while other processes create and remove     *)
(* files.                                                                  *)
(***************************************************************************)
EXTENDS Sequences, SequencesExt, FiniteSets

CONSTANTS
  Targets,  \* the paths the command may be given
  Kind,     \* what each entry is: see Kinds
  Parent,   \* the directory of each entry, Top for the outermost
  Top,
  LinkTo,   \* the file or directory a symbolic link stands for
  Initial,  \* the entries there are at first
  Elsewhere \* those that are in no target, but links may lead there

VARIABLES
  target,          \* the path the command was given
  tree,            \* the entries there are, and which name each has
  created,         \* entries made by other processes
  vanished,        \* entries removed by other processes
  refused,         \* directories that could not be listed or removed
  pc,
  stack,           \* what is left to visit of each open directory
  files_to_shred,
  dirs_to_remove,
  current,         \* the file shred_file was called with
  entry, status, passed,  \* the call: see ShredCall
  records,         \* records_: target and status of each
  ok,              \* what shred returned
  audit,           \* the certificate: "none", "complete" or "broken"
  saved,           \* main printed that it was saved
  exit             \* exit code, or "running"

C == INSTANCE ShredCall

others   == <<created, vanished>>
walk     == <<stack, files_to_shred, dirs_to_remove>>
callVars == <<current, entry, status, passed>>
outcome  == <<records, ok>>
ends     == <<audit, saved, exit>>

vars == <<target, tree, others, refused, pc, walk, callVars, outcome, ends>>

Kinds == {"file", "dir", "link_file", "link_dir", "other"}

Entries == DOMAIN Kind

ASSUME TreeAssumption ==
  /\ Kind \in [Entries -> Kinds]
  /\ Targets \subseteq {e \in Initial : Kind[e] \in {"file", "dir"}}
  /\ Parent \in [Entries -> {d \in Entries : Kind[d] = "dir"} \union {Top}]
  /\ LinkTo \in [{e \in Entries : Kind[e] \in {"link_file", "link_dir"}} -> Entries]
  /\ Initial \subseteq Entries
  /\ Elsewhere \subseteq Initial \ Targets

\* What there is at first is one tree and, elsewhere, others: no directory lies
\* below itself, and a link stands for a file or directory there is.
ASSUME TreeShape ==
  /\ Top \notin Entries
  /\ \A e \in Initial : Parent[e] \in Initial \union {Top}
  /\ \A e \in Initial : Parent[e] # Top => (e \in Elsewhere <=> Parent[e] \in Elsewhere)
  /\ \A d, e \in Initial \ Elsewhere : Parent[d] = Top /\ Parent[e] = Top => d = e
  /\ \A S \in (SUBSET Entries) \ {{}} : \E e \in S : Parent[e] \notin S
  /\ \A e \in DOMAIN LinkTo : /\ LinkTo[e] \in Initial
                             /\ Kind[LinkTo[e]] = IF Kind[e] = "link_dir" THEN "dir" ELSE "file"

\* The entries there are, and those others may still make, come to an end.
ASSUME TreeFinite == IsFiniteSet(Entries)

Present == DOMAIN tree

Children(d) == {e \in Present : Parent[e] = d}

\* fs::is_directory of the target: shred_directory or shred_file.
Single == Kind[target] # "dir"

\* What the kernel finds under the name of e.
Resolved(e) == IF e \in DOMAIN LinkTo THEN LinkTo[e] ELSE e

\* fs::is_regular_file follows links; one whose file was renamed dangles.
IsRegular(e) ==
  /\ e \in Present
  /\ Resolved(e) \in Present
  /\ Kind[Resolved(e)] = "file"
  /\ e # Resolved(e) => tree[Resolved(e)] = "original"

Init ==
  /\ target \in Targets
  /\ tree = [e \in Initial |-> "original"]
  /\ created = {} /\ vanished = {} /\ refused = {}
  /\ pc = "start"
  /\ stack = <<>> /\ files_to_shred = <<>> /\ dirs_to_remove = <<>>
  /\ current = target
  /\ C!Init
  /\ records = <<>>
  /\ ok = FALSE
  /\ audit = "none" /\ saved = FALSE /\ exit = "running"

----------------------------------------------------------------------------
\* The walk.  What a directory lists is what it held when it was opened.

ShredFileAtOnce ==
  /\ pc = "start"
  /\ Single
  /\ files_to_shred' = <<target>>
  /\ pc' = "shred"
  /\ UNCHANGED <<target, tree, others, refused, stack, dirs_to_remove, callVars, outcome, ends>>

\* Without -r.
RefuseDirectory ==
  /\ pc = "start"
  /\ ~ Single
  /\ pc' = "exited"
  /\ exit' = "1"
  /\ UNCHANGED <<target, tree, others, refused, walk, callVars, outcome, audit, saved>>

\* Both is_directory(path, ec) answer false when the root cannot be looked at: to
\* shred it is a file, and no regular one; to shred_directory it is nothing.
RootNotADirectory ==
  /\ pc = "start"
  /\ ~ Single
  /\ pc' = "returned"
  /\ refused' = refused \union {target}
  /\ \/ UNCHANGED records
     \/ records' = Append(records, [target |-> target, status |-> "SKIPPED_NOT_REGULAR_FILE"])
  /\ UNCHANGED <<target, tree, others, walk, callVars, ok, ends>>

\* A root that cannot be listed gives the end iterator and an error code that
\* is not looked at.
OpenRoot ==
  /\ pc = "start"
  /\ ~ Single
  /\ pc' = "walk"
  /\ \/ stack' = <<Children(target)>> /\ UNCHANGED refused
     \/ stack' = <<>> /\ refused' = refused \union {target}
  /\ UNCHANGED <<target, tree, others, files_to_shred, dirs_to_remove, callVars, outcome, ends>>

\* Which list an entry goes to.  Its own type was read with the directory; what
\* a link leads to is looked up now.
List(e) ==
  CASE Kind[e] = "file" \/ (Kind[e] = "link_file" /\ IsRegular(e)) ->
         files_to_shred' = Append(files_to_shred, e) /\ UNCHANGED dirs_to_remove
    [] Kind[e] \in {"dir", "link_dir"} ->
         dirs_to_remove' = Append(dirs_to_remove, e) /\ UNCHANGED files_to_shred
    [] OTHER -> UNCHANGED <<files_to_shred, dirs_to_remove>>

\* As if the walk were told to follow links to directories.
EnteredThroughLinks(e) == Kind[e] \in {"dir", "link_dir"}

Entered(e) == Kind[e] = "dir"

\* The loop body and ++it: a directory is entered, a link to one is not.  One
\* without permission is passed over; any other error throws, and so does a link
\* that cannot be followed to its end.
Visit ==
  /\ pc = "walk"
  /\ stack # <<>>
  /\ \E e \in Last(stack) :
       LET rest == [stack EXCEPT ![Len(stack)] = @ \ {e}]
       IN  /\ List(e)
           /\ \/ ~ Entered(e) /\ stack' = rest /\ UNCHANGED <<pc, refused>>
              \/ /\ Entered(e) /\ e \in Present
                 /\ stack' = Append(rest, Children(Resolved(e)))
                 /\ UNCHANGED <<pc, refused>>
              \/ Entered(e) /\ stack' = rest /\ refused' = refused \union {e} /\ UNCHANGED pc
              \/ /\ Entered(e) \/ e \in DOMAIN LinkTo
                 /\ pc' = "thrown"
                 /\ UNCHANGED <<stack, refused>>
  /\ UNCHANGED <<target, tree, others, callVars, outcome, ends>>

\* The end of a directory, and of the walk.
Ascend ==
  /\ pc = "walk"
  /\ IF stack = <<>> THEN pc' = "shred" /\ UNCHANGED stack
     ELSE Last(stack) = {} /\ stack' = Front(stack) /\ UNCHANGED pc
  /\ UNCHANGED <<target, tree, others, refused, files_to_shred, dirs_to_remove, callVars, outcome, ends>>

----------------------------------------------------------------------------
\* One call of shred_file per file, one record per call.

Overwritten == {"FAILED_VERIFICATION", "SUCCESS_WITH_WARNINGS", "SUCCESS_VERIFIED"}

\* As if the early return after failed passes came before the push_back.
RecordedUnlessRefused(s) ==
  records' = IF s = "FAILED_OVERWRITE" THEN records
             ELSE Append(records, [target |-> current', status |-> s])

Recorded(s) == records' = Append(records, [target |-> current', status |-> s])

\* As if shred returned true for a file as it does for a directory.
AnswerAlwaysTrue(verified) == Single => ok' = TRUE

\* What shred_file returns is what shred returns, of a file; of a directory's
\* files it is dropped.
Answer(verified) == IF Single THEN ok' = verified ELSE UNCHANGED ok

\* is_regular_file(file_path, ec) answers false, too, when the file is there and
\* cannot be looked at.
StartFile ==
  /\ pc = "shred"
  /\ files_to_shred # <<>>
  /\ current' = Head(files_to_shred)
  /\ files_to_shred' = Tail(files_to_shred)
  /\ entry' = "original" /\ passed' = FALSE
  /\ \/ /\ IsRegular(current')
        /\ pc' = "call" /\ status' = "PENDING" /\ UNCHANGED outcome
     \/ /\ status' = "SKIPPED_NOT_REGULAR_FILE"
        /\ Recorded(status') /\ Answer(FALSE) /\ UNCHANGED pc
  /\ UNCHANGED <<target, tree, others, refused, stack, dirs_to_remove, ends>>

\* The rest of the call, whose first question StartFile has answered; what it does
\* to the entry is seen in the tree.
CallStep ==
  /\ pc = "call"
  /\ C!Next
  /\ status' # "SKIPPED_NOT_REGULAR_FILE"
  /\ tree' = CASE current \notin Present -> tree
               [] current \in Present /\ entry' = "none" ->
                    [e \in Present \ {current} |-> tree[e]]
               [] OTHER -> [tree EXCEPT ![current] = entry']
  /\ UNCHANGED current
  /\ IF status' = "PENDING" THEN UNCHANGED <<pc, outcome>>
     ELSE pc' = "shred" /\ Recorded(status') /\ Answer(passed')
  /\ UNCHANGED <<target, others, refused, walk, ends>>

FileDone ==
  /\ pc = "shred"
  /\ files_to_shred = <<>>
  /\ pc' = IF Single THEN "returned" ELSE "remove"
  /\ UNCHANGED <<target, tree, others, refused, walk, callVars, outcome, ends>>

----------------------------------------------------------------------------
\* The directories, the last one found first.

\* fs::remove of a directory, or of a link to one; the error code is dropped.
fs_remove(d) ==
  \/ /\ d \in Present
     /\ Children(d) = {}
     /\ tree' = [e \in Present \ {d} |-> tree[e]]
     /\ UNCHANGED refused
  \/ /\ refused' = IF Children(d) = {} THEN refused \union {d} ELSE refused
     /\ UNCHANGED tree

\* As if the list were gone through from the start.
OldestDirectory == 1

NextDirectory == Len(dirs_to_remove)

\* As if fs::remove_all were called.
RemoveDirectoryAll ==
  /\ pc = "remove"
  /\ dirs_to_remove # <<>>
  /\ LET d == dirs_to_remove[NextDirectory]
     IN  tree' = [e \in {e \in Present \ {d} : Parent[e] # d} |-> tree[e]]
  /\ dirs_to_remove' = RemoveAt(dirs_to_remove, NextDirectory)
  /\ UNCHANGED <<target, others, refused, pc, stack, files_to_shred, callVars, outcome, ends>>

\* As if a directory that is not empty yet stayed on the list.
RemoveDirectoryRetries ==
  /\ pc = "remove"
  /\ dirs_to_remove # <<>>
  /\ fs_remove(dirs_to_remove[NextDirectory])
  /\ dirs_to_remove' = IF dirs_to_remove[NextDirectory] \in DOMAIN tree' THEN dirs_to_remove
                       ELSE RemoveAt(dirs_to_remove, NextDirectory)
  /\ UNCHANGED <<target, others, pc, stack, files_to_shred, callVars, outcome, ends>>

RemoveDirectory ==
  /\ pc = "remove"
  /\ dirs_to_remove # <<>>
  /\ fs_remove(dirs_to_remove[NextDirectory])
  /\ dirs_to_remove' = RemoveAt(dirs_to_remove, NextDirectory)
  /\ UNCHANGED <<target, others, pc, stack, files_to_shred, callVars, outcome, ends>>

RemoveRoot ==
  /\ pc = "remove"
  /\ dirs_to_remove = <<>>
  /\ fs_remove(target)
  /\ ok' = TRUE
  /\ pc' = "returned"
  /\ UNCHANGED <<target, others, walk, callVars, records, ends>>

----------------------------------------------------------------------------
\* The certificate has every record, unless the stream failed after it was
\* opened, which is not looked at; false is returned when it was not opened.
export_audit_json == audit' \in {"none", "complete", "broken"}

\* handle_shred, after shred has returned.
Finish ==
  /\ pc = "returned"
  /\ pc' = "exited"
  /\ export_audit_json
  /\ saved' = (audit' # "none")
  /\ exit' = IF ok THEN "0" ELSE "1"
  /\ UNCHANGED <<target, tree, others, refused, walk, callVars, outcome>>

----------------------------------------------------------------------------
\* Other processes: each file appears once or disappears once.

Create ==
  /\ \E e \in Entries \ (Initial \union created) :
       /\ Kind[e] = "file"
       /\ Parent[e] \in Present
       /\ tree' = [f \in Present \union {e} |-> IF f = e THEN "original" ELSE tree[f]]
       /\ created' = created \union {e}
  /\ UNCHANGED <<target, vanished, refused, pc, walk, callVars, outcome, ends>>

Vanish ==
  /\ \E e \in {e \in Present : Kind[e] = "file"} :
       /\ tree' = [f \in Present \ {e} |-> tree[f]]
       /\ vanished' = vanished \union {e}
  /\ UNCHANGED <<target, created, refused, pc, walk, callVars, outcome, ends>>

Program ==
  \/ ShredFileAtOnce \/ RefuseDirectory \/ RootNotADirectory \/ OpenRoot \/ Visit \/ Ascend
  \/ StartFile \/ CallStep \/ FileDone
  \/ RemoveDirectory \/ RemoveRoot \/ Finish

Next == Program \/ Create \/ Vanish

Spec == Init /\ [][Next]_vars

\* One thread, and shred_file returns (FileShredder: Terminates).
FairSpec == Spec /\ WF_vars(Program)

----------------------------------------------------------------------------
Reported(e, statuses) == \E r \in Range(records) : r.target = e /\ r.status \in statuses

RegularFiles == {e \in Initial \union created : Kind[e] = "file"}

\* No file leaves the tree by this program's hand unless its passes have been
\* run: what appears while the tree is shredded, what was not listed and what
\* could not be overwritten keep their directories alive.
NothingUnshreddedRemoved ==
  \A e \in RegularFiles : e \in Present \/ e \in vanished \/ Reported(e, Overwritten)

\* A tree whose files are all verified, which nobody else touched and nothing
\* was refused of, is gone to the last directory.
CleanTreeGone ==
  (/\ pc = "returned" /\ Parent[target] = Top
   /\ \A r \in Range(records) : r.status = "SUCCESS_VERIFIED"
   /\ created = {} /\ vanished = {} /\ refused = {}
   /\ \A e \in Initial : Kind[e] # "other") => Present = Elsewhere

\* What a link leads to may be overwritten, but nothing outside the tree loses
\* its entry, and no directory outside is emptied.
ElsewhereKeepsItsEntries == \A e \in Elsewhere : e \in Present \/ e \in vanished

\* The audit is complete although the exit code is not: every file the walk
\* could see and that is still there has a record that says what kept it, which
\* SUCCESS_VERIFIED does not (SUCCESS_WITH_WARNINGS is what a failed unlink leaves).
KeptFilesAreReported ==
  (pc = "returned" /\ Parent[target] = Top /\ refused = {}) =>
    \A e \in RegularFiles \ (created \union Elsewhere) :
      e \in Present =>
        Reported(e, {"FAILED_OVERWRITE", "FAILED_VERIFICATION", "SUCCESS_WITH_WARNINGS",
                    "SKIPPED_NOT_REGULAR_FILE"})

\* For a single file the exit code is that of its record.
FileExitHonest ==
  (Single /\ exit # "running") =>
    (exit = "0" <=> Reported(target, {"SUCCESS_WITH_WARNINGS", "SUCCESS_VERIFIED"}))

\* The command comes to an end while others add and remove files, links lead
\* back up the tree and directories cannot be listed or removed.
Terminates == (pc = "start") ~> (pc \in {"exited", "thrown"})

\* What waits to be visited, and the directories the walk has come to.
Pending  == UNION Range(stack)
Entering == {target} \union Range(dirs_to_remove)

\* The entries the walk has still to look at: those that wait, and those of
\* directories it has not come to.
Ahead ==
  CASE pc = "start" -> Entries
    [] pc = "walk"  -> {e \in Entries : Parent[e] \notin Entering} \union Pending
    [] OTHER        -> {}

StagesLeft == [start |-> 6, walk |-> 4, shred |-> 3, call |-> 3, remove |-> 2,
               returned |-> 1, exited |-> 0, thrown |-> 0][pc]

CallsLeft == IF pc # "call" THEN 0 ELSE IF entry = "original" THEN 2 ELSE 1

\* A directory has to be left and removed, and the call for a file takes three steps.
Waiting == Len(stack) + 3 * Len(files_to_shred) + Len(dirs_to_remove)

Countdown == 4 * Cardinality(Ahead) + Waiting + CallsLeft + StagesLeft

\* No entry is come to twice, by whatever links there are: each step takes the
\* command nearer to its end, by a count that starts at four for every entry there
\* is or may be, and what other processes do in between does not take it back.
EachStepCounts ==
  [][/\ Program => Countdown' \in 0 .. Countdown - 1
     /\ ~ Program => Countdown' = Countdown]_vars

----------------------------------------------------------------------------
\* What the program says, and does not do.

\* "Operation complete: Sanitization and verification successful", and exit code
\* 0: every record of the run is a success.
ExitZeroMeansVerified ==
  exit = "0" => \A r \in Range(records) : r.status \in {"SUCCESS_WITH_WARNINGS", "SUCCESS_VERIFIED"}
==============================================================================
