----------------------------- MODULE MetadataScrub -----------------------------
(***************************************************************************)
(* FileShredder::scrub_metadata, name by name: the three renames and the   *)
(* removal, for the files of a directory one after another.  Where         *)
(* FileShredder has one entry and five names for it (Rename, Unlink), here *)
(* are the names of a directory, how long they are, and what a rename to a *)
(* name that exists does to its owner: nonces are drawn per file and may   *)
(* come again.                                                             *)
(***************************************************************************)
EXTENDS Integers

CONSTANTS
  Files,    \* the files of the directory
  LengthOf, \* the length of each one's name
  Nonces,   \* what dist(gen) can return
  NameMax   \* longest name the filesystem takes

VARIABLES
  entries,       \* the directory: which file a name stands for
  at,            \* the call about to be made, or "idle"
  path,          \* the file being scrubbed
  nonce,
  current_path,  \* the name the code believes the file has
  all_renames_succeeded,
  returned       \* what scrub_metadata returned for each file

scrub_vars == <<entries, at, path, nonce, current_path, all_renames_succeeded, returned>>

\* Six digits and an underscore.
NonceLength == 7

ASSUME ScrubAssumption ==
  /\ LengthOf \in [Files -> 1 .. NameMax]
  /\ NameMax \in Nat
  /\ NameMax > NonceLength
  /\ Files # {}
  /\ "none" \notin Nonces   \* no user's name looks like a mask

\* A user's name, and std::string(n, c) + "_" + nonce.
Original(f) == [text |-> f, length |-> LengthOf[f], nonce |-> "none"]

Mask(c, n) == [text |-> c, length |-> n + NonceLength, nonce |-> nonce]

Steps == {"zeros", "As", "shrink", "unlink"}

NamesOf(f) == {n \in DOMAIN entries : entries[n] = f}

----------------------------------------------------------------------------
ScrubInit ==
  /\ entries = [n \in {Original(f) : f \in Files} |-> n.text]
  /\ at = "idle"
  /\ path \in Files
  /\ nonce \in Nonces
  /\ current_path = Original(path)
  /\ all_renames_succeeded = TRUE
  /\ returned = [f \in Files |-> "pending"]

Begin ==
  /\ at = "idle"
  /\ at' = "zeros"
  /\ path' \in {f \in Files : returned[f] = "pending"}
  /\ nonce' \in Nonces
  /\ current_path' = Original(path')
  /\ all_renames_succeeded' = TRUE
  /\ UNCHANGED <<entries, returned>>

\* rename(2): the entry of another file of that name is replaced.
Renamed(from, to) ==
  [n \in (DOMAIN entries \ {from}) \union {to} |->
     IF n = to THEN entries[from] ELSE entries[n]]

\* As if the path were moved on although the rename failed.
RenameFailsMovesOn(to) ==
  /\ all_renames_succeeded' = FALSE
  /\ current_path' = to
  /\ UNCHANGED entries

RenameFails(to) ==
  /\ all_renames_succeeded' = FALSE
  /\ UNCHANGED <<entries, current_path>>

\* As if each rename set the flag, so that the last one decides.
RenameWorksSetsFlag(to) ==
  /\ to.length <= NameMax
  /\ entries' = Renamed(current_path, to)
  /\ current_path' = to
  /\ all_renames_succeeded' = TRUE

RenameWorks(to) ==
  /\ to.length <= NameMax
  /\ entries' = Renamed(current_path, to)
  /\ current_path' = to
  /\ UNCHANGED all_renames_succeeded

try_rename(step, next, to) ==
  /\ at = step
  /\ at' = next
  /\ RenameWorks(to) \/ RenameFails(to)
  /\ UNCHANGED <<path, nonce, returned>>

MaskZeros == try_rename("zeros", "As", Mask("0", LengthOf[path]))
MaskAs    == try_rename("As", "shrink", Mask("A", LengthOf[path]))
Shrink    == try_rename("shrink", "unlink", Mask("0", 1))

\* As if the masks alone decided what is returned.
VerdictOfMasks(removed) == all_renames_succeeded

Verdict(removed) == removed /\ all_renames_succeeded

\* fs::remove sets no error when there is nothing of that name.
Unlink ==
  /\ at = "unlink"
  /\ at' = "idle"
  /\ \E removed \in BOOLEAN :
       /\ entries' = IF removed THEN [n \in DOMAIN entries \ {current_path} |-> entries[n]]
                                ELSE entries
       /\ returned' = [returned EXCEPT ![path] = IF Verdict(removed) THEN "true" ELSE "false"]
  /\ UNCHANGED <<path, nonce, current_path, all_renames_succeeded>>

ScrubNext == Begin \/ MaskZeros \/ MaskAs \/ Shrink \/ Unlink

ScrubSpec == ScrubInit /\ [][ScrubNext]_scrub_vars

----------------------------------------------------------------------------
\* From the first rename to the removal current_path is a name of the file
\* being scrubbed, whichever renames failed before: the removal at the end
\* removes that file and no other.
FollowsTheName ==
  at \in Steps => current_path \in DOMAIN entries /\ entries[current_path] = path

\* A file for which true was returned has no name left in the directory, under
\* whichever nonce later files are renamed.
TrueMeansGone ==
  \A f \in Files : returned[f] = "true" => NamesOf(f) = {}

\* Rename failures are surfaced: a file whose name is too long to be masked
\* (from NAME_MAX - 6 characters on) is never reported as scrubbed, although the
\* third rename and the removal work.
TooLongIsSurfaced ==
  \A f \in Files : returned[f] = "true" => LengthOf[f] + NonceLength <= NameMax
==============================================================================
