------------------------------ MODULE MCTreeShred ------------------------------
(***************************************************************************)
(* A directory with a file and a directory, in which there is a link back  *)
(* up, one to a file elsewhere, one to a directory elsewhere, and a file   *)
(* that another process may add.                                           *)
(***************************************************************************)
EXTENDS TreeShred

MCKind == [root |-> "dir", f |-> "file", sub |-> "dir", up |-> "link_dir", new |-> "file",
           out |-> "link_file", dirlink |-> "link_dir", away |-> "dir", x |-> "file"]

MCParent == [root |-> "top", f |-> "root", sub |-> "root", up |-> "sub", new |-> "sub",
             out |-> "root", dirlink |-> "root", away |-> "top", x |-> "away"]

MCLinkTo == [up |-> "root", out |-> "x", dirlink |-> "away"]

MCInitial == DOMAIN MCKind \ {"new"}

MCElsewhere == {"away", "x"}
==============================================================================
