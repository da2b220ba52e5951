---------------------------- MODULE MCMetadataScrub ----------------------------
(***************************************************************************)
(* Three files: two whose names have one length and may draw one nonce,    *)
(* and one whose name is too long to be masked.                            *)
(***************************************************************************)
EXTENDS MetadataScrub

MCFiles == {"f", "g", "long"}

MCLengthOf == [f |-> 1, g |-> 1, long |-> 6]
==============================================================================
