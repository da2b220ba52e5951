----------------------------- MODULE MCShredPosix -----------------------------
(***************************************************************************)
(* ShredPosix with the configurations of MCShredConfigs.                   *)
(***************************************************************************)
EXTENDS ShredPosix, MCShredConfigs
==============================================================================
