----------------------------- MODULE MCShredWin32 -----------------------------
(***************************************************************************)
(* ShredWin32 with the configurations of MCShredConfigs, and the sets of   *)
(* attributes of its runs.                                                 *)
(***************************************************************************)
EXTENDS ShredWin32, MCShredConfigs
==============================================================================
