---------------------------- MODULE MCCommandLine ----------------------------
(***************************************************************************)
(* The arguments of MCShredOptions and the devices of MCWipeGuard.         *)
(***************************************************************************)
EXTENDS CommandLine, MCShredOptions, MCWipeGuard
==============================================================================
