------------------------------ MODULE CommandLine ------------------------------
(***************************************************************************)
(* The program from main to one of its two handlers: handle_shred reads    *)
(* options until the shredder is called, handle_wipe_disk guards a device  *)
(* while the rest of the system goes on mounting and swapping.             *)
(***************************************************************************)
EXTENDS ShredOptions, WipeGuard

command_vars == <<option_vars, vars>>

\* What the handler that is not called would read is fixed: nothing reads it.
CommandInit ==
  /\ OptionInit
  /\ IF subcommand = "wipe-disk" THEN target = "file" /\ args = <<>>
     ELSE /\ device = CHOOSE d \in Devices : TRUE
          /\ force = FALSE /\ mounts = {} /\ swaps = {}
  /\ Init

handle_shred == OptionNext /\ UNCHANGED vars

handle_wipe_disk ==
  /\ outcome = "wipe-disk"
  /\ Next
  /\ UNCHANGED option_vars

CommandNext == handle_shred \/ handle_wipe_disk

CommandSpec == CommandInit /\ [][CommandNext]_command_vars
================================================================================
