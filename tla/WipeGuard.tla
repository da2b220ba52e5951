------------------------------- MODULE WipeGuard -------------------------------
(***************************************************************************)
(* handle_wipe_disk and is_system_or_mounted_storage: what is checked of a *)
(* device before nwipe is started on it, while the system goes on mounting *)
(* and swapping.  A device name is a sequence of parts, so that sda is a   *)
(* prefix of sda1 as in the code's rfind(name, 0) == 0.                    *)
(***************************************************************************)
EXTENDS SequencesExt

CONSTANTS
  Devices,    \* what may be named on the command line or in a table
  Canonical,  \* fs::weakly_canonical: the device a name stands for
  BackedBy,   \* the devices that one (a mapper device) stores its data on
  Loops,      \* names that begin with /dev/loop
  Mountable,  \* what may be mounted where: <<device, mount point>>
  Swappable,  \* what may be swapped on
  IsLinux     \* built for Linux

VARIABLES
  device,       \* the argument
  force,        \* --force was given
  mounts,       \* /proc/mounts: <<device, mount point>>
  swaps,        \* /proc/swaps
  held_mounts,  \* those there all the time since the program was started
  held_swaps,
  blind,        \* a table or a name could not be read
  pc,
  exit,         \* exit code, or "running"
  wiped         \* nwipe has overwritten the device

uses == <<mounts, swaps, held_mounts, held_swaps>>

vars == <<device, force, uses, blind, pc, exit, wiped>>

SystemPoints == {"/", "/boot", "/boot/efi", "/home", "/usr", "/var"}

ASSUME GuardAssumption ==
  /\ Canonical \in [Devices -> Devices]
  /\ BackedBy \in [Devices -> SUBSET Devices]
  /\ \A m \in Mountable : m[1] \in Devices
  /\ Swappable \subseteq Devices
  /\ IsLinux \in BOOLEAN

Init ==
  /\ device \in Devices
  /\ force \in BOOLEAN
  /\ mounts \in SUBSET Mountable
  /\ swaps \in SUBSET Swappable
  /\ held_mounts = mounts
  /\ held_swaps = swaps
  /\ blind = FALSE
  /\ pc = "start"
  /\ exit = "running"
  /\ wiped = FALSE

Refuse ==
  /\ pc' = "done"
  /\ exit' = "1"

\* Root privileges, and the device's existence.  Elsewhere than on Linux nothing
\* else is done.
CheckUser ==
  /\ pc = "start"
  /\ \/ Refuse
     \/ ~ IsLinux /\ pc' = "done" /\ exit' = "0"
     \/ IsLinux /\ pc' = "target" /\ UNCHANGED exit
  /\ UNCHANGED <<device, force, uses, blind, wiped>>

\* A target whose name cannot be resolved is not in use.
ResolveTarget ==
  /\ pc = "target"
  /\ \/ pc' = "mounts" /\ UNCHANGED blind
     \/ pc' = "force" /\ blind' = TRUE
  /\ UNCHANGED <<device, force, uses, exit, wiped>>

\* d is the target, or a partition of it.
OnTarget(d) == IsPrefix(Canonical[device], Canonical[d])

SystemMounts(table) == {m \in table : m[2] \in SystemPoints /\ OnTarget(m[1])}

\* As if it were asked whether the mounted name is a prefix of the target's.
ReadMountsOfWhole ==
  /\ pc = "mounts"
  /\ \E seen \in SUBSET mounts :
       /\ blind' = (blind \/ seen # mounts)
       /\ IF \E m \in seen : m[2] \in SystemPoints /\ IsPrefix(Canonical[m[1]], Canonical[device])
            THEN Refuse ELSE pc' = "swaps" /\ UNCHANGED exit
  /\ UNCHANGED <<device, force, uses, wiped>>

\* Lines whose device cannot be resolved are passed over, and all of them when
\* the table cannot be opened.
ReadMounts ==
  /\ pc = "mounts"
  /\ \E seen \in SUBSET mounts :
       /\ blind' = (blind \/ seen # mounts)
       /\ IF SystemMounts(seen) # {} THEN Refuse ELSE pc' = "swaps" /\ UNCHANGED exit
  /\ UNCHANGED <<device, force, uses, wiped>>

ReadSwaps ==
  /\ pc = "swaps"
  /\ \E seen \in SUBSET swaps :
       /\ blind' = (blind \/ seen # swaps)
       /\ IF \E d \in seen : OnTarget(d) THEN Refuse ELSE pc' = "force" /\ UNCHANGED exit
  /\ UNCHANGED <<device, force, uses, wiped>>

\* The name is taken as it was given, not resolved.
CheckForce ==
  /\ pc = "force"
  /\ IF device \notin Loops /\ ~ force THEN Refuse ELSE pc' = "wipe" /\ UNCHANGED exit
  /\ UNCHANGED <<device, force, uses, blind, wiped>>

\* nwipe, and its exit code.
Wipe ==
  /\ pc = "wipe"
  /\ pc' = "done"
  /\ \/ wiped' = TRUE /\ exit' = "0"
     \/ wiped' \in BOOLEAN /\ exit' = "1"
  /\ UNCHANGED <<device, force, uses, blind>>

----------------------------------------------------------------------------
\* The rest of the system.

Mount ==
  /\ \E m \in Mountable : mounts' = mounts \union {m}
  /\ UNCHANGED <<device, force, swaps, held_mounts, held_swaps, blind, pc, exit, wiped>>

Unmount ==
  /\ \E m \in mounts : mounts' = mounts \ {m} /\ held_mounts' = held_mounts \ {m}
  /\ UNCHANGED <<device, force, swaps, held_swaps, blind, pc, exit, wiped>>

SwapOn ==
  /\ \E d \in Swappable : swaps' = swaps \union {d}
  /\ UNCHANGED <<device, force, mounts, held_mounts, held_swaps, blind, pc, exit, wiped>>

SwapOff ==
  /\ \E d \in swaps : swaps' = swaps \ {d} /\ held_swaps' = held_swaps \ {d}
  /\ UNCHANGED <<device, force, mounts, held_mounts, blind, pc, exit, wiped>>

Program ==
  \/ CheckUser \/ ResolveTarget \/ ReadMounts \/ ReadSwaps \/ CheckForce \/ Wipe

Next == Program \/ Mount \/ Unmount \/ SwapOn \/ SwapOff

Spec == Init /\ [][Next]_vars

----------------------------------------------------------------------------
\* nwipe is started, with --force or without, on no device that has held a
\* system mount or swap under a name that extends its own since before the
\* first check, provided the tables could be read; and without --force only on
\* what is called a loop device.
GuardHolds ==
  pc = "wipe" =>
    /\ ~ blind => SystemMounts(held_mounts) = {} /\ ~ \E d \in held_swaps : OnTarget(d)
    /\ force \/ device \in Loops

----------------------------------------------------------------------------
\* "If a target device contains active host partitions (/, /boot, /boot/efi,
\* /home, /usr, /var, or active swap), the operation is halted immediately."

Holds(d) == OnTarget(d) \/ \E b \in BackedBy[Canonical[d]] : OnTarget(b)

\* Partitions in use through a device mapper count.
MappedPartitionsCount ==
  (pc = "wipe" /\ ~ blind) =>
    /\ ~ \E m \in held_mounts : m[2] \in SystemPoints /\ Holds(m[1])
    /\ ~ \E d \in held_swaps : Holds(d)
==============================================================================
