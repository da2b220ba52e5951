----------------------------- MODULE MCWipeGuard -----------------------------
(***************************************************************************)
(* A disk with a partition, another name for the disk, a mapper device on  *)
(* the partition, and a loop device.                                       *)
(***************************************************************************)
EXTENDS WipeGuard

Disk      == <<"sda">>
Partition == <<"sda", "1">>
ById      == <<"disk/by-id/x">>
Mapper    == <<"mapper/root">>
Loop      == <<"loop", "0">>

MCDevices == {Disk, Partition, ById, Loop}

MCCanonical == [d \in MCDevices |-> IF d = ById THEN Disk ELSE d]

MCBackedBy == [d \in MCDevices |-> {}]

MCMountable == {<<Partition, "/">>, <<ById, "/home">>, <<Partition, "/mnt">>, <<Loop, "/mnt">>}

MCSwappable == {Partition}

MCLoops == {Loop}

MCMapperDevices == {Disk, Mapper}

MCMapperMountable == {<<Mapper, "/">>}

MCMapperCanonical == [d \in MCMapperDevices |-> d]

MCMapperBackedBy == [d \in MCMapperDevices |-> IF d = Mapper THEN {Disk} ELSE {}]
==============================================================================
