---------------------------- MODULE MCBlockDevice ----------------------------
(***************************************************************************)
(* A device of two small sectors and one of a single larger one.  With     *)
(* Wrap = 8 sector 4 of the larger is the one that overflows to 0.         *)
(***************************************************************************)
EXTENDS BlockDevice, TLC

MCCellsOf == [small |-> 2, large |-> 2]

MCSectorOf == [small |-> 1, large |-> 2]

\* No object, buffer or value is told from another of its kind.
MCSymmetry == Permutations(Objects) \union Permutations(Buffers) \union Permutations(Values)
==============================================================================
