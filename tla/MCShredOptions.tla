---------------------------- MODULE MCShredOptions ----------------------------
(***************************************************************************)
(* Arguments for ShredOptions: every option, known and unknown methods,    *)
(* numbers that fit, one that does not fit, and a name.                    *)
(***************************************************************************)
EXTENDS ShredOptions

MCTokens == {"-r", "--method", "prng", "bogus", "--passes", "7", "4294967298", "--no-zero", "--audit"}

\* 2^32 is taken down to 8, the number of values of passes here.
MCStoul == [x \in {"7", "4294967298"} |-> IF x = "7" THEN 7 ELSE 8 + 2]
==============================================================================
