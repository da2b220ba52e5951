----------------------------- MODULE ShredMethods -----------------------------
(***************************************************************************)
(* What a ShredConfig means: the passes of each sanitization method and    *)
(* the three places of FileShredder that know what the last one writes.    *)
(***************************************************************************)
EXTENDS Integers

Methods == {"NIST_800_88_CLEAR", "DOD_5220_22_M", "PRNG_CUSTOM", "ZERO_ONLY", "GUTMANN"}

\* execute_passes: how many passes, and the content of the k-th.
PassCount(c) ==
  CASE c.method \in {"NIST_800_88_CLEAR", "ZERO_ONLY"} -> 1
    [] c.method = "DOD_5220_22_M"                      -> 3
    [] c.method = "PRNG_CUSTOM" -> c.passes + (IF c.zero_fill THEN 1 ELSE 0)
    [] c.method = "GUTMANN"                            -> 4 + 27 + 4

PassContent(c, k) ==
  CASE c.method \in {"NIST_800_88_CLEAR", "ZERO_ONLY"} -> "zero"
    [] c.method = "DOD_5220_22_M" -> CASE k = 1 -> "zero" [] k = 2 -> "ones" [] OTHER -> "rnd"
    [] c.method = "PRNG_CUSTOM"   -> IF k <= c.passes THEN "rnd" ELSE "zero"
    [] c.method = "GUTMANN"       -> IF k \in 5 .. 31 THEN "pat" ELSE "rnd"

\* As if the random method were overlooked there.
FinalPatternOfMethod(c) ==
  IF c.method \in {"NIST_800_88_CLEAR", "ZERO_ONLY"} THEN "zero" ELSE "rnd"

\* get_final_pass_pattern: what the slack is filled with.
FinalPattern(c) ==
  IF \/ c.method \in {"NIST_800_88_CLEAR", "ZERO_ONLY"}
     \/ c.method = "PRNG_CUSTOM" /\ c.zero_fill
  THEN "zero" ELSE "rnd"

\* is_final_pass_zero: which of the two verifications is run.
FinalPassZero(c) ==
  \/ c.method = "NIST_800_88_CLEAR"
  \/ c.method = "ZERO_ONLY"
  \/ c.method = "PRNG_CUSTOM" /\ c.zero_fill
==============================================================================
