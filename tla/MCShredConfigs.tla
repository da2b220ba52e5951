---------------------------- MODULE MCShredConfigs ----------------------------
(***************************************************************************)
(* The ShredConfigs the runs use: every method, and for the random one     *)
(* with and without a final zero pass, and with no pass at all.            *)
(***************************************************************************)
Conf(method, passes, zero_fill) ==
  [method |-> method, passes |-> passes, zero_fill |-> zero_fill]

NoPass == Conf("PRNG_CUSTOM", 0, FALSE)

MCConfigs ==
  {Conf("GUTMANN", 1, TRUE), Conf("ZERO_ONLY", 1, TRUE), Conf("NIST_800_88_CLEAR", 1, TRUE),
   Conf("DOD_5220_22_M", 1, TRUE), Conf("PRNG_CUSTOM", 1, TRUE), Conf("PRNG_CUSTOM", 1, FALSE),
   NoPass}

\* The methods differ in their passes only: for control one that checks for
\* zeros, one that measures entropy, and one that passes nothing, will do.
MCFewConfigs ==
  {Conf("NIST_800_88_CLEAR", 1, TRUE), Conf("PRNG_CUSTOM", 2, FALSE), NoPass}
==============================================================================
