----------------------------- MODULE ShredOptions -----------------------------
(***************************************************************************)
(* From the command line to a ShredConfig: main and handle_shred up to the *)
(* call of FileShredder::shred.  The options are read from left to right;  *)
(* what they mean is stated without reading them in order.                 *)
(***************************************************************************)
EXTENDS ShredMethods, Sequences, FiniteSetsExt

CONSTANTS
  Tokens,    \* what an argument may be
  MaxArgs,   \* most arguments after the target
  Stoul,     \* the number std::stoul finds in a token, where it finds one
  PassWrap   \* number of values of a uint32_t

VARIABLES
  subcommand, \* "none" also when it is not followed by a target
  target,     \* what is under the target path: "missing", "file", "dir"
  args,       \* argv[3] and what follows
  i,          \* the next argument
  cfg,
  method_str,
  audit_out,
  outcome

option_vars == <<subcommand, target, args, i, cfg, method_str, audit_out, outcome>>

ASSUME OptionsAssumption ==
  /\ MaxArgs \in Nat /\ PassWrap \in Nat \ {0}
  /\ DOMAIN Stoul \subseteq Tokens
  /\ \A t \in DOMAIN Stoul : Stoul[t] \in Nat

MethodNamed == [nist |-> "NIST_800_88_CLEAR", dod522022m |-> "DOD_5220_22_M",
                prng |-> "PRNG_CUSTOM", zero |-> "ZERO_ONLY", gutmann |-> "GUTMANN"]

KnownMethods == DOMAIN MethodNamed

DefaultConfig == [method |-> "NIST_800_88_CLEAR", passes |-> 1, zero_fill |-> TRUE,
                  recursive |-> FALSE]

OptionInit ==
  /\ subcommand \in {"shred", "wipe-disk", "other", "none"}
  /\ target \in {"missing", "file", "dir"}
  /\ \E n \in 0 .. MaxArgs : args \in [1 .. n -> Tokens]
  /\ i = 1
  /\ cfg = DefaultConfig
  /\ method_str = "nist"
  /\ audit_out = "aegis_audit.json"
  /\ outcome = "main"

\* main, and the target's existence.  fs::exists throws when the target cannot be
\* looked at, a directory on the way to it that may not be searched for one, and
\* nothing catches it.
Main ==
  /\ outcome = "main"
  /\ \/ subcommand \in {"other", "none"} /\ outcome' = "usage"
     \/ subcommand = "wipe-disk" /\ outcome' = "wipe-disk"
     \/ subcommand = "shred" /\ outcome' = IF target = "missing" THEN "not_found" ELSE "reading"
     \/ subcommand = "shred" /\ outcome' = "filesystem_error"
  /\ UNCHANGED <<subcommand, target, args, i, cfg, method_str, audit_out>>

\* As if the value of an option were not stepped over.
AfterValueNotSkipped == i + 1

AfterValue == i + 2

\* "--option value": an option that comes last has no value and no effect.
HasValue(option) == args[i] = option /\ i + 1 <= Len(args)

Flag ==
  /\ i' = i + 1
  /\ cfg' = CASE args[i] \in {"-r", "--recursive"} -> [cfg EXCEPT !.recursive = TRUE]
              [] args[i] = "--no-zero"             -> [cfg EXCEPT !.zero_fill = FALSE]
              [] OTHER                             -> cfg
  /\ UNCHANGED <<method_str, audit_out, outcome>>

\* A name that is not known leaves the method what it was.
Method ==
  /\ i' = AfterValue
  /\ method_str' = args[i + 1]
  /\ cfg' = IF method_str' \in KnownMethods
            THEN [cfg EXCEPT !.method = MethodNamed[method_str']] ELSE cfg
  /\ UNCHANGED <<audit_out, outcome>>

\* What is not a number, or is too big for an unsigned long, throws, and nothing
\* catches it; what is too big for passes is cut.
Passes ==
  /\ IF args[i + 1] \in DOMAIN Stoul
       THEN /\ i' = AfterValue
            /\ cfg' = [cfg EXCEPT !.passes = Stoul[args[i + 1]] % PassWrap]
            /\ UNCHANGED outcome
       ELSE outcome' = "bad_number" /\ UNCHANGED <<i, cfg>>
  /\ UNCHANGED <<method_str, audit_out>>

Audit ==
  /\ i' = AfterValue
  /\ audit_out' = args[i + 1]
  /\ UNCHANGED <<cfg, method_str, outcome>>

ReadOption ==
  /\ outcome = "reading"
  /\ i <= Len(args)
  /\ CASE HasValue("--method") -> Method
       [] HasValue("--passes") -> Passes
       [] HasValue("--audit")  -> Audit
       [] OTHER                -> Flag
  /\ UNCHANGED <<subcommand, target, args>>

\* fs::is_directory throws as fs::exists does, here and where the mode is printed.
Dispatch ==
  /\ outcome = "reading"
  /\ i > Len(args)
  /\ \/ outcome' = IF target = "dir" /\ ~ cfg.recursive THEN "needs_recursive" ELSE "dispatched"
     \/ outcome' = "filesystem_error"
  /\ UNCHANGED <<subcommand, target, args, i, cfg, method_str, audit_out>>

OptionNext == Main \/ ReadOption \/ Dispatch

OptionSpec == OptionInit /\ [][OptionNext]_option_vars

----------------------------------------------------------------------------
\* What the arguments mean, whatever the order they are read in.

TakesValue == {"--method", "--passes", "--audit"}

\* How many options that take a value stand in a row before argument p.  Every
\* other one of them is the value of the one before it.
RunBefore(p) == Cardinality({k \in 1 .. p - 1 : \A j \in p - k .. p - 1 : args[j] \in TakesValue})

IsValue(p) == RunBefore(p) % 2 = 1

Given(flags) == \E p \in DOMAIN args : ~ IsValue(p) /\ args[p] \in flags

\* Where the values of an option are, and its last value among those accepted.
ValuesOf(option) == {p \in DOMAIN args : IsValue(p) /\ args[p - 1] = option}

LastOf(option, accepted, default) ==
  LET places == {p \in ValuesOf(option) : args[p] \in accepted}
  IN  IF places = {} THEN default ELSE args[Max(places)]

Meaning ==
  [method    |-> MethodNamed[LastOf("--method", KnownMethods, "nist")],
   passes    |-> IF ValuesOf("--passes") = {} THEN 1
                 ELSE Stoul[LastOf("--passes", DOMAIN Stoul, "")] % PassWrap,
   zero_fill |-> ~ Given({"--no-zero"}),
   recursive |-> Given({"-r", "--recursive"})]

\* By the options and defaults of the code: once every argument has been read, every
\* option has counted once, wherever it stands, unless it is the value of another;
\* the last method known and the last number of passes count, whatever unknown
\* method follows; and each value given for the passes was a number.  What std::stoul
\* threw at was such a value, and one that is no number.  That the defaults are not
\* those of README.md is DocumentedPasses.
OptionsMeanWhatTheySay ==
  /\ outcome \in {"dispatched", "needs_recursive"} =>
       cfg = Meaning /\ \A p \in ValuesOf("--passes") : args[p] \in DOMAIN Stoul
  /\ outcome = "bad_number" => \E p \in ValuesOf("--passes") : args[p] \notin DOMAIN Stoul

----------------------------------------------------------------------------
\* "Default Behavior (no flags): 3 passes of high-entropy PRNG noise + 1 final pass
\* of pure zeros"; "--passes N: Overrides the number of PRNG overwrite rounds";
\* "--no-zero: Skips the final zero-fill pass": what README.md says of a command line
\* without --method.
DocumentedPasses ==
  (outcome = "dispatched" /\ ValuesOf("--method") = {}) =>
    LET rounds == IF ValuesOf("--passes") = {} THEN 3 ELSE cfg.passes
    IN  /\ PassCount(cfg) = rounds + (IF Given({"--no-zero"}) THEN 0 ELSE 1)
        /\ \A k \in 1 .. rounds : PassContent(cfg, k) = "rnd"
==============================================================================
