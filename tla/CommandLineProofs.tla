--------------------------- MODULE CommandLineProofs ---------------------------
(***************************************************************************)
(* Three parts that share no state, each for itself: the guard of          *)
(* wipe-disk, for any devices, tables and mount points and any system that *)
(* goes on mounting and swapping; the options of shred, for any number of  *)
(* arguments; and the names a file is given on its way out, for any        *)
(* directory, name lengths, NAME_MAX and nonces, whichever renames fail    *)
(* and whichever nonces come twice.                                        *)
(***************************************************************************)
EXTENDS CommandLine, MetadataScrub, FiniteSetTheorems, TLAPS

MountsSeen == ~ blind => SystemMounts(held_mounts) = {}

SwapsSeen == ~ blind => ~ \E d \in held_swaps : OnTarget(d)

Stages == {"start", "target", "mounts", "swaps", "force", "wipe", "done"}

\* What has held since before the first check is still there when its table is
\* read: the rest of the system can only take from it.
IInv ==
  /\ pc \in Stages
  /\ held_mounts \subseteq mounts
  /\ held_swaps \subseteq swaps
  /\ pc \in {"swaps", "force", "wipe"} => MountsSeen
  /\ pc \in {"force", "wipe"} => SwapsSeen
  /\ pc = "wipe" => force \/ device \in Loops

\* Before the first check nothing has been passed.
LEMMA InvInit == Init => IInv
BY DEF Init, IInv, Stages

\* The steps of the rest of the system.
LEMMA SystemStep ==
  ASSUME IInv,
         UNCHANGED <<device, force, blind, pc>>,
         held_mounts' \subseteq held_mounts, held_mounts' \subseteq mounts',
         held_swaps' \subseteq held_swaps, held_swaps' \subseteq swaps'
  PROVE  IInv'
<1>1. SystemMounts(held_mounts) = {} => SystemMounts(held_mounts)' = {}
  BY DEF SystemMounts, OnTarget
<1>2. (~ \E d \in held_swaps : OnTarget(d)) => (~ \E d \in held_swaps : OnTarget(d))'
  BY DEF OnTarget
<1>3. MountsSeen => MountsSeen'
  BY <1>1 DEF MountsSeen
<1>4. SwapsSeen => SwapsSeen'
  BY <1>2 DEF SwapsSeen
<1>5. QED  BY <1>3, <1>4 DEF IInv

\* Each check is of a table that still has what has been there since the start.
LEMMA InvStep == IInv /\ [Next]_vars => IInv'
<1> SUFFICES ASSUME IInv, [Next]_vars PROVE IInv'
  OBVIOUS
<1>1. CASE UNCHANGED vars
  BY <1>1, SystemStep DEF vars, uses, IInv
<1>2. CASE CheckUser
  BY <1>2 DEF CheckUser, Refuse, IInv, Stages, uses
<1>3. CASE ResolveTarget
  BY <1>3 DEF ResolveTarget, IInv, Stages, uses, MountsSeen, SwapsSeen
<1>4. CASE ReadMounts
  <2>1. PICK seen \in SUBSET mounts :
          /\ blind' = (blind \/ seen # mounts)
          /\ IF SystemMounts(seen) # {} THEN Refuse ELSE pc' = "swaps" /\ UNCHANGED exit
    BY <1>4 DEF ReadMounts
  <2>2. CASE SystemMounts(seen) # {}
    BY <1>4, <2>1, <2>2 DEF ReadMounts, Refuse, IInv, Stages, uses
  <2>3. CASE SystemMounts(seen) = {}
    <3>1. ASSUME ~ blind' PROVE SystemMounts(held_mounts)' = {}
      <4>1. SystemMounts(mounts) = {} /\ held_mounts \subseteq mounts
        BY <2>1, <2>3, <3>1 DEF IInv
      <4>2. SystemMounts(held_mounts) = {}
        BY <4>1 DEF SystemMounts
      <4>3. QED  BY <1>4, <4>2 DEF ReadMounts, uses, SystemMounts, OnTarget
    <3>2. pc' = "swaps" /\ MountsSeen'
      BY <2>1, <2>3, <3>1 DEF MountsSeen
    <3>3. QED  BY <1>4, <3>2 DEF ReadMounts, IInv, Stages, uses
  <2>4. QED  BY <2>2, <2>3
<1>5. CASE ReadSwaps
  <2>1. PICK seen \in SUBSET swaps :
          /\ blind' = (blind \/ seen # swaps)
          /\ IF \E d \in seen : OnTarget(d) THEN Refuse ELSE pc' = "force" /\ UNCHANGED exit
    BY <1>5 DEF ReadSwaps
  <2>2. CASE \E d \in seen : OnTarget(d)
    BY <1>5, <2>1, <2>2 DEF ReadSwaps, Refuse, IInv, Stages, uses
  <2>3. CASE ~ \E d \in seen : OnTarget(d)
    <3>1. ASSUME ~ blind' PROVE ~ blind /\ (~ \E d \in held_swaps : OnTarget(d))'
      <4>1. ~ blind /\ ~ \E d \in held_swaps : OnTarget(d)
        BY <2>1, <2>3, <3>1 DEF IInv
      <4>2. QED  BY <1>5, <4>1 DEF ReadSwaps, uses, OnTarget
    <3>2. SwapsSeen'
      BY <3>1 DEF SwapsSeen
    <3>3. MountsSeen
      BY <1>5 DEF ReadSwaps, IInv
    <3>4. MountsSeen'
      BY <1>5, <3>1, <3>3 DEF MountsSeen, ReadSwaps, uses, SystemMounts, OnTarget
    <3>5. pc' = "force"
      BY <2>1, <2>3
    <3>6. QED  BY <1>5, <3>2, <3>4, <3>5 DEF ReadSwaps, IInv, Stages, uses
  <2>4. QED  BY <2>2, <2>3
<1>6. CASE CheckForce
  <2>1. CASE device \notin Loops /\ ~ force
    BY <1>6, <2>1 DEF CheckForce, Refuse, IInv, Stages, uses
  <2>2. CASE ~ (device \notin Loops /\ ~ force)
    <3>1. MountsSeen' /\ SwapsSeen'
      BY <1>6 DEF CheckForce, IInv, MountsSeen, SwapsSeen, uses, SystemMounts, OnTarget
    <3>2. pc' = "wipe"
      BY <1>6, <2>2 DEF CheckForce
    <3>3. QED  BY <1>6, <2>2, <3>1, <3>2 DEF CheckForce, IInv, Stages, uses
  <2>3. QED  BY <2>1, <2>2
<1>7. CASE Wipe
  BY <1>7 DEF Wipe, IInv, Stages, uses
<1>8. CASE Mount \/ Unmount \/ SwapOn \/ SwapOff
  <2>1. /\ UNCHANGED <<device, force, blind, pc>>
        /\ held_mounts' \subseteq held_mounts /\ held_mounts' \subseteq mounts'
        /\ held_swaps' \subseteq held_swaps /\ held_swaps' \subseteq swaps'
    BY <1>8 DEF Mount, Unmount, SwapOn, SwapOff, IInv
  <2>2. QED  BY <2>1, SystemStep
<1>9. QED  BY <1>1, <1>2, <1>3, <1>4, <1>5, <1>6, <1>7, <1>8 DEF Next, Program

\* Whatever else is mounted and swapped on meanwhile, nwipe is not started on a
\* device that has been in use under a name of its own since before the check.
THEOREM GuardKeepsUsedDisks == Spec => []GuardHolds
<1>1. IInv => GuardHolds
  BY DEF IInv, GuardHolds, MountsSeen, SwapsSeen
<1>2. QED  BY InvInit, InvStep, <1>1, PTL DEF Spec
-----------------------------------------------------------------------------
\* The options of shred.  RunBefore(p) counts this set.

Run(p) == {k \in 1 .. p - 1 : \A j \in p - k .. p - 1 : args[j] \in TakesValue}

\* A run of options is one longer than the run before its last option, if that
\* is an option that takes a value.
LEMMA RunGrows ==
  ASSUME NEW p \in Nat \ {0}
  PROVE  /\ RunBefore(p) \in Nat
         /\ RunBefore(p + 1) = IF args[p] \in TakesValue THEN RunBefore(p) + 1 ELSE 0
<1>1. /\ RunBefore(p) = Cardinality(Run(p))
      /\ RunBefore(p + 1) = Cardinality(Run(p + 1))
  BY DEF RunBefore, Run
<1>2. IsFiniteSet(Run(p)) /\ Cardinality(Run(p)) \in Nat
  <2>1. IsFiniteSet(1 .. p - 1)
    BY FS_Interval
  <2>2. Run(p) \in SUBSET (1 .. p - 1)
    BY DEF Run
  <2>3. IsFiniteSet(Run(p))
    BY <2>1, <2>2, FS_Subset
  <2> QED
    BY <2>3, FS_CardinalityType
<1>3. CASE args[p] \notin TakesValue
  <2>1. Run(p + 1) = {}
    BY <1>3 DEF Run
  <2> QED
    BY <1>1, <1>2, <1>3, <2>1, FS_EmptySet
<1>4. CASE args[p] \in TakesValue
  <2> DEFINE longer == {k \in 2 .. p : k - 1 \in Run(p)}
  <2>1. Run(p + 1) = longer \union {1}
    <3>1. ASSUME NEW k \in Run(p + 1), k # 1 PROVE k \in longer
      BY <3>1 DEF Run
    <3>2. ASSUME NEW k \in longer PROVE k \in Run(p + 1)
      <4>1. \A j \in p - (k - 1) .. p - 1 : args[j] \in TakesValue
        BY <3>2 DEF Run
      <4>2. \A j \in (p + 1) - k .. (p + 1) - 1 : j = p \/ j \in p - (k - 1) .. p - 1
        OBVIOUS
      <4>3. k \in 1 .. (p + 1) - 1
        OBVIOUS
      <4> QED
        BY <1>4, <4>1, <4>2, <4>3 DEF Run
    <3>3. 1 \in Run(p + 1)
      BY <1>4 DEF Run
    <3> QED
      BY <3>1, <3>2, <3>3
  <2>2. [k \in Run(p) |-> k + 1] \in Bijection(Run(p), longer)
    <3> DEFINE up == [k \in Run(p) |-> k + 1]
    <3>1. \A k \in Run(p) : k \in 1 .. p - 1
      BY DEF Run
    <3>2. up \in [Run(p) -> longer]
      BY <3>1
    <3>3. \A j, k \in Run(p) : up[j] = up[k] => j = k
      BY <3>1
    <3>4. \A k \in longer : k - 1 \in Run(p) /\ up[k - 1] = k
      OBVIOUS
    <3> QED
      BY <3>2, <3>3, <3>4 DEF Bijection, Injection, Surjection, IsInjective
  <2>3. IsFiniteSet(longer) /\ Cardinality(longer) = Cardinality(Run(p))
    BY <1>2, <2>2, FS_Bijection DEF ExistsBijection
  <2>4. 1 \notin longer
    OBVIOUS
  <2>5. Cardinality(longer \union {1}) = Cardinality(longer) + 1
    BY <2>3, <2>4, FS_AddElement
  <2> QED
    BY <1>1, <1>2, <1>4, <2>1, <2>3, <2>5
<1> QED
  BY <1>1, <1>2, <1>3, <1>4

\* The first argument is no value: there is nothing before it.
LEMMA FirstIsNoValue == ~ IsValue(1)
<1>1. Run(1) = {}
  BY DEF Run
<1>2. RunBefore(1) = Cardinality(Run(1))
  BY DEF RunBefore, Run
<1> QED
  BY <1>1, <1>2, FS_EmptySet DEF IsValue

\* Every other option of a run is the value of the one before it.
LEMMA ValueAfterOption ==
  ASSUME NEW p \in Nat \ {0}
  PROVE  IsValue(p + 1) <=> args[p] \in TakesValue /\ ~ IsValue(p)
<1> DEFINE r == RunBefore(p)
<1>1. r \in Nat /\ RunBefore(p + 1) = IF args[p] \in TakesValue THEN r + 1 ELSE 0
  BY RunGrows
<1>2. ASSUME NEW n \in Nat PROVE (n + 1) % 2 = 1 <=> ~ (n % 2 = 1)
  OBVIOUS
<1>3. 0 % 2 # 1
  OBVIOUS
<1>4. IsValue(p) <=> r % 2 = 1
  BY DEF IsValue
<1>5. IsValue(p + 1) <=> RunBefore(p + 1) % 2 = 1
  BY DEF IsValue
<1>6. CASE args[p] \in TakesValue
  <2>1. RunBefore(p + 1) = r + 1
    BY <1>1, <1>6
  <2> HIDE DEF r
  <2>2. (r + 1) % 2 = 1 <=> ~ (r % 2 = 1)
    BY <1>1, <1>2
  <2> QED
    BY <1>4, <1>5, <1>6, <2>1, <2>2
<1>7. CASE args[p] \notin TakesValue
  <2>1. RunBefore(p + 1) = 0
    BY <1>1, <1>7
  <2> QED
    BY <1>3, <1>5, <1>7, <2>1
<1> QED
  BY <1>6, <1>7

\* The largest number of a set.
LEMMA MaxIs ==
  ASSUME NEW S \in SUBSET Int, NEW m \in S, \A y \in S : m >= y
  PROVE  Max(S) = m
<1>1. \E x \in S : \A y \in S : x >= y
  OBVIOUS
<1>2. Max(S) \in S /\ \A y \in S : Max(S) >= y
  BY <1>1 DEF Max
<1>3. m \in Int /\ Max(S) \in Int /\ m >= Max(S) /\ Max(S) >= m
  BY <1>2
<1> QED
  BY <1>3

-----------------------------------------------------------------------------
\* What the arguments before position n say, by the definitions of Meaning.

GivenBefore(n, flags) == \E p \in DOMAIN args : p < n /\ ~ IsValue(p) /\ args[p] \in flags

ValuesBefore(n, option) == {p \in ValuesOf(option) : p < n}

PlacesBefore(n, option, accepted) == {p \in ValuesBefore(n, option) : args[p] \in accepted}

MethodBefore(n) ==
  LET places == PlacesBefore(n, "--method", KnownMethods)
  IN  MethodNamed[IF places = {} THEN "nist" ELSE args[Max(places)]]

PassesBefore(n) ==
  LET places == ValuesBefore(n, "--passes")
  IN  IF places = {} THEN 1 ELSE Stoul[args[Max(places)]] % PassWrap

MeaningBefore(n) ==
  [method    |-> MethodBefore(n),
   passes    |-> PassesBefore(n),
   zero_fill |-> ~ GivenBefore(n, {"--no-zero"}),
   recursive |-> GivenBefore(n, {"-r", "--recursive"})]

Outcomes == {"main", "usage", "wipe-disk", "not_found", "reading", "bad_number", "dispatched",
             "needs_recursive", "filesystem_error"}

\* What handle_shred is called for does not change.
Called ==
  /\ subcommand \in {"shred", "wipe-disk", "other", "none"}
  /\ target \in {"missing", "file", "dir"}

\* The next argument to read is no value; cfg is what the ones before it mean, and
\* all numbers of passes among them are numbers.
OptionInv ==
  /\ args \in Seq(Tokens)
  /\ outcome \in Outcomes
  /\ i \in 1 .. Len(args) + 1
  /\ i <= Len(args) => ~ IsValue(i)
  /\ outcome = "main" => i = 1
  /\ cfg = MeaningBefore(i)
  /\ \A p \in ValuesBefore(i, "--passes") : args[p] \in DOMAIN Stoul
  /\ OptionsMeanWhatTheySay

\* No argument, no meaning: the defaults.
LEMMA NothingBefore ==
  ASSUME args \in Seq(Tokens)
  PROVE  /\ MeaningBefore(1) = DefaultConfig
         /\ \A option : ValuesBefore(1, option) = {}
<1>1. DOMAIN args = 1 .. Len(args) /\ Len(args) \in Nat
  OBVIOUS
<1>2. \A option : ValuesBefore(1, option) = {}
  BY <1>1 DEF ValuesBefore, ValuesOf
<1>3. \A flags : ~ GivenBefore(1, flags)
  BY <1>1 DEF GivenBefore
<1>4. MethodBefore(1) = "NIST_800_88_CLEAR"
  BY <1>2 DEF MethodBefore, PlacesBefore, MethodNamed
<1>5. PassesBefore(1) = 1
  BY <1>2 DEF PassesBefore
<1>6. (~ GivenBefore(1, {"--no-zero"})) = TRUE /\ GivenBefore(1, {"-r", "--recursive"}) = FALSE
  BY <1>3
<1> QED
  BY <1>2, <1>4, <1>5, <1>6 DEF MeaningBefore, DefaultConfig

\* When everything has been read the prefix is the whole.
LEMMA AllBefore ==
  ASSUME OptionInv, i > Len(args)
  PROVE  /\ MeaningBefore(i) = Meaning
         /\ \A p \in ValuesOf("--passes") : args[p] \in DOMAIN Stoul
<1>1. \A p \in DOMAIN args : p < i
  BY DEF OptionInv
<1>2. \A option : ValuesBefore(i, option) = ValuesOf(option)
  BY <1>1 DEF ValuesBefore, ValuesOf
<1>3. \A flags : GivenBefore(i, flags) <=> Given(flags)
  BY <1>1 DEF GivenBefore, Given
<1>4. MethodBefore(i) = MethodNamed[LastOf("--method", KnownMethods, "nist")]
  <2>1. PlacesBefore(i, "--method", KnownMethods)
          = {p \in ValuesOf("--method") : args[p] \in KnownMethods}
    BY <1>2 DEF PlacesBefore
  <2> QED
    BY <2>1 DEF MethodBefore, LastOf
<1>5. PassesBefore(i) = IF ValuesOf("--passes") = {} THEN 1
                        ELSE Stoul[LastOf("--passes", DOMAIN Stoul, "")] % PassWrap
  <2>1. {p \in ValuesOf("--passes") : args[p] \in DOMAIN Stoul} = ValuesOf("--passes")
    BY <1>2 DEF OptionInv
  <2> QED
    BY <1>2, <2>1 DEF PassesBefore, LastOf
<1>6. /\ GivenBefore(i, {"--no-zero"}) = Given({"--no-zero"})
      /\ GivenBefore(i, {"-r", "--recursive"}) = Given({"-r", "--recursive"})
  BY <1>3 DEF GivenBefore, Given
<1>7. \A p \in ValuesOf("--passes") : args[p] \in DOMAIN Stoul
  BY <1>2 DEF OptionInv
<1> QED
  BY <1>4, <1>5, <1>6, <1>7 DEF MeaningBefore, Meaning

\* What the arguments say changes only with the arguments.
LEMMA SameArguments ==
  ASSUME args' = args
  PROVE  /\ MeaningBefore(i)' = MeaningBefore(i')
         /\ ValuesBefore(i, "--passes")' = ValuesBefore(i', "--passes")
         /\ IsValue(i)' <=> IsValue(i')
         /\ Meaning' = Meaning
         /\ ValuesOf("--passes")' = ValuesOf("--passes")
BY DEF MeaningBefore, MethodBefore, PassesBefore, PlacesBefore, GivenBefore, ValuesBefore,
   ValuesOf, IsValue, RunBefore, Meaning, LastOf, Given

\* An argument that stands alone: it is no value and the next one is none of its.
LEMMA FlagRead ==
  ASSUME OptionInv, i <= Len(args)
  PROVE  /\ \A flags : GivenBefore(i + 1, flags) <=> GivenBefore(i, flags) \/ args[i] \in flags
         /\ \A option : ValuesBefore(i + 1, option) = ValuesBefore(i, option)
         /\ MethodBefore(i + 1) = MethodBefore(i)
         /\ PassesBefore(i + 1) = PassesBefore(i)
<1>1. i \in DOMAIN args /\ ~ IsValue(i) /\ DOMAIN args = 1 .. Len(args) /\ Len(args) \in Nat
  BY DEF OptionInv
<1>2. \A p \in DOMAIN args : p < i + 1 <=> p < i \/ p = i
  BY <1>1
<1>3. \A flags : GivenBefore(i + 1, flags) <=> GivenBefore(i, flags) \/ args[i] \in flags
  BY <1>1, <1>2 DEF GivenBefore
<1>4. \A option : ValuesBefore(i + 1, option) = ValuesBefore(i, option)
  BY <1>1, <1>2 DEF ValuesBefore, ValuesOf
<1>5. PlacesBefore(i + 1, "--method", KnownMethods) = PlacesBefore(i, "--method", KnownMethods)
  BY <1>4 DEF PlacesBefore
<1>6. MethodBefore(i + 1) = MethodBefore(i)
  BY <1>5 DEF MethodBefore
<1>7. PassesBefore(i + 1) = PassesBefore(i)
  BY <1>4 DEF PassesBefore
<1> QED
  BY <1>3, <1>4, <1>6, <1>7

\* An option with its value: the value is its, and the last one so far.
LEMMA ValueRead ==
  ASSUME OptionInv, i + 1 <= Len(args), args[i] \in TakesValue
  PROVE  /\ \A flags : flags \intersect TakesValue = {} =>
              (GivenBefore(i + 2, flags) <=> GivenBefore(i, flags))
         /\ \A option : ValuesBefore(i + 2, option) =
              ValuesBefore(i, option) \union (IF args[i] = option THEN {i + 1} ELSE {})
         /\ i + 2 <= Len(args) => ~ IsValue(i + 2)
         /\ i + 1 \in ValuesOf(args[i])
<1>1. /\ i \in Nat \ {0} /\ ~ IsValue(i) /\ DOMAIN args = 1 .. Len(args) /\ Len(args) \in Nat
      /\ i \in DOMAIN args /\ i + 1 \in DOMAIN args
  BY DEF OptionInv
<1>2. IsValue(i + 1)
  BY <1>1, ValueAfterOption
<1>3. ~ IsValue(i + 2)
  <2>1. IsValue((i + 1) + 1) <=> args[i + 1] \in TakesValue /\ ~ IsValue(i + 1)
    BY <1>1, ValueAfterOption
  <2>2. (i + 1) + 1 = i + 2
    BY <1>1
  <2> QED
    BY <1>2, <2>1, <2>2
<1>4. \A p \in DOMAIN args : p < i + 2 <=> p < i \/ p = i \/ p = i + 1
  BY <1>1
<1>5. ASSUME NEW flags, flags \intersect TakesValue = {}
      PROVE  GivenBefore(i + 2, flags) <=> GivenBefore(i, flags)
  BY <1>2, <1>4, <1>5 DEF GivenBefore
<1>6. ASSUME NEW option
      PROVE  ValuesBefore(i + 2, option) =
               ValuesBefore(i, option) \union (IF args[i] = option THEN {i + 1} ELSE {})
  <2>1. (i + 1) - 1 = i
    BY <1>1
  <2> QED
    BY <1>1, <1>2, <1>4, <2>1 DEF ValuesBefore, ValuesOf
<1>7. i + 1 \in ValuesOf(args[i])
  <2>1. (i + 1) - 1 = i
    BY <1>1
  <2> QED
    BY <1>1, <1>2, <2>1 DEF ValuesOf
<1> QED
  BY <1>3, <1>5, <1>6, <1>7

-----------------------------------------------------------------------------
\* What reading an option does to what has been understood.

\* A value that is accepted is the last one so far.
LEMMA LastRead ==
  ASSUME OptionInv, NEW S, \A p \in S : p \in DOMAIN args /\ p < i
  PROVE  Max(S \union {i + 1}) = i + 1 /\ S \union {i + 1} # {}
<1>1. S \union {i + 1} \in SUBSET Int /\ \A p \in S \union {i + 1} : i + 1 >= p
  BY DEF OptionInv
<1> QED
  BY <1>1, MaxIs

\* Before anything is read the configuration is the default.
LEMMA OptionInvInit == OptionInit => OptionInv
<1> SUFFICES ASSUME OptionInit PROVE OptionInv
  OBVIOUS
<1>1. args \in Seq(Tokens)
  BY OptionsAssumption DEF OptionInit
<1>2. MeaningBefore(1) = DefaultConfig /\ ValuesBefore(1, "--passes") = {}
  BY <1>1, NothingBefore
<1>3. ~ IsValue(1)
  BY FirstIsNoValue
<1>4. i = 1 /\ outcome = "main" /\ cfg = DefaultConfig
  BY DEF OptionInit
<1>5. i \in 1 .. Len(args) + 1
  BY <1>1, <1>4
<1> QED
  BY <1>1, <1>2, <1>3, <1>4, <1>5 DEF OptionInv, Outcomes, OptionsMeanWhatTheySay

\* A step that reads nothing.
LEMMA OptionSameInv ==
  ASSUME OptionInv, UNCHANGED <<args, i, cfg>>, outcome' \in Outcomes \ {"main", "bad_number"},
         outcome' \in {"dispatched", "needs_recursive"} => i > Len(args)
  PROVE  OptionInv'
<1>1. /\ MeaningBefore(i)' = MeaningBefore(i)
      /\ ValuesBefore(i, "--passes")' = ValuesBefore(i, "--passes")
      /\ IsValue(i)' <=> IsValue(i)
      /\ Meaning' = Meaning
      /\ ValuesOf("--passes")' = ValuesOf("--passes")
  BY SameArguments
<1>2. i > Len(args) => cfg = Meaning /\ \A p \in ValuesOf("--passes") : args[p] \in DOMAIN Stoul
  BY AllBefore DEF OptionInv
<1>3. OptionsMeanWhatTheySay'
  BY <1>1, <1>2 DEF OptionsMeanWhatTheySay
<1> QED
  BY <1>1, <1>3 DEF OptionInv

\* What has to be shown of a step that reads an option.
LEMMA ReadInv ==
  ASSUME OptionInv, args' = args, outcome' = "reading",
         i' \in 1 .. Len(args) + 1,
         i' <= Len(args) => ~ IsValue(i'),
         cfg' = MeaningBefore(i'),
         \A p \in ValuesBefore(i', "--passes") : args[p] \in DOMAIN Stoul
  PROVE  OptionInv'
<1>1. /\ MeaningBefore(i)' = MeaningBefore(i')
      /\ ValuesBefore(i, "--passes")' = ValuesBefore(i', "--passes")
      /\ IsValue(i)' <=> IsValue(i')
  BY SameArguments
<1>2. OptionsMeanWhatTheySay'
  BY DEF OptionsMeanWhatTheySay
<1> QED
  BY <1>1, <1>2 DEF OptionInv, Outcomes

\* A flag, a last option without a value, or anything else that stands alone.
LEMMA FlagStep ==
  ASSUME OptionInv, outcome = "reading", i <= Len(args), args' = args, Flag,
         i + 1 <= Len(args) => args[i] \notin TakesValue
  PROVE  OptionInv'
<1>1. /\ i \in Nat \ {0} /\ ~ IsValue(i) /\ Len(args) \in Nat
      /\ i' = i + 1 /\ outcome' = "reading" /\ cfg = MeaningBefore(i)
  BY DEF OptionInv, Flag
<1>2. i + 1 <= Len(args) => ~ IsValue(i + 1)
  BY <1>1, ValueAfterOption
<1>3. /\ GivenBefore(i + 1, {"--no-zero"})
           = (GivenBefore(i, {"--no-zero"}) \/ args[i] = "--no-zero")
      /\ GivenBefore(i + 1, {"-r", "--recursive"})
           = (GivenBefore(i, {"-r", "--recursive"}) \/ args[i] \in {"-r", "--recursive"})
  <2>1. /\ GivenBefore(i + 1, {"--no-zero"})
             <=> GivenBefore(i, {"--no-zero"}) \/ args[i] \in {"--no-zero"}
        /\ GivenBefore(i + 1, {"-r", "--recursive"})
             <=> GivenBefore(i, {"-r", "--recursive"}) \/ args[i] \in {"-r", "--recursive"}
    BY FlagRead
  <2> QED
    BY <2>1 DEF GivenBefore
<1>4. /\ MethodBefore(i + 1) = MethodBefore(i) /\ PassesBefore(i + 1) = PassesBefore(i)
      /\ ValuesBefore(i + 1, "--passes") = ValuesBefore(i, "--passes")
  BY FlagRead
<1>5. cfg' = MeaningBefore(i + 1)
  <2>1. CASE args[i] \in {"-r", "--recursive"}
    <3>1. cfg' = [cfg EXCEPT !.recursive = TRUE]
      BY <2>1 DEF Flag
    <3>2. /\ GivenBefore(i + 1, {"--no-zero"}) = GivenBefore(i, {"--no-zero"})
          /\ GivenBefore(i + 1, {"-r", "--recursive"}) = TRUE
      BY <1>3, <2>1 DEF GivenBefore
    <3> QED
      BY <1>1, <1>4, <3>1, <3>2 DEF MeaningBefore
  <2>2. CASE args[i] = "--no-zero"
    <3>1. cfg' = [cfg EXCEPT !.zero_fill = FALSE]
      BY <2>2 DEF Flag
    <3>2. /\ (~ GivenBefore(i + 1, {"--no-zero"})) = FALSE
          /\ GivenBefore(i + 1, {"-r", "--recursive"}) = GivenBefore(i, {"-r", "--recursive"})
      BY <1>3, <2>2 DEF GivenBefore
    <3> QED
      BY <1>1, <1>4, <3>1, <3>2 DEF MeaningBefore
  <2>3. CASE args[i] \notin {"-r", "--recursive", "--no-zero"}
    <3>1. cfg' = cfg
      BY <2>3 DEF Flag
    <3>2. /\ GivenBefore(i + 1, {"--no-zero"}) = GivenBefore(i, {"--no-zero"})
          /\ GivenBefore(i + 1, {"-r", "--recursive"}) = GivenBefore(i, {"-r", "--recursive"})
      BY <1>3, <2>3 DEF GivenBefore
    <3> QED
      BY <1>1, <1>4, <3>1, <3>2 DEF MeaningBefore
  <2> QED
    BY <2>1, <2>2, <2>3
<1>6. \A p \in ValuesBefore(i + 1, "--passes") : args[p] \in DOMAIN Stoul
  BY <1>4 DEF OptionInv
<1>7. i + 1 \in 1 .. Len(args) + 1
  BY <1>1
<1> QED
  BY <1>1, <1>2, <1>5, <1>6, <1>7, ReadInv

\* What an option with a value leaves as it is, and which values it adds.
LEMMA ValueKeeps ==
  ASSUME OptionInv, i + 1 <= Len(args), args[i] \in TakesValue
  PROVE  /\ GivenBefore(i + 2, {"--no-zero"}) = GivenBefore(i, {"--no-zero"})
         /\ GivenBefore(i + 2, {"-r", "--recursive"}) = GivenBefore(i, {"-r", "--recursive"})
         /\ args[i] # "--method" => MethodBefore(i + 2) = MethodBefore(i)
         /\ args[i] # "--passes" =>
              /\ PassesBefore(i + 2) = PassesBefore(i)
              /\ ValuesBefore(i + 2, "--passes") = ValuesBefore(i, "--passes")
<1>1. {"--no-zero"} \intersect TakesValue = {} /\ {"-r", "--recursive"} \intersect TakesValue = {}
  BY DEF TakesValue
<1>2. /\ GivenBefore(i + 2, {"--no-zero"}) <=> GivenBefore(i, {"--no-zero"})
      /\ GivenBefore(i + 2, {"-r", "--recursive"}) <=> GivenBefore(i, {"-r", "--recursive"})
  BY <1>1, ValueRead
<1>3. /\ GivenBefore(i + 2, {"--no-zero"}) = GivenBefore(i, {"--no-zero"})
      /\ GivenBefore(i + 2, {"-r", "--recursive"}) = GivenBefore(i, {"-r", "--recursive"})
  BY <1>2 DEF GivenBefore
<1>4. args[i] # "--method" =>
        ValuesBefore(i + 2, "--method") = ValuesBefore(i, "--method")
  BY ValueRead
<1>5. args[i] # "--method" => MethodBefore(i + 2) = MethodBefore(i)
  BY <1>4 DEF MethodBefore, PlacesBefore
<1>6. args[i] # "--passes" => ValuesBefore(i + 2, "--passes") = ValuesBefore(i, "--passes")
  BY ValueRead
<1>7. args[i] # "--passes" => PassesBefore(i + 2) = PassesBefore(i)
  BY <1>6 DEF PassesBefore
<1> QED
  BY <1>3, <1>5, <1>6, <1>7

\* --method: a name that is known is the last so far; another changes nothing.
LEMMA MethodStep ==
  ASSUME OptionInv, outcome = "reading", args' = args, HasValue("--method"), Method
  PROVE  OptionInv'
<1>1. /\ args[i] = "--method" /\ args[i] \in TakesValue /\ i + 1 <= Len(args)
      /\ i \in Nat \ {0} /\ Len(args) \in Nat
      /\ i' = i + 2 /\ outcome' = "reading" /\ cfg = MeaningBefore(i)
  BY DEF OptionInv, Method, HasValue, TakesValue, AfterValue
<1>2. /\ i + 2 <= Len(args) => ~ IsValue(i + 2)
      /\ ValuesBefore(i + 2, "--method") = ValuesBefore(i, "--method") \union {i + 1}
  BY <1>1, ValueRead
<1>3. /\ GivenBefore(i + 2, {"--no-zero"}) = GivenBefore(i, {"--no-zero"})
      /\ GivenBefore(i + 2, {"-r", "--recursive"}) = GivenBefore(i, {"-r", "--recursive"})
      /\ PassesBefore(i + 2) = PassesBefore(i)
      /\ ValuesBefore(i + 2, "--passes") = ValuesBefore(i, "--passes")
  BY <1>1, ValueKeeps
<1>4. cfg' = MeaningBefore(i + 2)
  <2> DEFINE places == PlacesBefore(i, "--method", KnownMethods)
  <2>1. CASE args[i + 1] \in KnownMethods
    <3>1. PlacesBefore(i + 2, "--method", KnownMethods) = places \union {i + 1}
      BY <1>2, <2>1 DEF PlacesBefore
    <3>2. \A p \in places : p \in DOMAIN args /\ p < i
      BY DEF PlacesBefore, ValuesBefore, ValuesOf
    <3>3. Max(places \union {i + 1}) = i + 1 /\ places \union {i + 1} # {}
      BY <3>2, LastRead
    <3>4. MethodBefore(i + 2) = MethodNamed[args[i + 1]]
      BY <3>1, <3>3 DEF MethodBefore
    <3>5. cfg' = [cfg EXCEPT !.method = MethodNamed[args[i + 1]]]
      BY <2>1 DEF Method
    <3> QED
      BY <1>1, <1>3, <3>4, <3>5 DEF MeaningBefore
  <2>2. CASE args[i + 1] \notin KnownMethods
    <3>1. PlacesBefore(i + 2, "--method", KnownMethods) = places
      BY <1>2, <2>2 DEF PlacesBefore
    <3>2. MethodBefore(i + 2) = MethodBefore(i)
      BY <3>1 DEF MethodBefore
    <3>3. cfg' = cfg
      BY <2>2 DEF Method
    <3> QED
      BY <1>1, <1>3, <3>2, <3>3 DEF MeaningBefore
  <2> QED
    BY <2>1, <2>2
<1>5. \A p \in ValuesBefore(i + 2, "--passes") : args[p] \in DOMAIN Stoul
  BY <1>3 DEF OptionInv
<1>6. i + 2 \in 1 .. Len(args) + 1
  BY <1>1
<1> QED
  BY <1>1, <1>2, <1>4, <1>5, <1>6, ReadInv

\* --passes: a number is the last so far; anything else throws.
LEMMA PassesStep ==
  ASSUME OptionInv, outcome = "reading", args' = args, HasValue("--passes"), Passes
  PROVE  OptionInv'
<1>1. /\ args[i] = "--passes" /\ args[i] \in TakesValue /\ i + 1 <= Len(args)
      /\ i \in Nat \ {0} /\ Len(args) \in Nat /\ cfg = MeaningBefore(i)
  BY DEF OptionInv, HasValue, TakesValue
<1>2. /\ i + 2 <= Len(args) => ~ IsValue(i + 2)
      /\ ValuesBefore(i + 2, "--passes") = ValuesBefore(i, "--passes") \union {i + 1}
      /\ i + 1 \in ValuesOf("--passes")
  BY <1>1, ValueRead
<1>3. CASE args[i + 1] \in DOMAIN Stoul
  <2>1. /\ i' = i + 2 /\ outcome' = "reading"
        /\ cfg' = [cfg EXCEPT !.passes = Stoul[args[i + 1]] % PassWrap]
    BY <1>3 DEF Passes, AfterValue
  <2>2. /\ GivenBefore(i + 2, {"--no-zero"}) = GivenBefore(i, {"--no-zero"})
        /\ GivenBefore(i + 2, {"-r", "--recursive"}) = GivenBefore(i, {"-r", "--recursive"})
        /\ MethodBefore(i + 2) = MethodBefore(i)
    BY <1>1, ValueKeeps
  <2> DEFINE places == ValuesBefore(i, "--passes")
  <2>3. \A p \in places : p \in DOMAIN args /\ p < i
    BY DEF ValuesBefore, ValuesOf
  <2>4. Max(places \union {i + 1}) = i + 1 /\ places \union {i + 1} # {}
    BY <2>3, LastRead
  <2>5. PassesBefore(i + 2) = Stoul[args[i + 1]] % PassWrap
    BY <1>2, <2>4 DEF PassesBefore
  <2>6. cfg' = MeaningBefore(i + 2)
    BY <1>1, <2>1, <2>2, <2>5 DEF MeaningBefore
  <2>7. \A p \in ValuesBefore(i + 2, "--passes") : args[p] \in DOMAIN Stoul
    BY <1>2, <1>3 DEF OptionInv
  <2>8. i + 2 \in 1 .. Len(args) + 1
    BY <1>1
  <2> QED
    BY <1>2, <2>1, <2>6, <2>7, <2>8, ReadInv
<1>4. CASE args[i + 1] \notin DOMAIN Stoul
  <2>1. UNCHANGED <<i, cfg>> /\ outcome' = "bad_number"
    BY <1>4 DEF Passes
  <2>2. /\ MeaningBefore(i)' = MeaningBefore(i)
        /\ ValuesBefore(i, "--passes")' = ValuesBefore(i, "--passes")
        /\ IsValue(i)' <=> IsValue(i)
        /\ ValuesOf("--passes")' = ValuesOf("--passes")
    BY <2>1, SameArguments
  <2>3. OptionsMeanWhatTheySay'
    BY <1>2, <1>4, <2>1, <2>2 DEF OptionsMeanWhatTheySay
  <2> QED
    BY <2>1, <2>2, <2>3 DEF OptionInv, Outcomes
<1> QED
  BY <1>3, <1>4

\* --audit: the configuration says nothing of it.
LEMMA AuditStep ==
  ASSUME OptionInv, outcome = "reading", args' = args, HasValue("--audit"), Audit
  PROVE  OptionInv'
<1>1. /\ args[i] = "--audit" /\ args[i] \in TakesValue /\ i + 1 <= Len(args)
      /\ i \in Nat \ {0} /\ Len(args) \in Nat
      /\ i' = i + 2 /\ outcome' = "reading" /\ cfg' = cfg /\ cfg = MeaningBefore(i)
  BY DEF OptionInv, Audit, HasValue, TakesValue, AfterValue
<1>2. i + 2 <= Len(args) => ~ IsValue(i + 2)
  BY <1>1, ValueRead
<1>3. /\ GivenBefore(i + 2, {"--no-zero"}) = GivenBefore(i, {"--no-zero"})
      /\ GivenBefore(i + 2, {"-r", "--recursive"}) = GivenBefore(i, {"-r", "--recursive"})
      /\ MethodBefore(i + 2) = MethodBefore(i)
      /\ PassesBefore(i + 2) = PassesBefore(i)
      /\ ValuesBefore(i + 2, "--passes") = ValuesBefore(i, "--passes")
  BY <1>1, ValueKeeps
<1>4. cfg' = MeaningBefore(i + 2)
  BY <1>1, <1>3 DEF MeaningBefore
<1>5. \A p \in ValuesBefore(i + 2, "--passes") : args[p] \in DOMAIN Stoul
  BY <1>3 DEF OptionInv
<1>6. i + 2 \in 1 .. Len(args) + 1
  BY <1>1
<1> QED
  BY <1>1, <1>2, <1>4, <1>5, <1>6, ReadInv

\* Each step reads one option, with its value if it takes one, or nothing.
LEMMA OptionInvStep == Called /\ OptionInv /\ [OptionNext]_option_vars => OptionInv'
<1> SUFFICES ASSUME Called, OptionInv, [OptionNext]_option_vars PROVE OptionInv'
  OBVIOUS
<1>1. CASE UNCHANGED option_vars
  <2>1. UNCHANGED <<args, i, cfg, outcome>>
    BY <1>1 DEF option_vars
  <2>2. /\ MeaningBefore(i)' = MeaningBefore(i)
        /\ ValuesBefore(i, "--passes")' = ValuesBefore(i, "--passes")
        /\ IsValue(i)' <=> IsValue(i)
        /\ Meaning' = Meaning
        /\ ValuesOf("--passes")' = ValuesOf("--passes")
    BY <2>1, SameArguments
  <2> QED
    BY <2>1, <2>2 DEF OptionInv, OptionsMeanWhatTheySay
<1>2. CASE Main
  <2>1. /\ UNCHANGED <<args, i, cfg>>
        /\ outcome' \in {"usage", "wipe-disk", "not_found", "reading", "filesystem_error"}
    BY <1>2 DEF Main
  <2> QED
    BY <2>1, OptionSameInv DEF Outcomes
<1>3. CASE Dispatch
  <2>1. /\ UNCHANGED <<args, i, cfg>> /\ i > Len(args)
        /\ outcome' \in {"dispatched", "needs_recursive", "filesystem_error"}
    BY <1>3 DEF Dispatch
  <2> QED
    BY <2>1, OptionSameInv DEF Outcomes
<1>4. CASE ReadOption
  <2>1. outcome = "reading" /\ i <= Len(args) /\ args' = args
    BY <1>4 DEF ReadOption
  <2>2. CASE HasValue("--method")
    BY <1>4, <2>1, <2>2, MethodStep DEF ReadOption, HasValue
  <2>3. CASE HasValue("--passes")
    BY <1>4, <2>1, <2>3, PassesStep DEF ReadOption, HasValue
  <2>4. CASE HasValue("--audit")
    BY <1>4, <2>1, <2>4, AuditStep DEF ReadOption, HasValue
  <2>5. CASE ~ HasValue("--method") /\ ~ HasValue("--passes") /\ ~ HasValue("--audit")
    <3>1. Flag
      BY <1>4, <2>5 DEF ReadOption
    <3>2. i + 1 <= Len(args) => args[i] \notin TakesValue
      BY <2>5 DEF HasValue, TakesValue
    <3> QED
      BY <2>1, <3>1, <3>2, FlagStep
  <2> QED
    BY <2>2, <2>3, <2>4, <2>5
<1> QED
  BY <1>1, <1>2, <1>3, <1>4 DEF OptionNext

\* Whatever the order and number of the arguments, the configuration handle_shred
\* goes on with is what they mean by the code's own options: each counts once, none
\* that is a value counts, the last known method and the last number of passes win.
\* It goes on only if each number of passes was one, and std::stoul throws only at
\* one that was not; what fs::exists and fs::is_directory throw at is not restricted.
THEOREM OptionsUnderstood == OptionSpec => []OptionsMeanWhatTheySay
<1>1. OptionInit => Called
  BY DEF OptionInit, Called
<1>2. Called /\ [OptionNext]_option_vars => Called'
  BY DEF Called, OptionNext, Main, ReadOption, Dispatch, option_vars
<1>3. OptionInv => OptionsMeanWhatTheySay
  BY DEF OptionInv
<1> QED
  BY OptionInvInit, OptionInvStep, <1>1, <1>2, <1>3, PTL DEF OptionSpec

\* The program runs one handler or the other, so what was proved of each holds of it.
LEMMA HandlersRun == CommandSpec => OptionSpec /\ Spec
<1>1. CommandInit => OptionInit /\ Init
  BY DEF CommandInit
<1>2. [CommandNext]_command_vars => [OptionNext]_option_vars /\ [Next]_vars
  BY DEF CommandNext, handle_shred, handle_wipe_disk, command_vars
<1> QED
  BY <1>1, <1>2, PTL DEF CommandSpec, OptionSpec, Spec

----------------------------------------------------------------------------
\* scrub_metadata.

\* f has the name n, and no other.
OnlyName(f, n) == /\ n \in DOMAIN entries
                  /\ entries[n] = f
                  /\ \A m \in DOMAIN entries : entries[m] = f => m = n

NoName(f) == \A m \in DOMAIN entries : entries[m] # f

\* A file that was not begun has its own name still: a mask is never that name,
\* and what a rename takes away is a name of the file being scrubbed.
ScrubInv ==
  /\ at \in Steps \union {"idle"}
  /\ path \in Files
  /\ nonce \in Nonces
  /\ returned \in [Files -> {"pending", "true", "false"}]
  /\ at \in Steps => returned[path] = "pending" /\ OnlyName(path, current_path)
  /\ \A f \in Files : (returned[f] = "pending" /\ (at = "idle" \/ f # path)) =>
                        OnlyName(f, Original(f))
  /\ \A f \in Files : returned[f] = "true" => NoName(f)

\* A mask of the right length was taken if all renames so far were done.
LengthInv ==
  /\ at \in Steps \ {"zeros"} => (all_renames_succeeded => LengthOf[path] + NonceLength <= NameMax)
  /\ TooLongIsSurfaced

\* No mask is a name a file came with: its nonce is none of theirs.
LEMMA MaskIsNoOriginal ==
  ASSUME nonce \in Nonces, NEW c, NEW n, NEW f \in Files
  PROVE  Mask(c, n) # Original(f)
<1>1. Mask(c, n).nonce = nonce /\ Original(f).nonce = "none"
  BY DEF Mask, Original
<1>2. QED  BY <1>1, ScrubAssumption DEF ScrubAssumption

\* Two files came with two names.
LEMMA OriginalsDiffer ==
  ASSUME NEW f \in Files, NEW g \in Files, Original(f) = Original(g)
  PROVE  f = g
<1>1. Original(f).text = f /\ Original(g).text = g
  BY DEF Original
<1>2. QED  BY <1>1

\* At first every file has its own name.
LEMMA ScrubInvInit == ScrubInit => ScrubInv
<1> SUFFICES ASSUME ScrubInit PROVE ScrubInv
  OBVIOUS
<1>1. ASSUME NEW f \in Files PROVE OnlyName(f, Original(f))
  <2>1. DOMAIN entries = {Original(g) : g \in Files}
    BY DEF ScrubInit
  <2>2. \A g \in Files : entries[Original(g)] = g
    <3>1. \A g \in Files : Original(g).text = g
      BY DEF Original
    <3>2. QED  BY <3>1 DEF ScrubInit
  <2>3. QED  BY <2>1, <2>2 DEF OnlyName
<1>2. QED  BY <1>1 DEF ScrubInit, ScrubInv, Steps

\* A rename done, or failed: the file being scrubbed has one name, the others
\* keep theirs unless they had it replaced.
LEMMA RenameKeeps ==
  ASSUME ScrubInv, at \in Steps,
         NEW to, \A f \in Files : to # Original(f),
         RenameWorks(to) \/ RenameFails(to),
         at' \in Steps,
         UNCHANGED <<path, nonce, returned>>
  PROVE  ScrubInv'
<1>1. CASE RenameFails(to)
  BY <1>1 DEF RenameFails, ScrubInv, OnlyName, NoName, Original, Steps
<1>2. CASE RenameWorks(to)
  <2>1. /\ DOMAIN entries' = (DOMAIN entries \ {current_path}) \union {to}
        /\ \A n \in DOMAIN entries' : entries'[n] = IF n = to THEN path ELSE entries[n]
        /\ current_path' = to
    BY <1>2 DEF RenameWorks, Renamed, ScrubInv, OnlyName
  <2>2. OnlyName(path, current_path)'
    BY <2>1 DEF ScrubInv, OnlyName
  <2>3. ASSUME NEW f \in Files, returned[f] = "pending", f # path
        PROVE  OnlyName(f, Original(f))'
    <3>1. OnlyName(f, Original(f)) /\ OnlyName(path, current_path)
      BY <2>3 DEF ScrubInv
    <3>2. Original(f) # current_path /\ Original(f) # to
      BY <2>3, <3>1 DEF OnlyName
    <3>3. Original(f) \in DOMAIN entries' /\ entries'[Original(f)] = f
      BY <2>1, <3>1, <3>2 DEF OnlyName
    <3>4. \A m \in DOMAIN entries' : entries'[m] = f => m = Original(f)
      BY <2>1, <2>3, <3>1 DEF OnlyName
    <3>5. QED  BY <3>3, <3>4 DEF OnlyName, Original
  <2>4. ASSUME NEW f \in Files, returned[f] = "true" PROVE NoName(f)'
    <3>1. NoName(f) /\ f # path
      BY <2>4 DEF ScrubInv
    <3>2. QED  BY <2>1, <3>1 DEF NoName
  <2>5. QED  BY <2>2, <2>3, <2>4 DEF ScrubInv, Steps
<1>3. QED  BY <1>1, <1>2

\* The renames and the removal, failed or not, take no other file's name away.
LEMMA ScrubInvStep == ScrubInv /\ [ScrubNext]_scrub_vars => ScrubInv'
<1> SUFFICES ASSUME ScrubInv, [ScrubNext]_scrub_vars PROVE ScrubInv'
  OBVIOUS
<1>1. CASE UNCHANGED scrub_vars
  BY <1>1 DEF scrub_vars, ScrubInv, OnlyName, NoName, Original
<1>2. CASE Begin
  <2>1. /\ path' \in Files /\ returned[path'] = "pending"
        /\ OnlyName(path', Original(path'))
    BY <1>2 DEF Begin, ScrubInv
  <2>2. OnlyName(path, current_path)'
    BY <1>2, <2>1 DEF Begin, OnlyName
  <2>3. ASSUME NEW f \in Files, returned'[f] = "pending" PROVE OnlyName(f, Original(f))'
    BY <1>2, <2>3 DEF Begin, ScrubInv, OnlyName, Original
  <2>4. ASSUME NEW f \in Files, returned'[f] = "true" PROVE NoName(f)'
    BY <1>2, <2>4 DEF Begin, ScrubInv, NoName
  <2>5. QED  BY <1>2, <2>1, <2>2, <2>3, <2>4 DEF Begin, ScrubInv, Steps
<1>3. CASE MaskZeros \/ MaskAs \/ Shrink
  <2>1. PICK c, n : /\ \/ try_rename("zeros", "As", Mask(c, n))
                       \/ try_rename("As", "shrink", Mask(c, n))
                       \/ try_rename("shrink", "unlink", Mask(c, n))
    BY <1>3 DEF MaskZeros, MaskAs, Shrink
  <2>2. \A f \in Files : Mask(c, n) # Original(f)
    BY MaskIsNoOriginal DEF ScrubInv
  <2>3. /\ at \in Steps /\ at' \in Steps
        /\ RenameWorks(Mask(c, n)) \/ RenameFails(Mask(c, n))
        /\ UNCHANGED <<path, nonce, returned>>
    BY <2>1 DEF try_rename, Steps
  <2>4. QED  BY <2>2, <2>3, RenameKeeps
<1>4. CASE Unlink
  <2>1. PICK removed \in BOOLEAN :
          /\ entries' = IF removed THEN [n \in DOMAIN entries \ {current_path} |-> entries[n]]
                                   ELSE entries
          /\ returned' = [returned EXCEPT ![path] = IF Verdict(removed) THEN "true" ELSE "false"]
    BY <1>4 DEF Unlink
  <2>2. /\ at = "unlink" /\ at' = "idle" /\ path' = path /\ nonce' = nonce
        /\ OnlyName(path, current_path)
    BY <1>4 DEF Unlink, ScrubInv, Steps
  <2>3. returned' \in [Files -> {"pending", "true", "false"}] /\ returned'[path] # "pending"
    BY <2>1 DEF ScrubInv
  <2>4. /\ DOMAIN entries' \subseteq DOMAIN entries
        /\ \A n \in DOMAIN entries' : entries'[n] = entries[n]
        /\ \A n \in DOMAIN entries : n # current_path => n \in DOMAIN entries'
    BY <2>1
  <2>5. ASSUME NEW f \in Files, returned'[f] = "pending" PROVE OnlyName(f, Original(f))'
    <3>1. f # path /\ returned[f] = "pending"
      BY <2>1, <2>3, <2>5 DEF ScrubInv
    <3>2. OnlyName(f, Original(f))
      BY <3>1 DEF ScrubInv
    <3>3. Original(f) # current_path
      BY <2>2, <3>1, <3>2 DEF OnlyName
    <3>4. QED  BY <2>4, <3>2, <3>3 DEF OnlyName, Original
  <2>6. ASSUME NEW f \in Files, returned'[f] = "true" PROVE NoName(f)'
    <3>1. CASE f = path
      <4>1. removed
        BY <2>1, <2>6, <3>1 DEF Verdict, ScrubInv
      <4>2. QED  BY <2>1, <2>2, <3>1, <4>1 DEF OnlyName, NoName
    <3>2. CASE f # path
      <4>1. NoName(f)
        BY <2>1, <2>6, <3>2 DEF ScrubInv
      <4>2. QED  BY <2>4, <4>1 DEF NoName
    <3>3. QED  BY <3>1, <3>2
  <2>7. QED  BY <2>2, <2>3, <2>5, <2>6 DEF ScrubInv, Steps
<1>5. QED  BY <1>1, <1>2, <1>3, <1>4 DEF ScrubNext

\* The removal at the end of scrub_metadata removes the file being scrubbed.
THEOREM NameFollowed == ScrubSpec => []FollowsTheName
<1>1. ScrubInv => FollowsTheName
  BY DEF ScrubInv, FollowsTheName, OnlyName
<1>2. QED  BY ScrubInvInit, ScrubInvStep, <1>1, PTL DEF ScrubSpec

\* A file reported as scrubbed has no name left and does not get one back.
THEOREM ScrubbedIsGone == ScrubSpec => []TrueMeansGone
<1>1. ScrubInv => TrueMeansGone
  BY DEF ScrubInv, TrueMeansGone, NamesOf, NoName
<1>2. QED  BY ScrubInvInit, ScrubInvStep, <1>1, PTL DEF ScrubSpec

\* The flag that says all renames worked implies that the mask fitted.
LEMMA LengthStep == ScrubInv /\ LengthInv /\ [ScrubNext]_scrub_vars => LengthInv'
<1> SUFFICES ASSUME ScrubInv, LengthInv, [ScrubNext]_scrub_vars PROVE LengthInv'
  OBVIOUS
<1>1. CASE UNCHANGED scrub_vars
  BY <1>1 DEF scrub_vars, LengthInv, TooLongIsSurfaced
<1>2. CASE Begin
  BY <1>2 DEF Begin, LengthInv, TooLongIsSurfaced, Steps
<1>3. CASE MaskZeros
  <2>1. Mask("0", LengthOf[path]).length = LengthOf[path] + NonceLength
    BY DEF Mask
  <2>2. QED  BY <1>3, <2>1 DEF MaskZeros, try_rename, RenameWorks, RenameFails, LengthInv,
                              TooLongIsSurfaced
<1>4. CASE MaskAs \/ Shrink
  BY <1>4 DEF MaskAs, Shrink, try_rename, RenameWorks, RenameFails, LengthInv, TooLongIsSurfaced, Steps
<1>5. CASE Unlink
  <2>1. PICK removed \in BOOLEAN :
          returned' = [returned EXCEPT ![path] = IF Verdict(removed) THEN "true" ELSE "false"]
    BY <1>5 DEF Unlink
  <2>2. at' = "idle" /\ (all_renames_succeeded => LengthOf[path] + NonceLength <= NameMax)
    BY <1>5 DEF Unlink, LengthInv, Steps
  <2>3. ASSUME NEW f \in Files, returned'[f] = "true"
        PROVE  LengthOf[f] + NonceLength <= NameMax
    BY <2>1, <2>2, <2>3 DEF Verdict, ScrubInv, LengthInv, TooLongIsSurfaced
  <2>4. QED  BY <2>2, <2>3 DEF LengthInv, TooLongIsSurfaced, Steps
<1>6. QED  BY <1>1, <1>2, <1>3, <1>4, <1>5 DEF ScrubNext

\* A file whose name is too long to be masked is never reported as scrubbed.
THEOREM FailedMasksSurface == ScrubSpec => []TooLongIsSurfaced
<1>1. ScrubInit => LengthInv
  BY DEF ScrubInit, LengthInv, TooLongIsSurfaced, Steps
<1>2. LengthInv => TooLongIsSurfaced
  BY DEF LengthInv
<1>3. QED  BY ScrubInvInit, ScrubInvStep, LengthStep, <1>1, <1>2, PTL DEF ScrubSpec
================================================================================
