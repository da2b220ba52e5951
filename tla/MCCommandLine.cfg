\* Five arguments: two options with a value and a flag, or any mixture.  A disk with
\* a partition, another name for it, and a loop device; mount points that count and
\* one that does not.
CONSTANTS
  Tokens <- MCTokens
  MaxArgs = 5
  Stoul <- MCStoul
  PassWrap = 8
  Devices <- MCDevices
  Canonical <- MCCanonical
  BackedBy <- MCBackedBy
  Loops <- MCLoops
  Mountable <- MCMountable
  Swappable <- MCSwappable
  IsLinux = TRUE
SPECIFICATION CommandSpec
INVARIANTS OptionsMeanWhatTheySay GuardHolds
CHECK_DEADLOCK FALSE
