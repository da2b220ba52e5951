\* Three arguments: an option with a value and a flag, or none at all.
CONSTANTS
  Tokens <- MCTokens
  MaxArgs = 3
  Stoul <- MCStoul
  PassWrap = 8
SPECIFICATION OptionSpec
INVARIANT DocumentedPasses
CHECK_DEADLOCK FALSE
