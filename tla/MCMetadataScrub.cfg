\* A name of one character has the zero mask for its short name too.
CONSTANTS
  Files <- MCFiles
  LengthOf <- MCLengthOf
  Nonces = {"100000", "100001"}
  NameMax = 12
SPECIFICATION ScrubSpec
INVARIANTS FollowsTheName TrueMeansGone TooLongIsSurfaced
CHECK_DEADLOCK FALSE
