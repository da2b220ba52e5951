\* As MCTreeShred.
CONSTANTS
  Targets = {"root", "f"}
  Kind <- MCKind
  Parent <- MCParent
  Top = "top"
  LinkTo <- MCLinkTo
  Elsewhere <- MCElsewhere
  Initial <- MCInitial
SPECIFICATION Spec
INVARIANT ExitZeroMeansVerified
CHECK_DEADLOCK FALSE
