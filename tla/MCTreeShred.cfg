\* The command is given the tree or the file in it.
CONSTANTS
  Targets = {"root", "f"}
  Kind <- MCKind
  Parent <- MCParent
  Top = "top"
  LinkTo <- MCLinkTo
  Elsewhere <- MCElsewhere
  Initial <- MCInitial
SPECIFICATION FairSpec
INVARIANTS NothingUnshreddedRemoved CleanTreeGone KeptFilesAreReported FileExitHonest
  ElsewhereKeepsItsEntries
PROPERTIES Terminates EachStepCounts
CHECK_DEADLOCK FALSE
