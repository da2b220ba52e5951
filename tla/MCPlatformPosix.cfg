\* Three cells per unit.  Sizes: empty, exactly a unit, and a unit and a bit,
\* which leaves two cells of slack.
CONSTANTS
  Capacity = 6
  Unit = 3
  Wrap = 9
  FsKinds = {"extent", "inline", "cluster", "cow", "nomap"}
  Sizes = {0, 3, 4}
  Patterns = {"rnd"}
SPECIFICATION Spec
INVARIANTS TypeOK DescriptorClosed EliminatedMeansOverwritten
PROPERTY ImplementsContract
CHECK_DEADLOCK FALSE
