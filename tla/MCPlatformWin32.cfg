\* Three cells per cluster.  Sizes: empty, resident or with two cells of slack or one, a
\* whole cluster, and a cluster and a bit on a volume too full for the slack of
\* it to be reached.
CONSTANTS
  Capacity = 4
  Unit = 3
  Wrap = 9
  FsKinds = {"NTFS", "FAT", "ReFS"}
  AttrSets = {{}, {"COMPRESSED"}, {"SPARSE", "ENCRYPTED"}}
  Sizes = {0, 1, 2, 3, 4}
  Patterns = {"rnd"}
SPECIFICATION Spec
INVARIANTS TypeOK EliminatedMeansOverwritten
PROPERTY ImplementsContract
CHECK_DEADLOCK FALSE
