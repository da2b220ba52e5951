\* The storage of MCShred on Windows volumes.
CONSTANTS
  Capacity = 2
  Unit = 2
  Wrap = 4
  FsKinds = {"NTFS", "FAT", "ReFS"}
  AttrSets = {{}, {"COMPRESSED"}, {"SPARSE"}, {"ENCRYPTED"}}
  Configs <- MCFewConfigs
  Sizes = {0, 1, 2}
  BufferCells = 1
  EntropyFloor = 1
SPECIFICATION Spec
INVARIANTS TypeOK FlushedPayloadOverwritten SuccessVerifiedIsTrue TrimOfKnownSizeReported
PROPERTIES ImplementsCall EachStepCounts
CHECK_DEADLOCK FALSE
