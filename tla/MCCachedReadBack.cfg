\* One filesystem is enough: a write-back that fails on ext4.
CONSTANTS
  Capacity = 2
  Unit = 2
  Wrap = 4
  FsKinds = {"extent"}
  Configs <- MCConfigs
  Sizes = {0, 1, 2}
  BufferCells = 1
  EntropyFloor = 1
SPECIFICATION Spec
INVARIANT VerifiedPayloadOnMedia
CHECK_DEADLOCK FALSE
