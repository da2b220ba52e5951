\* Two cells per unit, buffers of one cell: a payload that fills its unit has no
\* slack, one of a cell has one, and passes and read-backs take several chunks.
CONSTANTS
  Capacity = 2
  Unit = 2
  Wrap = 4
  FsKinds = {"extent", "inline", "cluster", "cow"}
  Configs <- MCConfigs
  Sizes = {0, 1, 2}
  BufferCells = 1
  EntropyFloor = 1
SPECIFICATION FairSpec
INVARIANTS TypeOK FlushedPayloadOverwritten SuccessVerifiedIsTrue NothingLostBeforeVerdict
  TrimReportedHonestly ZeroCheckReadsAll SwitchesAgree
PROPERTIES ImplementsCall EachStepCounts Terminates
CHECK_DEADLOCK FALSE
