SPECIFICATION Spec
CONSTANTS
  Record = {"small", "full", "huge"}
  Size <- MCSize
  RollAtBytes = 3
  MaxAgeTicks = 1
  MaxBytes = 6
  None = None
  MaxRecords = 4
  MaxNow = 2
INVARIANTS SegmentChain OffsetsAreStable RetentionIsHonest
PROPERTIES ImplementsCommitLog
