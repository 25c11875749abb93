SPECIFICATION Spec
CONSTANTS
  Node = {n1, n2, n3}
  InitialVoters <- Pairs
  None = None
  MaxPromoteLag = 1
  MaxTerm = 4
  MaxLog = 2
  MaxWire = 2
  MaxExtras = 2
CONSTRAINT UntilLapse
SYMMETRY NodeSymmetry
CHECK_DEADLOCK FALSE
INVARIANTS OneLeaderPerTerm LogsAreSafe ReadsAreFresh SnapshotsCover
