SPECIFICATION Spec
CONSTANTS
  Id = {"payer"}
  Partition = {"p0"}
  None = None
  MaxTxns = 2
  MaxWrites = 2
  MaxInstances = 1
  MaxCrashes = 0
CHECK_DEADLOCK FALSE
INVARIANT AbortedAreFilteredOut
