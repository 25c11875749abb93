SPECIFICATION Spec
CONSTANTS
  Gates = {"partition"}
  InFlight <- AlwaysTwo
  None = None
  MaxSeq = 2
  MaxEpoch = 2
  MaxCrashes = 0
CHECK_DEADLOCK FALSE
INVARIANT AckedIsStored
