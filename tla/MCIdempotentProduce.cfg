SPECIFICATION FairSpec
CONSTANTS
  Gates = {"session", "partition"}
  InFlight <- RestartsSlowly
  None = None
  MaxSeq = 3
  MaxEpoch = 3
  MaxCrashes = 2
CHECK_DEADLOCK FALSE
INVARIANTS LogIsSequenced AckedIsStored
PROPERTIES SendsResolve
