SPECIFICATION FairSpec
CONSTANTS
  Member = {1, 2, 3}
  Partition = {0, 1}
  StandbyMargin = 0
  LogEnd = 1
  MaxFaults = 2
CHECK_DEADLOCK FALSE
INVARIANTS StableIsAssigned CommitsAreProgress
PROPERTIES OnlyOwnersCommit GroupSettles
