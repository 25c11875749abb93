SPECIFICATION Spec
CONSTANTS
  Broker = {b1, b2, b3}
  None = None
  MinInSync = 2
  MaxLag = 1
  AllowUnclean = FALSE
  ZombieLeaders = TRUE
  MaxEpoch = 2
  MaxLog = 3
  MaxCrashes = 1
SYMMETRY BrokerSymmetry
CHECK_DEADLOCK FALSE
INVARIANTS LeaderHasPromises ReadsAgree FollowerIsPrefix
PROPERTIES TruncationSparesPromised
