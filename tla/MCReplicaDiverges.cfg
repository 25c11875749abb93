SPECIFICATION Spec
CONSTANTS
  Broker = {b1, b2, b3}
  None = None
  MinInSync = 2
  MaxLag = 1
  AllowUnclean = FALSE
  ZombieLeaders = TRUE
  MaxEpoch = 3
  MaxLog = 2
  MaxCrashes = 1
SYMMETRY BrokerSymmetry
CHECK_DEADLOCK FALSE
INVARIANT FollowerIsPrefix
