SPECIFICATION Spec
CONSTANTS
  FenceAfter = 1
  HoldDown = 1
  MaxEnd = 1
  MaxVersion = 3
  Grace = 1
  SessionTimeout = 1
  MaxPoll = 2
  MaxLifetime = 2
  MaxRecords = 3
  MaxIds = 2
  LagWindow = 1
  Throttle = 1
  MaxLag = 1
  FlapWindow = 3
  FlapLimit = 2
  MaxMoved = 3
  MaxFlaps = 8
  MaxVoters = 4
  Partitions = 4
  GroupTimeout = 1
  OffsetRetention = 1
  MaxRetries = 1
  BaseDelay = 2
  MaxDelay = 4
  MaxGeneration = 5
  MaxOffset = 2
  MaxTicks = 6
  MaxNow = 3
  Key = {k1, k2}
  Consumer = {c1, c2}
SYMMETRY Symmetry
\* A part that has reached its bounds stops.
CHECK_DEADLOCK FALSE
INVARIANTS
  StoreServesReaders
  DataAtRestIsSafe
  ControlIsSafe
  ReplicasAreSafe
  GroupsAreSound
  AdministrationIsSound
  FormatsRoundTrip
