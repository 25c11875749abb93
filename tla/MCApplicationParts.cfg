SPECIFICATION Spec
CONSTANTS
  DedupWindow = 2
  CommitInterval = 2
  MaxItems = 3
  MaxOutput = 5
  Nodes = {1, 2, 3}
  MaxOps = 3
  MaxEvents = 4
  MaxWall = 1
  ReadQuorum = 2
  WriteQuorum = 2
  HintWindow = 2
  LeaseDuration = 2
  MaxVersions = 2
  MaxWrites = 3
  MaxAge = 4
  MaxNow = 3
\* A part that has reached its bounds stops.
CHECK_DEADLOCK FALSE
INVARIANTS
  ClientsLoseNothing
  LoadStaysBounded
  PipelinesKeepPromises
  ProtocolsHold
  StreamsAreExact
  TypesConverge
  StructuresMatch
