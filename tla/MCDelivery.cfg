SPECIFICATION FairSpec
CONSTANTS
  Record = {"event"}
  Size <- MCSize
  RollAtBytes = 1
  MaxAgeTicks = None
  MaxBytes = 1
  None = None
  MaxRecords = 3
  MaxNow = 1
  Group = {"ledger", "alerts"}
  Contract <- MCContract
  ResetPolicy <- MCPolicy
  MaxFaults = 2
INVARIANT ContractsKept
PROPERTIES RetentionSparesUnread ConsumersCatchUp
