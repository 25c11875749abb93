SPECIFICATION FairSpec
CONSTANTS
  Id = {"payer", "ledger"}
  Partition = {"p0", "p1"}
  None = None
  MaxTxns = 2
  MaxWrites = 3
  MaxInstances = 2
  MaxCrashes = 1
CHECK_DEADLOCK FALSE
INVARIANTS ReadCommittedIsExact MarkersAgree
PROPERTIES VerdictsAreFinal ReadersNotStuck
