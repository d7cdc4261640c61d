SPECIFICATION FairSpec
CONSTANTS
  Transfers = {d1}
  Nodes = {n1, n2}
  Total = 2
  MaxAttempts = 2
  FlushChunks = 2
  DailyLimit = 2
  DbErrors = {"record", "flush"}
  MaxDisturbances = 2
INVARIANTS TypeOK
PROPERTIES HealthyProvedItself TransferEnds
CHECK_DEADLOCK FALSE
