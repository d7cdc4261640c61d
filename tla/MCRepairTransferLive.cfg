SPECIFICATION FairSpec
CONSTANTS
  Objects = {o1}
  Nodes = {n1, n2}
  Jobs = {j1}
  Transfers = {t1, t2, t3}
  None = None
  TargetReplicas = 2
  MaxAttempts = 1
  AuditMaxAttempts = 2
  GcMaxAttempts = 1
  Capacity = 1
  FailureKinds = {"suspect", "missing"}
  RepairMaxInflight = 1
  DbErrors = {"source_failure"}
  MaxDisturbances = 2
PROPERTIES AttemptEnds AbandonedCopyErased
CHECK_DEADLOCK FALSE
