SPECIFICATION DbSpec
CONSTANTS
  Objects = {o1}
  Nodes = {n1, n2, n3}
  Jobs = {j1, j2}
  Transfers = {t1, t2}
  None = None
  TargetReplicas = 2
  MaxAttempts = 1
  AuditMaxAttempts = 1
  GcMaxAttempts = 1
  Capacity = 1
  FailureKinds = {"missing"}
SYMMETRY Symmetric
PROPERTIES PurgeQueuesDeletion
CHECK_DEADLOCK FALSE
