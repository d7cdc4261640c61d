SPECIFICATION Spec
CONSTANTS
  Objects = {o1}
  Nodes = {n1, n2, n3}
  Jobs = {j1}
  Transfers = {t1, t2, t3}
  None = None
  TargetReplicas = 3
  MaxAttempts = 1
  AuditMaxAttempts = 1
  GcMaxAttempts = 1
  Capacity = 1
  FailureKinds = {"suspect", "missing"}
  RepairMaxInflight = 1
  DbErrors = {"audit_result", "target_start"}
  MaxDisturbances = 2
SYMMETRY Symmetric
INVARIANTS TypeOK StoredUnlessDamaged VerifiesOwnCopy AbandonedCopyQueued
PROPERTIES DbSpec
CHECK_DEADLOCK FALSE
