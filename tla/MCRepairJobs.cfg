SPECIFICATION DbSpec
CONSTANTS
  Objects = {o1}
  Nodes = {n1, n2, n3}
  Jobs = {j1}
  Transfers = {t1, t2}
  None = None
  TargetReplicas = 2
  MaxAttempts = 2
  AuditMaxAttempts = 2
  GcMaxAttempts = 1
  Capacity = 1
  FailureKinds = {"suspect", "missing"}
SYMMETRY Symmetric
INVARIANTS DbTypeOK ReservationsExact CleanupExact AuditOnlyWhileVerifying
PROPERTIES EndedStaysEnded
CHECK_DEADLOCK FALSE
