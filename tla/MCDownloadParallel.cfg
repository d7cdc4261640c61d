SPECIFICATION Spec
CONSTANTS
  Transfers = {d1, d2}
  Nodes = {n1, n2}
  Total = 2
  MaxAttempts = 2
  FlushChunks = 2
  DailyLimit = 1
  DbErrors = {"flush", "check"}
  MaxDisturbances = 1
SYMMETRY Symmetric
INVARIANTS MeteredExactly CapOverrunBounded
PROPERTIES KeepsPromise
CHECK_DEADLOCK FALSE
