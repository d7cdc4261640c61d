SPECIFICATION Spec
CONSTANTS
  n1 = n1  n2 = n2  n3 = n3  u1 = u1  u2 = u2
  Uploads = {u1, u2}
  Nodes = {n1, n2, n3}
  Sizes = {1, 2}
  Capacity <- Room
  ReplicaCount = 2
  MaxDisturbances = 1
INVARIANTS TypeOK ReservationsSound HeldIsReserved ItemComplete AbortedErased FailureNeedsCause DoneIsStored IngressMetered
PROPERTIES KeepsAtomicity
SYMMETRY Symmetric
CHECK_DEADLOCK FALSE
