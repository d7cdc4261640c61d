SPECIFICATION Spec
CONSTANTS
  Items = {i1, i2, i3}
  Root = Root
  Objects = {o1}
  Batches = {b1}
  None = None
  Requests = {r1, r2}
  Ops = {"upload", "copy", "trash", "purge"}
SYMMETRY Symmetric
INVARIANTS NoDanglingReference
CHECK_DEADLOCK FALSE
