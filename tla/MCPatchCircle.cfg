SPECIFICATION Spec
CONSTANTS
  Items = {i1, i2, i3}
  Root = Root
  Objects = {o1}
  Batches = {b1}
  None = None
  Requests = {r1}
  Ops = {"create_folder", "patch"}
SYMMETRY Symmetric
INVARIANTS ActiveReachable
CHECK_DEADLOCK FALSE
