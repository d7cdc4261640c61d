SPECIFICATION Spec
CONSTANTS
  Items = {i1, i2, i3, i4}
  Root = Root
  Objects = {o1, o2}
  Batches = {b1, b2}
  None = None
  Requests = {r1}
  Ops = {"create_folder", "upload", "replace", "move", "patch", "trash", "restore", "purge", "copy", "restore_version"}
SYMMETRY Symmetric
INVARIANTS TypeOK NoDanglingReference NothingOrphaned NothingBelowTrash
PROPERTIES OnlyTrashPurged
CHECK_DEADLOCK FALSE
