--------------------------- MODULE ItemTreeProofs ---------------------------
(***************************************************************************)
(* Theorems about ItemTree, for any items, objects, batches and requests.  *)
(*                                                                         *)
(* What holds with any number of requests at a time: the types, and, as    *)
(* long as nothing is copied or replaced, that no object is lost.  What    *)
(* holds when requests are served one after another (Serial): no object is *)
(* lost or left over, nothing outside the trash is in a folder of the      *)
(* trash, and only the trash is purged; the active items form a tree below *)
(* the root as long as patch_item is not used.  MCPatchCircle.cfg shows    *)
(* what patch_item does, MCCopyPurge.cfg a copy that loses its object when *)
(* two requests overlap.                                                   *)
(*                                                                         *)
(* The facts about trees are lemmas on rows alone: `rows' stands for the   *)
(* items table before a step and `new' for the table after it.             *)
(***************************************************************************)
EXTENDS ItemTree, TLAPS

(* At most one request is served at a time. *)
Serial == \A q, r \in Requests : q = r

Folders == Items \cup {Root}

(* An items table: a row that exists has a parent, or is in the root. *)
Rows == {rows \in [Items -> ItemRow] :
           \A i \in Items : Exists(rows, i) => rows[i].parent \in Folders}

RequestType ==
    [op : {"create_folder", "upload", "replace", "move", "patch", "trash", "restore",
           "purge", "copy", "restore_version", "none"},
     phase : {"none", "uploaded", "read", "deleted"},
     item : Items \cup {None},
     dest : Items \cup Objects \cup {Root, None},
     folder : Items \cup {Root, None},
     ids : SUBSET Items,
     objs : SUBSET Objects,
     rows : Rows \cup {<<>>}]

(* What the kind and the phase of a request say of its other fields. *)
Sane(q) ==
    /\ q.op \in Ops \cup {"none"}
    /\ q.phase = "none" => q = NoRequest
    /\ q.phase = "uploaded" => /\ q.op \in {"upload", "replace"}
                               /\ q.dest \in Items /\ q.folder \in Folders
    /\ q.phase \in {"read", "deleted"} => q.rows \in Rows
    /\ q.phase = "deleted" => q.op = "purge"
    /\ q.op = "upload" => q.phase = "uploaded"
    /\ q.op = "replace" => /\ q.item \in Items /\ q.dest \in Items
                           /\ q.folder \in Folders
    /\ q.op \in {"create_folder", "move", "patch", "copy"} => q.dest \in Folders
    /\ q.op \in {"move", "patch", "trash", "restore", "copy", "restore_version"}
         => q.item \in Items
    /\ q.op = "copy" => Exists(q.rows, q.item)
    /\ q.op = "restore_version" => q.dest \in Objects \cup {None}

TypeInv ==
    /\ item \in Rows
    /\ versions \in [Items -> SUBSET (Objects \cup {None})]
    /\ objects \in SUBSET Objects
    /\ req \in [Requests -> RequestType]
    /\ \A r \in Requests : Sane(req[r])

-----------------------------------------------------------------------------
(* Descendants is the least set with the item that is closed under children. *)
Closed(rows, S) ==
    \A c \in Items : Exists(rows, c) /\ rows[c].parent \in S => c \in S

LEMMA DescendantsClosed ==
    ASSUME NEW rows, NEW i \in Items
    PROVE  /\ i \in Descendants(rows, i)
           /\ Descendants(rows, i) \subseteq Items
           /\ Closed(rows, Descendants(rows, i))
<1>1. i \in Descendants(rows, i) /\ Descendants(rows, i) \subseteq Items
  BY DEF Descendants
<1>2. ASSUME NEW c \in Items, Exists(rows, c), rows[c].parent \in Descendants(rows, i)
      PROVE  c \in Descendants(rows, i)
  <2>1. SUFFICES ASSUME NEW S \in SUBSET Items, i \in S, Closed(rows, S)
                 PROVE  c \in S
    BY DEF Descendants, Closed
  <2>2. rows[c].parent \in S
    BY <1>2, <2>1 DEF Descendants, Closed
  <2> QED BY <1>2, <2>1, <2>2 DEF Closed
<1> QED BY <1>1, <1>2 DEF Closed

LEMMA DescendantsLeast ==
    ASSUME NEW rows, NEW i \in Items, NEW S \in SUBSET Items, i \in S, Closed(rows, S)
    PROVE  Descendants(rows, i) \subseteq S
BY DEF Descendants, Closed

(* A descendant other than the item itself is the child of a descendant. *)
LEMMA DescendantHasParent ==
    ASSUME NEW rows, NEW i \in Items, NEW k \in Descendants(rows, i), k # i
    PROVE  Exists(rows, k) /\ rows[k].parent \in Descendants(rows, i)
<1> PICK D : D = Descendants(rows, i)
  OBVIOUS
<1>1. i \in D /\ D \subseteq Items /\ Closed(rows, D)
  BY DescendantsClosed
<1>2. SUFFICES ASSUME ~(Exists(rows, k) /\ rows[k].parent \in D) PROVE FALSE
  OBVIOUS
<1>3. D \ {k} \in SUBSET Items /\ i \in D \ {k}
  BY <1>1
<1>4. Closed(rows, D \ {k})
  BY <1>1, <1>2 DEF Closed
<1>5. D \subseteq D \ {k}
  BY <1>3, <1>4, DescendantsLeast
<1> QED BY <1>5

-----------------------------------------------------------------------------
(* Types. *)

LEMMA RowsExcept ==
    ASSUME NEW rows \in Rows, NEW i \in Items, NEW row \in ItemRow,
           row.type # "absent" => row.parent \in Folders
    PROVE  [rows EXCEPT ![i] = row] \in Rows
<1>1. rows \in [Items -> ItemRow] /\ \A k \in Items : Exists(rows, k) => rows[k].parent \in Folders
  BY DEF Rows
<1>2. [rows EXCEPT ![i] = row] \in [Items -> ItemRow]
  BY <1>1
<1>3. ASSUME NEW k \in Items, Exists([rows EXCEPT ![i] = row], k)
      PROVE  [rows EXCEPT ![i] = row][k].parent \in Folders
  BY <1>1, <1>3 DEF Exists
<1> QED BY <1>2, <1>3 DEF Rows

LEMMA RowsRow ==
    ASSUME NEW rows \in Rows, NEW i \in Items
    PROVE  /\ rows[i] \in ItemRow
           /\ Exists(rows, i) => rows[i].parent \in Folders
BY DEF Rows

LEMMA RowFields ==
    ASSUME NEW row \in ItemRow
    PROVE  /\ row.type \in {"absent", "folder", "file"}
           /\ row.parent \in Items \cup {Root, None}
           /\ row.object \in Objects \cup {None}
           /\ row.batch \in Batches \cup {None}
BY DEF ItemRow

LEMMA AbsentRow == Absent \in ItemRow /\ Absent.type = "absent"
BY DEF Absent, ItemRow

LEMMA IdleSane == NoRequest \in RequestType /\ Sane(NoRequest)
BY DEF NoRequest, RequestType, Sane

LEMMA RequestsKeepType ==
    ASSUME TypeInv, NEW r \in Requests, NEW q \in RequestType, Sane(q),
           req' = [req EXCEPT ![r] = q]
    PROVE  req' \in [Requests -> RequestType] /\ \A k \in Requests : Sane(req'[k])
<1>1. req \in [Requests -> RequestType] /\ \A k \in Requests : Sane(req[k])
  BY DEF TypeInv
<1>2. req' \in [Requests -> RequestType]
  BY <1>1
<1>3. ASSUME NEW k \in Requests PROVE Sane(req'[k])
  <2>1. req'[k] = IF k = r THEN q ELSE req[k]
    BY <1>1
  <2> QED BY <2>1, <1>1
<1> QED BY <1>2, <1>3

LEMMA TypeKept ==
    ASSUME item' \in Rows, versions' \in [Items -> SUBSET (Objects \cup {None})],
           objects' \in SUBSET Objects,
           req' \in [Requests -> RequestType], \A k \in Requests : Sane(req'[k])
    PROVE  TypeInv'
BY DEF TypeInv

LEMMA RequestFacts ==
    ASSUME TypeInv, NEW r \in Requests
    PROVE  req[r] \in RequestType /\ Sane(req[r])
BY DEF TypeInv

LEMMA OpenSane ==
    ASSUME TypeInv, NEW r \in Requests, NEW op \in Ops, NEW i \in Items \cup {None},
           NEW d \in Items \cup Objects \cup {Root, None},
           NEW ids \in SUBSET Items, NEW objs \in SUBSET Objects,
           Open(r, op, i, d, ids, objs),
           op # "upload",
           op = "replace" => i \in Items /\ d \in Items /\ req[r].folder \in Folders,
           op \in {"create_folder", "move", "patch", "copy"} => d \in Folders,
           op \in {"move", "patch", "trash", "restore", "copy", "restore_version"} => i \in Items,
           op = "copy" => Exists(item, i),
           op = "restore_version" => d \in Objects \cup {None}
    PROVE  req' \in [Requests -> RequestType] /\ \A k \in Requests : Sane(req'[k])
<1> PICK q : q = [op |-> op, phase |-> "read", item |-> i, dest |-> d,
                  folder |-> req[r].folder, ids |-> ids, objs |-> objs, rows |-> item]
  OBVIOUS
<1>1. req' = [req EXCEPT ![r] = q]
  BY DEF Open
<1>2. item \in Rows /\ req[r].folder \in Items \cup {Root, None}
  BY DEF TypeInv, RequestType
<1>3. op \in {"create_folder", "upload", "replace", "move", "patch", "trash", "restore",
              "purge", "copy", "restore_version", "none"}
  BY OpsAssumption
<1>4. q \in RequestType
  BY <1>2, <1>3 DEF RequestType
<1>5. Sane(q)
  BY <1>2, <1>3 DEF Sane
<1> QED BY <1>1, <1>4, <1>5, RequestsKeepType

LEMMA IdleKeepsType ==
    ASSUME TypeInv, NEW r \in Requests, req' = [req EXCEPT ![r] = NoRequest]
    PROVE  req' \in [Requests -> RequestType] /\ \A k \in Requests : Sane(req'[k])
BY IdleSane, RequestsKeepType

LEMMA FolderOkTyped ==
    ASSUME NEW d, FolderOk(d) PROVE d \in Folders
BY DEF FolderOk, Folders

LEMMA ReadType ==
    ASSUME TypeInv, NEW r \in Requests, Read(r)
    PROVE  TypeInv'
<1>t. /\ item \in Rows /\ versions \in [Items -> SUBSET (Objects \cup {None})]
      /\ objects \in SUBSET Objects /\ req[r] \in RequestType /\ Sane(req[r])
  BY DEF TypeInv
<1>u. ASSUME UNCHANGED <<item, versions, objects>>,
             req' \in [Requests -> RequestType] /\ \A k \in Requests : Sane(req'[k])
      PROVE  TypeInv'
  BY <1>u, <1>t, TypeKept
<1>e. /\ {} \in SUBSET Items /\ {} \in SUBSET Objects
      /\ None \in Items \cup {None} /\ None \in Items \cup Objects \cup {Root, None}
      /\ \A d \in Folders : d \in Items \cup Objects \cup {Root, None}
      /\ \A i \in Items : i \in Items \cup {None} /\ i \in Items \cup Objects \cup {Root, None}
      /\ \A v \in Objects \cup {None} : v \in Items \cup Objects \cup {Root, None}
  BY DEF Folders
<1>o. ASSUME NEW ids \in SUBSET Items
      PROVE  ObjectsOf(item, versions, ids) \in SUBSET Objects
  <2>1. ASSUME NEW x, x \in ObjectsOf(item, versions, ids)
        PROVE  x \in Objects
    <3>1. x # None /\ x \in UNION {versions[i] \cup {item[i].object} : i \in ids}
      BY <2>1 DEF ObjectsOf
    <3>2. PICK i \in ids : x \in versions[i] \cup {item[i].object}
      BY <3>1, Zenon
    <3>3. i \in Items
      OBVIOUS
    <3>4. versions[i] \subseteq Objects \cup {None} /\ item[i].object \in Objects \cup {None}
      BY <3>3, <1>t, RowsRow, RowFields
    <3> QED BY <3>1, <3>2, <3>4
  <2> QED BY <2>1
<1>1. ASSUME NEW i \in Items, NEW d \in Items \cup {Root}, ReadMove(r, i, d)
      PROVE  TypeInv'
  <2>1. "move" \in Ops /\ Open(r, "move", i, d, {}, {}) /\ UNCHANGED <<item, versions, objects>>
    BY <1>1 DEF ReadMove, Reads
  <2>2. d \in Folders
    BY DEF Folders
  <2>3. req' \in [Requests -> RequestType] /\ \A k \in Requests : Sane(req'[k])
    BY <2>1, <2>2, <1>e, OpenSane
  <2> QED BY <2>1, <2>3, <1>u
<1>11. ASSUME NEW i \in Items, NEW d \in Items \cup {Root}, ReadPatch(r, i, d)
       PROVE  TypeInv'
  <2>1. "patch" \in Ops /\ Open(r, "patch", i, d, {}, {}) /\ UNCHANGED <<item, versions, objects>>
    BY <1>11 DEF ReadPatch, Reads
  <2>2. d \in Folders
    BY DEF Folders
  <2>3. req' \in [Requests -> RequestType] /\ \A k \in Requests : Sane(req'[k])
    BY <2>1, <2>2, <1>e, OpenSane
  <2> QED BY <2>1, <2>3, <1>u
<1>2. ASSUME NEW i \in Items, NEW d \in Items \cup {Root}, ReadCopy(r, i, d)
      PROVE  TypeInv'
  <2> PICK p : p = IF d = Root THEN item[i].parent ELSE d
    OBVIOUS
  <2>1. /\ "copy" \in Ops /\ Open(r, "copy", i, p, {}, {})
        /\ UNCHANGED <<item, versions, objects>> /\ Exists(item, i)
    BY <1>2 DEF ReadCopy, Reads, Active
  <2>2. p \in Folders
    BY <2>1, <1>t, RowsRow DEF Folders
  <2>3. p \in Items \cup Objects \cup {Root, None}
    BY <2>2 DEF Folders
  <2>4. req' \in [Requests -> RequestType] /\ \A k \in Requests : Sane(req'[k])
    BY <2>1, <2>2, <2>3, <1>e, OpenSane
  <2> QED BY <2>1, <2>4, <1>u
<1>3. ASSUME NEW d \in Items \cup {Root}, ReadCreateFolder(r, d)
      PROVE  TypeInv'
  <2>1. /\ "create_folder" \in Ops /\ Open(r, "create_folder", None, d, {}, {})
        /\ UNCHANGED <<item, versions, objects>>
    BY <1>3 DEF ReadCreateFolder, Reads
  <2>2. d \in Folders
    BY DEF Folders
  <2>3. req' \in [Requests -> RequestType] /\ \A k \in Requests : Sane(req'[k])
    BY <2>1, <2>2, <1>e, OpenSane
  <2> QED BY <2>1, <2>3, <1>u
<1>4. ASSUME NEW i \in Items, ReadTrash(r, i) PROVE TypeInv'
  <2> PICK ids : ids = Descendants(item, i)
    OBVIOUS
  <2>1. /\ "trash" \in Ops /\ Open(r, "trash", i, None, ids, {})
        /\ UNCHANGED <<item, versions, objects>>
    BY <1>4 DEF ReadTrash, Reads
  <2>2. ids \in SUBSET Items
    BY DescendantsClosed
  <2>3. req' \in [Requests -> RequestType] /\ \A k \in Requests : Sane(req'[k])
    BY <2>1, <2>2, <1>e, OpenSane
  <2> QED BY <2>1, <2>3, <1>u
<1>5. ASSUME NEW i \in Items, ReadRestore(r, i) PROVE TypeInv'
  <2> PICK ids : ids = {k \in Items : item[k].batch = item[i].batch}
    OBVIOUS
  <2>1. /\ "restore" \in Ops /\ Open(r, "restore", i, None, ids, {})
        /\ UNCHANGED <<item, versions, objects>>
    BY <1>5 DEF ReadRestore, Reads
  <2>2. ids \in SUBSET Items
    OBVIOUS
  <2>3. req' \in [Requests -> RequestType] /\ \A k \in Requests : Sane(req'[k])
    BY <2>1, <2>2, <1>e, OpenSane
  <2> QED BY <2>1, <2>3, <1>u
<1>6. ASSUME NEW i \in Items, ReadPurge(r, i) PROVE TypeInv'
  <2> PICK ids : ids = Descendants(item, i)
    OBVIOUS
  <2> PICK objs : objs = ObjectsOf(item, versions, ids)
    OBVIOUS
  <2>1. /\ "purge" \in Ops /\ Open(r, "purge", i, None, ids, objs)
        /\ UNCHANGED <<item, versions, objects>>
    BY <1>6 DEF ReadPurge, Reads
  <2>2. ids \in SUBSET Items
    BY DescendantsClosed
  <2>3. objs \in SUBSET Objects
    BY <2>2, <1>o
  <2>4. req' \in [Requests -> RequestType] /\ \A k \in Requests : Sane(req'[k])
    BY <2>1, <2>2, <2>3, <1>e, OpenSane
  <2> QED BY <2>1, <2>4, <1>u
<1>7. ASSUME NEW B \in SUBSET Batches, ReadExpire(r, B) PROVE TypeInv'
  <2> PICK ids : ids = UNION {Descendants(item, i) : i \in TopLevelExpired(B)}
    OBVIOUS
  <2> PICK objs : objs = ObjectsOf(item, versions, ids)
    OBVIOUS
  <2>1. /\ "purge" \in Ops /\ Open(r, "purge", None, None, ids, objs)
        /\ UNCHANGED <<item, versions, objects>>
    BY <1>7 DEF ReadExpire, Reads
  <2>2. ids \in SUBSET Items
    BY DescendantsClosed DEF TopLevelExpired
  <2>3. objs \in SUBSET Objects
    BY <2>2, <1>o
  <2>4. req' \in [Requests -> RequestType] /\ \A k \in Requests : Sane(req'[k])
    BY <2>1, <2>2, <2>3, <1>e, OpenSane
  <2> QED BY <2>1, <2>4, <1>u
<1>8. ASSUME NEW i \in Items, NEW v \in versions[i], ReadRestoreVersion(r, i, v)
      PROVE  TypeInv'
  <2>1. /\ "restore_version" \in Ops /\ Open(r, "restore_version", i, v, {}, {})
        /\ UNCHANGED <<item, versions, objects>>
    BY <1>8 DEF ReadRestoreVersion, Reads
  <2>2. v \in Objects \cup {None}
    BY <1>t
  <2>3. req' \in [Requests -> RequestType] /\ \A k \in Requests : Sane(req'[k])
    BY <2>1, <2>2, <1>e, OpenSane
  <2> QED BY <2>1, <2>3, <1>u
<1>9. ASSUME ReadReplace(r) PROVE TypeInv'
  <2>1. req[r].op = "replace" /\ UNCHANGED <<item, versions, objects>>
    BY <1>9 DEF ReadReplace
  <2>2. CASE req' = [req EXCEPT ![r] = NoRequest]
    BY <2>1, <2>2, IdleKeepsType, <1>u
  <2>3. CASE Open(r, "replace", req[r].item, req[r].dest, {}, {})
    <3> PICK i, d : i = req[r].item /\ d = req[r].dest
      OBVIOUS
    <3>1. /\ i \in Items /\ d \in Items /\ req[r].folder \in Folders
          /\ "replace" \in Ops
      BY <1>t, <2>1 DEF Sane
    <3>2. Open(r, "replace", i, d, {}, {})
      BY <2>3
    <3>3. req' \in [Requests -> RequestType] /\ \A k \in Requests : Sane(req'[k])
      BY <3>1, <3>2, <1>e, OpenSane
    <3> QED BY <2>1, <3>3, <1>u
  <2> QED BY <1>9, <2>2, <2>3 DEF ReadReplace
<1>10. ASSUME FinalizeUpload(r) PROVE TypeInv'
  <2> PICK i, p : i = req[r].dest /\ p = req[r].folder
    OBVIOUS
  <2>1. /\ req[r].op = "upload" /\ req' = [req EXCEPT ![r] = NoRequest]
        /\ item' = IF FolderOk(p) /\ Active(item, i)
                   THEN [item EXCEPT ![i].parent = p] ELSE item
        /\ versions' = versions /\ objects' = objects
    BY <1>10 DEF FinalizeUpload
  <2>2. i \in Items /\ p \in Folders
    BY <2>1, <1>t DEF Sane
  <2>3. item' \in Rows
    <3> PICK row : row = [item[i] EXCEPT !.parent = p]
      OBVIOUS
    <3>1. row \in ItemRow /\ row.parent = p
      BY <2>2, <1>t, RowsRow DEF ItemRow, Folders
    <3>2. [item EXCEPT ![i].parent = p] = [item EXCEPT ![i] = row]
      BY <2>2
    <3>3. [item EXCEPT ![i] = row] \in Rows
      BY <3>1, <2>2, <1>t, RowsExcept
    <3> QED BY <2>1, <3>2, <3>3, <1>t
  <2>4. req' \in [Requests -> RequestType] /\ \A k \in Requests : Sane(req'[k])
    BY <2>1, IdleKeepsType
  <2> QED BY <2>1, <2>3, <2>4, <1>t, TypeKept
<1> QED
  BY <1>1, <1>2, <1>3, <1>4, <1>5, <1>6, <1>7, <1>8, <1>9, <1>10, <1>11
  DEF Read

LEMMA FinishType ==
    ASSUME TypeInv, NEW r \in Requests, Finish(r)
    PROVE  TypeInv'
<1> PICK q : q = req[r]
  OBVIOUS
<1>t. /\ item \in Rows /\ versions \in [Items -> SUBSET (Objects \cup {None})]
      /\ objects \in SUBSET Objects /\ q \in RequestType /\ Sane(q)
      /\ req \in [Requests -> RequestType]
  BY DEF TypeInv
<1>i. ASSUME NEW op, Finishes(r, op), item' \in Rows,
             versions' \in [Items -> SUBSET (Objects \cup {None})], objects' = objects
      PROVE  TypeInv'
  <2>1. req' = [req EXCEPT ![r] = NoRequest]
    BY <1>i DEF Finishes
  <2>2. req' \in [Requests -> RequestType] /\ \A k \in Requests : Sane(req'[k])
    BY <2>1, IdleKeepsType
  <2> QED BY <1>i, <1>t, <2>2, TypeKept
<1>f. ASSUME NEW f, f \in [Items -> ItemRow],
             \A k \in Items : Exists(f, k) => f[k].parent \in Folders
      PROVE  f \in Rows
  BY <1>f DEF Rows
<1>1. ASSUME NEW i \in Items, FinishCreateFolder(r, i) PROVE TypeInv'
  <2>1. /\ Finishes(r, "create_folder") /\ versions' = versions /\ objects' = objects
        /\ item' = [item EXCEPT ![i] = [Absent EXCEPT !.type = "folder", !.parent = q.dest]]
    BY <1>1 DEF FinishCreateFolder
  <2>2. q.dest \in Folders
    BY <2>1, <1>t DEF Finishes, Sane
  <2> PICK row : row = [Absent EXCEPT !.type = "folder", !.parent = q.dest]
    OBVIOUS
  <2>3. row \in ItemRow /\ row.parent = q.dest
    BY <2>2 DEF Absent, ItemRow, Folders
  <2>4. item' \in Rows
    BY <2>1, <2>2, <2>3, <1>t, RowsExcept
  <2> QED BY <2>1, <2>4, <1>t, <1>i
<1>2. ASSUME NEW i \in Items, CopyFile(r, i) PROVE TypeInv'
  <2>1. /\ Finishes(r, "copy") /\ versions' = versions /\ objects' = objects
        /\ item' = [item EXCEPT ![i] = [q.rows[q.item] EXCEPT !.parent = q.dest]]
    BY <1>2 DEF CopyFile
  <2>2. q.dest \in Folders /\ q.item \in Items /\ q.rows \in Rows
    BY <2>1, <1>t DEF Finishes, Sane
  <2> PICK row : row = [q.rows[q.item] EXCEPT !.parent = q.dest]
    OBVIOUS
  <2>3. row \in ItemRow /\ row.parent = q.dest
    BY <2>2, RowsRow DEF ItemRow, Folders
  <2>4. item' \in Rows
    BY <2>1, <2>2, <2>3, <1>t, RowsExcept
  <2> QED BY <2>1, <2>4, <1>t, <1>i
<1>3. ASSUME FinishMove(r) PROVE TypeInv'
  <2>1. /\ Finishes(r, "move") \/ Finishes(r, "patch")
        /\ versions' = versions /\ objects' = objects
        /\ item' = IF Exists(item, q.item) THEN [item EXCEPT ![q.item].parent = q.dest] ELSE item
    BY <1>3 DEF FinishMove
  <2>2. q.dest \in Folders /\ q.item \in Items
    BY <2>1, <1>t DEF Finishes, Sane
  <2> PICK row : row = [item[q.item] EXCEPT !.parent = q.dest]
    OBVIOUS
  <2>3. row \in ItemRow /\ row.parent = q.dest
    BY <2>2, <1>t, RowsRow DEF ItemRow, Folders
  <2>4. [item EXCEPT ![q.item] = row] \in Rows
    BY <2>2, <2>3, <1>t, RowsExcept
  <2>5. [item EXCEPT ![q.item].parent = q.dest] = [item EXCEPT ![q.item] = row]
    OBVIOUS
  <2>6. item' \in Rows
    BY <2>1, <2>4, <2>5, <1>t
  <2> QED BY <2>1, <2>6, <1>t, <1>i
<1>4. ASSUME NEW b \in Batches, FinishTrash(r, b) PROVE TypeInv'
  <2>1. /\ Finishes(r, "trash") /\ versions' = versions /\ objects' = objects
        /\ item' = [i \in Items |-> IF i \in q.ids /\ Exists(item, i)
                                    THEN [item[i] EXCEPT !.batch = b] ELSE item[i]]
    BY <1>4 DEF FinishTrash
  <2> PICK f : f = item'
    OBVIOUS
  <2>2. ASSUME NEW i \in Items
        PROVE  /\ f[i] \in ItemRow /\ f[i].type = item[i].type /\ f[i].parent = item[i].parent
    <3>1. f[i] = IF i \in q.ids /\ Exists(item, i) THEN [item[i] EXCEPT !.batch = b] ELSE item[i]
      BY <2>1
    <3>2. item[i] \in ItemRow
      BY <1>t, RowsRow
    <3> QED BY <3>1, <3>2 DEF ItemRow
  <2>3. f \in [Items -> ItemRow]
    BY <2>1, <2>2
  <2>4. \A k \in Items : Exists(f, k) => f[k].parent \in Folders
    BY <2>2, <1>t, RowsRow DEF Exists
  <2>5. item' \in Rows
    BY <2>3, <2>4, <1>f
  <2> QED BY <2>1, <2>5, <1>t, <1>i
<1>5. ASSUME FinishRestore(r) PROVE TypeInv'
  <2> PICK homeless : homeless = (q.rows[q.item].parent \in Items
                                  /\ Trashed(q.rows, q.rows[q.item].parent))
    OBVIOUS
  <2>1. /\ Finishes(r, "restore") /\ versions' = versions /\ objects' = objects
        /\ item' = [i \in Items |-> IF i \in q.ids /\ Exists(item, i)
                       THEN [item[i] EXCEPT !.batch = None,
                               !.parent = IF i = q.item /\ homeless THEN Root ELSE @]
                       ELSE item[i]]
    BY <1>5 DEF FinishRestore
  <2> PICK f : f = item'
    OBVIOUS
  <2>2. ASSUME NEW i \in Items
        PROVE  /\ f[i] \in ItemRow /\ f[i].type = item[i].type
               /\ f[i].parent = item[i].parent \/ f[i].parent = Root
    <3>1. f[i] = IF i \in q.ids /\ Exists(item, i)
                 THEN [item[i] EXCEPT !.batch = None,
                         !.parent = IF i = q.item /\ homeless THEN Root ELSE item[i].parent]
                 ELSE item[i]
      BY <2>1
    <3>2. item[i] \in ItemRow
      BY <1>t, RowsRow
    <3> QED BY <3>1, <3>2 DEF ItemRow
  <2>3. f \in [Items -> ItemRow]
    BY <2>1, <2>2
  <2>4. \A k \in Items : Exists(f, k) => f[k].parent \in Folders
    BY <2>2, <1>t, RowsRow DEF Exists, Folders
  <2>5. item' \in Rows
    BY <2>3, <2>4, <1>f
  <2> QED BY <2>1, <2>5, <1>t, <1>i
<1>6. ASSUME PurgeDelete(r) PROVE TypeInv'
  <2> PICK objs : objs = {o \in Unreferenced(q.objs, q.ids) \cap objects :
                            \A k \in Requests : req[k].phase = "deleted" => o \notin req[k].objs}
    OBVIOUS
  <2>1. /\ q.op = "purge" /\ q.phase = "read"
        /\ req' = [req EXCEPT ![r].phase = "deleted", ![r].objs = objs]
        /\ UNCHANGED <<item, versions, objects>>
    BY <1>6 DEF PurgeDelete
  <2> PICK p : p = [q EXCEPT !.phase = "deleted", !.objs = objs]
    OBVIOUS
  <2>2. req' = [req EXCEPT ![r] = p]
    BY <2>1, <1>t
  <2>3. objs \in SUBSET Objects
    BY <1>t DEF RequestType
  <2>4. p \in RequestType
    BY <2>3, <1>t DEF RequestType
  <2>5. /\ p.op = "purge" /\ p.phase = "deleted" /\ p.rows = q.rows /\ q.rows \in Rows
        /\ "purge" \in Ops \cup {"none"}
    BY <2>1, <1>t DEF RequestType, Sane
  <2>6. Sane(p)
    BY <2>5 DEF Sane
  <2>7. req' \in [Requests -> RequestType] /\ \A k \in Requests : Sane(req'[k])
    BY <2>2, <2>4, <2>6, RequestsKeepType
  <2> QED BY <2>1, <2>7, <1>t, TypeKept
<1>7. ASSUME PurgeCommit(r) PROVE TypeInv'
  <2>1. /\ req' = [req EXCEPT ![r] = NoRequest]
        /\ item' = [i \in Items |-> IF i \in q.ids THEN Absent ELSE item[i]]
        /\ versions' = [i \in Items |-> IF i \in q.ids THEN {} ELSE versions[i]]
        /\ objects' = objects \ q.objs
    BY <1>7 DEF PurgeCommit
  <2> PICK f : f = item'
    OBVIOUS
  <2>2. f \in [Items -> ItemRow]
    BY <2>1, <1>t, RowsRow, AbsentRow
  <2>3. \A k \in Items : Exists(f, k) => f[k].parent \in Folders
    BY <2>1, <1>t, RowsRow, AbsentRow DEF Exists
  <2>4. item' \in Rows
    BY <2>2, <2>3, <1>f
  <2>5. versions' \in [Items -> SUBSET (Objects \cup {None})]
    BY <2>1, <1>t
  <2>6. objects' \in SUBSET Objects
    BY <2>1, <1>t
  <2>7. req' \in [Requests -> RequestType] /\ \A k \in Requests : Sane(req'[k])
    BY <2>1, IdleKeepsType
  <2> QED BY <2>4, <2>5, <2>6, <2>7, TypeKept
<1>8. ASSUME CopyFolder(r) PROVE TypeInv'
  <2> DEFINE Q == req[r]
             ds == Descendants(Q.rows, Q.item)
  <2>1. PICK g \in [ds -> {i \in Items : FreshItem(i)}] :
          /\ \A i, k \in ds : i # k => g[i] # g[k]
          /\ item' = [n \in Items |->
               IF \E i \in ds : g[i] = n
               THEN LET i == CHOOSE k \in ds : g[k] = n IN
                    [Absent EXCEPT !.type = Q.rows[i].type,
                       !.parent = IF i = Q.item THEN Q.dest ELSE g[Q.rows[i].parent]]
               ELSE item[n]]
    BY <1>8, Zenon DEF CopyFolder
  <2>a. Q = q
    OBVIOUS
  <2>2. Finishes(r, "copy") /\ versions' = versions /\ objects' = objects
    BY <1>8 DEF CopyFolder
  <2>3. q.dest \in Folders /\ q.item \in Items /\ q.rows \in Rows
    BY <2>2, <1>t DEF Finishes, Sane
  <2> PICK f : f = item'
    OBVIOUS
  <2>b. ds = Descendants(q.rows, q.item)
    BY <2>a
  <2>c. ASSUME NEW n \in Items
        PROVE  f[n] = IF \E i \in ds : g[i] = n
                      THEN LET i == CHOOSE k \in ds : g[k] = n IN
                           [Absent EXCEPT !.type = Q.rows[i].type,
                             !.parent = IF i = Q.item THEN Q.dest ELSE g[Q.rows[i].parent]]
                      ELSE item[n]
    BY <2>1, Zenon
  <2>d. \A k \in ds : g[k] \in Items
    BY <2>1
  <2> HIDE DEF Q, ds
  <2>4. ASSUME NEW n \in Items
        PROVE  f[n] \in ItemRow /\ (Exists(f, n) => f[n].parent \in Folders)
    <3>1. CASE ~\E i \in ds : g[i] = n
      <4>1. f[n] = item[n]
        BY <3>1, <2>c
      <4> QED BY <4>1, <1>t, RowsRow DEF Exists
    <3>2. CASE \E i \in ds : g[i] = n
      <4> PICK i : i = CHOOSE k \in ds : g[k] = n
        OBVIOUS
      <4>1. i \in ds /\ g[i] = n
        BY <3>2
      <4>2. f[n] = [Absent EXCEPT !.type = q.rows[i].type,
                       !.parent = IF i = q.item THEN q.dest ELSE g[q.rows[i].parent]]
        BY <3>2, <2>c, <2>a
      <4>3. i # q.item => q.rows[i].parent \in ds
        BY <4>1, <2>3, <2>b, DescendantHasParent
      <4>4. (IF i = q.item THEN q.dest ELSE g[q.rows[i].parent]) \in Folders
        BY <4>3, <2>d, <2>3 DEF Folders
      <4>5. i \in Items
        BY <4>1, <2>3, <2>b, DescendantsClosed
      <4>6. q.rows[i].type \in {"absent", "folder", "file"}
        BY <4>5, <2>3, RowsRow, RowFields
      <4> QED BY <4>2, <4>4, <4>6 DEF Absent, ItemRow, Folders
    <3> QED BY <3>1, <3>2
  <2>5. f \in [Items -> ItemRow]
    BY <2>1, <2>4
  <2>6. item' \in Rows
    BY <2>4, <2>5, <1>f
  <2> QED BY <2>2, <2>6, <1>t, <1>i
<1>9. ASSUME FinishRestoreVersion(r) PROVE TypeInv'
  <2>1. /\ Finishes(r, "restore_version") /\ objects' = objects
        /\ IF Exists(item, q.item)
           THEN /\ versions' = [versions EXCEPT ![q.item] = @ \cup {q.rows[q.item].object}]
                /\ item' = [item EXCEPT ![q.item].object = q.dest]
           ELSE item' = item /\ versions' = versions
    BY <1>9 DEF FinishRestoreVersion
  <2>2. q.item \in Items /\ q.dest \in Objects \cup {None} /\ q.rows \in Rows
    BY <2>1, <1>t DEF Finishes, Sane
  <2> PICK row : row = [item[q.item] EXCEPT !.object = q.dest]
    OBVIOUS
  <2>3. /\ row \in ItemRow /\ row.parent = item[q.item].parent
        /\ row.type = item[q.item].type
    BY <2>2, <1>t, RowsRow DEF ItemRow
  <2>4. row.type # "absent" => row.parent \in Folders
    BY <2>2, <2>3, <1>t, RowsRow DEF Exists
  <2>5. [item EXCEPT ![q.item] = row] \in Rows
    BY <2>2, <2>3, <2>4, <1>t, RowsExcept
  <2>6. [item EXCEPT ![q.item].object = q.dest] = [item EXCEPT ![q.item] = row]
    OBVIOUS
  <2>7. item' \in Rows
    BY <2>1, <2>5, <2>6, <1>t
  <2>8. q.rows[q.item].object \in Objects \cup {None}
    BY <2>2, RowsRow, RowFields
  <2>9. versions' \in [Items -> SUBSET (Objects \cup {None})]
    BY <2>1, <2>2, <2>8, <1>t
  <2> QED BY <2>1, <2>7, <2>9, <1>i
<1>10. ASSUME FinishReplace(r) PROVE TypeInv'
  <2> PICK t : t = q.item
    OBVIOUS
  <2> PICK p : p = ReplacedParent(q)
    OBVIOUS
  <2>1. /\ Finishes(r, "replace") /\ objects' = objects
        /\ IF Exists(item, t)
           THEN /\ versions' = [versions EXCEPT ![t] = @ \cup {q.rows[t].object}]
                /\ item' = [item EXCEPT ![t].object = q.rows[q.dest].object,
                                        ![t].batch = None, ![t].parent = p,
                                        ![q.dest] = Absent]
           ELSE item' = item /\ versions' = versions
    BY <1>10 DEF FinishReplace
  <2>2. t \in Items /\ q.dest \in Items /\ q.folder \in Folders /\ q.rows \in Rows
    BY <2>1, <1>t DEF Finishes, Sane
  <2>3. CASE ~Exists(item, t)
    BY <2>1, <2>3, <1>t, <1>i
  <2>4. CASE Exists(item, t)
    <3>1. p \in Folders
      BY <2>2, <2>4, <1>t, RowsRow DEF ReplacedParent
    <3>2. q.rows[q.dest].object \in Objects \cup {None} /\ q.rows[t].object \in Objects \cup {None}
      BY <2>2, RowsRow, RowFields
    <3> PICK o : o = q.rows[q.dest].object
      OBVIOUS
    <3> PICK row : row = [item[t] EXCEPT !.object = o, !.batch = None, !.parent = p]
      OBVIOUS
    <3>a. item[t] \in ItemRow
      BY <2>2, <1>t, RowsRow
    <3>b. o \in Objects \cup {None} /\ p \in Items \cup {Root, None}
      BY <3>1, <3>2 DEF Folders
    <3>c. row \in ItemRow
      BY <3>a, <3>b DEF ItemRow
    <3>3. row.parent = p
      BY <3>a DEF ItemRow
    <3>d. row.type # "absent" => row.parent \in Folders
      BY <3>1, <3>3
    <3> PICK f : f = [item EXCEPT ![t] = row]
      OBVIOUS
    <3>4. f \in Rows
      BY <2>2, <3>c, <3>d, <1>t, RowsExcept
    <3>5. [f EXCEPT ![q.dest] = Absent] \in Rows
      BY <3>4, <2>2, AbsentRow, RowsExcept
    <3>6. item' = [f EXCEPT ![q.dest] = Absent]
      BY <2>1, <2>2, <2>4, <1>t DEF Rows
    <3>7. versions' \in [Items -> SUBSET (Objects \cup {None})]
      BY <2>1, <2>2, <2>4, <3>2, <1>t
    <3> QED BY <2>1, <3>5, <3>6, <3>7, <1>i
  <2> QED BY <2>3, <2>4
<1> QED
  BY <1>1, <1>2, <1>3, <1>4, <1>5, <1>6, <1>7, <1>8, <1>9, <1>10 DEF Finish

LEMMA UploadType ==
    ASSUME TypeInv, NEW r \in Requests, NEW i \in Items, NEW o \in Objects,
           NEW t \in Items \cup {None}, NEW p \in Items \cup {Root}, Upload(r, i, o, t, p)
    PROVE  TypeInv'
<1>t. /\ item \in Rows /\ versions \in [Items -> SUBSET (Objects \cup {None})]
      /\ objects \in SUBSET Objects
  BY DEF TypeInv
<1> PICK op : op = IF t = None THEN "upload" ELSE "replace"
  OBVIOUS
<1> PICK q : q = [op |-> op, phase |-> "uploaded", item |-> t, dest |-> i, folder |-> p,
                  ids |-> {}, objs |-> {}, rows |-> <<>>]
  OBVIOUS
<1> PICK row : row = [type |-> "file", parent |-> Root, object |-> o, batch |-> None]
  OBVIOUS
<1>1. /\ "upload" \in Ops /\ (t # None => "replace" \in Ops)
      /\ objects' = objects \cup {o} /\ item' = [item EXCEPT ![i] = row]
      /\ versions' = versions
  BY DEF Upload
<1>2. req' = [req EXCEPT ![r] = q]
  BY DEF Upload
<1>3. q \in RequestType
  BY DEF RequestType
<1>4. t # None => t \in Items
  OBVIOUS
<1>5. op \in Ops /\ op \in {"upload", "replace"} /\ (op = "replace" => t \in Items)
  BY <1>1, <1>4
<1>6. Sane(q)
  BY <1>5 DEF Sane, Folders
<1>7. req' \in [Requests -> RequestType] /\ \A k \in Requests : Sane(req'[k])
  BY <1>2, <1>3, <1>6, RequestsKeepType
<1>8. row \in ItemRow /\ row.parent \in Folders
  BY DEF ItemRow, Folders
<1>9. item' \in Rows
  BY <1>1, <1>8, <1>t, RowsExcept
<1>10. objects' \in SUBSET Objects
  BY <1>1, <1>t
<1> QED BY <1>1, <1>7, <1>9, <1>10, <1>t, TypeKept

LEMMA InitType == Init => TypeInv
<1> SUFFICES ASSUME Init PROVE TypeInv
  OBVIOUS
<1>1. item \in Rows
  BY AbsentRow DEF Init, Rows, Exists
<1>2. versions \in [Items -> SUBSET (Objects \cup {None})]
  BY DEF Init
<1>3. objects \in SUBSET Objects
  BY DEF Init
<1>4. req \in [Requests -> RequestType] /\ \A r \in Requests : Sane(req[r])
  BY IdleSane DEF Init
<1> QED BY <1>1, <1>2, <1>3, <1>4 DEF TypeInv

LEMMA TypeStep == TypeInv /\ [Next]_vars => TypeInv'
<1> SUFFICES ASSUME TypeInv, [Next]_vars PROVE TypeInv'
  OBVIOUS
<1>1. CASE UNCHANGED vars
  BY <1>1, TypeKept DEF vars, TypeInv
<1>2. ASSUME NEW r \in Requests, Read(r) PROVE TypeInv'
  BY <1>2, ReadType
<1>3. ASSUME NEW r \in Requests, Finish(r) PROVE TypeInv'
  BY <1>3, FinishType
<1>4. ASSUME NEW r \in Requests, NEW i \in Items, NEW o \in Objects,
             NEW t \in Items \cup {None}, NEW p \in Items \cup {Root}, Upload(r, i, o, t, p)
      PROVE  TypeInv'
  BY <1>4, UploadType
<1> QED BY <1>1, <1>2, <1>3, <1>4 DEF Next

LEMMA TypeInvTypes == TypeInv => TypeOK
<1> SUFFICES ASSUME TypeInv PROVE TypeOK
  OBVIOUS
<1>1. item \in [Items -> ItemRow]
  BY DEF TypeInv, Rows
<1>2. ASSUME NEW r \in Requests
      PROVE  /\ req[r].op \in Ops \cup {"upload", "none"}
             /\ req[r].phase \in {"none", "uploaded", "read", "deleted"}
             /\ req[r].item \in Items \cup {None}
             /\ req[r].ids \subseteq Items /\ req[r].objs \subseteq Objects
  BY RequestFacts DEF RequestType, Sane
<1> QED BY <1>1, <1>2 DEF TypeInv, TypeOK

(* The item tree keeps its types whatever requests overlap: every row is a  *)
(* row of the items table, every request knows rows, items and objects.     *)
THEOREM ItemTypeCorrect == Spec => []TypeOK
<1>1. Spec => []TypeInv
  BY InitType, TypeStep, PTL DEF Spec
<1> QED BY <1>1, TypeInvTypes, PTL

-----------------------------------------------------------------------------
(* No object is lost, as long as requests do not share objects: they are    *)
(* served one at a time, or none of them copies or replaces a file.         *)
NothingShared == Serial \/ Ops \cap {"copy", "replace"} = {}

(* One request at a time acts on what it has read. *)
Current == \A r \in Requests : req[r].phase = "read" => req[r].rows = item

(* Only the rows that a purge has deleted refer to what it will remove. *)
Unused(objs, ids) == \A i \in Items \ ids : \A x \in References(i) : x \notin objs

(* A version that is to be restored is still there, what the request saw as *)
(* the current content is still the content or a version, and so is what    *)
(* another request has made the content since.                              *)
VersionKept(q) ==
    q.op = "restore_version" /\ Exists(item, q.item)
        => /\ q.dest \in versions[q.item] /\ q.rows[q.item].object \in References(q.item)
           /\ item[q.item].object \in versions[q.item] \cup {q.rows[q.item].object}

GcInv ==
    /\ NoDanglingReference
    /\ \A r \in Requests : req[r].phase = "deleted" => Unused(req[r].objs, req[r].ids)
    /\ \A r \in Requests : VersionKept(req[r])

(* What a step of r may do to the references of i ... *)
RefsSafe(i, r) ==
    \A x \in References(i)' : x # None =>
        /\ x \in objects'
        /\ \/ x \in References(i)
           \/ \A k \in Requests \ {r} : req[k].phase = "deleted" => x \notin req[k].objs
(* ... and to a row that another request is going to give an old version.   *)
StillThere(i) ==
    Exists(item', i) => /\ Exists(item, i)
                        /\ versions[i] \subseteq versions'[i]
                        /\ References(i) \subseteq References(i)'
                        /\ item'[i].object \in versions'[i] \cup {item[i].object}

LEMMA GcKept ==
    ASSUME TypeInv, GcInv, NEW r \in Requests, NEW q, req' = [req EXCEPT ![r] = q],
           q.phase = "deleted" => Unused(q.objs, q.ids)', VersionKept(q)',
           \A i \in Items : RefsSafe(i, r),
           \A i \in Items, k \in Requests \ {r} :
               req[k].op = "restore_version" /\ req[k].item = i => StillThere(i)
    PROVE  GcInv'
<1>t. req \in [Requests -> RequestType]
  BY DEF TypeInv
<1>r. ASSUME NEW k \in Requests PROVE req'[k] = IF k = r THEN q ELSE req[k]
  BY <1>t
<1>1. NoDanglingReference'
  BY DEF NoDanglingReference, RefsSafe
<1>2. ASSUME NEW k \in Requests, NEW objs, NEW ids, req'[k].phase = "deleted",
             objs = req'[k].objs, ids = req'[k].ids
      PROVE  Unused(objs, ids)'
  <2>1. CASE k = r
    <3>1. q.phase = "deleted" /\ objs = q.objs /\ ids = q.ids
      BY <2>1, <1>2, <1>r
    <3> QED BY <3>1
  <2>2. CASE k # r
    <3>1. req[k].phase = "deleted" /\ objs = req[k].objs /\ ids = req[k].ids
      BY <2>2, <1>2, <1>r
    <3>2. Unused(objs, ids) /\ objs \in SUBSET Objects
      BY <3>1, RequestFacts DEF GcInv, RequestType
    <3>3. ASSUME NEW i \in Items \ ids, NEW x \in References(i)' PROVE x \notin objs
      <4>1. CASE x = None
        BY <4>1, <3>2, NullAssumption
      <4>2. CASE x # None
        <5>1. RefsSafe(i, r)
          OBVIOUS
        <5>2. \/ x \in References(i)
              \/ \A m \in Requests \ {r} : req[m].phase = "deleted" => x \notin req[m].objs
          BY <5>1, <4>2, <3>3 DEF RefsSafe
        <5>3. CASE x \in References(i)
          BY <5>3, <3>2 DEF Unused
        <5>4. CASE \A m \in Requests \ {r} : req[m].phase = "deleted" => x \notin req[m].objs
          BY <5>4, <3>1, <2>2
        <5> QED BY <5>2, <5>3, <5>4
      <4> QED BY <4>1, <4>2
    <3> QED BY <3>3, Zenon DEF Unused
  <2> QED BY <2>1, <2>2
<1>3. ASSUME NEW k \in Requests, NEW p, p = req'[k] PROVE VersionKept(p)'
  <2>1. CASE k = r
    <3>1. p = q
      BY <2>1, <1>3, <1>r
    <3> QED BY <3>1
  <2>2. CASE k # r
    <3> PICK i : i = p.item
      OBVIOUS
    <3>1. p = req[k]
      BY <2>2, <1>3, <1>r
    <3>2. SUFFICES ASSUME p.op = "restore_version", Exists(item', i)
                   PROVE  /\ p.dest \in versions'[i] /\ p.rows[i].object \in References(i)'
                          /\ item'[i].object \in versions'[i] \cup {p.rows[i].object}
      BY DEF VersionKept, References, Exists
    <3>3. i \in Items
      BY <3>1, <3>2, RequestFacts DEF Sane
    <3>4. StillThere(i)
      BY <3>1, <3>2, <3>3, <2>2
    <3>5. /\ Exists(item, i) /\ versions[i] \subseteq versions'[i]
          /\ References(i) \subseteq References(i)'
          /\ item'[i].object \in versions'[i] \cup {item[i].object}
      BY <3>2, <3>4 DEF StillThere
    <3>6. VersionKept(p)
      BY <3>1 DEF GcInv
    <3>7. /\ p.dest \in versions[i] /\ p.rows[i].object \in References(i)
          /\ item[i].object \in versions[i] \cup {p.rows[i].object}
      BY <3>2, <3>5, <3>6 DEF VersionKept, References
    <3> QED BY <3>5, <3>7
  <2> QED BY <2>1, <2>2
<1>4. (\A k \in Requests : req[k].phase = "deleted" => Unused(req[k].objs, req[k].ids))'
  BY <1>2 DEF Unused
<1>5. (\A k \in Requests : VersionKept(req[k]))'
  BY <1>3 DEF VersionKept
<1> QED BY <1>1, <1>4, <1>5 DEF GcInv

LEMMA ReferencesTyped ==
    ASSUME TypeInv, NEW i \in Items
    PROVE  References(i) \subseteq Objects \cup {None}
<1>1. item \in Rows /\ versions[i] \subseteq Objects \cup {None}
  BY DEF TypeInv
<1>2. item[i].object \in Objects \cup {None}
  BY <1>1, RowsRow, RowFields
<1> QED BY <1>1, <1>2 DEF References

(* A step that leaves the content of every row alone. *)
LEMMA GcUntouched ==
    ASSUME TypeInv, GcInv, NEW r \in Requests, NEW q, req' = [req EXCEPT ![r] = q],
           q.phase = "deleted" => Unused(q.objs, q.ids), VersionKept(q),
           versions' = versions, objects' = objects,
           \A i \in Items : item'[i].object = item[i].object /\ item'[i].type = item[i].type,
           q.op = "restore_version" => q.item \in Items
    PROVE  GcInv'
<1>1. ASSUME NEW i \in Items
      PROVE  References(i)' = References(i) /\ (Exists(item', i) <=> Exists(item, i))
  BY DEF References, Exists
<1>2. ASSUME NEW i \in Items PROVE RefsSafe(i, r)
  BY <1>1 DEF RefsSafe, GcInv, NoDanglingReference
<1>3. ASSUME NEW i \in Items PROVE StillThere(i)
  BY <1>1 DEF StillThere
<1>4. q.phase = "deleted" => Unused(q.objs, q.ids)'
  BY <1>1 DEF Unused
<1>5. VersionKept(q)'
  BY <1>1 DEF VersionKept
<1> QED BY <1>2, <1>3, <1>4, <1>5, GcKept

LEMMA IdleVersion == VersionKept(NoRequest) /\ NoRequest.phase # "deleted" /\ NoRequest.op = "none"
BY DEF VersionKept, NoRequest

LEMMA GcIdle ==
    ASSUME TypeInv, GcInv, NEW r \in Requests, req' = [req EXCEPT ![r] = NoRequest],
           versions' = versions, objects' = objects,
           \A i \in Items : item'[i].object = item[i].object /\ item'[i].type = item[i].type
    PROVE  GcInv'
BY IdleVersion, GcUntouched

LEMMA GcOpen ==
    ASSUME TypeInv, GcInv, NEW r \in Requests, NEW op, NEW i, NEW d, NEW ids, NEW objs,
           Open(r, op, i, d, ids, objs), UNCHANGED <<item, versions, objects>>,
           op = "restore_version" => i \in Items /\ d \in versions[i]
    PROVE  GcInv'
<1> PICK q : q = [op |-> op, phase |-> "read", item |-> i, dest |-> d,
                  folder |-> req[r].folder, ids |-> ids, objs |-> objs, rows |-> item]
  OBVIOUS
<1>1. req' = [req EXCEPT ![r] = q]
  BY DEF Open
<1>2. VersionKept(q)
  BY DEF VersionKept, References
<1>3. q.phase # "deleted" /\ (q.op = "restore_version" => q.item \in Items)
  OBVIOUS
<1> QED BY <1>1, <1>2, <1>3, GcUntouched

LEMMA GcRead ==
    ASSUME TypeInv, GcInv, NEW r \in Requests, Read(r)
    PROVE  GcInv'
<1>t. item \in [Items -> ItemRow]
  BY DEF TypeInv, Rows
<1>1. ASSUME NEW i \in Items, NEW d \in Items \cup {Root}, ReadMove(r, i, d) PROVE GcInv'
  BY <1>1, GcOpen DEF ReadMove, Reads
<1>11. ASSUME NEW i \in Items, NEW d \in Items \cup {Root}, ReadPatch(r, i, d) PROVE GcInv'
  BY <1>11, GcOpen DEF ReadPatch, Reads
<1>2. ASSUME NEW i \in Items, NEW d \in Items \cup {Root}, ReadCopy(r, i, d) PROVE GcInv'
  <2> PICK p : p = IF d = Root THEN item[i].parent ELSE d
    OBVIOUS
  <2>1. Open(r, "copy", i, p, {}, {}) /\ UNCHANGED <<item, versions, objects>>
    BY <1>2 DEF ReadCopy, Reads
  <2> QED BY <2>1, GcOpen
<1>3. ASSUME NEW d \in Items \cup {Root}, ReadCreateFolder(r, d) PROVE GcInv'
  BY <1>3, GcOpen DEF ReadCreateFolder, Reads
<1>4. ASSUME NEW i \in Items, ReadTrash(r, i) PROVE GcInv'
  <2> PICK ids : ids = Descendants(item, i)
    OBVIOUS
  <2>1. Open(r, "trash", i, None, ids, {}) /\ UNCHANGED <<item, versions, objects>>
    BY <1>4 DEF ReadTrash, Reads
  <2> QED BY <2>1, GcOpen
<1>5. ASSUME NEW i \in Items, ReadRestore(r, i) PROVE GcInv'
  <2> PICK ids : ids = {k \in Items : item[k].batch = item[i].batch}
    OBVIOUS
  <2>1. Open(r, "restore", i, None, ids, {}) /\ UNCHANGED <<item, versions, objects>>
    BY <1>5 DEF ReadRestore, Reads
  <2> QED BY <2>1, GcOpen
<1>6. ASSUME NEW i \in Items, ReadPurge(r, i) PROVE GcInv'
  <2> PICK ids : ids = Descendants(item, i)
    OBVIOUS
  <2> PICK objs : objs = ObjectsOf(item, versions, ids)
    OBVIOUS
  <2>1. Open(r, "purge", i, None, ids, objs) /\ UNCHANGED <<item, versions, objects>>
    BY <1>6 DEF ReadPurge, Reads
  <2> QED BY <2>1, GcOpen
<1>7. ASSUME NEW B \in SUBSET Batches, ReadExpire(r, B) PROVE GcInv'
  <2> PICK ids : ids = UNION {Descendants(item, i) : i \in TopLevelExpired(B)}
    OBVIOUS
  <2> PICK objs : objs = ObjectsOf(item, versions, ids)
    OBVIOUS
  <2>1. Open(r, "purge", None, None, ids, objs) /\ UNCHANGED <<item, versions, objects>>
    BY <1>7 DEF ReadExpire, Reads
  <2> QED BY <2>1, GcOpen
<1>8. ASSUME NEW i \in Items, NEW v \in versions[i], ReadRestoreVersion(r, i, v) PROVE GcInv'
  BY <1>8, GcOpen DEF ReadRestoreVersion, Reads
<1>9. ASSUME ReadReplace(r) PROVE GcInv'
  <2>1. UNCHANGED <<item, versions, objects>>
    BY <1>9 DEF ReadReplace
  <2>2. CASE req' = [req EXCEPT ![r] = NoRequest]
    BY <2>1, <2>2, GcIdle
  <2>3. CASE Open(r, "replace", req[r].item, req[r].dest, {}, {})
    <3> PICK i, d : i = req[r].item /\ d = req[r].dest
      OBVIOUS
    <3>1. Open(r, "replace", i, d, {}, {})
      BY <2>3
    <3> QED BY <3>1, <2>1, GcOpen
  <2> QED BY <1>9, <2>2, <2>3 DEF ReadReplace
<1>10. ASSUME FinalizeUpload(r) PROVE GcInv'
  <2> PICK i, p : i = req[r].dest /\ p = req[r].folder
    OBVIOUS
  <2>1. /\ req' = [req EXCEPT ![r] = NoRequest]
        /\ item' = IF FolderOk(p) /\ Active(item, i)
                   THEN [item EXCEPT ![i].parent = p] ELSE item
        /\ versions' = versions /\ objects' = objects
    BY <1>10 DEF FinalizeUpload
  <2>2. ASSUME NEW k \in Items
        PROVE  item'[k].object = item[k].object /\ item'[k].type = item[k].type
    BY <2>1, <1>t DEF ItemRow
  <2> QED BY <2>1, <2>2, GcIdle
<1> QED
  BY <1>1, <1>2, <1>3, <1>4, <1>5, <1>6, <1>7, <1>8, <1>9, <1>10, <1>11
  DEF Read

LEMMA GcFinish ==
    ASSUME TypeInv, GcInv, NothingShared, Serial => Current, NEW r \in Requests, Finish(r)
    PROVE  GcInv'
<1> PICK q : q = req[r]
  OBVIOUS
<1>t. /\ item \in [Items -> ItemRow] /\ versions \in [Items -> SUBSET (Objects \cup {None})]
      /\ objects \in SUBSET Objects /\ q \in RequestType /\ Sane(q)
      /\ req \in [Requests -> RequestType]
  BY DEF TypeInv, Rows
<1>s. ASSUME NEW op \in {"copy", "replace"}, Finishes(r, op)
      PROVE  Serial /\ q.rows = item
  <2>1. op \in Ops
    BY <1>s, <1>t DEF Finishes, Sane
  <2> QED BY <2>1, <1>s DEF NothingShared, Current, Finishes
<1>1. ASSUME NEW i \in Items, FinishCreateFolder(r, i) PROVE GcInv'
  <2>1. /\ req' = [req EXCEPT ![r] = NoRequest] /\ versions' = versions /\ objects' = objects
        /\ item' = [item EXCEPT ![i] = [Absent EXCEPT !.type = "folder", !.parent = q.dest]]
        /\ FreshItem(i)
    BY <1>1 DEF FinishCreateFolder, Finishes
  <2>2. item'[i].object = None
    BY <2>1, <1>t DEF Absent
  <2>3. \A k \in Items : k # i => item'[k] = item[k]
    BY <2>1, <1>t
  <2>4. ASSUME NEW k \in Items PROVE RefsSafe(k, r)
    <3>1. CASE k = i
      BY <3>1, <2>1, <2>2 DEF RefsSafe, References, GcInv, NoDanglingReference
    <3>2. CASE k # i
      BY <3>2, <2>1, <2>3 DEF RefsSafe, References, GcInv, NoDanglingReference
    <3> QED BY <3>1, <3>2
  <2>5. ASSUME NEW k \in Items, NEW m \in Requests \ {r}, req[m].item = k
        PROVE  StillThere(k)
    <3>1. k # i
      BY <2>1, <2>5 DEF FreshItem
    <3> QED BY <3>1, <2>1, <2>3 DEF StillThere, References, Exists
  <2> QED BY <2>1, <2>4, <2>5, IdleVersion, GcKept DEF VersionKept
<1>2. ASSUME NEW i \in Items, CopyFile(r, i) PROVE GcInv'
  <2>1. /\ req' = [req EXCEPT ![r] = NoRequest] /\ versions' = versions /\ objects' = objects
        /\ item' = [item EXCEPT ![i] = [q.rows[q.item] EXCEPT !.parent = q.dest]]
        /\ Finishes(r, "copy")
    BY <1>2 DEF CopyFile, Finishes
  <2>2. Serial /\ q.rows = item /\ q.item \in Items
    BY <2>1, <1>s, <1>t DEF Finishes, Sane
  <2>3. item'[i].object = item[q.item].object
    BY <2>1, <2>2, <1>t DEF ItemRow
  <2>4. \A k \in Items : k # i => item'[k] = item[k]
    BY <2>1, <1>t
  <2>5. \A m \in Requests : m = r
    BY <2>2 DEF Serial
  <2>6. ASSUME NEW k \in Items PROVE RefsSafe(k, r)
    <3>1. CASE k = i
      BY <3>1, <2>1, <2>2, <2>3, <2>5 DEF RefsSafe, References, GcInv, NoDanglingReference
    <3>2. CASE k # i
      BY <3>2, <2>1, <2>4 DEF RefsSafe, References, GcInv, NoDanglingReference
    <3> QED BY <3>1, <3>2
  <2> QED BY <2>1, <2>5, <2>6, IdleVersion, GcKept DEF VersionKept
<1>3. ASSUME FinishMove(r) PROVE GcInv'
  <2>1. /\ req' = [req EXCEPT ![r] = NoRequest] /\ versions' = versions /\ objects' = objects
        /\ item' = IF Exists(item, q.item) THEN [item EXCEPT ![q.item].parent = q.dest] ELSE item
    BY <1>3 DEF FinishMove, Finishes
  <2>2. ASSUME NEW k \in Items
        PROVE  item'[k].object = item[k].object /\ item'[k].type = item[k].type
    BY <2>1, <1>t DEF ItemRow
  <2> QED BY <2>1, <2>2, GcIdle
<1>4. ASSUME NEW b \in Batches, FinishTrash(r, b) PROVE GcInv'
  <2>1. /\ req' = [req EXCEPT ![r] = NoRequest] /\ versions' = versions /\ objects' = objects
        /\ item' = [i \in Items |-> IF i \in q.ids /\ Exists(item, i)
                                    THEN [item[i] EXCEPT !.batch = b] ELSE item[i]]
    BY <1>4 DEF FinishTrash, Finishes
  <2>2. ASSUME NEW k \in Items
        PROVE  item'[k].object = item[k].object /\ item'[k].type = item[k].type
    BY <2>1, <1>t DEF ItemRow
  <2> QED BY <2>1, <2>2, GcIdle
<1>5. ASSUME FinishRestore(r) PROVE GcInv'
  <2> PICK homeless : homeless = (q.rows[q.item].parent \in Items
                                  /\ Trashed(q.rows, q.rows[q.item].parent))
    OBVIOUS
  <2>1. /\ req' = [req EXCEPT ![r] = NoRequest] /\ versions' = versions /\ objects' = objects
        /\ item' = [i \in Items |-> IF i \in q.ids /\ Exists(item, i)
                       THEN [item[i] EXCEPT !.batch = None,
                               !.parent = IF i = q.item /\ homeless THEN Root ELSE @]
                       ELSE item[i]]
    BY <1>5 DEF FinishRestore, Finishes
  <2>2. ASSUME NEW k \in Items
        PROVE  item'[k].object = item[k].object /\ item'[k].type = item[k].type
    BY <2>1, <1>t DEF ItemRow
  <2> QED BY <2>1, <2>2, GcIdle
<1>6. ASSUME PurgeDelete(r) PROVE GcInv'
  <2> PICK objs : objs = {o \in Unreferenced(q.objs, q.ids) \cap objects :
                            \A k \in Requests : req[k].phase = "deleted" => o \notin req[k].objs}
    OBVIOUS
  <2>1. /\ q.op = "purge" /\ q.phase = "read"
        /\ req' = [req EXCEPT ![r].phase = "deleted", ![r].objs = objs]
        /\ UNCHANGED <<item, versions, objects>>
    BY <1>6 DEF PurgeDelete
  <2> PICK p : p = [q EXCEPT !.phase = "deleted", !.objs = objs]
    OBVIOUS
  <2>2. req' = [req EXCEPT ![r] = p]
    BY <2>1, <1>t
  <2>3. p.op = "purge" /\ p.objs = objs /\ p.ids = q.ids
    BY <2>1, <1>t DEF RequestType
  <2>4. Unused(objs, q.ids)
    BY DEF Unused, Unreferenced, References
  <2>5. VersionKept(p)
    BY <2>3 DEF VersionKept
  <2>6. Unused(p.objs, p.ids) /\ p.op # "restore_version"
    BY <2>3, <2>4
  <2>7. \E w : /\ req' = [req EXCEPT ![r] = w] /\ VersionKept(w)
               /\ Unused(w.objs, w.ids) /\ w.op # "restore_version"
    BY <2>2, <2>5, <2>6
  <2>8. /\ versions' = versions /\ objects' = objects
        /\ \A i \in Items : item'[i].object = item[i].object /\ item'[i].type = item[i].type
    BY <2>1
  <2> QED BY <2>7, <2>8, GcUntouched
<1>7. ASSUME PurgeCommit(r) PROVE GcInv'
  <2>1. /\ req' = [req EXCEPT ![r] = NoRequest] /\ q.phase = "deleted"
        /\ item' = [i \in Items |-> IF i \in q.ids THEN Absent ELSE item[i]]
        /\ versions' = [i \in Items |-> IF i \in q.ids THEN {} ELSE versions[i]]
        /\ objects' = objects \ q.objs
    BY <1>7 DEF PurgeCommit
  <2>2. Unused(q.objs, q.ids)
    BY <2>1 DEF GcInv
  <2>3. \A k \in Items : k \in q.ids => item'[k] = Absent /\ versions'[k] = {}
    BY <2>1
  <2>4. \A k \in Items : k \notin q.ids => item'[k] = item[k] /\ versions'[k] = versions[k]
    BY <2>1
  <2>5. ASSUME NEW k \in Items PROVE RefsSafe(k, r)
    <3>1. CASE k \in q.ids
      BY <3>1, <2>3 DEF RefsSafe, References, Absent
    <3>2. CASE k \notin q.ids
      <4>1. References(k)' = References(k)
        BY <3>2, <2>4 DEF References
      <4>2. ASSUME NEW x \in References(k), x # None PROVE x \in objects'
        BY <4>2, <3>2, <2>1, <2>2 DEF Unused, GcInv, NoDanglingReference
      <4> QED BY <4>1, <4>2 DEF RefsSafe
    <3> QED BY <3>1, <3>2
  <2>6. ASSUME NEW k \in Items PROVE StillThere(k)
    <3>1. CASE k \in q.ids
      BY <3>1, <2>3, AbsentRow DEF StillThere, Exists
    <3>2. CASE k \notin q.ids
      BY <3>2, <2>4 DEF StillThere, References, Exists
    <3> QED BY <3>1, <3>2
  <2> QED BY <2>1, <2>5, <2>6, IdleVersion, GcKept DEF VersionKept
<1>8. ASSUME CopyFolder(r) PROVE GcInv'
  <2> DEFINE Q == req[r]
             ds == Descendants(Q.rows, Q.item)
  <2>1. PICK g \in [ds -> {i \in Items : FreshItem(i)}] :
          /\ \A i, k \in ds : i # k => g[i] # g[k]
          /\ item' = [n \in Items |->
               IF \E i \in ds : g[i] = n
               THEN LET i == CHOOSE k \in ds : g[k] = n IN
                    [Absent EXCEPT !.type = Q.rows[i].type,
                       !.parent = IF i = Q.item THEN Q.dest ELSE g[Q.rows[i].parent]]
               ELSE item[n]]
    BY <1>8, Zenon DEF CopyFolder
  <2>2. Finishes(r, "copy") /\ versions' = versions /\ objects' = objects
    BY <1>8 DEF CopyFolder
  <2> HIDE DEF ds
  <2>3. Serial /\ req' = [req EXCEPT ![r] = NoRequest]
    BY <2>2, <1>s DEF Finishes
  <2>4. \A m \in Requests : m = r
    BY <2>3 DEF Serial
  <2>5. ASSUME NEW n \in Items
        PROVE  item'[n].object = None \/ item'[n].object = item[n].object
    <3>1. CASE ~\E i \in ds : g[i] = n
      BY <3>1, <2>1
    <3>2. CASE \E i \in ds : g[i] = n
      <4>1. PICK x, p : item'[n] = [Absent EXCEPT !.type = x, !.parent = p]
        BY <3>2, <2>1
      <4> QED BY <4>1 DEF Absent
    <3> QED BY <3>1, <3>2
  <2>6. ASSUME NEW k \in Items PROVE RefsSafe(k, r)
    BY <2>2, <2>5 DEF RefsSafe, References, GcInv, NoDanglingReference
  <2> QED BY <2>3, <2>4, <2>6, IdleVersion, GcKept DEF VersionKept
<1>9. ASSUME FinishRestoreVersion(r) PROVE GcInv'
  <2>1. /\ Finishes(r, "restore_version") /\ objects' = objects
        /\ req' = [req EXCEPT ![r] = NoRequest]
        /\ IF Exists(item, q.item)
           THEN /\ versions' = [versions EXCEPT ![q.item] = @ \cup {q.rows[q.item].object}]
                /\ item' = [item EXCEPT ![q.item].object = q.dest]
           ELSE item' = item /\ versions' = versions
    BY <1>9 DEF FinishRestoreVersion, Finishes
  <2>2. CASE ~Exists(item, q.item)
    BY <2>1, <2>2, GcIdle
  <2>3. CASE Exists(item, q.item)
    <3> PICK i : i = q.item
      OBVIOUS
    <3> PICK o : o = q.rows[q.item].object
      OBVIOUS
    <3>1. i \in Items /\ q.op = "restore_version"
      BY <2>1, <1>t DEF Finishes, Sane
    <3>2. VersionKept(q)
      BY DEF GcInv
    <3>3. /\ q.dest \in versions[i] /\ o \in References(i)
          /\ item[i].object \in versions[i] \cup {o}
      BY <2>3, <3>1, <3>2 DEF VersionKept
    <3>4. versions' = [versions EXCEPT ![i] = @ \cup {o}] /\ item' = [item EXCEPT ![i].object = q.dest]
      BY <2>1, <2>3
    <3>5. /\ versions'[i] = versions[i] \cup {o} /\ item'[i].object = q.dest
          /\ item'[i].type = item[i].type
      BY <3>1, <3>4, <1>t DEF ItemRow
    <3>6. \A k \in Items : k # i => item'[k] = item[k] /\ versions'[k] = versions[k]
      BY <3>4, <1>t
    <3>7. References(i)' \subseteq References(i)
      BY <3>3, <3>5 DEF References
    <3>8. ASSUME NEW k \in Items PROVE RefsSafe(k, r)
      <4>1. References(k)' \subseteq References(k)
        BY <3>6, <3>7 DEF References
      <4> QED BY <4>1, <2>1 DEF RefsSafe, GcInv, NoDanglingReference
    <3>9. ASSUME NEW k \in Items \ {i} PROVE StillThere(k)
      BY <3>6 DEF StillThere, References, Exists
    <3>10. StillThere(i)
      BY <2>3, <3>3, <3>5 DEF StillThere, References, Exists
    <3> QED BY <2>1, <3>8, <3>9, <3>10, IdleVersion, GcKept DEF VersionKept
  <2> QED BY <2>2, <2>3
<1>10. ASSUME FinishReplace(r) PROVE GcInv'
  <2> PICK t : t = q.item
    OBVIOUS
  <2> PICK p : p = ReplacedParent(q)
    OBVIOUS
  <2>1. /\ Finishes(r, "replace") /\ objects' = objects
        /\ req' = [req EXCEPT ![r] = NoRequest]
        /\ IF Exists(item, t)
           THEN /\ versions' = [versions EXCEPT ![t] = @ \cup {q.rows[t].object}]
                /\ item' = [item EXCEPT ![t].object = q.rows[q.dest].object,
                                        ![t].batch = None, ![t].parent = p,
                                        ![q.dest] = Absent]
           ELSE item' = item /\ versions' = versions
    BY <1>10 DEF FinishReplace, Finishes
  <2>2. Serial /\ q.rows = item /\ t \in Items /\ q.dest \in Items
    BY <2>1, <1>s, <1>t DEF Finishes, Sane
  <2>3. CASE ~Exists(item, t)
    BY <2>1, <2>3, GcIdle
  <2>4. CASE Exists(item, t)
    <3>1. versions' = [versions EXCEPT ![t] = @ \cup {item[t].object}]
      BY <2>1, <2>2, <2>4
    <3>2. ASSUME NEW k \in Items
          PROVE  item'[k].object \in {None, item[k].object, item[q.dest].object}
      <4>1. item' = [item EXCEPT ![t].object = item[q.dest].object, ![t].batch = None,
                                 ![t].parent = p, ![q.dest] = Absent]
        BY <2>1, <2>2, <2>4
      <4>2. CASE k = q.dest
        <5>1. item'[k] = Absent
          BY <4>1, <4>2, <2>2, <1>t
        <5> QED BY <5>1 DEF Absent
      <4>3. CASE k # q.dest /\ k # t
        BY <4>1, <4>3, <2>2, <1>t
      <4>4. CASE k # q.dest /\ k = t
        <5>1. item'[k] = [item[t] EXCEPT !.object = item[q.dest].object, !.batch = None,
                                         !.parent = p]
          BY <4>1, <4>4, <2>2, <1>t DEF ItemRow
        <5> QED BY <5>1, <2>2, <1>t DEF ItemRow
      <4> QED BY <4>2, <4>3, <4>4
    <3>3. \A m \in Requests : m = r
      BY <2>2 DEF Serial
    <3>4. \A k \in Items : versions'[k] \subseteq versions[k] \cup {item[k].object}
      BY <3>1, <1>t
    <3>5. ASSUME NEW k \in Items, NEW x \in References(k)', x # None PROVE x \in objects
      <4>1. x \in References(k) \cup References(q.dest)
        BY <3>2, <3>4, <3>5 DEF References
      <4> QED BY <4>1, <3>5, <2>2 DEF GcInv, NoDanglingReference
    <3>6. ASSUME NEW k \in Items PROVE RefsSafe(k, r)
      BY <3>5, <3>3, <2>1 DEF RefsSafe
    <3> QED BY <2>1, <3>3, <3>6, IdleVersion, GcKept DEF VersionKept
  <2> QED BY <2>3, <2>4
<1> QED
  BY <1>1, <1>2, <1>3, <1>4, <1>5, <1>6, <1>7, <1>8, <1>9, <1>10 DEF Finish

LEMMA GcUpload ==
    ASSUME TypeInv, GcInv, NEW r \in Requests, NEW i \in Items, NEW o \in Objects,
           NEW t \in Items \cup {None}, NEW p \in Items \cup {Root}, Upload(r, i, o, t, p)
    PROVE  GcInv'
<1> PICK q : q = [op |-> IF t = None THEN "upload" ELSE "replace", phase |-> "uploaded",
                  item |-> t, dest |-> i, folder |-> p, ids |-> {}, objs |-> {}, rows |-> <<>>]
  OBVIOUS
<1>t. item \in [Items -> ItemRow]
  BY DEF TypeInv, Rows
<1>1. /\ FreshItem(i) /\ FreshObject(o) /\ versions' = versions
      /\ objects' = objects \cup {o} /\ req' = [req EXCEPT ![r] = q]
      /\ item' = [item EXCEPT ![i] = [type |-> "file", parent |-> Root,
                                      object |-> o, batch |-> None]]
  BY DEF Upload
<1>2. item'[i].object = o
  BY <1>1, <1>t
<1>3. \A k \in Items : k # i => item'[k] = item[k]
  BY <1>1, <1>t
<1>4. ASSUME NEW k \in Items PROVE RefsSafe(k, r)
  <2>1. CASE k = i
    <3>1. References(k)' = versions[k] \cup {o}
      BY <2>1, <1>1, <1>2 DEF References
    <3>2. versions[k] \subseteq References(k)
      BY DEF References
    <3>3. \A m \in Requests : o \notin req[m].objs
      BY <1>1 DEF FreshObject
    <3> QED BY <3>1, <3>2, <3>3, <1>1 DEF RefsSafe, GcInv, NoDanglingReference
  <2>2. CASE k # i
    BY <2>2, <1>1, <1>3 DEF RefsSafe, References, GcInv, NoDanglingReference
  <2> QED BY <2>1, <2>2
<1>5. ASSUME NEW k \in Items, NEW m \in Requests \ {r}, req[m].item = k
      PROVE  StillThere(k)
  <2>1. k # i
    BY <1>1, <1>5 DEF FreshItem
  <2> QED BY <2>1, <1>1, <1>3 DEF StillThere, References, Exists
<1>6. VersionKept(q)'
  BY DEF VersionKept
<1>7. q.phase = "uploaded"
  OBVIOUS
<1> QED BY <1>1, <1>4, <1>5, <1>6, <1>7, GcKept

LEMMA GcInit == Init => GcInv
<1> SUFFICES ASSUME Init PROVE GcInv
  OBVIOUS
<1>1. NoDanglingReference
  BY DEF Init, NoDanglingReference, References, Absent
<1>2. \A r \in Requests : req[r].phase # "deleted" /\ VersionKept(req[r])
  BY IdleVersion DEF Init
<1> QED BY <1>1, <1>2 DEF GcInv

LEMMA GcStep ==
    TypeInv /\ GcInv /\ NothingShared /\ (Serial => Current) /\ [Next]_vars => GcInv'
<1> SUFFICES ASSUME TypeInv, GcInv, NothingShared, Serial => Current, [Next]_vars
             PROVE  GcInv'
  OBVIOUS
<1>1. CASE UNCHANGED vars
  BY <1>1 DEF vars, GcInv, NoDanglingReference, Unused, VersionKept, References, Exists
<1>2. ASSUME NEW r \in Requests, Read(r) PROVE GcInv'
  BY <1>2, GcRead
<1>3. ASSUME NEW r \in Requests, Finish(r) PROVE GcInv'
  BY <1>3, GcFinish
<1>4. ASSUME NEW r \in Requests, NEW i \in Items, NEW o \in Objects,
             NEW t \in Items \cup {None}, NEW p \in Items \cup {Root}, Upload(r, i, o, t, p)
      PROVE  GcInv'
  BY <1>4, GcUpload
<1> QED BY <1>1, <1>2, <1>3, <1>4 DEF Next

-----------------------------------------------------------------------------
(* One request at a time: what it has read is current until it is done. *)

LEMMA SerialRequest ==
    ASSUME Serial, TypeInv, NEW r \in Requests, NEW q, req' = [req EXCEPT ![r] = q]
    PROVE  \A k \in Requests : k = r /\ req'[k] = q
<1>1. req' = [k \in Requests |-> IF k = r THEN q ELSE req[k]]
  BY DEF TypeInv
<1> QED BY <1>1 DEF Serial

LEMMA OpenCurrent ==
    ASSUME Serial, TypeInv, NEW r \in Requests, NEW op, NEW i, NEW d, NEW ids, NEW objs,
           Open(r, op, i, d, ids, objs), item' = item
    PROVE  Current'
<1> PICK q : q = [op |-> op, phase |-> "read", item |-> i, dest |-> d,
                  folder |-> req[r].folder, ids |-> ids, objs |-> objs, rows |-> item]
  OBVIOUS
<1>1. req' = [req EXCEPT ![r] = q]
  BY DEF Open
<1>2. \A k \in Requests : req'[k] = q
  BY <1>1, SerialRequest
<1> QED BY <1>2 DEF Current

LEMMA NotReadCurrent ==
    ASSUME Serial, TypeInv, NEW r \in Requests, NEW q, req' = [req EXCEPT ![r] = q],
           q.phase # "read"
    PROVE  Current'
BY SerialRequest DEF Current

LEMMA CurrentStep == Serial /\ TypeInv /\ Current /\ [Next]_vars => Current'
<1> SUFFICES ASSUME Serial, TypeInv, Current, [Next]_vars PROVE Current'
  OBVIOUS
<1>i. NoRequest.phase # "read"
  BY DEF NoRequest
<1>1. CASE UNCHANGED vars
  BY <1>1 DEF vars, Current
<1>2. ASSUME NEW r \in Requests, Read(r) PROVE Current'
  <2>1. ASSUME NEW i \in Items, NEW d \in Items \cup {Root}, ReadMove(r, i, d) PROVE Current'
    BY <2>1, OpenCurrent DEF ReadMove, Reads
  <2>11. ASSUME NEW i \in Items, NEW d \in Items \cup {Root}, ReadPatch(r, i, d) PROVE Current'
    BY <2>11, OpenCurrent DEF ReadPatch, Reads
  <2>2. ASSUME NEW i \in Items, NEW d \in Items \cup {Root}, ReadCopy(r, i, d) PROVE Current'
    <3> PICK p : p = IF d = Root THEN item[i].parent ELSE d
      OBVIOUS
    <3>1. Open(r, "copy", i, p, {}, {}) /\ item' = item
      BY <2>2 DEF ReadCopy, Reads
    <3> QED BY <3>1, OpenCurrent
  <2>3. ASSUME NEW d \in Items \cup {Root}, ReadCreateFolder(r, d) PROVE Current'
    BY <2>3, OpenCurrent DEF ReadCreateFolder, Reads
  <2>4. ASSUME NEW i \in Items, ReadTrash(r, i) PROVE Current'
    <3> PICK ids : ids = Descendants(item, i)
      OBVIOUS
    <3>1. Open(r, "trash", i, None, ids, {}) /\ item' = item
      BY <2>4 DEF ReadTrash, Reads
    <3> QED BY <3>1, OpenCurrent
  <2>5. ASSUME NEW i \in Items, ReadRestore(r, i) PROVE Current'
    <3> PICK ids : ids = {k \in Items : item[k].batch = item[i].batch}
      OBVIOUS
    <3>1. Open(r, "restore", i, None, ids, {}) /\ item' = item
      BY <2>5 DEF ReadRestore, Reads
    <3> QED BY <3>1, OpenCurrent
  <2>6. ASSUME NEW i \in Items, ReadPurge(r, i) PROVE Current'
    <3> PICK ids : ids = Descendants(item, i)
      OBVIOUS
    <3> PICK objs : objs = ObjectsOf(item, versions, ids)
      OBVIOUS
    <3>1. Open(r, "purge", i, None, ids, objs) /\ item' = item
      BY <2>6 DEF ReadPurge, Reads
    <3> QED BY <3>1, OpenCurrent
  <2>7. ASSUME NEW B \in SUBSET Batches, ReadExpire(r, B) PROVE Current'
    <3> PICK ids : ids = UNION {Descendants(item, i) : i \in TopLevelExpired(B)}
      OBVIOUS
    <3> PICK objs : objs = ObjectsOf(item, versions, ids)
      OBVIOUS
    <3>1. Open(r, "purge", None, None, ids, objs) /\ item' = item
      BY <2>7 DEF ReadExpire, Reads
    <3> QED BY <3>1, OpenCurrent
  <2>8. ASSUME NEW i \in Items, NEW v \in versions[i], ReadRestoreVersion(r, i, v)
        PROVE  Current'
    BY <2>8, OpenCurrent DEF ReadRestoreVersion, Reads
  <2>9. ASSUME ReadReplace(r) PROVE Current'
    <3>1. CASE req' = [req EXCEPT ![r] = NoRequest]
      BY <3>1, <1>i, NotReadCurrent
    <3>2. CASE Open(r, "replace", req[r].item, req[r].dest, {}, {})
      <4> PICK i, d : i = req[r].item /\ d = req[r].dest
        OBVIOUS
      <4>1. Open(r, "replace", i, d, {}, {}) /\ item' = item
        BY <3>2, <2>9 DEF ReadReplace
      <4> QED BY <4>1, OpenCurrent
    <3> QED BY <2>9, <3>1, <3>2 DEF ReadReplace
  <2>10. ASSUME FinalizeUpload(r) PROVE Current'
    BY <2>10, <1>i, NotReadCurrent DEF FinalizeUpload
  <2> QED
    BY <1>2, <2>1, <2>2, <2>3, <2>4, <2>5, <2>6, <2>7, <2>8, <2>9, <2>10, <2>11
    DEF Read
<1>3. ASSUME NEW r \in Requests, Finish(r) PROVE Current'
  <2>1. ASSUME NEW op, Finishes(r, op) PROVE Current'
    BY <2>1, <1>i, NotReadCurrent DEF Finishes
  <2>2. ASSUME PurgeCommit(r) PROVE Current'
    BY <2>2, <1>i, NotReadCurrent DEF PurgeCommit
  <2>3. ASSUME PurgeDelete(r) PROVE Current'
    <3> PICK objs : objs = {o \in Unreferenced(req[r].objs, req[r].ids) \cap objects :
              \A k \in Requests : req[k].phase = "deleted" => o \notin req[k].objs}
      OBVIOUS
    <3>1. req' = [req EXCEPT ![r].phase = "deleted", ![r].objs = objs]
      BY <2>3 DEF PurgeDelete
    <3> PICK p : p = [req[r] EXCEPT !.phase = "deleted", !.objs = objs]
      OBVIOUS
    <3>2. req' = [req EXCEPT ![r] = p]
      BY <3>1 DEF TypeInv
    <3>3. p.phase = "deleted"
      BY RequestFacts DEF RequestType
    <3> QED BY <3>2, <3>3, NotReadCurrent
  <2> QED
    BY <1>3, <2>1, <2>2, <2>3
    DEF Finish, FinishCreateFolder, CopyFile, FinishMove, FinishTrash, FinishRestore,
        CopyFolder, FinishRestoreVersion, FinishReplace
<1>4. ASSUME NEW r \in Requests, NEW i \in Items, NEW o \in Objects,
             NEW t \in Items \cup {None}, NEW p \in Items \cup {Root}, Upload(r, i, o, t, p)
      PROVE  Current'
  <2> PICK q : q = [op |-> IF t = None THEN "upload" ELSE "replace", phase |-> "uploaded",
                    item |-> t, dest |-> i, folder |-> p, ids |-> {}, objs |-> {},
                    rows |-> <<>>]
    OBVIOUS
  <2>1. req' = [req EXCEPT ![r] = q] /\ q.phase = "uploaded"
    BY <1>4 DEF Upload
  <2> QED BY <2>1, NotReadCurrent
<1> QED BY <1>1, <1>2, <1>3, <1>4 DEF Next

LEMMA CurrentInit == Init => Current
BY DEF Init, Current, NoRequest

(* Garbage collection never takes the bytes away from a file or a version:  *)
(* with any number of requests at a time as long as nothing is copied or    *)
(* replaced, and with everything when requests are served one by one.       *)
THEOREM NothingDangles ==
    ASSUME NothingShared PROVE Spec => []NoDanglingReference
<1>1. Spec => []TypeInv
  BY InitType, TypeStep, PTL DEF Spec
<1>2. Spec => [](Serial => Current)
  <2>1. Init => (Serial => Current)
    BY CurrentInit
  <2>2. TypeInv /\ (Serial => Current) /\ [Next]_vars => (Serial => Current)'
    BY CurrentStep DEF Serial
  <2> QED BY <1>1, <2>1, <2>2, PTL DEF Spec
<1>3. TypeInv /\ (Serial => Current) /\ GcInv /\ [Next]_vars => GcInv'
  BY GcStep
<1>4. GcInv => NoDanglingReference
  BY DEF GcInv
<1> QED BY <1>1, <1>2, <1>3, <1>4, GcInit, PTL DEF Spec

-----------------------------------------------------------------------------
(* Trees.  An item is below the root or in a folder, never in a file, and   *)
(* what is in a folder of the trash went to the trash with it.  There is no *)
(* circle unless patch_item, which does not look for one, is used.          *)
Checked == "patch" \notin Ops

Folder(rows, d) == d = Root \/ (d \in Items /\ Active(rows, d) /\ rows[d].type = "folder")

Links(rows) ==
    \A c \in Items : Exists(rows, c) =>
        \/ rows[c].parent = Root
        \/ /\ rows[c].parent \in Items
           /\ rows[rows[c].parent].type = "folder"
           /\ rows[rows[c].parent].batch # None => rows[c].batch = rows[rows[c].parent].batch

(* Every item is found from the root, through folders in the trash or not.  *)
Rooted(rows, S) ==
    \A c \in Items : Exists(rows, c) /\ rows[c].parent \in S \cup {Root} => c \in S
AllReachable(rows) ==
    \A S \in SUBSET Items : Rooted(rows, S) => \A i \in Items : Exists(rows, i) => i \in S

Tree(rows) == Links(rows) /\ (Checked => AllReachable(rows))

LEMMA TreeLink ==
    ASSUME NEW rows, Links(rows), NEW c \in Items, Exists(rows, c)
    PROVE  \/ rows[c].parent = Root
           \/ /\ rows[c].parent \in Items
              /\ rows[rows[c].parent].type = "folder"
              /\ rows[rows[c].parent].batch # None
                   => rows[c].batch = rows[rows[c].parent].batch
BY DEF Links

LEMMA AllInClosed ==
    ASSUME NEW rows, AllReachable(rows), NEW S \in SUBSET Items, Rooted(rows, S),
           NEW i \in Items, Exists(rows, i)
    PROVE  i \in S
BY DEF AllReachable

(* Nothing is below a file. *)
LEMMA FileIsLeaf ==
    ASSUME NEW rows, Links(rows), NEW i \in Items, rows[i].type = "file"
    PROVE  Closed(rows, {i}) /\ Descendants(rows, i) = {i}
<1>1. ASSUME NEW c \in Items, Exists(rows, c), rows[c].parent = i PROVE FALSE
  BY <1>1, TreeLink, RootAssumption
<1>2. Closed(rows, {i})
  BY <1>1 DEF Closed
<1>3. Descendants(rows, i) \subseteq {i}
  BY <1>2, DescendantsLeast
<1>4. i \in Descendants(rows, i)
  BY DescendantsClosed
<1> QED BY <1>2, <1>3, <1>4

(* What is below an item of the trash is in the trash, with the same batch. *)
LEMMA TrashedBelow ==
    ASSUME NEW rows, Links(rows), NEW i \in Items, Trashed(rows, i),
           NEW k \in Descendants(rows, i)
    PROVE  Trashed(rows, k) /\ rows[k].batch = rows[i].batch
<1> PICK S : S = {c \in Items : Trashed(rows, c) /\ rows[c].batch = rows[i].batch}
  OBVIOUS
<1>1. S \in SUBSET Items /\ i \in S
  OBVIOUS
<1>2. ASSUME NEW c \in Items, Exists(rows, c), rows[c].parent \in S PROVE c \in S
  <2>1. rows[c].parent \in Items /\ rows[rows[c].parent].batch = rows[i].batch
    BY <1>2
  <2>2. rows[i].batch # None
    BY DEF Trashed
  <2>3. rows[c].batch = rows[i].batch
    BY <1>2, <2>1, <2>2, TreeLink, RootAssumption
  <2> QED BY <1>2, <2>2, <2>3 DEF Trashed
<1>3. Closed(rows, S)
  BY <1>2 DEF Closed
<1>4. Descendants(rows, i) \subseteq S
  BY <1>1, <1>3, DescendantsLeast
<1> QED BY <1>4

(* The active part of a tree is a tree: no active item is below the trash.  *)
LEMMA ActiveTree ==
    ASSUME Checked, NEW rows, Tree(rows), NEW S \in SUBSET Items,
           \A c \in Items : Active(rows, c) /\ rows[c].parent \in S \cup {Root} => c \in S,
           NEW i \in Items, Active(rows, i)
    PROVE  i \in S
<1> PICK T : T = S \cup {c \in Items : Trashed(rows, c)}
  OBVIOUS
<1>1. T \in SUBSET Items
  OBVIOUS
<1>2. ASSUME NEW c \in Items, Exists(rows, c), rows[c].parent \in T \cup {Root} PROVE c \in T
  <2>1. CASE Trashed(rows, c)
    BY <2>1
  <2>2. CASE ~Trashed(rows, c)
    <3>1. Active(rows, c) /\ rows[c].batch = None
      BY <2>2, <1>2 DEF Trashed, Active
    <3>2. ASSUME rows[c].parent \in Items, Trashed(rows, rows[c].parent) PROVE FALSE
      BY <3>1, <3>2, <1>2, TreeLink, RootAssumption DEF Trashed, Tree
    <3>3. rows[c].parent \in S \cup {Root}
      BY <1>2, <3>2
    <3> QED BY <3>1, <3>3
  <2> QED BY <2>1, <2>2
<1>3. Rooted(rows, T)
  BY <1>2 DEF Rooted
<1>4. i \in T
  BY <1>1, <1>3, AllInClosed DEF Tree, Active
<1> QED BY <1>4 DEF Trashed, Active

(* A new row in an active folder. *)
LEMMA LeafAdded ==
    ASSUME NEW rows \in [Items -> ItemRow], Tree(rows), NEW i \in Items, ~Exists(rows, i),
           NEW row \in ItemRow, Folder(rows, row.parent),
           NEW new, new = [rows EXCEPT ![i] = row]
    PROVE  Tree(new)
<1>1. new[i] = row /\ \A c \in Items : c # i => new[c] = rows[c]
  OBVIOUS
<1>2. ASSUME NEW c \in Items, Exists(rows, c) PROVE c # i /\ rows[c].parent # i
  <2>1. rows[c].parent # i
    BY <1>2, TreeLink, RootAssumption DEF Tree, Exists
  <2> QED BY <2>1, <1>2
<1>3. Links(new)
  <2>1. SUFFICES ASSUME NEW c \in Items, Exists(new, c)
                 PROVE  \/ new[c].parent = Root
                        \/ /\ new[c].parent \in Items
                           /\ new[new[c].parent].type = "folder"
                           /\ new[new[c].parent].batch # None
                                => new[c].batch = new[new[c].parent].batch
    BY DEF Links
  <2>2. CASE c = i
    <3>1. row.parent # i
      BY RootAssumption DEF Folder, Active
    <3> QED BY <3>1, <2>2, <1>1 DEF Folder, Active
  <2>3. CASE c # i
    <3>1. Exists(rows, c) /\ new[c] = rows[c]
      BY <2>1, <2>3, <1>1 DEF Exists
    <3>2. rows[c].parent # i
      BY <3>1, <1>2
    <3>3. rows[c].parent \in Items => new[rows[c].parent] = rows[rows[c].parent]
      BY <3>2, <1>1
    <3> QED BY <3>1, <3>3, TreeLink DEF Tree
  <2> QED BY <2>2, <2>3
<1>4. ASSUME Checked, NEW S \in SUBSET Items, Rooted(new, S), NEW k \in Items, Exists(new, k)
      PROVE  k \in S
  <2>1. Rooted(rows, S)
    BY <1>1, <1>2, <1>4 DEF Rooted, Exists
  <2>2. \A c \in Items : Exists(rows, c) => c \in S
    BY <2>1, <1>4, AllInClosed DEF Tree
  <2>3. CASE k # i
    BY <2>2, <2>3, <1>1, <1>4 DEF Exists
  <2>4. CASE k = i
    <3>1. row.parent \in S \cup {Root}
      BY <2>2 DEF Folder, Active
    <3> QED BY <3>1, <2>4, <1>1, <1>4 DEF Rooted
  <2> QED BY <2>3, <2>4
<1> QED BY <1>3, <1>4 DEF Tree, AllReachable

(* A row that goes to another folder, not into itself or below it. *)
LEMMA Reparented ==
    ASSUME NEW rows \in [Items -> ItemRow], Tree(rows), NEW i \in Items, Exists(rows, i),
           NEW row \in ItemRow, Folder(rows, row.parent),
           row.type = rows[i].type, row.batch = rows[i].batch,
           Checked => row.parent \notin Descendants(rows, i),
           NEW new, new = [rows EXCEPT ![i] = row]
    PROVE  Tree(new)
<1>1. new[i] = row /\ \A c \in Items : c # i => new[c] = rows[c]
  OBVIOUS
<1> PICK D : D = Descendants(rows, i)
  OBVIOUS
<1>2. i \in D /\ D \subseteq Items /\ Closed(rows, D)
  BY DescendantsClosed
<1>3. \A c \in Items : /\ new[c].type = rows[c].type /\ new[c].batch = rows[c].batch
                       /\ Exists(new, c) <=> Exists(rows, c)
  BY <1>1 DEF Exists
<1>4. Links(new)
  <2>1. SUFFICES ASSUME NEW c \in Items, Exists(new, c)
                 PROVE  \/ new[c].parent = Root
                        \/ /\ new[c].parent \in Items
                           /\ new[new[c].parent].type = "folder"
                           /\ new[new[c].parent].batch # None
                                => new[c].batch = new[new[c].parent].batch
    BY DEF Links
  <2>2. CASE c = i
    BY <2>2, <1>1, <1>3 DEF Folder, Active
  <2>3. CASE c # i
    <3>1. Exists(rows, c) /\ new[c].parent = rows[c].parent
      BY <2>1, <2>3, <1>1, <1>3
    <3> QED BY <3>1, <1>3, TreeLink DEF Tree
  <2> QED BY <2>2, <2>3
<1>5. ASSUME Checked, NEW S \in SUBSET Items, Rooted(new, S), NEW k \in Items, Exists(new, k)
      PROVE  k \in S
  <2>1. ASSUME NEW c \in Items, Exists(rows, c), rows[c].parent \in S \cup D \cup {Root}
        PROVE  c \in S \cup D
    <3>1. CASE c \in D
      BY <3>1
    <3>2. CASE c \notin D
      <4>1. rows[c].parent \notin D /\ c # i
        BY <3>2, <2>1, <1>2 DEF Closed
      <4>2. new[c] = rows[c] /\ new[c].parent \in S \cup {Root}
        BY <4>1, <2>1, <1>1
      <4> QED BY <4>2, <2>1, <1>5 DEF Rooted, Exists
    <3> QED BY <3>1, <3>2
  <2>2. Rooted(rows, S \cup D) /\ S \cup D \in SUBSET Items
    BY <2>1, <1>2 DEF Rooted
  <2>3. \A c \in Items : Exists(rows, c) => c \in S \cup D
    BY <2>2, <1>5, AllInClosed DEF Tree
  <2>4. row.parent \in S \cup {Root}
    BY <2>3, <1>5 DEF Folder, Active
  <2>5. i \in S
    BY <2>4, <1>1, <1>3, <1>5 DEF Rooted
  <2>6. Closed(rows, S)
    BY <2>5, <1>1, <1>3, <1>5 DEF Rooted, Closed
  <2>7. D \subseteq S
    BY <2>5, <2>6, DescendantsLeast
  <2> QED BY <2>3, <2>7, <1>3, <1>5
<1> QED BY <1>4, <1>5 DEF Tree, AllReachable

(* Rows that go together with everything below them. *)
LEMMA Removed ==
    ASSUME NEW rows \in [Items -> ItemRow], Tree(rows), NEW ids \in SUBSET Items,
           Closed(rows, ids), NEW new,
           \A c \in Items : new[c] = IF c \in ids THEN Absent ELSE rows[c]
    PROVE  Tree(new)
<1>1. ASSUME NEW c \in Items, Exists(new, c)
      PROVE  c \notin ids /\ Exists(rows, c) /\ new[c] = rows[c] /\ rows[c].parent \notin ids
  <2>1. c \notin ids
    BY <1>1, AbsentRow DEF Exists
  <2>2. new[c] = rows[c] /\ Exists(rows, c)
    BY <2>1, <1>1 DEF Exists
  <2> QED BY <2>1, <2>2 DEF Closed
<1>2. Links(new)
  <2>1. SUFFICES ASSUME NEW c \in Items, Exists(new, c)
                 PROVE  \/ new[c].parent = Root
                        \/ /\ new[c].parent \in Items
                           /\ new[new[c].parent].type = "folder"
                           /\ new[new[c].parent].batch # None
                                => new[c].batch = new[new[c].parent].batch
    BY DEF Links
  <2>2. Exists(rows, c) /\ new[c] = rows[c] /\ rows[c].parent \notin ids
    BY <2>1, <1>1
  <2>3. rows[c].parent \in Items => new[rows[c].parent] = rows[rows[c].parent]
    BY <2>2
  <2> QED BY <2>2, <2>3, TreeLink DEF Tree
<1>3. ASSUME Checked, NEW S \in SUBSET Items, Rooted(new, S), NEW k \in Items, Exists(new, k)
      PROVE  k \in S
  <2>1. ASSUME NEW c \in Items, Exists(rows, c), rows[c].parent \in S \cup ids \cup {Root}
        PROVE  c \in S \cup ids
    <3>1. CASE c \in ids
      BY <3>1
    <3>2. CASE c \notin ids
      <4>1. new[c] = rows[c] /\ rows[c].parent \notin ids
        BY <3>2, <2>1 DEF Closed
      <4> QED BY <4>1, <2>1, <1>3 DEF Rooted, Exists
    <3> QED BY <3>1, <3>2
  <2>2. Rooted(rows, S \cup ids) /\ S \cup ids \in SUBSET Items
    BY <2>1 DEF Rooted
  <2>3. k \in S \cup ids
    BY <2>2, <1>1, <1>3, AllInClosed DEF Tree
  <2> QED BY <2>3, <1>1, <1>3
<1> QED BY <1>2, <1>3 DEF Tree, AllReachable

(* An item and everything below it go to the trash. *)
IsRebatched(rows, new, ids, b) ==
    \A c \in Items : /\ new[c].type = rows[c].type /\ new[c].parent = rows[c].parent
                     /\ new[c].batch = IF c \in ids /\ Exists(rows, c) THEN b
                                       ELSE rows[c].batch

LEMMA Rebatched ==
    ASSUME NEW rows \in [Items -> ItemRow], Tree(rows), NEW ids \in SUBSET Items,
           Closed(rows, ids), \A c \in ids : Active(rows, c) \/ rows[c].parent \in ids,
           NEW b, NEW new, IsRebatched(rows, new, ids, b)
    PROVE  Tree(new)
<1> USE DEF IsRebatched
<1>1. \A c \in Items : Exists(new, c) <=> Exists(rows, c)
  BY DEF Exists
<1>2. Links(new)
  <2>1. SUFFICES ASSUME NEW c \in Items, Exists(new, c)
                 PROVE  \/ new[c].parent = Root
                        \/ /\ new[c].parent \in Items
                           /\ new[new[c].parent].type = "folder"
                           /\ new[new[c].parent].batch # None
                                => new[c].batch = new[new[c].parent].batch
    BY DEF Links
  <2> PICK p : p = rows[c].parent
    OBVIOUS
  <2>2. Exists(rows, c) /\ new[c].parent = p
    BY <2>1, <1>1
  <2>3. CASE p = Root
    BY <2>2, <2>3
  <2>4. CASE p # Root
    <3>1. /\ p \in Items /\ rows[p].type = "folder"
          /\ rows[p].batch # None => rows[c].batch = rows[p].batch
      BY <2>2, <2>4, TreeLink DEF Tree
    <3>2. new[p].type = "folder" /\ Exists(rows, p)
      BY <3>1 DEF Exists
    <3>3. CASE p \in ids
      <4>1. c \in ids
        BY <3>3, <2>2 DEF Closed
      <4>2. new[p].batch = b /\ new[c].batch = b
        BY <4>1, <3>1, <3>2, <3>3, <2>2
      <4> QED BY <4>2, <3>1, <3>2, <2>2
    <3>4. CASE p \notin ids
      <4>1. new[p].batch = rows[p].batch
        BY <3>1, <3>4
      <4>2. CASE rows[p].batch = None
        BY <4>1, <4>2, <3>1, <3>2, <2>2
      <4>3. CASE rows[p].batch # None /\ c \notin ids
        BY <4>1, <4>3, <3>1, <3>2, <2>2
      <4>4. CASE rows[p].batch # None /\ c \in ids
        <5>1. Active(rows, c)
          BY <4>4, <3>4
        <5> QED BY <5>1, <4>4, <3>1 DEF Active
      <4> QED BY <4>2, <4>3, <4>4
    <3> QED BY <3>3, <3>4
  <2> QED BY <2>3, <2>4
<1>3. ASSUME NEW S \in SUBSET Items, Rooted(new, S) PROVE Rooted(rows, S)
  BY <1>1, <1>3 DEF Rooted
<1> QED BY <1>1, <1>2, <1>3 DEF Tree, AllReachable

(* A batch comes back from the trash; some of it may go to the root. *)
IsRestored(rows, new, b) ==
    \A c \in Items : /\ new[c].type = rows[c].type
                     /\ new[c].parent = rows[c].parent \/ new[c].parent = Root
                     /\ new[c].batch = IF rows[c].batch = b THEN None ELSE rows[c].batch

LEMMA Restored ==
    ASSUME NEW rows \in [Items -> ItemRow], Tree(rows), NEW b, b # None, NEW new,
           IsRestored(rows, new, b)
    PROVE  Tree(new)
<1> USE DEF IsRestored
<1>1. \A c \in Items : Exists(new, c) <=> Exists(rows, c)
  BY DEF Exists
<1>2. Links(new)
  <2>1. SUFFICES ASSUME NEW c \in Items, Exists(new, c), new[c].parent # Root
                 PROVE  /\ new[c].parent \in Items
                        /\ new[new[c].parent].type = "folder"
                        /\ new[new[c].parent].batch # None
                             => new[c].batch = new[new[c].parent].batch
    BY DEF Links
  <2> PICK p : p = rows[c].parent
    OBVIOUS
  <2>2. Exists(rows, c) /\ new[c].parent = p /\ p # Root
    BY <2>1, <1>1
  <2>3. /\ p \in Items /\ rows[p].type = "folder"
        /\ rows[p].batch # None => rows[c].batch = rows[p].batch
    BY <2>2, TreeLink DEF Tree
  <2>4. new[p].type = "folder"
    BY <2>3
  <2>5. ASSUME new[p].batch # None PROVE new[c].batch = new[p].batch
    <3>1. new[p].batch = rows[p].batch /\ rows[p].batch # b
      BY <2>3, <2>5
    <3>2. rows[c].batch = rows[p].batch
      BY <3>1, <2>3, <2>5
    <3> QED BY <3>1, <3>2
  <2> QED BY <2>2, <2>3, <2>4, <2>5
<1>3. ASSUME NEW S \in SUBSET Items, Rooted(new, S) PROVE Rooted(rows, S)
  BY <1>1, <1>3 DEF Rooted
<1> QED BY <1>1, <1>2, <1>3 DEF Tree, AllReachable

(* A folder is copied with everything below it, to rows that were free:     *)
(* g[k] is the copy of k.                                                   *)
LEMMA FolderCopied ==
    ASSUME NEW rows \in [Items -> ItemRow], Tree(rows), NEW i \in Items, Exists(rows, i),
           NEW d, Folder(rows, d), NEW ds, ds = Descendants(rows, i),
           NEW g \in [ds -> Items], \A k \in ds : ~Exists(rows, g[k]),
           NEW new,
           \A k \in ds : /\ new[g[k]].type = rows[k].type /\ new[g[k]].batch = None
                         /\ new[g[k]].parent = IF k = i THEN d ELSE g[rows[k].parent],
           \A n \in Items : (\A k \in ds : g[k] # n) => new[n] = rows[n]
    PROVE  Tree(new)
<1>1. i \in ds /\ ds \subseteq Items /\ Closed(rows, ds)
  BY DescendantsClosed
<1>2. ASSUME NEW k \in ds, k # i
      PROVE  Exists(rows, k) /\ rows[k].parent \in ds
  BY <1>2, DescendantHasParent
<1>3. ASSUME NEW n \in Items, Exists(rows, n) PROVE new[n] = rows[n]
  BY <1>3
<1>4. Links(new)
  <2>1. SUFFICES ASSUME NEW c \in Items, Exists(new, c), new[c].parent # Root
                 PROVE  /\ new[c].parent \in Items
                        /\ new[new[c].parent].type = "folder"
                        /\ new[new[c].parent].batch # None
                             => new[c].batch = new[new[c].parent].batch
    BY DEF Links
  <2>2. ASSUME NEW k \in ds, c = g[k], k = i
        PROVE  /\ new[c].parent \in Items /\ new[new[c].parent].type = "folder"
               /\ new[new[c].parent].batch = None
    <3>1. new[c].parent = d /\ d # Root
      BY <2>1, <2>2
    <3>2. d \in Items /\ Active(rows, d) /\ rows[d].type = "folder"
      BY <3>1 DEF Folder
    <3>3. new[d] = rows[d]
      BY <3>2, <1>3 DEF Active
    <3> QED BY <3>1, <3>2, <3>3 DEF Active
  <2>3. ASSUME NEW k \in ds, c = g[k], k # i
        PROVE  /\ new[c].parent \in Items /\ new[new[c].parent].type = "folder"
               /\ new[new[c].parent].batch = None
    <3> PICK p : p = rows[k].parent
      OBVIOUS
    <3>1. Exists(rows, k) /\ p \in ds /\ p \in Items
      BY <2>3, <1>1, <1>2
    <3>2. rows[p].type = "folder"
      BY <3>1, <1>1, TreeLink, RootAssumption DEF Tree
    <3>3. new[c].parent = g[p] /\ new[g[p]].type = rows[p].type /\ new[g[p]].batch = None
      BY <2>3, <3>1
    <3> QED BY <3>1, <3>2, <3>3
  <2>4. ASSUME \A k \in ds : g[k] # c
        PROVE  /\ new[c].parent \in Items
               /\ new[new[c].parent].type = "folder"
               /\ new[new[c].parent].batch # None
                    => new[c].batch = new[new[c].parent].batch
    <3> PICK p : p = rows[c].parent
      OBVIOUS
    <3>1. new[c] = rows[c] /\ Exists(rows, c)
      BY <2>1, <2>4 DEF Exists
    <3>2. /\ p \in Items /\ rows[p].type = "folder"
          /\ rows[p].batch # None => rows[c].batch = rows[p].batch
      BY <2>1, <3>1, TreeLink DEF Tree
    <3>3. new[p] = rows[p]
      BY <3>2, <1>3 DEF Exists
    <3> QED BY <3>1, <3>2, <3>3
  <2> QED BY <2>2, <2>3, <2>4
<1>5. ASSUME Checked, NEW S \in SUBSET Items, Rooted(new, S), NEW n \in Items, Exists(new, n)
      PROVE  n \in S
  <2>1. ASSUME NEW c \in Items, Exists(rows, c), rows[c].parent \in S \cup {Root}
        PROVE  c \in S
    BY <2>1, <1>3, <1>5 DEF Rooted, Exists
  <2>2. Rooted(rows, S)
    BY <2>1 DEF Rooted
  <2>3. \A c \in Items : Exists(rows, c) => c \in S
    BY <2>2, <1>5, AllInClosed DEF Tree
  <2> PICK T : T = {k \in ds : g[k] \in S}
    OBVIOUS
  <2>4. \A k \in ds : Exists(rows, k)
    BY <1>2
  <2>5. \A k \in ds : g[k] \in Items /\ Exists(new, g[k])
    BY <2>4 DEF Exists
  <2>6. i \in T
    <3>1. d \in S \cup {Root}
      BY <2>3 DEF Folder, Active
    <3>2. new[g[i]].parent = d
      BY <1>1
    <3> QED BY <3>1, <3>2, <2>5, <1>1, <1>5 DEF Rooted
  <2>7. ASSUME NEW c \in Items, Exists(rows, c), rows[c].parent \in T PROVE c \in T
    <3>1. c \in ds
      BY <2>7, <1>1 DEF Closed
    <3>2. CASE c = i
      BY <3>2, <2>6
    <3>3. CASE c # i
      <4>1. new[g[c]].parent = g[rows[c].parent]
        BY <3>1, <3>3
      <4>2. g[rows[c].parent] \in S
        BY <2>7
      <4>3. g[c] \in S
        BY <4>1, <4>2, <3>1, <2>5, <1>5 DEF Rooted
      <4> QED BY <4>3, <3>1
    <3> QED BY <3>2, <3>3
  <2>8. T \in SUBSET Items /\ Closed(rows, T)
    BY <2>7, <1>1 DEF Closed
  <2>9. ds \subseteq T
    BY <2>6, <2>8, DescendantsLeast
  <2>10. CASE \E k \in ds : g[k] = n
    BY <2>9, <2>10
  <2>11. CASE \A k \in ds : g[k] # n
    BY <2>3, <2>11, <1>5 DEF Exists
  <2> QED BY <2>10, <2>11
<1> QED BY <1>4, <1>5 DEF Tree, AllReachable

-----------------------------------------------------------------------------
(* The inductive invariant for one request at a time.                       *)

NoGhosts(rows, vs) ==
    \A i \in Items : ~Exists(rows, i) => rows[i] = Absent /\ vs[i] = {}
Collected(rows, vs, os) ==
    \A o \in os : \E i \in Items : o \in vs[i] \cup {rows[i].object}

(* A file the DataServer committed that the bridge has not put in place. *)
FreshUpload(q, rows, vs) ==
    /\ Folder(rows, q.folder)
    /\ q.dest \in Items /\ rows[q.dest].type = "file" /\ rows[q.dest].batch = None
    /\ vs[q.dest] = {}
    /\ q.op = "replace" => q.item \in Items /\ q.item # q.dest /\ rows[q.item].type = "file"

(* What a request may rely on when it writes. *)
Pending(q, rows, vs, os) ==
    /\ q.op \in {"upload", "replace"} => FreshUpload(q, rows, vs)
    /\ q.op = "replace" /\ q.phase = "read" => Active(rows, q.item)
    /\ q.op \in {"create_folder", "move", "patch", "copy"} => Folder(rows, q.dest)
    /\ q.op \in {"move", "patch", "trash", "copy", "restore_version"} => Active(rows, q.item)
    /\ q.op = "move" => q.dest \notin Descendants(rows, q.item)
    /\ q.op = "trash" => q.ids = Descendants(rows, q.item)
    /\ q.op = "restore" => /\ Trashed(rows, q.item)
                           /\ q.ids = {k \in Items : rows[k].batch = rows[q.item].batch}
    /\ q.op = "purge" => Closed(rows, q.ids) /\ \A i \in q.ids : Trashed(rows, i)
    /\ q.op = "purge" /\ q.phase = "read" => q.objs = ObjectsOf(rows, vs, q.ids)
    /\ q.phase = "deleted" =>
         \A o \in os \ q.objs : \E i \in Items \ q.ids : o \in vs[i] \cup {rows[i].object}

TreeInv ==
    /\ Tree(item)
    /\ NoGhosts(item, versions)
    /\ Collected(item, versions, objects)
    /\ \A r \in Requests : Pending(req[r], item, versions, objects)

(* The rows a step removes are in the trash, or were uploaded to replace. *)
OnlyTrashGoes ==
    \A i \in Items : Exists(item, i) /\ item'[i] = Absent
      => \/ Trashed(item, i)
         \/ \E r \in Requests : req[r].op = "replace" /\ req[r].dest = i

LEMMA TreeKept ==
    ASSUME Serial, TypeInv, NEW r \in Requests, NEW q, req' = [req EXCEPT ![r] = q],
           Tree(item'), NoGhosts(item', versions'), Collected(item', versions', objects'),
           Pending(q, item', versions', objects')
    PROVE  TreeInv'
<1>1. \A k \in Requests : req'[k] = q
  BY SerialRequest
<1>2. \A k \in Requests : Pending(req'[k], item', versions', objects')
  BY <1>1
<1> QED BY <1>2 DEF TreeInv

LEMMA PendingIdle == \A rows, vs, os : Pending(NoRequest, rows, vs, os)
BY DEF Pending, NoRequest

LEMMA PendingNow ==
    ASSUME TypeInv, TreeInv, NEW r \in Requests
    PROVE  Pending(req[r], item, versions, objects)
BY DEF TreeInv

LEMMA ParentFolder ==
    ASSUME NEW rows, Tree(rows), NEW c \in Items, Active(rows, c)
    PROVE  Folder(rows, rows[c].parent)
<1>1. Exists(rows, c) /\ rows[c].batch = None
  BY DEF Active
<1> QED BY <1>1, TreeLink DEF Tree, Folder, Active, Exists

LEMMA FolderNotFile ==
    ASSUME NEW rows, Tree(rows), NEW d, Folder(rows, d), NEW i \in Items, rows[i].type = "file"
    PROVE  d # i /\ d \notin Descendants(rows, i)
<1>1. Descendants(rows, i) = {i}
  BY FileIsLeaf DEF Tree
<1> QED BY <1>1, RootAssumption DEF Folder

LEMMA SameTree ==
    ASSUME NEW rows \in [Items -> ItemRow], Tree(rows), NEW new,
           \A c \in Items : /\ new[c].type = rows[c].type /\ new[c].parent = rows[c].parent
                            /\ new[c].batch = rows[c].batch
    PROVE  Tree(new)
<1>1. Closed(rows, {}) /\ {} \in SUBSET Items
  BY DEF Closed
<1>2. IsRebatched(rows, new, {}, None)
  BY DEF IsRebatched
<1> QED BY <1>1, <1>2, Rebatched

(* A request that only reads. *)
LEMMA TreeOpen ==
    ASSUME Serial, TypeInv, TreeInv, NEW r \in Requests, NEW q,
           req' = [req EXCEPT ![r] = q], UNCHANGED <<item, versions, objects>>,
           Pending(q, item, versions, objects)
    PROVE  TreeInv' /\ OnlyTrashGoes
<1>1. /\ Tree(item) /\ NoGhosts(item, versions) /\ Collected(item, versions, objects)
      /\ item' = item /\ versions' = versions /\ objects' = objects
  BY DEF TreeInv
<1>2. TreeInv'
  BY <1>1, TreeKept
<1>3. OnlyTrashGoes
  BY <1>1, AbsentRow DEF OnlyTrashGoes, Exists
<1> QED BY <1>2, <1>3

LEMMA FolderOkFolder == \A d : FolderOk(d) <=> Folder(item, d)
BY DEF FolderOk, Folder

LEMMA TreeRead ==
    ASSUME Serial, TypeInv, TreeInv, NEW r \in Requests, Read(r)
    PROVE  TreeInv' /\ OnlyTrashGoes
<1>t. /\ item \in Rows /\ item \in [Items -> ItemRow] /\ Tree(item)
      /\ NoGhosts(item, versions) /\ Collected(item, versions, objects)
      /\ req[r] \in RequestType /\ Sane(req[r])
  BY DEF TypeInv, TreeInv, Rows
<1>p. Pending(req[r], item, versions, objects)
  BY PendingNow
<1> DEFINE Q(op, i, d, ids, objs) ==
             [op |-> op, phase |-> "read", item |-> i, dest |-> d,
              folder |-> req[r].folder, ids |-> ids, objs |-> objs, rows |-> item]
<1>1. ASSUME NEW i \in Items, NEW d \in Items \cup {Root}, ReadMove(r, i, d)
      PROVE  TreeInv' /\ OnlyTrashGoes
  <2> PICK q : q = Q("move", i, d, {}, {})
    OBVIOUS
  <2>1. /\ req' = [req EXCEPT ![r] = q] /\ UNCHANGED <<item, versions, objects>>
        /\ Active(item, i) /\ FolderOk(d)
        /\ item[i].type = "folder" => d \notin Descendants(item, i)
    BY <1>1 DEF ReadMove, Reads, Open
  <2>2. Folder(item, d)
    BY <2>1, FolderOkFolder
  <2>3. item[i].type \in {"folder", "file"}
    BY <2>1, <1>t, RowsRow, RowFields DEF Active, Exists
  <2>4. d \notin Descendants(item, i)
    BY <2>1, <2>2, <2>3, <1>t, FolderNotFile
  <2>5. Pending(q, item, versions, objects)
    BY <2>1, <2>2, <2>4 DEF Pending
  <2> QED BY <2>1, <2>5, TreeOpen
<1>11. ASSUME NEW i \in Items, NEW d \in Items \cup {Root}, ReadPatch(r, i, d)
       PROVE  TreeInv' /\ OnlyTrashGoes
  <2> PICK q : q = Q("patch", i, d, {}, {})
    OBVIOUS
  <2>1. /\ req' = [req EXCEPT ![r] = q] /\ UNCHANGED <<item, versions, objects>>
        /\ Active(item, i) /\ FolderOk(d)
    BY <1>11 DEF ReadPatch, Reads, Open
  <2>2. Pending(q, item, versions, objects)
    BY <2>1, FolderOkFolder DEF Pending
  <2> QED BY <2>1, <2>2, TreeOpen
<1>2. ASSUME NEW i \in Items, NEW d \in Items \cup {Root}, ReadCopy(r, i, d)
      PROVE  TreeInv' /\ OnlyTrashGoes
  <2> PICK p : p = IF d = Root THEN item[i].parent ELSE d
    OBVIOUS
  <2> PICK q : q = Q("copy", i, p, {}, {})
    OBVIOUS
  <2>1. /\ req' = [req EXCEPT ![r] = q] /\ UNCHANGED <<item, versions, objects>>
        /\ Active(item, i) /\ FolderOk(d)
    BY <1>2 DEF ReadCopy, Reads, Open
  <2>2. Folder(item, d) /\ Folder(item, item[i].parent)
    BY <2>1, <1>t, FolderOkFolder, ParentFolder
  <2>3. Folder(item, p)
    BY <2>2
  <2>4. Pending(q, item, versions, objects)
    BY <2>1, <2>3 DEF Pending
  <2> QED BY <2>1, <2>4, TreeOpen
<1>3. ASSUME NEW d \in Items \cup {Root}, ReadCreateFolder(r, d)
      PROVE  TreeInv' /\ OnlyTrashGoes
  <2> PICK q : q = Q("create_folder", None, d, {}, {})
    OBVIOUS
  <2>1. /\ req' = [req EXCEPT ![r] = q] /\ UNCHANGED <<item, versions, objects>>
        /\ FolderOk(d)
    BY <1>3 DEF ReadCreateFolder, Reads, Open
  <2>2. Pending(q, item, versions, objects)
    BY <2>1, FolderOkFolder DEF Pending
  <2> QED BY <2>1, <2>2, TreeOpen
<1>4. ASSUME NEW i \in Items, ReadTrash(r, i)
      PROVE  TreeInv' /\ OnlyTrashGoes
  <2> PICK ids : ids = Descendants(item, i)
    OBVIOUS
  <2> PICK q : q = Q("trash", i, None, ids, {})
    OBVIOUS
  <2>1. /\ req' = [req EXCEPT ![r] = q] /\ UNCHANGED <<item, versions, objects>>
        /\ Active(item, i)
    BY <1>4 DEF ReadTrash, Reads, Open
  <2>2. Pending(q, item, versions, objects)
    BY <2>1 DEF Pending
  <2> QED BY <2>1, <2>2, TreeOpen
<1>5. ASSUME NEW i \in Items, ReadRestore(r, i)
      PROVE  TreeInv' /\ OnlyTrashGoes
  <2> PICK ids : ids = {k \in Items : item[k].batch = item[i].batch}
    OBVIOUS
  <2> PICK q : q = Q("restore", i, None, ids, {})
    OBVIOUS
  <2>1. /\ req' = [req EXCEPT ![r] = q] /\ UNCHANGED <<item, versions, objects>>
        /\ Trashed(item, i)
    BY <1>5 DEF ReadRestore, Reads, Open
  <2>2. Pending(q, item, versions, objects)
    BY <2>1 DEF Pending
  <2> QED BY <2>1, <2>2, TreeOpen
<1>6. ASSUME NEW i \in Items, ReadPurge(r, i)
      PROVE  TreeInv' /\ OnlyTrashGoes
  <2> PICK ids : ids = Descendants(item, i)
    OBVIOUS
  <2> PICK objs : objs = ObjectsOf(item, versions, ids)
    OBVIOUS
  <2> PICK q : q = Q("purge", i, None, ids, objs)
    OBVIOUS
  <2>1. /\ req' = [req EXCEPT ![r] = q] /\ UNCHANGED <<item, versions, objects>>
        /\ Trashed(item, i)
    BY <1>6 DEF ReadPurge, Reads, Open
  <2>2. Closed(item, ids)
    BY DescendantsClosed
  <2>3. \A k \in ids : Trashed(item, k)
    BY <2>1, <1>t, TrashedBelow DEF Tree
  <2>4. Pending(q, item, versions, objects)
    BY <2>2, <2>3 DEF Pending
  <2> QED BY <2>1, <2>4, TreeOpen
<1>7. ASSUME NEW B \in SUBSET Batches, ReadExpire(r, B)
      PROVE  TreeInv' /\ OnlyTrashGoes
  <2> PICK top : top = TopLevelExpired(B)
    OBVIOUS
  <2> PICK ids : ids = UNION {Descendants(item, i) : i \in top}
    OBVIOUS
  <2> PICK objs : objs = ObjectsOf(item, versions, ids)
    OBVIOUS
  <2> PICK q : q = Q("purge", None, None, ids, objs)
    OBVIOUS
  <2>1. /\ req' = [req EXCEPT ![r] = q] /\ UNCHANGED <<item, versions, objects>>
    BY <1>7 DEF ReadExpire, Reads, Open
  <2>2. ASSUME NEW i \in top PROVE i \in Items /\ Trashed(item, i)
    <3>1. i \in Items /\ item[i].batch \in B
      BY DEF TopLevelExpired
    <3>2. item[i].batch # None
      BY <3>1, NullAssumption
    <3>3. Exists(item, i)
      BY <3>1, <3>2, <1>t DEF NoGhosts, Absent
    <3> QED BY <3>1, <3>2, <3>3 DEF Trashed
  <2>3. ASSUME NEW c \in Items, Exists(item, c), item[c].parent \in ids PROVE c \in ids
    <3>1. PICK i \in top : item[c].parent \in Descendants(item, i)
      BY <2>3
    <3>2. c \in Descendants(item, i)
      BY <3>1, <2>2, <2>3, DescendantsClosed DEF Closed
    <3> QED BY <3>2
  <2>4. Closed(item, ids)
    BY <2>3 DEF Closed
  <2>5. ASSUME NEW k \in ids PROVE Trashed(item, k)
    <3>1. PICK i \in top : k \in Descendants(item, i)
      OBVIOUS
    <3> QED BY <3>1, <2>2, <1>t, TrashedBelow DEF Tree
  <2>6. Pending(q, item, versions, objects)
    BY <2>4, <2>5 DEF Pending
  <2> QED BY <2>1, <2>6, TreeOpen
<1>8. ASSUME NEW i \in Items, NEW v \in versions[i], ReadRestoreVersion(r, i, v)
      PROVE  TreeInv' /\ OnlyTrashGoes
  <2> PICK q : q = Q("restore_version", i, v, {}, {})
    OBVIOUS
  <2>1. /\ req' = [req EXCEPT ![r] = q] /\ UNCHANGED <<item, versions, objects>>
        /\ Active(item, i)
    BY <1>8 DEF ReadRestoreVersion, Reads, Open
  <2>2. Pending(q, item, versions, objects)
    BY <2>1 DEF Pending
  <2> QED BY <2>1, <2>2, TreeOpen
<1>9. ASSUME ReadReplace(r)
      PROVE  TreeInv' /\ OnlyTrashGoes
  <2>1. UNCHANGED <<item, versions, objects>> /\ req[r].op = "replace"
    BY <1>9 DEF ReadReplace
  <2>2. CASE req' = [req EXCEPT ![r] = NoRequest]
    BY <2>1, <2>2, PendingIdle, TreeOpen
  <2>3. CASE ~(req' = [req EXCEPT ![r] = NoRequest])
    <3> PICK q : q = Q("replace", req[r].item, req[r].dest, {}, {})
      OBVIOUS
    <3>1. req' = [req EXCEPT ![r] = q] /\ Active(item, req[r].item)
      BY <1>9, <2>3 DEF ReadReplace, Open
    <3>2. FreshUpload(req[r], item, versions)
      BY <1>p, <2>1 DEF Pending
    <3>3. FreshUpload(q, item, versions)
      BY <2>1, <3>2 DEF FreshUpload
    <3>4. Pending(q, item, versions, objects)
      BY <3>1, <3>3 DEF Pending
    <3> QED BY <2>1, <3>1, <3>4, TreeOpen
  <2> QED BY <2>2, <2>3
<1>10. ASSUME FinalizeUpload(r)
       PROVE  TreeInv' /\ OnlyTrashGoes
  <2> PICK i, p : i = req[r].dest /\ p = req[r].folder
    OBVIOUS
  <2>1. /\ req[r].op = "upload" /\ req' = [req EXCEPT ![r] = NoRequest]
        /\ item' = IF FolderOk(p) /\ Active(item, i)
                   THEN [item EXCEPT ![i].parent = p] ELSE item
        /\ versions' = versions /\ objects' = objects
    BY <1>10 DEF FinalizeUpload
  <2>2. CASE ~(FolderOk(p) /\ Active(item, i))
    BY <2>1, <2>2, PendingIdle, TreeOpen
  <2>3. CASE FolderOk(p) /\ Active(item, i)
    <3>1. i \in Items /\ item[i].type = "file" /\ Folder(item, p)
      BY <1>p, <2>1, <2>3, FolderOkFolder DEF Pending, FreshUpload
    <3> PICK row : row = [item[i] EXCEPT !.parent = p]
      OBVIOUS
    <3>2. item[i] \in ItemRow /\ p \in Items \cup {Root, None}
      BY <3>1, <1>t DEF Folder
    <3>3. /\ row \in ItemRow /\ row.parent = p /\ row.type = item[i].type
          /\ row.batch = item[i].batch /\ row.object = item[i].object
      BY <3>2 DEF ItemRow
    <3>4. item' = [item EXCEPT ![i] = row]
      BY <2>1, <2>3, <3>1
    <3>5. p \notin Descendants(item, i)
      BY <3>1, <1>t, FolderNotFile
    <3>6. Tree(item')
      BY <3>1, <3>3, <3>4, <3>5, <1>t, <2>3, Reparented DEF Active
    <3>7. \A k \in Items : /\ item'[k].object = item[k].object /\ item'[k].type = item[k].type
                           /\ k # i => item'[k] = item[k]
      BY <3>3, <3>4, <1>t
    <3>8. NoGhosts(item', versions')
      BY <3>7, <2>1, <1>t, <3>1 DEF NoGhosts, Exists
    <3>9. Collected(item', versions', objects')
      BY <3>7, <2>1, <1>t DEF Collected
    <3>10. TreeInv'
      BY <2>1, <3>6, <3>8, <3>9, PendingIdle, TreeKept
    <3>11. OnlyTrashGoes
      BY <3>7, AbsentRow DEF OnlyTrashGoes, Exists
    <3> QED BY <3>10, <3>11
  <2> QED BY <2>2, <2>3
<1> QED
  BY <1>1, <1>2, <1>3, <1>4, <1>5, <1>6, <1>7, <1>8, <1>9, <1>10, <1>11
  DEF Read

(* A step that ends the request. *)
LEMMA TreeIdle ==
    ASSUME Serial, TypeInv, NEW r \in Requests, req' = [req EXCEPT ![r] = NoRequest],
           Tree(item'), NoGhosts(item', versions'), Collected(item', versions', objects'),
           \A i \in Items : item'[i] = Absent /\ Exists(item, i)
             => Trashed(item, i) \/ (req[r].op = "replace" /\ req[r].dest = i)
    PROVE  TreeInv' /\ OnlyTrashGoes
<1>1. TreeInv'
  BY PendingIdle, TreeKept
<1> QED BY <1>1 DEF OnlyTrashGoes

(* A file takes over the row of another file, whose own row goes. *)
LEMMA Replaced ==
    ASSUME NEW rows \in [Items -> ItemRow], Tree(rows), NEW t \in Items, NEW d \in Items,
           t # d, Active(rows, t), rows[t].type = "file", rows[d].type = "file",
           NEW row \in ItemRow, row.type = "file", row.batch = rows[t].batch,
           Folder(rows, row.parent),
           NEW new, new[d] = Absent, new[t] = row,
           \A k \in Items \ {t, d} : new[k] = rows[k]
    PROVE  Tree(new)
<1> PICK f : f = [rows EXCEPT ![t] = row]
  OBVIOUS
<1>1. f \in [Items -> ItemRow] /\ f[t] = row /\ \A k \in Items : k # t => f[k] = rows[k]
  OBVIOUS
<1>2. row.parent \notin Descendants(rows, t)
  BY FolderNotFile
<1>3. Exists(rows, t)
  BY DEF Active
<1>4. Tree(f)
  BY <1>2, <1>3, Reparented
<1>5. f[d].type = "file"
  BY <1>1
<1>6. {d} \in SUBSET Items /\ Closed(f, {d})
  BY <1>4, <1>5, FileIsLeaf DEF Tree
<1>7. \A c \in Items : new[c] = IF c \in {d} THEN Absent ELSE f[c]
  BY <1>1
<1> QED BY <1>1, <1>4, <1>6, <1>7, Removed

LEMMA TreeFinish ==
    ASSUME Serial, TypeInv, Current, TreeInv, NEW r \in Requests, Finish(r)
    PROVE  TreeInv' /\ OnlyTrashGoes
<1> PICK q : q = req[r]
  OBVIOUS
<1>t. /\ item \in Rows /\ item \in [Items -> ItemRow] /\ Tree(item)
      /\ versions \in [Items -> SUBSET (Objects \cup {None})] /\ objects \in SUBSET Objects
      /\ NoGhosts(item, versions) /\ Collected(item, versions, objects)
      /\ q \in RequestType /\ Sane(q) /\ req \in [Requests -> RequestType]
  BY DEF TypeInv, TreeInv, Rows
<1>p. Pending(q, item, versions, objects)
  BY PendingNow
<1>c. q.phase = "read" => q.rows = item
  BY DEF Current
<1>o. None \notin objects
  BY <1>t, NullAssumption
<1>1. ASSUME NEW i \in Items, FinishCreateFolder(r, i)
      PROVE  TreeInv' /\ OnlyTrashGoes
  <2> PICK row : row = [Absent EXCEPT !.type = "folder", !.parent = q.dest]
    OBVIOUS
  <2>1. /\ req' = [req EXCEPT ![r] = NoRequest] /\ versions' = versions /\ objects' = objects
        /\ item' = [item EXCEPT ![i] = row] /\ q.op = "create_folder" /\ q.phase = "read"
        /\ ~Exists(item, i)
    BY <1>1 DEF FinishCreateFolder, Finishes, FreshItem
  <2>2. Folder(item, q.dest)
    BY <2>1, <1>p DEF Pending
  <2>3. q.dest \in Folders
    BY <2>2 DEF Folder, Folders
  <2>4. row \in ItemRow /\ row.parent = q.dest /\ row.type = "folder" /\ row.object = None
    BY <2>3 DEF Absent, ItemRow, Folders
  <2>5. Tree(item')
    BY <2>1, <2>2, <2>4, <1>t, LeafAdded
  <2>6. item'[i] = row /\ \A k \in Items : k # i => item'[k] = item[k]
    BY <2>1, <1>t
  <2>7. NoGhosts(item', versions')
    BY <2>1, <2>4, <2>6, <1>t DEF NoGhosts, Exists
  <2>8. item[i].object = None /\ versions[i] = {}
    BY <2>1, <1>t DEF NoGhosts, Absent
  <2>9. Collected(item', versions', objects')
    BY <2>1, <2>6, <2>8, <1>t, <1>o DEF Collected
  <2>10. \A k \in Items : Exists(item, k) => item'[k] # Absent
    BY <2>1, <2>6, AbsentRow DEF Exists
  <2> QED BY <2>1, <2>5, <2>7, <2>9, <2>10, TreeIdle
<1>2. ASSUME NEW i \in Items, CopyFile(r, i)
      PROVE  TreeInv' /\ OnlyTrashGoes
  <2> PICK row : row = [q.rows[q.item] EXCEPT !.parent = q.dest]
    OBVIOUS
  <2>1. /\ req' = [req EXCEPT ![r] = NoRequest] /\ versions' = versions /\ objects' = objects
        /\ item' = [item EXCEPT ![i] = row] /\ q.op = "copy" /\ q.phase = "read"
        /\ ~Exists(item, i) /\ q.rows[q.item].type = "file"
    BY <1>2 DEF CopyFile, Finishes, FreshItem
  <2>2. Folder(item, q.dest) /\ q.dest \in Folders /\ q.item \in Items /\ q.rows \in Rows
    BY <2>1, <1>p, <1>t DEF Pending, Sane
  <2>3. q.rows[q.item] \in ItemRow
    BY <2>2, RowsRow
  <2>4. row \in ItemRow /\ row.parent = q.dest /\ row.type = "file"
    BY <2>1, <2>2, <2>3 DEF ItemRow, Folders
  <2>5. Tree(item')
    BY <2>1, <2>2, <2>4, <1>t, LeafAdded
  <2>6. item'[i] = row /\ \A k \in Items : k # i => item'[k] = item[k]
    BY <2>1, <1>t
  <2>7. NoGhosts(item', versions')
    BY <2>1, <2>4, <2>6, <1>t DEF NoGhosts, Exists
  <2>8. item[i].object = None /\ versions[i] = {}
    BY <2>1, <1>t DEF NoGhosts, Absent
  <2>9. Collected(item', versions', objects')
    BY <2>1, <2>6, <2>8, <1>t, <1>o DEF Collected
  <2>10. \A k \in Items : Exists(item, k) => item'[k] # Absent
    BY <2>1, <2>6, AbsentRow DEF Exists
  <2> QED BY <2>1, <2>5, <2>7, <2>9, <2>10, TreeIdle
<1>3. ASSUME FinishMove(r)
      PROVE  TreeInv' /\ OnlyTrashGoes
  <2> PICK i, p : i = q.item /\ p = q.dest
    OBVIOUS
  <2>1. /\ req' = [req EXCEPT ![r] = NoRequest] /\ versions' = versions /\ objects' = objects
        /\ item' = IF Exists(item, i) THEN [item EXCEPT ![i].parent = p] ELSE item
        /\ q.op \in {"move", "patch"}
    BY <1>3 DEF FinishMove, Finishes
  <2>a. i \in Items /\ Active(item, i) /\ Folder(item, p)
    BY <2>1, <1>p, <1>t DEF Pending, Sane
  <2>b. Checked => p \notin Descendants(item, i)
    BY <2>1, <1>p, <1>t DEF Pending, Sane, Checked
  <2>2. /\ i \in Items /\ Active(item, i) /\ Folder(item, p)
        /\ Checked => p \notin Descendants(item, i)
    BY <2>a, <2>b
  <2> PICK row : row = [item[i] EXCEPT !.parent = p]
    OBVIOUS
  <2>3. item[i] \in ItemRow /\ p \in Items \cup {Root, None}
    BY <2>2, <1>t DEF Folder
  <2>4. /\ row \in ItemRow /\ row.parent = p /\ row.type = item[i].type
        /\ row.batch = item[i].batch /\ row.object = item[i].object
    BY <2>3 DEF ItemRow
  <2>5. item' = [item EXCEPT ![i] = row]
    BY <2>1, <2>2 DEF Active
  <2>6. Tree(item')
    BY <2>2, <2>4, <2>5, <1>t, Reparented DEF Active
  <2>7. \A k \in Items : /\ item'[k].object = item[k].object /\ item'[k].type = item[k].type
                         /\ k # i => item'[k] = item[k]
    BY <2>4, <2>5, <1>t
  <2>8. NoGhosts(item', versions')
    BY <2>7, <2>1, <2>2, <1>t DEF NoGhosts, Exists, Active
  <2>9. Collected(item', versions', objects')
    BY <2>7, <2>1, <1>t DEF Collected
  <2>10. \A k \in Items : Exists(item, k) => item'[k] # Absent
    BY <2>7, AbsentRow DEF Exists
  <2> QED BY <2>1, <2>6, <2>8, <2>9, <2>10, TreeIdle
<1>4. ASSUME NEW b \in Batches, FinishTrash(r, b)
      PROVE  TreeInv' /\ OnlyTrashGoes
  <2> PICK i, ids : i = q.item /\ ids = q.ids
    OBVIOUS
  <2>1. /\ req' = [req EXCEPT ![r] = NoRequest] /\ versions' = versions /\ objects' = objects
        /\ item' = [k \in Items |-> IF k \in ids /\ Exists(item, k)
                                    THEN [item[k] EXCEPT !.batch = b] ELSE item[k]]
        /\ q.op = "trash"
    BY <1>4 DEF FinishTrash, Finishes
  <2>2. i \in Items /\ Active(item, i) /\ ids = Descendants(item, i)
    BY <2>1, <1>p, <1>t DEF Pending, Sane
  <2>3. ids \in SUBSET Items /\ Closed(item, ids)
    BY <2>2, DescendantsClosed
  <2>4. \A k \in ids : Active(item, k) \/ item[k].parent \in ids
    BY <2>2, DescendantHasParent
  <2>5. ASSUME NEW k \in Items
        PROVE  /\ item'[k].object = item[k].object /\ item'[k].type = item[k].type
               /\ item'[k].parent = item[k].parent
               /\ item'[k].batch = IF k \in ids /\ Exists(item, k) THEN b ELSE item[k].batch
               /\ ~Exists(item, k) => item'[k] = item[k]
    BY <2>1, <1>t DEF ItemRow
  <2>6. Tree(item')
    <3> PICK new : new = item'
      OBVIOUS
    <3>1. IsRebatched(item, new, ids, b)
      BY <2>5 DEF IsRebatched
    <3>2. Tree(new)
      BY <3>1, <2>3, <2>4, <1>t, Rebatched
    <3> QED BY <3>2
  <2>7. NoGhosts(item', versions')
    BY <2>5, <2>1, <1>t DEF NoGhosts, Exists
  <2>8. Collected(item', versions', objects')
    BY <2>5, <2>1, <1>t DEF Collected
  <2>9. \A k \in Items : Exists(item, k) => item'[k] # Absent
    BY <2>5, AbsentRow DEF Exists
  <2> QED BY <2>1, <2>6, <2>7, <2>8, <2>9, TreeIdle
<1>5. ASSUME FinishRestore(r)
      PROVE  TreeInv' /\ OnlyTrashGoes
  <2> PICK homeless : homeless = (q.rows[q.item].parent \in Items
                                  /\ Trashed(q.rows, q.rows[q.item].parent))
    OBVIOUS
  <2> PICK b : b = item[q.item].batch
    OBVIOUS
  <2>1. /\ req' = [req EXCEPT ![r] = NoRequest] /\ versions' = versions /\ objects' = objects
        /\ item' = [k \in Items |-> IF k \in q.ids /\ Exists(item, k)
                       THEN [item[k] EXCEPT !.batch = None,
                               !.parent = IF k = q.item /\ homeless THEN Root ELSE @]
                       ELSE item[k]]
        /\ q.op = "restore"
    BY <1>5 DEF FinishRestore, Finishes
  <2>2. b # None /\ q.ids = {k \in Items : item[k].batch = b}
    BY <2>1, <1>p DEF Pending, Trashed
  <2>3. ASSUME NEW k \in Items
        PROVE  /\ item'[k].object = item[k].object /\ item'[k].type = item[k].type
               /\ item'[k].parent = item[k].parent \/ item'[k].parent = Root
               /\ item'[k].batch = IF item[k].batch = b THEN None ELSE item[k].batch
               /\ ~Exists(item, k) => item'[k] = item[k]
    <3>1. item[k].batch = b => Exists(item, k)
      BY <2>2, <1>t DEF NoGhosts, Absent
    <3>2. item[k] \in ItemRow
      BY <1>t
    <3>3. CASE k \in q.ids /\ Exists(item, k)
      <4> PICK p : p = IF k = q.item /\ homeless THEN Root ELSE item[k].parent
        OBVIOUS
      <4>1. item'[k] = [item[k] EXCEPT !.batch = None, !.parent = p]
        BY <3>3, <2>1
      <4> QED BY <4>1, <3>2, <3>3, <2>2 DEF ItemRow
    <3>4. CASE ~(k \in q.ids /\ Exists(item, k))
      <4>1. item'[k] = item[k]
        BY <3>4, <2>1
      <4> QED BY <4>1, <3>4, <3>1, <2>2
    <3> QED BY <3>3, <3>4
  <2>4. Tree(item')
    <3> PICK new : new = item'
      OBVIOUS
    <3>1. IsRestored(item, new, b)
      BY <2>3 DEF IsRestored
    <3>2. Tree(new)
      BY <3>1, <2>2, <1>t, Restored
    <3> QED BY <3>2
  <2>5. NoGhosts(item', versions')
    BY <2>3, <2>1, <1>t DEF NoGhosts, Exists
  <2>6. Collected(item', versions', objects')
    BY <2>3, <2>1, <1>t DEF Collected
  <2>7. \A k \in Items : Exists(item, k) => item'[k] # Absent
    BY <2>3, AbsentRow DEF Exists
  <2> QED BY <2>1, <2>4, <2>5, <2>6, <2>7, TreeIdle
<1>6. ASSUME PurgeDelete(r)
      PROVE  TreeInv' /\ OnlyTrashGoes
  <2> PICK objs : objs = {o \in Unreferenced(q.objs, q.ids) \cap objects :
                            \A k \in Requests : req[k].phase = "deleted" => o \notin req[k].objs}
    OBVIOUS
  <2>1. /\ q.op = "purge" /\ q.phase = "read"
        /\ req' = [req EXCEPT ![r].phase = "deleted", ![r].objs = objs]
        /\ UNCHANGED <<item, versions, objects>>
    BY <1>6 DEF PurgeDelete
  <2> PICK p : p = [q EXCEPT !.phase = "deleted", !.objs = objs]
    OBVIOUS
  <2>2. req' = [req EXCEPT ![r] = p]
    BY <2>1, <1>t
  <2>3. p.op = "purge" /\ p.phase = "deleted" /\ p.objs = objs /\ p.ids = q.ids
    BY <2>1, <1>t DEF RequestType
  <2>4. /\ Closed(item, q.ids) /\ \A i \in q.ids : Trashed(item, i)
        /\ q.objs = ObjectsOf(item, versions, q.ids)
    BY <2>1, <1>p DEF Pending
  <2>5. ASSUME NEW o \in objects \ objs
        PROVE  \E i \in Items \ q.ids : o \in versions[i] \cup {item[i].object}
    <3>1. \A k \in Requests : req[k].phase # "deleted"
      BY <2>1 DEF Serial
    <3>2. o \notin Unreferenced(q.objs, q.ids)
      BY <3>1
    <3>3. CASE o \in q.objs
      BY <3>2, <3>3 DEF Unreferenced
    <3>4. CASE o \notin q.objs
      <4>1. PICK i \in Items : o \in versions[i] \cup {item[i].object}
        BY <1>t DEF Collected
      <4>2. i \notin q.ids
        <5>1. SUFFICES ASSUME i \in q.ids PROVE FALSE
          OBVIOUS
        <5>2. o \in UNION {versions[k] \cup {item[k].object} : k \in q.ids}
          BY <4>1, <5>1
        <5>3. o # None
          BY <1>o
        <5> QED BY <5>2, <5>3, <2>4, <3>4 DEF ObjectsOf
      <4> QED BY <4>1, <4>2
    <3> QED BY <3>3, <3>4
  <2>6. Pending(p, item, versions, objects)
    BY <2>3, <2>4, <2>5 DEF Pending
  <2> QED BY <2>1, <2>2, <2>6, TreeOpen
<1>7. ASSUME PurgeCommit(r)
      PROVE  TreeInv' /\ OnlyTrashGoes
  <2>1. /\ req' = [req EXCEPT ![r] = NoRequest] /\ q.phase = "deleted"
        /\ item' = [i \in Items |-> IF i \in q.ids THEN Absent ELSE item[i]]
        /\ versions' = [i \in Items |-> IF i \in q.ids THEN {} ELSE versions[i]]
        /\ objects' = objects \ q.objs
    BY <1>7 DEF PurgeCommit
  <2>2. /\ Closed(item, q.ids) /\ \A i \in q.ids : Trashed(item, i)
        /\ \A o \in objects \ q.objs :
             \E i \in Items \ q.ids : o \in versions[i] \cup {item[i].object}
        /\ q.ids \in SUBSET Items
    BY <2>1, <1>p, <1>t DEF Pending, Sane, RequestType
  <2>3. \A k \in Items : k \in q.ids => item'[k] = Absent /\ versions'[k] = {}
    BY <2>1
  <2>4. \A k \in Items : k \notin q.ids => item'[k] = item[k] /\ versions'[k] = versions[k]
    BY <2>1
  <2>5. Tree(item')
    <3> PICK new : new = item'
      OBVIOUS
    <3>1. \A c \in Items : new[c] = IF c \in q.ids THEN Absent ELSE item[c]
      BY <2>1
    <3>2. Tree(new)
      BY <3>1, <2>2, <1>t, Removed
    <3> QED BY <3>2
  <2>6. NoGhosts(item', versions')
    BY <2>3, <2>4, <1>t DEF NoGhosts, Exists
  <2>7. Collected(item', versions', objects')
    BY <2>1, <2>2, <2>4 DEF Collected
  <2>8. \A k \in Items : item'[k] = Absent /\ Exists(item, k) => Trashed(item, k)
    BY <2>2, <2>4, AbsentRow DEF Exists
  <2> QED BY <2>1, <2>5, <2>6, <2>7, <2>8, TreeIdle
<1>8. ASSUME CopyFolder(r)
      PROVE  TreeInv' /\ OnlyTrashGoes
  <2> DEFINE Q == req[r]
             ds == Descendants(Q.rows, Q.item)
  <2>1. PICK g \in [ds -> {i \in Items : FreshItem(i)}] :
          /\ \A i, k \in ds : i # k => g[i] # g[k]
          /\ item' = [n \in Items |->
               IF \E i \in ds : g[i] = n
               THEN LET i == CHOOSE k \in ds : g[k] = n IN
                    [Absent EXCEPT !.type = Q.rows[i].type,
                       !.parent = IF i = Q.item THEN Q.dest ELSE g[Q.rows[i].parent]]
               ELSE item[n]]
    BY <1>8, Zenon DEF CopyFolder
  <2>2. Finishes(r, "copy") /\ versions' = versions /\ objects' = objects
    BY <1>8 DEF CopyFolder
  <2>a. Q = q
    OBVIOUS
  <2> PICK new : new = item'
    OBVIOUS
  <2>b. ds = Descendants(q.rows, q.item)
    BY <2>a
  <2>c. ASSUME NEW n \in Items
        PROVE  new[n] = IF \E i \in ds : g[i] = n
                        THEN LET i == CHOOSE k \in ds : g[k] = n IN
                             [Absent EXCEPT !.type = Q.rows[i].type,
                               !.parent = IF i = Q.item THEN Q.dest ELSE g[Q.rows[i].parent]]
                        ELSE item[n]
    BY <2>1, Zenon
  <2>d. \A k \in ds : g[k] \in Items /\ FreshItem(g[k])
    BY <2>1
  <2>e. \A i, k \in ds : i # k => g[i] # g[k]
    BY <2>1
  <2> HIDE DEF Q, ds
  <2>3. req' = [req EXCEPT ![r] = NoRequest] /\ q.op = "copy" /\ q.rows = item
    BY <2>2, <1>c DEF Finishes
  <2>4. q.item \in Items /\ Active(item, q.item) /\ Folder(item, q.dest)
    BY <2>3, <1>p, <1>t DEF Pending, Sane
  <2>5. ASSUME NEW k \in ds
        PROVE  /\ new[g[k]].type = item[k].type /\ new[g[k]].batch = None
               /\ new[g[k]].parent = IF k = q.item THEN q.dest ELSE g[item[k].parent]
    <3> PICK n : n = g[k]
      OBVIOUS
    <3>1. n \in Items /\ \E i \in ds : g[i] = n
      BY <2>d
    <3> PICK i : i = CHOOSE m \in ds : g[m] = n
      OBVIOUS
    <3>2. i \in ds /\ g[i] = n
      BY <3>1
    <3>3. i = k
      BY <3>2, <2>e
    <3> PICK p : p = IF k = q.item THEN q.dest ELSE g[item[k].parent]
      OBVIOUS
    <3>a. new[n] = [Absent EXCEPT !.type = Q.rows[i].type,
                      !.parent = IF i = Q.item THEN Q.dest ELSE g[Q.rows[i].parent]]
      BY <3>1, <2>c
    <3>4. new[n] = [Absent EXCEPT !.type = item[k].type, !.parent = p]
      BY <3>a, <3>3, <2>a, <2>3
    <3> QED BY <3>4 DEF Absent
  <2>6. \A n \in Items : (\A k \in ds : g[k] # n) => new[n] = item[n]
    BY <2>c
  <2>7. \A k \in ds : ~Exists(item, g[k])
    BY <2>d DEF FreshItem
  <2>8. g \in [ds -> Items]
    BY <2>1
  <2>9. ds = Descendants(item, q.item) /\ Exists(item, q.item)
    BY <2>b, <2>3, <2>4 DEF Active
  <2>10. Tree(new)
    BY <2>4, <2>5, <2>6, <2>7, <2>8, <2>9, <1>t, FolderCopied
  <2>11. \A k \in ds : Exists(item, k)
    BY <2>4, <2>9, DescendantHasParent
  <2>12. ASSUME NEW n \in Items, ~Exists(new, n) PROVE new[n] = item[n] /\ ~Exists(item, n)
    <3>1. \A k \in ds : g[k] # n
      BY <2>5, <2>11, <2>12 DEF Exists
    <3> QED BY <3>1, <2>6, <2>12 DEF Exists
  <2>13. NoGhosts(new, versions)
    BY <2>12, <1>t DEF NoGhosts
  <2>14. Collected(new, versions, objects)
    <3>1. SUFFICES ASSUME NEW o \in objects
                   PROVE  \E n \in Items : o \in versions[n] \cup {new[n].object}
      BY DEF Collected
    <3>2. PICK n \in Items : o \in versions[n] \cup {item[n].object}
      BY <1>t DEF Collected
    <3>3. o # None
      BY <1>o
    <3>4. Exists(item, n)
      BY <3>2, <3>3, <1>t DEF NoGhosts, Absent
    <3>5. new[n] = item[n]
      BY <3>4, <2>6, <2>7
    <3> QED BY <3>2, <3>5
  <2>15. \A k \in Items : Exists(item, k) => new[k] # Absent
    BY <2>6, <2>7, AbsentRow DEF Exists
  <2> QED BY <2>2, <2>3, <2>10, <2>13, <2>14, <2>15, TreeIdle
<1>9. ASSUME FinishRestoreVersion(r)
      PROVE  TreeInv' /\ OnlyTrashGoes
  <2> PICK i : i = q.item
    OBVIOUS
  <2>1. /\ objects' = objects /\ req' = [req EXCEPT ![r] = NoRequest]
        /\ q.op = "restore_version" /\ q.rows = item
        /\ IF Exists(item, i)
           THEN /\ versions' = [versions EXCEPT ![i] = @ \cup {q.rows[i].object}]
                /\ item' = [item EXCEPT ![i].object = q.dest]
           ELSE item' = item /\ versions' = versions
    BY <1>9, <1>c DEF FinishRestoreVersion, Finishes
  <2>2. i \in Items /\ Active(item, i)
    BY <2>1, <1>p, <1>t DEF Pending, Sane
  <2>3. /\ versions' = [versions EXCEPT ![i] = @ \cup {item[i].object}]
        /\ item' = [item EXCEPT ![i].object = q.dest]
    BY <2>1, <2>2 DEF Active
  <2>4. \A k \in Items : /\ item'[k].type = item[k].type /\ item'[k].parent = item[k].parent
                         /\ item'[k].batch = item[k].batch
                         /\ k # i => item'[k] = item[k] /\ versions'[k] = versions[k]
    BY <2>3, <2>2, <1>t DEF ItemRow
  <2>5. versions'[i] = versions[i] \cup {item[i].object}
    BY <2>3, <2>2, <1>t
  <2>6. Tree(item')
    BY <2>4, <1>t, SameTree
  <2>7. NoGhosts(item', versions')
    BY <2>4, <2>2, <1>t DEF NoGhosts, Exists, Active
  <2>8. Collected(item', versions', objects')
    BY <2>1, <2>4, <2>5, <1>t DEF Collected
  <2>9. \A k \in Items : Exists(item, k) => item'[k] # Absent
    BY <2>4, AbsentRow DEF Exists
  <2> QED BY <2>1, <2>6, <2>7, <2>8, <2>9, TreeIdle
<1>10. ASSUME FinishReplace(r)
       PROVE  TreeInv' /\ OnlyTrashGoes
  <2> PICK t, d, o, p : t = q.item /\ d = q.dest /\ o = item[d].object /\ p = ReplacedParent(q)
    OBVIOUS
  <2>1. /\ objects' = objects /\ req' = [req EXCEPT ![r] = NoRequest]
        /\ q.op = "replace" /\ q.phase = "read" /\ q.rows = item
        /\ IF Exists(item, t)
           THEN /\ versions' = [versions EXCEPT ![t] = @ \cup {q.rows[t].object}]
                /\ item' = [item EXCEPT ![t].object = q.rows[d].object, ![t].batch = None,
                                        ![t].parent = p, ![d] = Absent]
           ELSE item' = item /\ versions' = versions
    BY <1>10, <1>c DEF FinishReplace, Finishes
  <2>2. /\ t \in Items /\ d \in Items /\ t # d /\ Active(item, t) /\ Folder(item, q.folder)
        /\ item[t].type = "file" /\ item[d].type = "file" /\ versions[d] = {}
    BY <2>1, <1>p, <1>t DEF Pending, FreshUpload, Sane
  <2>3. /\ versions' = [versions EXCEPT ![t] = @ \cup {item[t].object}]
        /\ item' = [item EXCEPT ![t].object = o, ![t].batch = None, ![t].parent = p,
                                ![d] = Absent]
    BY <2>1, <2>2 DEF Active
  <2>4. Folder(item, p)
    <3>1. Folder(item, item[t].parent)
      BY <2>2, <1>t, ParentFolder
    <3>2. p = IF q.folder = Root THEN item[t].parent ELSE q.folder
      BY DEF ReplacedParent
    <3> QED BY <3>1, <3>2, <2>2
  <2>5. item[t] \in ItemRow /\ o \in Objects \cup {None} /\ p \in Items \cup {Root, None}
    BY <2>2, <2>4, <1>t, RowsRow, RowFields DEF Folder
  <2>6. PICK row \in ItemRow :
          /\ row.type = "file" /\ row.parent = p /\ row.batch = item[t].batch
          /\ row.object = o
          /\ item'[d] = Absent /\ item'[t] = row
          /\ \A k \in Items \ {t, d} : item'[k] = item[k]
    <3> PICK w : w = [item[t] EXCEPT !.object = o, !.batch = None, !.parent = p]
      OBVIOUS
    <3>1. w \in ItemRow
      BY <2>5 DEF ItemRow
    <3>2. w.type = "file" /\ w.parent = p /\ w.batch = item[t].batch /\ w.object = o
      BY <2>2, <2>5 DEF ItemRow, Active
    <3>3. /\ item'[d] = Absent /\ item'[t] = w
          /\ \A k \in Items \ {t, d} : item'[k] = item[k]
      BY <2>2, <2>3, <1>t
    <3> QED BY <3>1, <3>2, <3>3
  <2>7. row.type = "file" /\ row.parent = p /\ row.batch = item[t].batch /\ row.object = o
    BY <2>6
  <2>8. /\ item'[d] = Absent /\ item'[t] = row
        /\ \A k \in Items \ {t, d} : item'[k] = item[k]
    BY <2>6
  <2>9. /\ versions'[t] = versions[t] \cup {item[t].object}
        /\ \A k \in Items \ {t} : versions'[k] = versions[k]
    BY <2>2, <2>3, <1>t
  <2>12. Tree(item')
    <3> PICK new : new = item'
      OBVIOUS
    <3>1. new[d] = Absent /\ new[t] = row /\ \A k \in Items \ {t, d} : new[k] = item[k]
      BY <2>8
    <3>2. Tree(new)
      BY <3>1, <2>2, <2>4, <2>7, <1>t, Replaced
    <3> QED BY <3>2
  <2>13. NoGhosts(item', versions')
    BY <2>2, <2>7, <2>8, <2>9, <1>t DEF NoGhosts, Exists
  <2>14. ASSUME NEW x \in objects
         PROVE  \E k \in Items : x \in versions'[k] \cup {item'[k].object}
    <3>1. PICK k \in Items : x \in versions[k] \cup {item[k].object}
      BY <1>t DEF Collected
    <3>2. CASE k = d
      BY <3>1, <3>2, <2>2, <2>7, <2>8
    <3>3. CASE k = t
      BY <3>1, <3>3, <2>2, <2>9
    <3>4. CASE k # d /\ k # t
      BY <3>1, <3>4, <2>8, <2>9
    <3> QED BY <3>2, <3>3, <3>4
  <2>15. Collected(item', versions', objects')
    BY <2>1, <2>14 DEF Collected
  <2>16. \A k \in Items : item'[k] = Absent /\ Exists(item, k) => k = d
    BY <2>7, <2>8, AbsentRow DEF Exists
  <2> QED BY <2>1, <2>12, <2>13, <2>15, <2>16, TreeIdle
<1> QED
  BY <1>1, <1>2, <1>3, <1>4, <1>5, <1>6, <1>7, <1>8, <1>9, <1>10 DEF Finish

LEMMA TreeUpload ==
    ASSUME Serial, TypeInv, TreeInv, NEW r \in Requests, NEW i \in Items, NEW o \in Objects,
           NEW t \in Items \cup {None}, NEW p \in Items \cup {Root}, Upload(r, i, o, t, p)
    PROVE  TreeInv' /\ OnlyTrashGoes
<1>t. /\ item \in [Items -> ItemRow] /\ Tree(item) /\ objects \in SUBSET Objects
      /\ NoGhosts(item, versions) /\ Collected(item, versions, objects)
  BY DEF TypeInv, TreeInv, Rows
<1> PICK q : q = [op |-> IF t = None THEN "upload" ELSE "replace", phase |-> "uploaded",
                  item |-> t, dest |-> i, folder |-> p, ids |-> {}, objs |-> {}, rows |-> <<>>]
  OBVIOUS
<1> PICK row : row = [type |-> "file", parent |-> Root, object |-> o, batch |-> None]
  OBVIOUS
<1>1. /\ ~Exists(item, i) /\ FolderOk(p) /\ t # i /\ versions' = versions
      /\ t # None => item[t].type = "file"
      /\ objects' = objects \cup {o} /\ req' = [req EXCEPT ![r] = q]
      /\ item' = [item EXCEPT ![i] = row]
  BY DEF Upload, FreshItem
<1>2. row \in ItemRow /\ Folder(item, row.parent) /\ row.type = "file"
  BY DEF ItemRow, Folder
<1>3. Tree(item')
  BY <1>1, <1>2, <1>t, LeafAdded
<1>4. item'[i] = row /\ \A k \in Items : k # i => item'[k] = item[k]
  BY <1>1, <1>t
<1>5. versions[i] = {} /\ item[i].object = None
  BY <1>1, <1>t DEF NoGhosts, Absent
<1>6. NoGhosts(item', versions')
  BY <1>1, <1>2, <1>4, <1>t DEF NoGhosts, Exists
<1>7. ASSUME NEW x \in objects \cup {o}
      PROVE  \E k \in Items : x \in versions[k] \cup {item'[k].object}
  <2>1. CASE x = o
    BY <2>1, <1>4
  <2>2. CASE x # o
    <3>1. PICK k \in Items : x \in versions[k] \cup {item[k].object}
      BY <2>2, <1>t DEF Collected
    <3>2. x # None
      BY <2>2, <1>t, NullAssumption
    <3>3. k # i
      BY <3>1, <3>2, <1>5
    <3> QED BY <3>1, <3>3, <1>4
  <2> QED BY <2>1, <2>2
<1>8. Collected(item', versions', objects')
  BY <1>1, <1>7 DEF Collected
<1>9. Folder(item', p)
  <2>1. Folder(item, p)
    BY <1>1, FolderOkFolder
  <2>2. p = Root \/ p # i
    BY <2>1, <1>1 DEF Folder, Active
  <2> QED BY <2>1, <2>2, <1>4 DEF Folder, Active, Exists
<1>10. t # None => t \in Items /\ item'[t].type = "file"
  BY <1>1, <1>4
<1>11. FreshUpload(q, item', versions')
  BY <1>1, <1>4, <1>5, <1>9, <1>10 DEF FreshUpload
<1>12. Pending(q, item', versions', objects')
  BY <1>11 DEF Pending
<1>13. TreeInv'
  BY <1>1, <1>3, <1>6, <1>8, <1>12, TreeKept
<1>14. OnlyTrashGoes
  BY <1>1, <1>2, <1>4, AbsentRow DEF OnlyTrashGoes, Exists
<1> QED BY <1>13, <1>14

LEMMA TreeInit == Init => TreeInv
<1> SUFFICES ASSUME Init PROVE TreeInv
  OBVIOUS
<1>1. \A i \in Items : ~Exists(item, i)
  BY AbsentRow DEF Init, Exists
<1>2. Tree(item)
  BY <1>1 DEF Tree, Links, AllReachable
<1>3. NoGhosts(item, versions) /\ Collected(item, versions, objects)
  BY DEF Init, NoGhosts, Collected
<1>4. \A r \in Requests : Pending(req[r], item, versions, objects)
  BY PendingIdle DEF Init
<1> QED BY <1>2, <1>3, <1>4 DEF TreeInv

LEMMA TreeStep ==
    Serial /\ TypeInv /\ Current /\ TreeInv /\ [Next]_vars
      => TreeInv' /\ (OnlyTrashGoes \/ UNCHANGED vars)
<1> SUFFICES ASSUME Serial, TypeInv, Current, TreeInv, [Next]_vars
             PROVE  TreeInv' /\ (OnlyTrashGoes \/ UNCHANGED vars)
  OBVIOUS
<1>1. CASE UNCHANGED vars
  <2>1. item' = item /\ versions' = versions /\ objects' = objects /\ req' = req
    BY <1>1 DEF vars
  <2> QED BY <1>1, <2>1 DEF TreeInv
<1>2. ASSUME NEW r \in Requests, Read(r) PROVE TreeInv' /\ OnlyTrashGoes
  BY <1>2, TreeRead
<1>3. ASSUME NEW r \in Requests, Finish(r) PROVE TreeInv' /\ OnlyTrashGoes
  BY <1>3, TreeFinish
<1>4. ASSUME NEW r \in Requests, NEW i \in Items, NEW o \in Objects,
             NEW t \in Items \cup {None}, NEW p \in Items \cup {Root}, Upload(r, i, o, t, p)
      PROVE  TreeInv' /\ OnlyTrashGoes
  BY <1>4, TreeUpload
<1> QED BY <1>1, <1>2, <1>3, <1>4 DEF Next

LEMMA TreeInvariant ==
    ASSUME Serial PROVE Spec => [](TypeInv /\ Current /\ TreeInv)
<1>1. Init => TypeInv /\ Current /\ TreeInv
  BY InitType, CurrentInit, TreeInit
<1>2. TypeInv /\ Current /\ TreeInv /\ [Next]_vars => (TypeInv /\ Current /\ TreeInv)'
  BY TypeStep, CurrentStep, TreeStep
<1> QED BY <1>1, <1>2, PTL DEF Spec

(* Served one by one, no request leaves an object behind that nothing       *)
(* refers to: the purge that takes its last reference collects it.          *)
THEOREM NothingLeftOver ==
    ASSUME Serial PROVE Spec => []NothingOrphaned
<1>1. TreeInv => NothingOrphaned
  BY DEF TreeInv, Collected, NothingOrphaned, References
<1> QED BY <1>1, TreeInvariant, PTL

(* Served one by one, requests of any kind leave nothing outside the trash  *)
(* in a folder that is in the trash or gone: not a trash of a folder that   *)
(* has items of older batches below it, nor a restore of one batch out of a *)
(* folder of another, nor a purge, a copy or an item that changes its       *)
(* folder, by move_item or, with a circle as the result, by patch_item.     *)
THEOREM NothingEverBelowTrash ==
    ASSUME Serial PROVE Spec => []NothingBelowTrash
<1>1. TreeInv => NothingBelowTrash
  BY ParentFolder DEF TreeInv, NothingBelowTrash, Folder
<1> QED BY <1>1, TreeInvariant, PTL

(* It takes patch_item to close a circle: served one by one, all the other  *)
(* requests keep every item outside the trash below the root.               *)
THEOREM OnlyPatchClosesCircles ==
    ASSUME Serial, Checked PROVE Spec => []ActiveReachable
<1>1. TreeInv => ActiveReachable
  BY ActiveTree DEF TreeInv, ActiveReachable
<1> QED BY <1>1, TreeInvariant, PTL

(* Served one by one, requests remove no row that is not in the trash,      *)
(* except the uploaded row whose content a replaced file takes over.        *)
THEOREM OnlyTrashEverPurged ==
    ASSUME Serial PROVE Spec => OnlyTrashPurged
<1>1. TypeInv /\ Current /\ TreeInv /\ [Next]_vars
        => [\A i \in Items : Exists(item, i) /\ item'[i] = Absent
             => \/ Trashed(item, i)
                \/ \E r \in Requests : req[r].op = "replace" /\ req[r].dest = i]_vars
  BY TreeStep DEF OnlyTrashGoes
<1> QED BY <1>1, TreeInvariant, PTL DEF Spec, OnlyTrashPurged
=============================================================================
