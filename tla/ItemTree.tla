------------------------------- MODULE ItemTree -------------------------------
(***************************************************************************)
(* The items of one user: folders and files, their history, the trash, and *)
(* the stored objects they refer to (items_phase2_patch.py,                *)
(* phase3_ops_patch.py, phase4_copy_patch_v2.py, trash_retention_job.py,   *)
(* ui_upload_bridge_v2.py, object_gc.py).                                  *)
(*                                                                         *)
(* A request is one transaction at READ COMMITTED without row locks on     *)
(* what it reads: it reads the committed rows (phase "read"), and writes   *)
(* and commits later, whatever happened in between.  A purge is held apart *)
(* once more, in phase "deleted": its rows are locked and its decision     *)
(* which objects nobody refers to is taken, but not yet committed.         *)
(*                                                                         *)
(* A file has one object: multipart files, which refer to several through  *)
(* item_parts, are left out.  A row is in the trash when it has a batch;   *)
(* trashed_at and trash_batch_id are always written together.              *)
(***************************************************************************)
CONSTANTS
    Items,      \* item_id values; bounds the rows that exist at once
    Root,       \* ROOT_ID
    Objects,    \* file_object_id values
    Batches,    \* trash_batch_id values
    None,       \* SQL NULL
    Requests,   \* requests served at the same time; one makes the model serial
    Ops         \* the kinds of request that are made

ASSUME NullAssumption == None \notin Items \cup Objects \cup Batches \cup {Root}
ASSUME RootAssumption == Root \notin Items
ASSUME OpsAssumption ==
    Ops \subseteq {"create_folder", "upload", "replace", "move", "patch", "trash",
                   "restore", "purge", "copy", "restore_version"}

VARIABLES
    item,       \* the items rows
    versions,   \* versions[i]: objects of the item_versions rows of i
    objects,    \* the objects rows that exist
    req         \* what each open request has read

vars == <<item, versions, objects, req>>

Absent == [type |-> "absent", parent |-> None, object |-> None, batch |-> None]
ItemRow == [type : {"absent", "folder", "file"}, parent : Items \cup {Root, None},
            object : Objects \cup {None}, batch : Batches \cup {None}]

NoRequest == [op |-> "none", phase |-> "none", item |-> None, dest |-> None,
              folder |-> None, ids |-> {}, objs |-> {}, rows |-> <<>>]

Exists(rows, i)  == rows[i].type # "absent"
Trashed(rows, i) == Exists(rows, i) /\ rows[i].batch # None
Active(rows, i)  == Exists(rows, i) /\ rows[i].batch = None

(* _collect_descendants: the item and everything below it, trashed or not:  *)
(* the least set with i and all children of its members.                    *)
Descendants(rows, i) ==
    {k \in Items : \A S \in SUBSET Items :
        i \in S /\ (\A c \in Items : Exists(rows, c) /\ rows[c].parent \in S => c \in S)
        => k \in S}

(* _collect_descendants walks down WITH RECURSIVE ... UNION ALL, which goes  *)
(* on without end from an item that is below itself: such a request is       *)
(* cancelled and changes nothing.                                            *)
OnCircle(rows, i) == rows[i].parent \in Descendants(rows, i)

(* Fault: rows without an object count as well. *)
ObjectsOfAnyRow(rows, vs, ids) == UNION {vs[i] \cup {rows[i].object} : i \in ids}

(* collect_file_object_ids_for_items *)
ObjectsOf(rows, vs, ids) ==
    (UNION {vs[i] \cup {rows[i].object} : i \in ids}) \ {None}

TypeOK ==
    /\ item \in [Items -> ItemRow]
    /\ versions \in [Items -> SUBSET (Objects \cup {None})]
    /\ objects \subseteq Objects
    /\ \A r \in Requests : /\ req[r].op \in Ops \cup {"upload", "none"}
                           /\ req[r].phase \in {"none", "uploaded", "read", "deleted"}
                           /\ req[r].item \in Items \cup {None}
                           /\ req[r].ids \subseteq Items /\ req[r].objs \subseteq Objects

Init ==
    /\ item = [i \in Items |-> Absent]
    /\ versions = [i \in Items |-> {}]
    /\ objects = {}
    /\ req = [r \in Requests |-> NoRequest]

-----------------------------------------------------------------------------
Free(r) == req[r].phase = "none"

(* uuid4: an id no row has and no request knows of. *)
FreshItem(i) ==
    /\ ~Exists(item, i)
    /\ \A r \in Requests : req[r].item # i /\ req[r].dest # i /\ i \notin req[r].ids
                           /\ (req[r].rows # <<>> => ~Exists(req[r].rows, i))
FreshObject(o) ==
    /\ o \notin objects
    /\ \A i \in Items : item[i].object # o /\ o \notin versions[i]
    /\ \A r \in Requests : o \notin req[r].objs /\ req[r].dest # o
         /\ (req[r].rows # <<>> => \A i \in Items : req[r].rows[i].object # o)
FreshBatch(b) ==
    /\ \A i \in Items : item[i].batch # b
    /\ \A r \in Requests : req[r].rows # <<>>
                            => \A i \in Items : req[r].rows[i].batch # b

(* _assert_folder_owner, or the root *)
FolderOk(d) == d = Root \/ (d \in Items /\ Active(item, d) /\ item[d].type = "folder")

(* The rows a purge has deleted but not committed are locked. *)
Unlocked(ids) ==
    \A r \in Requests : req[r].phase = "deleted" => req[r].ids \cap ids = {}

Open(r, op, i, d, ids, objs) ==
    req' = [req EXCEPT ![r] = [op |-> op, phase |-> "read", item |-> i, dest |-> d,
                               folder |-> req[r].folder, ids |-> ids, objs |-> objs, rows |-> item]]

Reads(r, op) ==
    /\ op \in Ops
    /\ Free(r)
    /\ UNCHANGED <<item, versions, objects>>

ReadCreateFolder(r, d) ==
    Reads(r, "create_folder") /\ FolderOk(d) /\ Open(r, "create_folder", None, d, {}, {})

(* move_item: never into the folder itself or below it. *)
ReadMove(r, i, d) ==
    /\ Reads(r, "move")
    /\ Active(item, i) /\ FolderOk(d)
    /\ item[i].type = "folder" => ~OnCircle(item, i) /\ d \notin Descendants(item, i)
    /\ Open(r, "move", i, d, {}, {})

(* patch_item: only the item itself is refused as its folder.  A new name    *)
(* alone writes back the folder that was read.                               *)
ReadPatch(r, i, d) ==
    /\ Reads(r, "patch")
    /\ Active(item, i) /\ FolderOk(d) /\ d # i
    /\ Open(r, "patch", i, d, {}, {})

ReadTrash(r, i) ==
    /\ Reads(r, "trash")
    /\ Active(item, i) /\ ~OnCircle(item, i)
    /\ Open(r, "trash", i, None, Descendants(item, i), {})

(* restore_item: everything that went to the trash with i. *)
ReadRestore(r, i) ==
    /\ Reads(r, "restore")
    /\ Trashed(item, i)
    /\ Open(r, "restore", i, None, {k \in Items : item[k].batch = item[i].batch}, {})

(* purge_item, purge_item_permanent *)
ReadPurge(r, i) ==
    /\ Reads(r, "purge")
    /\ Trashed(item, i) /\ ~OnCircle(item, i)
    /\ LET ids == Descendants(item, i) IN
       Open(r, "purge", i, None, ids, ObjectsOf(item, versions, ids))

(* The topmost of the rows that are in the trash for too long. *)
TopLevelExpired(expired) ==
    LET old == {i \in Items : item[i].batch \in expired} IN
    {i \in old : item[i].parent \notin old}

(* The trash retention job and purge_expired_trash: these and all below.    *)
ReadExpire(r, expired) ==
    LET roots == TopLevelExpired(expired)
        ids   == UNION {Descendants(item, i) : i \in roots} IN
    /\ Reads(r, "purge")
    /\ roots # {} /\ \A i \in roots : ~OnCircle(item, i)
    /\ Open(r, "purge", None, None, ids, ObjectsOf(item, versions, ids))

(* copy_item: the copy goes beside the original when no folder is named. *)
ReadCopy(r, i, d) ==
    /\ Reads(r, "copy")
    /\ Active(item, i) /\ FolderOk(d)
    /\ item[i].type = "folder" => ~OnCircle(item, i)
    /\ Open(r, "copy", i, IF d = Root THEN item[i].parent ELSE d, {}, {})

ReadRestoreVersion(r, i, v) ==
    /\ Reads(r, "restore_version")
    /\ Active(item, i) /\ v \in versions[i]
    /\ Open(r, "restore_version", i, v, {}, {})

(* ui_upload: folder p is looked at, and the DataServer commits the file    *)
(* below the root.  The bridge goes on with t, the file to replace, or None.*)
(* (No row type is checked; the callers name files only.)                   *)
Upload(r, i, o, t, p) ==
    /\ "upload" \in Ops
    /\ Free(r)
    /\ FreshItem(i) /\ FreshObject(o) /\ FolderOk(p) /\ t # i
    /\ t # None => "replace" \in Ops /\ item[t].type = "file"
    /\ objects' = objects \cup {o}
    /\ item' = [item EXCEPT ![i] = [type |-> "file", parent |-> Root,
                                    object |-> o, batch |-> None]]
    /\ req' = [req EXCEPT ![r] = [op |-> IF t = None THEN "upload" ELSE "replace",
                                 phase |-> "uploaded", item |-> t, dest |-> i,
                                 folder |-> p, ids |-> {}, objs |-> {}, rows |-> <<>>]]
    /\ UNCHANGED versions

(* _finalize_uploaded_item_metadata puts the file into its folder.  If the  *)
(* folder or the file is gone the request ends in an error.                 *)
FinalizeUpload(r) ==
    LET i == req[r].dest  p == req[r].folder IN
    /\ req[r].op = "upload"
    /\ Unlocked({i})
    /\ item' = IF FolderOk(p) /\ Active(item, i)
               THEN [item EXCEPT ![i].parent = p] ELSE item
    /\ req' = [req EXCEPT ![r] = NoRequest]
    /\ UNCHANGED <<versions, objects>>

(* apply_uploaded_item_as_new_current, or an error when one is gone. *)
ReadReplace(r) ==
    /\ req[r].op = "replace" /\ req[r].phase = "uploaded"
    /\ IF Active(item, req[r].item) /\ Active(item, req[r].dest)
       THEN Open(r, "replace", req[r].item, req[r].dest, {}, {})
       ELSE req' = [req EXCEPT ![r] = NoRequest]
    /\ UNCHANGED <<item, versions, objects>>

-----------------------------------------------------------------------------
(* The writes of a request, in one step with its commit. *)
Finishes(r, op) ==
    /\ req[r].op = op /\ req[r].phase = "read"
    /\ req' = [req EXCEPT ![r] = NoRequest]

FinishCreateFolder(r, i) ==
    /\ Finishes(r, "create_folder")
    /\ FreshItem(i)
    /\ item' = [item EXCEPT ![i] = [Absent EXCEPT !.type = "folder",
                                                 !.parent = req[r].dest]]
    /\ UNCHANGED <<versions, objects>>

(* UPDATE ... RETURNING of a row that is gone ends the request in an error. *)
FinishMove(r) ==
    LET i == req[r].item IN
    /\ Finishes(r, "move") \/ Finishes(r, "patch")
    /\ Unlocked({i})
    /\ item' = IF Exists(item, i) THEN [item EXCEPT ![i].parent = req[r].dest] ELSE item
    /\ UNCHANGED <<versions, objects>>

(* Fault: what is below the item stays out of the trash. *)
TrashItemOnly(r, b) ==
    LET i == req[r].item IN
    /\ Finishes(r, "trash")
    /\ FreshBatch(b) /\ Unlocked(req[r].ids)
    /\ item' = IF Exists(item, i) THEN [item EXCEPT ![i].batch = b] ELSE item
    /\ UNCHANGED <<versions, objects>>

(* trash_item: also what was already in the trash below i joins the batch. *)
FinishTrash(r, b) ==
    /\ Finishes(r, "trash")
    /\ FreshBatch(b) /\ Unlocked(req[r].ids)
    /\ item' = [i \in Items |-> IF i \in req[r].ids /\ Exists(item, i)
                                THEN [item[i] EXCEPT !.batch = b] ELSE item[i]]
    /\ UNCHANGED <<versions, objects>>

(* Fault: the restored item stays in its folder, even if that is trashed. *)
RestoreInPlace(r) ==
    /\ Finishes(r, "restore")
    /\ Unlocked(req[r].ids)
    /\ item' = [i \in Items |->
          IF i \in {req[r].item} /\ Exists(item, i)
          THEN [item[i] EXCEPT !.batch = None] ELSE item[i]]
    /\ UNCHANGED <<versions, objects>>

(* restore_item: the named item goes to the root when its folder was in the *)
(* trash.                                                                   *)
FinishRestore(r) ==
    LET q == req[r]  p == q.rows[q.item].parent
        homeless == p \in Items /\ Trashed(q.rows, p) IN
    /\ Finishes(r, "restore")
    /\ Unlocked(q.ids)
    /\ item' = [i \in Items |->
          IF i \in q.ids /\ Exists(item, i)
          THEN [item[i] EXCEPT !.batch = None,
                               !.parent = IF i = q.item /\ homeless THEN Root ELSE @]
          ELSE item[i]]
    /\ UNCHANGED <<versions, objects>>

(* Fault: versions are not looked at. *)
UnreferencedByItems(objs, ids) ==
    {o \in objs : \A i \in Items \ ids : item[i].object # o}

(* find_unreferenced_file_object_ids, in the eyes of a transaction that has *)
(* deleted ids: other transactions' deletions are not committed yet.        *)
Unreferenced(objs, ids) ==
    {o \in objs : \A i \in Items \ ids : item[i].object # o /\ o \notin versions[i]}

(* The DELETE statements of a purge and gc_unreferenced_objects; an object  *)
(* another purge is deleting is left to that one.                           *)
PurgeDelete(r) ==
    LET q == req[r] IN
    /\ q.op = "purge" /\ q.phase = "read"
    /\ Unlocked(q.ids)
    /\ req' = [req EXCEPT ![r].phase = "deleted",
                          ![r].objs = {o \in Unreferenced(q.objs, q.ids) \cap objects :
                             \A k \in Requests : req[k].phase = "deleted"
                                                  => o \notin req[k].objs}]
    /\ UNCHANGED <<item, versions, objects>>

PurgeCommit(r) ==
    /\ req[r].phase = "deleted"
    /\ item' = [i \in Items |-> IF i \in req[r].ids THEN Absent ELSE item[i]]
    /\ versions' = [i \in Items |-> IF i \in req[r].ids THEN {} ELSE versions[i]]
    /\ objects' = objects \ req[r].objs
    /\ req' = [req EXCEPT ![r] = NoRequest]

(* _copy_file: the copy refers to the same object. *)
CopyFile(r, i) ==
    LET q == req[r] IN
    /\ Finishes(r, "copy")
    /\ q.rows[q.item].type = "file"
    /\ FreshItem(i)
    /\ item' = [item EXCEPT ![i] = [q.rows[q.item] EXCEPT !.parent = q.dest]]
    /\ UNCHANGED <<versions, objects>>

(* _copy_folder_recursive: every descendant, trashed or not, is inserted    *)
(* anew below the copy.  _collect_descendants returns no file_object_id     *)
(* column, so no copied row has one.                                        *)
CopyFolder(r) ==
    LET q == req[r]  ds == Descendants(q.rows, q.item) IN
    /\ Finishes(r, "copy")
    /\ q.rows[q.item].type = "folder"
    /\ \E new \in [ds -> {i \in Items : FreshItem(i)}] :
         /\ \A i, k \in ds : i # k => new[i] # new[k]
         /\ item' = [n \in Items |->
              IF \E i \in ds : new[i] = n
              THEN LET i == CHOOSE k \in ds : new[k] = n IN
                   [Absent EXCEPT !.type = q.rows[i].type,
                      !.parent = IF i = q.item THEN q.dest ELSE new[q.rows[i].parent]]
              ELSE item[n]]
    /\ UNCHANGED <<versions, objects>>

(* restore_version: the current content becomes a version first. *)
FinishRestoreVersion(r) ==
    LET q == req[r]  i == q.item IN
    /\ Finishes(r, "restore_version")
    /\ Unlocked({i})
    /\ IF Exists(item, i)
       THEN /\ versions' = [versions EXCEPT ![i] = @ \cup {q.rows[i].object}]
            /\ item' = [item EXCEPT ![i].object = q.dest]
       ELSE UNCHANGED <<item, versions>>
    /\ UNCHANGED objects

(* The folder of a replaced file: where the upload wanted it, unless at the root. *)
ReplacedParent(q) ==
    IF q.folder = Root THEN item[q.item].parent ELSE q.folder

(* Fault: the replaced content is not kept as a version. *)
ReplaceWithoutSnapshot(r) ==
    LET q == req[r]  t == q.item IN
    /\ Finishes(r, "replace")
    /\ Unlocked({t, q.dest})
    /\ item' = [item EXCEPT ![t].object = q.rows[q.dest].object, ![t].batch = None,
                            ![t].parent = ReplacedParent(q), ![q.dest] = Absent]
    /\ UNCHANGED <<versions, objects>>

(* apply_uploaded_item_as_new_current: the target takes the uploaded        *)
(* object, its old content becomes a version, the uploaded row goes.        *)
FinishReplace(r) ==
    LET q == req[r]  t == q.item IN
    /\ Finishes(r, "replace")
    /\ Unlocked({t, q.dest})
    /\ IF Exists(item, t)
       THEN /\ versions' = [versions EXCEPT ![t] = @ \cup {q.rows[t].object}]
            /\ item' = [item EXCEPT ![t].object = q.rows[q.dest].object,
                                    ![t].batch = None, ![t].parent = ReplacedParent(q),
                                    ![q.dest] = Absent]
       ELSE UNCHANGED <<item, versions>>
    /\ UNCHANGED objects

Read(r) ==
    \/ \E i \in Items, d \in Items \cup {Root} :
         ReadMove(r, i, d) \/ ReadPatch(r, i, d) \/ ReadCopy(r, i, d)
    \/ \E d \in Items \cup {Root} : ReadCreateFolder(r, d)
    \/ \E i \in Items : ReadTrash(r, i) \/ ReadRestore(r, i) \/ ReadPurge(r, i)
    \/ \E B \in SUBSET Batches : ReadExpire(r, B)
    \/ \E i \in Items : \E v \in versions[i] : ReadRestoreVersion(r, i, v)
    \/ ReadReplace(r)
    \/ FinalizeUpload(r)

Finish(r) ==
    \/ \E i \in Items : FinishCreateFolder(r, i) \/ CopyFile(r, i)
    \/ FinishMove(r)
    \/ \E b \in Batches : FinishTrash(r, b)
    \/ FinishRestore(r)
    \/ PurgeDelete(r)
    \/ PurgeCommit(r)
    \/ CopyFolder(r)
    \/ FinishRestoreVersion(r)
    \/ FinishReplace(r)

Next ==
    \E r \in Requests :
        \/ Read(r)
        \/ Finish(r)
        \/ \E i \in Items, o \in Objects, t \in Items \cup {None},
              p \in Items \cup {Root} : Upload(r, i, o, t, p)

Spec == Init /\ [][Next]_vars
-----------------------------------------------------------------------------
References(i) == versions[i] \cup {item[i].object}

(* An object a file or a version refers to exists: garbage collection never *)
(* takes the bytes away from a file.                                        *)
NoDanglingReference ==
    \A i \in Items : References(i) \ {None} \subseteq objects

(* An object nothing refers to any more is collected by the purge that took *)
(* its last reference, in whatever order copies, versions and originals go. *)
NothingOrphaned ==
    objects \subseteq UNION {References(i) : i \in Items}

(* What is outside the trash lies in a folder outside the trash, through    *)
(* every trash and restore of what is above and below it: it is listed, and *)
(* a purge of the trash does not take it along.                             *)
NothingBelowTrash ==
    \A i \in Items : Active(item, i) =>
        \/ item[i].parent = Root
        \/ Active(item, item[i].parent) /\ item[item[i].parent].type = "folder"

(* Every item outside the trash is below the root through folders that are  *)
(* outside the trash: it can be seen, moved and trashed, and no walk up or  *)
(* down the tree runs in a circle.  move_item says "folder cannot move into *)
(* itself or its descendants"; patch_item moves it there.                   *)
ActiveReachable ==
    \A S \in SUBSET Items :
        (\A c \in Items : Active(item, c) /\ item[c].parent \in S \cup {Root} => c \in S)
        => \A i \in Items : Active(item, i) => i \in S

(* A purge, by hand or by age, removes only what is in the trash; a replace *)
(* removes only the uploaded row whose content the target took over.        *)
OnlyTrashPurged ==
    [][\A i \in Items : Exists(item, i) /\ item'[i] = Absent
         => \/ Trashed(item, i)
            \/ \E r \in Requests : req[r].op = "replace" /\ req[r].dest = i]_vars
=============================================================================
