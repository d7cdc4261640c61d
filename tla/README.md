# TLA+ models of Tricloud beta

Tricloud stores each file as encrypted objects, three replicas of every object,
on storage nodes that users run at home.  This directory models the parts of
the backend where bytes can get lost: which rows say where an object is, which
processes change them, which messages move the bytes, and what is left after
any of them stops half way.  Paths below are relative to the repository.

## 1. The system

| part | state | operations | talks to |
|---|---|---|---|
| **DataServer** `backend/server.py` | one thread, two ZeroMQ ROUTER sockets; in memory `uploads`, `transfers`, `repairs`, `audit_pending` | upload, download, repair, audit, deletion handlers; polling loop `serve_forever` | PostgreSQL, nodes, clients |
| **storage node** `backend/node.py` | `objects/` on disk, `upload_sessions` and `transfers` in memory | store, finalize, stream, audit, abort, delete | DataServer only |
| **replica repair** `replica_repair_service.py`, `repair_transfer.py`, `repair_object_lock.py` | `repair_jobs`, `repair_cleanup_queue`, `replicas`, `replica_health`, `nodes.reserved_bytes` | enqueue, claim, reserve, verify, publish, retire, retry, cancel, requeue, cleanup | called by DataServer, admin API, maintenance worker |
| **storage audit** `storage_audit_service.py` | `audit_jobs`, `chunk_audit_slices` | schedule, claim, complete, recover stale | DataServer |
| **replica health** `replica_health_service.py` | `replica_health` | observe, mark, detect shortage | DataServer, maintenance worker |
| **object GC** `object_gc.py` | `object_gc_queue` | remove metadata of unreferenced objects, queue node deletions | item API, trash job, DataServer |
| **uploads** in `server.py`, `node.py`, `ui_upload_bridge_v2.py`, `client.py` | `upload_sessions`, `multipart_*`, `items`, node sessions | init, chunk, commit (check, finalize), multipart commit | client, DataServer, nodes |
| **downloads** `server.py`, `download_failover.py` | `transfers` | begin, attempt, failover, resend, timeout | client, DataServer, nodes |
| **item tree** `items_phase2_patch.py`, `phase3_ops_patch.py`, `phase4_copy_patch_v2.py`, `trash_retention_job.py` | `items`, `item_versions`, `item_parts` | create, move, copy, version, trash, restore, purge | object GC |
| **maintenance worker** `maintenance_worker.py` | none | scan for short objects, operator commands | repair, health |
| **admin API** `admin_api.py`, `admin_service.py`, ... | `admin_users`, controls, releases, log | manual repair, cancel, retry; reviews | repair |
| **usage and billing** `usage_metering.py`, `billing_monthly_close_integrated.py` | usage events, lifetimes, invoices | record, close a month, pay out | Stripe |
| **registration, heartbeat** `node_provider_v2.py`, `node_heartbeat_stats_patch.py`, `node_phase1_runner.py` | `nodes` | register, heartbeat | DataServer |
| **library, sharing, backup targets** `phase5_library_patch.py`, `backup_targets_patch.py` | rows of one user | CRUD | - |
| **control API, authentication, schema** | sessions, tables | login, routes, DDL | - |
| **front ends** `electron/`, `src/`, `admin-web/` | user interface | | APIs |

How they interact.  All durable state is in PostgreSQL (READ COMMITTED).  The
API processes, the worker and the DataServer write it concurrently; transactions
about one object first lock its `objects` row (`repair_object_lock.py`), those
about one repair lock its job row.  Only the DataServer speaks to nodes.  Its
ROUTER socket drops frames to a node that is not connected without an error,
and there is no acknowledgement below the operation's own reply.  It handles one
frame or one polling duty at a time, so its memory is consistent between
handlers, but a handler with two transactions can be overtaken in the database.

What is hard here: the same object observed, repaired, published, purged and
copied again by different processes; replies and deletions that arrive after
the world they were meant for is gone; the DataServer or a node stopping
between any two steps; a transaction failing in the middle of a handler; and
capacity that has to be given back exactly once on every path.

What makes each part correct:

* repair: at most one active job per object; never more replicas than the
  target; a published replica was verified; a healthy one is never given up;
  reserved capacity is exact; every copy that was begun is published, wanted or
  queued for removal; an attempt always ends.
* nodes: a late frame of an old attempt never touches what a newer one stored.
* audits: a result counts only for the attempt it was asked for.
* object GC: an unreferenced object disappears from every node, a referenced
  or repaired one from none.
* uploads: a session commits on all of its nodes or on none; an item exists only
  over committed parts; capacity and billing follow the outcome.
* downloads: whatever replicas answer in whatever order, a chunk is forwarded
  at most once, "done" means all of them (but those a failing database call
  dropped: section 5), everything forwarded is metered once, and the transfer
  ends.
* item tree: what is not in the trash can be reached from the root (`patch_item`
  breaks this: section 5); every object an item or version refers to exists.
* billing: a month is closed once whatever is retried.

## 2. Modules

| module | models | composed of |
|---|---|---|
| `ReplicaDb` | the rows of the repair tables and the row-level helpers | - |
| `RepairJobs` | the transactions of repair, audit and GC as one action each, with a free environment in place of the transfer | extends `ReplicaDb` |
| `RepairTransfer` | the DataServer's memory, the nodes, the messages, crashes; every step uses the transactions of `RepairJobs` | extends `RepairJobs` |
| `AtomicUpload` | what the upload of one object promises: commit on all chosen nodes or not at all | - |
| `Upload` | clients, DataServer and nodes uploading files, whole or cut into parts; deadlines, restarts, lost frames | instances of `AtomicUpload`, one per session |
| `Delivery` | what a download promises its client: each chunk at most once, "done" only after all that were not dropped | - |
| `Download` | attempts over replicas, metering, the daily limit, what is learned about replicas | instances of `Delivery`, one per transfer |
| `ItemTree` | the items of a user, their versions and trash, and the objects they refer to; requests that read and write at different times | - |
| `RepairProofs` | theorems about `RepairJobs`: jobs, audits and replicas, and the accounts of capacity and of copies | extends `RepairJobs`, `TLAPS` |
| `RepairTransferProofs` | rows and frames of `RepairTransfer`: the refinement of `RepairJobs` | extends `RepairTransfer`, `RepairProofs` |
| `RepairBytes` | what `RepairTransfer` ensures of the bytes on the nodes' disks | extends `RepairTransferProofs` |
| `Counters`, `CounterTheorems` | the total of a function of counters, and facts about such totals | used by `Download`, `Upload` and their proofs |
| `DownloadProofs` | theorems about `Download` | extends `Download`, `CounterTheorems` |
| `UploadProofs` | the upload of a session refines its promise | extends `Upload`, `TLAPS` |
| `UploadAccounts` | items, metering, reservations, files, failures and answers of `Upload` | extends `UploadProofs`, `CounterTheorems` |
| `ItemTreeProofs` | theorems about `ItemTree`, and the lemmas on trees of rows they rest on | extends `ItemTree`, `TLAPS` |
| `MC...` | symmetry, and the room on the nodes, for TLC | |

`RepairJobs` is the abstract specification of the composed system:
`RepairTransfer` is checked to implement it (`DbSpec` as a PROPERTY; the
refinement mapping is the identity on the database rows).  What `RepairJobs`
leaves to its environment - when a copy may be started again, when a source
failure may still be noted - is written as guards of `Worker` and
`SourceFailed`, and the refinement shows that the DataServer respects them.

`Upload` and `Download` each contain one instance of their abstract
specification per session and per transfer (`Promise(x) == INSTANCE ... WITH`);
the properties `KeepsAtomicity` and `KeepsPromise` say that every step is, for
each of them, a step of the promise or a stutter.  The mappings: a session's
`outcome` is its row's status (no row is `"none"`), `chosen` the nodes in the
row, `stored` the nodes whose disk has all of the object; a transfer's `sent`
and `answer` are what the client was sent, `dropped` the chunks whose handler
failed after it had put them into `got`.  What the three meet in is the row
of a replica: an upload commits the replicas that `RepairJobs` starts from
(`reserved` counts them in both), a download is one of the observers of
`ReplicaObserved`.  They are not composed into one state space: an object that
is being uploaded has no repair job and a download writes nothing but
`replica_health` and its own rows.

State and code.

* `job[j]` is a row of `repair_jobs`: status, attempt count, target, transfer
  id, and whether its target's capacity is reserved.  `audit[j]` is the latest
  `repair_verify` row of `audit_jobs` for it.
* `transfer[t]` stands for a transfer id (uuid4) and its row in
  `repair_cleanup_queue`, whose unique key is (node, transfer).
* `reserved[n]` is `nodes.reserved_bytes` with every object of size one;
  `Capacity` is in objects too.
* `health[o][n]` is `replica_health.status`; `"none"` is the missing row.
* `ctx[j]` is the `RepairTransferState` in `DataServer.repairs`, with two
  phases the code does not name: `starting` and `failing`, the point between
  two transactions of one handler.  While a context is in one of them (`Idle`
  is false) no other handler runs, but other processes do.
* `auditPending[j]` is the current event of `audit_pending`.  A fresh event id
  is the pair of the transfer and the attempt.
* `toNode[n]`, `toServer[n]` are the frames on one connection, in order.
* `disk[o][n]` is the object directory on a node and the `repair_transfer_id`
  its metadata names (`Upload` for one an upload wrote).

In `Upload`:

* `rows[u]` are the rows of `upload_sessions` made for file u, one per part,
  with the size and nodes of `objects` and `replicas`; a file in one piece has
  one.  `multipart[u]` is `multipart_uploads.status`, `item[u]` the parts the
  row in `items` (and `item_parts`) refers to, `metered` the sessions that have
  an `object_lifetimes` row.  Sizes are in chunks and are those the
  server reserves: of the plain file.
* `known` is `DataServer.uploads`.  `busy` is the `while` loop inside
  `_client_chunk` or `_client_commit` in which the DataServer waits for nodes,
  with the replies so far: it dispatches frames of nodes and takes no other
  client request meanwhile.
* `client[u]` is the desktop bridge, which sends one request after the other
  and waits for each answer.  A request and the start of its handler are one
  step.
* `open`, `tmp` and `stored` are a node's `upload_sessions` (memory), its
  session directories and its object directories (disk).  A `commit_finalize`
  may fail after it moved some of the chunks: the session is gone, the moved
  ones are no object, and the others stay in `tmp`.
* `lossy`, `troubled` and `disturbances` remember what went wrong: nodes a frame
  did not reach or that restarted - also those whose `delete_object` was never
  sent because the server stopped after `_release` - and whether anything
  failed at all.

In `Download`, of one object:

* `ctx[d]` is the `TransferCtx` with its `DownloadFailoverState`: candidates,
  attempt, the chunk ids received so far (`got`) and in this attempt
  (`attemptGot`), the bytes not yet metered; `indexed` is its entry in
  `node_transfer_index`.  A node transfer id is the pair of transfer and attempt.
* `sent[d][c]` counts the frames with chunk c sent to the client, `dropped[d]`
  are chunks in `got` that a failing `check_cap_allow_send`, or a failing
  `_flush_transfer_meter` at the limit, kept from it, `answer[d]` is its final
  message, `metered[d]` the chunks in `transfer_events`.
* `toNode[n]` holds `stream_object_begin`; a node answers it in one go, as
  `node.py` does.  `disk[n]` is what it has: metadata of this upload, of another
  one or none, and its chunk files.
* `err` names the database call that fails in a step (`DbErrors` which may):
  `record` is `_record_download_attempt`, `flush` `_flush_transfer_meter`,
  `check` `check_cap_allow_send`.

In `ItemTree`, which shares nothing with the repair modules but the object
that garbage collection finally deletes:

* `item[i]` is a row of `items`; the root is written `"root"` by some routes
  and NULL by others, both are `Root`.  `versions[i]` is the set of objects in
  the rows of `item_versions`.  `objects` are the rows of `objects`.
* `req[r]` is an open request.  It reads when it is opened (`Read...`) and
  writes when it commits (`Finish...`); nothing in these routes locks what was
  read.  A purge takes three steps: read, delete and choose the objects
  (`PurgeDelete`), commit (`PurgeCommit`), with its rows locked in between.
* An upload is the DataServer's commit, which puts the file below the root, and
  a second transaction of the bridge, which moves it to its folder or makes it
  the new content of a file.

Handlers whose abstraction is less obvious: an object is one chunk, so
`stream` is `stream_object_ready` and the chunk together; which nodes are
online, paused, recently verified or in which country is left open (any set of
healthy sources, any node with room), hence the models allow more placements
than the code; leases and timeouts are guards without clocks (a timeout may
happen at any time the code's condition on the phase holds; a lease only runs
out for a job no context renews); `RecoverStaleAudit` is the startup and
periodic recovery of audit rows the memory does not hold.  In `ReplicaObserved`
an observation may also come for a replica that has been retired meanwhile.

Operators whose comment starts with "Fault:" are not used by the
specifications.  Each is a definition the way a plausible bug would write it,
kept to confirm that the properties can fail.

## 3. Runs

| run | instance | asks |
|---|---|---|
| `repair_one_job` | 1 object, 3 nodes, 1 job, 2 transfers, target 2, 2 attempts of the job and the audit | capacity, cleanup queue, audits, ended jobs: `ReservationsExact`, `CleanupExact`, `AuditOnlyWhileVerifying`, `EndedStaysEnded` |
| `repair_two_jobs` | the same with 2 jobs, 1 attempt | races of jobs over the object: `OneActiveRepair`, `ReplicaBound`, `NoDeleteOfLiveCopy`, `RepairOnlyImproves` |
| `repair_transfer` | 3 nodes, target 3 (two sources, one target), 3 transfers, 2 disturbances, failing `audit_result` and `target_start` | bytes against rows, also across a change of source: `StoredUnlessDamaged`, `VerifiesOwnCopy`, `AbandonedCopyQueued`, refinement `DbSpec` |
| `repair_transfer_live` | 2 nodes, 3 transfers, 2 disturbances, failing `source_failure`, fairness | `AttemptEnds`, `AbandonedCopyErased` |
| `upload` | 2 files of 1 or 2 chunks, 3 nodes with room 2, 1, 1, two copies, 1 disturbance | `KeepsAtomicity`, `ReservationsSound`, `HeldIsReserved`, `ItemComplete`, `AbortedErased`, `FailureNeedsCause`, `DoneIsStored`, `IngressMetered` |
| `download` | 1 transfer, 2 nodes, 2 chunks, 2 attempts, 2 disturbances, failing `record` and `flush`, fairness | `HealthyProvedItself`, `TransferEnds` |
| `download_parallel` | 2 transfers, limit of 1 chunk, 1 disturbance, failing `flush` and `check` | `KeepsPromise`, `MeteredExactly`, `CapOverrunBounded` |
| `item_tree` | 4 items, 2 objects, 2 batches, 1 request at a time | object references against garbage collection, the shape of the tree: `NoDanglingReference`, `NothingOrphaned`, `NothingBelowTrash`, `OnlyTrashPurged` |
| `purge_leaves_copy` | as `repair_two_jobs` | violated: a purge does not queue a deletion where a finished queue row exists |
| `stale_audit` | 1 job, 1 attempt | violated: the last abandoned audit is closed, its repair waits for it |
| `copy_purge` | 3 items, 1 object, 2 requests | violated: a copy refers to an object that a concurrent purge removed |
| `patch_circle` | 3 items, 1 request, `create_folder` and `patch` | violated: `patch_item` closes a circle of folders (`ActiveReachable`) |

Bounds, each a constant.  `Jobs`, `Transfers` and `Uploads` limit how many jobs,
copies, downloads and uploads are ever begun; `MaxAttempts`, `AuditMaxAttempts`
and `GcMaxAttempts` are the code's own limits with small values; `Capacity` of
one object (or of the few chunks a file has) lets a node fill up, so a leak or a
double release of one reservation is visible; `MaxDisturbances` counts restarts,
lost connections, lost disks, failed transactions, operators' requests and
outside observations together.  They are enough for the cases at stake: two
transfers are an attempt and the one that overtakes it, on the same node or
another; two jobs are an old one that is requeued and its successor; with a
target of 2 a publication can retire one bad replica, whose node can then become
a target again; a target of 3 leaves a second source when the first fails.  In
`upload` a file of two chunks may fit on no two nodes and is then cut into two
parts that share a node, and two uploads compete for the room; one disturbance
is a restart of either side, a lost connection, a dropped chunk, a client that
leaves or a stop in the middle of a handler, and a missed deadline needs none.
In `download` two attempts over two chunks let a late frame of the first attempt
meet the second, and two disturbances, for example, damage the first replica and
then lose a frame of the other.  In `download_parallel` the limit is one chunk,
so that both transfers run into it, and the one failing call may be the check,
the flush at the limit, or one at the end.  Deadlock is not checked: a cluster with nothing
to do stops.

In `ItemTree` ids are reused once nothing knows them, so the bounds limit what
exists at once and not how long a run is: four items are three folders below one
another with a file at the bottom, or two folders that contain each other and two
more, or a file with three copies; two objects are a content and
its predecessor; two batches are an item trashed before its folder.
`Requests` is one in `item_tree`: the routes take no locks on what they
read, and with two requests each of these properties has a counterexample
(`copy_purge` is the shortest way to lose content; the others are listed as
hazards in PROJECT.json).

Fairness.  `ServerFairness` is weak fairness of the replies of each node, of
the polling duties of each job and of each cleanup row: `serve_forever` reads
the node socket and calls `_process_repair_jobs`, `_process_repair_timeouts`,
the audit and the cleanup processing in every turn, for as long as it runs, and
a restarted DataServer does the same.  It says nothing of nodes: `AttemptEnds`
holds though every node may stay silent.  `NodeFairness` appears only as a
hypothesis of `AbandonedCopyErased`.  In the live run only the transaction
`source_failure` fails; an audit result lost by a failing transaction on the last
attempt leaves the attempt to the stale recovery described under `stale_audit`,
and `AttemptEnds` would not hold.  `Download` assumes weak fairness of
`DownloadTimeout` alone, which the same loop calls in every turn: a transfer ends
although no node and no client ever does anything.  For `Upload` no liveness is
stated: an upload whose client leaves stays open for ever, because
`SESSION_TTL_SEC` is stored and never enforced.

## 4. Proofs

For any number of objects, nodes, jobs, transfers, items and requests and any
limits that satisfy the assumptions of `ReplicaDb`, `Download`, `Upload` and
`ItemTree`, TLAPS checks:

* `RepairProofs`: `RowsWellTyped` (`DbTypeOK`), `AuditsFollowJobs` (an open
  verification audit belongs to a verifying job), `AtMostOneActiveRepair`,
  `ReplicasBounded`, `LiveCopiesNotDeleted`, the action properties
  `EndedJobsStayEnded` and `RepairsOnlyImprove`, and the accounts:
  `CapacityAccountedFor` (`ReservationsExact`) and `CopiesAccountedFor`
  (`CleanupExact`).
* `RepairTransferProofs`: `TransferImplementsJobs` (`Spec => DbSpec`),
  `TransferTypeCorrect` (`TypeOK`) and, from these, `TransferKeepsAccounts`: all
  that `RepairProofs` proves of rows holds of the system with its frames.
* `RepairBytes`: `AbandonedCopiesQueued` (`AbandonedCopyQueued`),
  `VerifiedAgainstOwnCopy` (`VerifiesOwnCopy`) and `PublishedIsStored`
  (`StoredUnlessDamaged`): the bytes on the disks agree with the rows.
* `DownloadProofs`: `DownloadsKeepPromise`, that every download refines
  `Delivery`, whichever database calls fail; `DownloadTypeCorrect`
  (`TypeOK`), `MeteredExactlyAlways`, `CapOverrunBoundedAlways` and
  `HealthyProvedItselfAlways`.
* `UploadProofs`: `UploadsAreAtomic`, that the upload of every session refines
  `AtomicUpload`.
* `UploadAccounts`: `UploadTypeCorrect` (`TypeOK`), `ItemsComplete`
  (`ItemComplete`), `IngressAlwaysMetered`, `AbortedAlwaysErased`,
  `ReservationsAlwaysSound` (`ReservationsSound`), `HeldIsAlwaysReserved`
  (`HeldIsReserved`), `FailuresHaveCauses` (`FailureNeedsCause`) and `DoneAlwaysStored`
  (`DoneIsStored`).
* `ItemTreeProofs`: `ItemTypeCorrect` (`TypeOK`) for any number of requests at a
  time; `NothingDangles` (`NoDanglingReference`) if nothing is copied or replaced
  or requests are served one by one; `NothingLeftOver` (`NothingOrphaned`),
  `NothingEverBelowTrash` (`NothingBelowTrash`) and `OnlyTrashEverPurged`
  (`OnlyTrashPurged`) if they are served one by one; `OnlyPatchClosesCircles`:
  `ActiveReachable`, which `patch_circle` violates, holds if moreover nobody calls
  `patch_item`.

The argument about the repairs has three layers.  `RowInv` is the type invariant
with the facts the handlers rely on: an open audit means `verifying`, a running
job has a target (`RunningHasTarget`), a job row names an object (`HasObject`).
It is inductive by itself: one lemma per action.  `SoleActive`, at most one
active job per object, needs only that every action that makes a job active
(`EnqueueRepairJob`, a scheduled audit's enqueue, `RequeueRepairJob`) looks for
another active one first.  `LiveInv` adds `TargetIsNew`: the target of a
running job is not yet a replica and has no open deletion.  It is what makes
the bound on the replicas and the absence of deletions of live copies inductive
(publication adds the target, so what is known of the target must be known
before): `ReplicaBound` alone says nothing about the node a job is going to
publish.  `SoleActive` is used there because a publication by one job must not
invalidate the target of another.

The accounts rest on `LiveInv`.  `CleanupExact` compares rows of the cleanup
queue with jobs; it becomes inductive with `OwnTransfer`: a transfer a job names
was begun, and no other job names it, so ending one attempt cannot answer for
the copy of another.  `ReservationsExact` is a sum per node, of the replicas and
of the jobs that hold a reservation (`Holdings`, `Holding`); each transaction
adds or removes one element of these sets, and `HoldsWhileRunning` - a job has a
reservation exactly while it runs - tells which.  `TargetIsNew` is needed once
more: a publication turns the job's reservation into the replica's, which
balances only if the node had no replica before.

That `RepairTransfer` implements `RepairJobs` is more than the identity on rows
suggests, because `DbSpec` has guards the transactions do not test: a copy is
begun anew only when the one before was given up, a publication needs the job to
be at its own transfer, no source failure is noted under a stored copy.  The
DataServer decides these from its context and the frame in its hand; that rows,
context and frame agree is the inductive invariant `RepairInv`.  Its heart is
that every transfer has one token.  The frames that drive a copy (`Chain`) follow
one another, one is in flight at a time (a chunk may have its
`stream_object_end` behind it), and it is the one the phase of
the transfer's context waits for (`OneDriver`, `Awaits`); a frame that outlived
its context finds no context of that transfer ever again, since transfers are
begun once.  A context therefore never meets an answer to a question it did not
just ask, although no frame carries a sequence number.  The second part relates
contexts to rows (`CtxRows`, `WaitingHasNone`): a job's row may be cancelled,
finished and queued again under a live context, but the transfer of a context
that still waits was not given up, and its job stays at it or has left it for
good.  `FrameStep` carries the token through every handler, with one lemma per
handler, and `StepRefines` maps each handler to its transactions.

These theorems assume `"source_failure" \notin DbErrors`.  The code needs it:
when the transaction that notes a failed source and queues the cleanup of its
copy fails, `_restart_repair_from_next_source` goes on, and the next copy of the
job is begun while the one before is in no queue, which `DbSpec` forbids.  The
other transactions of `DbErrors` may fail at any time.

`RepairBytes` goes on from there to the disks, in five steps.  `EraseInv`: a copy
leaves the cleanup queue only when its node has erased it (`ErasedIsGone`), since
frames to one node keep their order and the answer to a `repair_abort` is sent
behind everything that could still begin the copy.  `SettledInv`: once a copy is
reported stored, or its job counts on it, its session at the node is closed and
no `store_object_begin` for it is on its way, so nothing opens it again.
`ClearInv`: any copy that could still be stored where a repair or a replica is
wanted is the one of the running job itself; all others are harmless there.
`DeleteInv`: while a `delete_object` is on its way its queue row is open, so it
cannot be on its way to a live replica or the target of a running repair.
`BytesInv` puts these together: what the node reported is on its disk, an audit
that succeeded read the copy of its own transfer, and every healthy replica is
`Provided`, unless its disk was damaged.  Each step needs all before it; a node
that is damaged, erased and repaired again passes through all five.

The attempt to prove `VerifiesOwnCopy` showed that its first form, which compared
every completed job whose target is a replica with the disk, is false when a node
is repaired twice: the replica a job published is retired and deleted, a later job
copies the object to the same node, and the row of the first still names its own
transfer.  It now asks, for every replica, that an upload or some completed
repair stored what is on the disk, which is as much as the rows can say.

The promise of a download needs one invariant, `PromiseInv`: as long as a
transfer is open, the chunk ids in its failover state are those that have been
sent, once each, and those that were dropped, and it has no answer.  Nothing at all is assumed of frames, of disks
or of the order in which attempts answer, so the theorem says that the check of
ids in `observe_chunk` alone makes the transfer safe; frames of stale attempts
would only harm the record of the replicas' health.  What may be missing at
"done" is said by the property itself: a chunk is dropped only when the limit
check, or the flush at the limit, fails in the handler of that chunk, which is
one disturbance each.

No theorem about downloads assumes anything of `DbErrors`.  `MeterInv`
says that what was forwarded is what is recorded plus what the open context has
not flushed; a transfer that ends is flushed first, so the two agree afterwards.
For the daily limit, `CapOverrunBounded` alone is not inductive: a chunk is
forwarded when the records, not the bytes, are below the limit.  What may be
missing from the records is less than a flush unit for each transfer, and `Late`
counts what a transfer is behind beyond that.  Only a flush that fails makes
`Late` grow, so its total is at most the number of disturbances.  Totals are
cardinalities (`TotalOf` counts the units of a function), which lets
`CounterTheorems` prove without induction how a total follows its counters.

`HealthyProvedItself` is about frames, on which the promise does not depend.
`StreamInv` says that every attempt is asked for once (`AskedOnce`), that nothing
of an attempt is heard before its node has answered (`NothingBefore`), and that
a frame of a transfer and attempt carries only chunks the node sent for it
(`FramesTrue`).  As `begin_next_attempt` takes a new number and clears
`attempt_got`, what is in it was sent for the current attempt
(`GotWasSent`), by the only node that was asked.

The atomicity of an upload holds because its `commit_finalize` round is begun at
most once.  `MayFinalize(s)` says that the round of session s is still to come,
and `AtomicInv` follows a session through three periods.  Before the round,
nothing that could end it exists anywhere: the row is `UPLOADING`, no node holds
the object, no `commit_finalize`, `delete_object` or answer to one is on its way
(`NothingEnded`).  So while it lasts, an answer that confirms can only be an
answer of this round and means a stored copy that nothing erases
(`RepliesTrue`), and after it a committed session is stored on all of its nodes
and no `delete_object` for it is on its way (`CommittedStored`).  The middle step
is where the code could fail: an answer carries no number of the round it
belongs to, and the proof shows that none is needed as long as the bridge never
sends a second commit.  The theorem assumes nothing of the plan of a cut file
but that its parts have sizes and nodes, nor of the order between nodes; the
order of frames to one node does not matter to it either.

`UploadAccounts` adds five invariants to `AtomicInv`.  Every step is first shown
to be of one of a few kinds (`StepShape`): most steps of clients and the server
are quiet for items and books (`QuietStep`), an upload begins (`Opens`), a session
commits, the parts of a file become an item, or a node takes a frame.

`BookInv` is about the server.  `ItemComplete` says nothing of files that are
still being uploaded, so it is not inductive; `Book` adds that the sessions of a
served client add up to its file from the moment they are recorded, that a
client that has come to part i has all parts before it metered, and that an
upload in one piece has one session.  A server that stopped in the middle of
recording its sessions leaves a client that is never served again: this is why
a file that is only partly recorded never becomes an item.

`NodeView` is about one node and its frames.  A copy of an aborted session is
erased only if its `delete_object` comes after everything that could store it;
the proof follows a session through the queue: its `init_session` is the first
frame the node ever gets of it (`InitFirst`), there is one `commit_finalize`
(`OneFinal`), it finds the session open and all its chunks there (`FinalReady`),
because a round begins only when every node vouched for them and nothing takes
them away in between (`Vouched`), and no `delete_object` is before it
(`Erasable`).  `FinalReady` is more than `AbortedErased` needs: it says that only a
failing move or write on the node's disk makes a `commit_finalize` fail, which
`FailureNeedsCause` rests on.

`Ledger` is about capacity, in the server's units, and gives `ReservationsSound`
and `HeldIsReserved`.  `reserved_bytes` is given back when a session is
aborted, while its copies still wait for their `delete_object`; a new upload may
be planned into that room at once.  It is not overbooked because the frames of
one node keep their order: after its next p frames, for every p, what the node
then has is at most its capacity (`Room`), and what is left when it has worked
through all of them, with all that is or may be committed, is at most what is
reserved (`Covered`).  An abort makes a session leave `Held` (its `delete_object`
is now the last frame) exactly when its size is given back; an upload that begins
puts its frames behind all others, so only `Covered` meets it.  That a plan stays
within the room of every node (`PlanFitsRoom`), also when it puts several parts of
a file on one node, is proved of `Plans` itself.

`FailureNeedsCause` asked for a change of the model: `Abort` used to note trouble
whenever a `commit_finalize` failed, which made the property true of a refused
finalize whatever caused it.  Now only the missed deadline counts as a cause.
Its invariant, `FailInv`, says what holds while there was none (`AllWell`); after
the first it claims nothing.  Every chunk a client has sent (`Begun`) is on the
disk of each of its nodes or on its way there (`AllSent`), and in front of the
`commit_check` that asks for it (`ChecksBacked`), so every answer agrees
(`Agreed`).  The server reads one ack of some node per chunk and ignores the rest;
the proof never asks which one, since the frames to each node keep their order and
a check is sent only when all chunks were (`Complete`).  Neither do two uploads
disturb each other: the lemmas speak of the frames of one session in a queue it
shares with all.  That a `commit_finalize` finds its session open is `FinalReady`
again, that a client is refused no request is `Unharmed`: a client that waits is
in the handler, and its sessions are known to the server.

`DoneIsStored` is the promise a client sees, and joins what the other theorems say
of its parts: an item is all of its file (`Book`), a committed session stays
stored on its nodes (`CommittedStored`), and each session was planned for
`ReplicaCount` nodes, whole or cut (`Fits`, `CopyInv`).

The theorems about `ItemTree` say how far the bridge and the DataServer go without
a lock that spans a request's reads and writes.  `TypeInv` holds for any requests
that overlap: what a request has read (`rows`, `ids`, `objs`) and what its kind
says of it (`Sane`) stay well typed, and a row that exists has a parent.  The
rest needs hypotheses: `copy_purge` violates `NoDanglingReference` with two
requests, one of which copies, and three hazards of PROJECT.json name the races
of two requests behind the other properties.

`NothingDangles` therefore assumes `NothingShared`: requests are served one by one
(`Serial`), or none copies or replaces, so that no object has two owners.  Its
invariant, `GcInv`, says more than that references exist.  Between the `DELETE`
of a purge and the `DELETE` of its metadata other requests may run, and what they
write must not refer to what the purge still holds in `objs` (`Unused`).  A restore
of an old version writes a reference it has read earlier, so `VersionKept` keeps
that version in place from the read to the write: a purge of the item in between
leaves no row to write to, and all other requests only add versions.

`Serial` makes what a request has read current when it writes (`Current`).
`ActiveReachable` is not inductive: a restore brings back items it says nothing
of.  `TreeInv` has the form that is: every row, in the trash or not, hangs below
the root through existing folders (`AllReachable`, which says that every set
closed under children of the root and of its members has all items), and a child
of a trashed folder has the batch of that folder (`Links`), so trash is cut out and
put back in whole subtrees.  `Pending` says what a request may rely on between its
phases: the destination of a move is not below what is moved, a restore has
the rows of one batch, a purge has ids closed under children.  `Collected`, no
object without a reference except those a running purge is about to look at, is
what makes `NothingLeftOver` inductive.  The tree itself is the subject of lemmas
about two tables of rows, without requests or actions: a leaf is added
(`LeafAdded`), a subtree hangs elsewhere (`Reparented`), is removed (`Removed`), gets
a batch (`Rebatched`) or leaves the trash (`Restored`), a folder is copied
(`FolderCopied`).  They rest on what it means to be closed under children alone,
so no induction on the depth of the tree is needed: for this, `Descendants` is
stated as the least closed set and not by the number of rounds that
`_collect_descendants` makes.

With `patch_item` the rows need not hang below the root, so `AllReachable` is a
part of `TreeInv` only where nobody calls it (`Checked`).  The rest is shown of
any rows, circles included: `Links` alone gives `NothingBelowTrash`, and a request
that would walk down a circle does not end and writes nothing (`OnCircle`).

Only model-checked: the liveness properties `TransferEnds`, `AttemptEnds` and
`AbandonedCopyErased`, which the prover cannot handle.  Every invariant and action
property of the passing runs is the statement of a theorem, some under the
hypotheses named above.

## 5. What the runs found

Four runs end in a counterexample that follows from the code; each quotes what
the repository says in PROJECT.json.  (1) `object_gc.py:220` inserts with
`ON CONFLICT DO NOTHING`; a `done` row of an earlier retirement hides a purge's
deletion and the copy stays on the node.  (2) `recover_stale_audit_jobs` closes
the last attempt of an audit without retrying the repair.  (3) `copy_item`
neither locks nor re-reads its source: a purge in between removes the object the
copy refers to.  (4) `patch_item` changes the folder of an item as `move_item` does
but refuses only the item itself, so one request puts a folder below its own
descendant; both are cut off from the root, and every recursive query below them
runs without end.

The models show four more things without a run of their own.  A chunk is put into
`got` before `check_cap_allow_send` runs; when that call fails, or when the limit
is reached and `_flush_transfer_meter` fails (server.py:1721-1727), the exception
is logged, the transfer goes on without the chunk and may end with "done"
(`dropped`).  The client notices the gap (client.py:236, 265-274), but its
`download_resend` is refused, because the context is gone (server.py:1633-1639;
`ClientFinishes`).  `KeepsPromise` allows exactly these gaps and no others.  A job requeued
without `reset_attempts` stays `queued`, is never claimed and blocks new repairs
of its object (`RequeueRepairJob`, `Claimable`).  When the transaction that queues
the cleanup of a failed source's copy fails, `_restart_repair_from_next_source`
goes on, and if there is another source the copy is in no queue: only the
`repair_abort` that is sent once removes it (`TransactionFails`).  The files of a
copied folder have no content, because `_collect_descendants` does not select
`file_object_id` (`CopyFolder`).

## 6. Not modelled, and the plan

Repair: chunk bookkeeping and hashes within one transfer; the choice among
eligible nodes; database failures after which the handler keeps its state (they
behave like a lost reply); `repair_abort_reply` with an error (the row stays open
and is sent again, as without a reply).

Upload: the size of what a node stores: every chunk is larger than what the
server reserves for it by a nonce and a tag, and there is `meta.json`; no code
compares the two, and a node filled to its last byte holds more than its
`capacity_bytes`.  Nor does any property count the chunk files that a node keeps of
a session it has forgotten, after a restart or a `commit_finalize` that failed half
way: nothing sends it `delete_session` for them.  Database failures in a client's
handler (they end the DataServer, and
are then a restart); uploads through a share token, which differ in the item
they write; a second commit of a committed session, which would abort it and
which no client of the repository sends; the client's command line, whose
`commit` goes out in frames the server ignores; the keys the bridge stores after
the upload.  Frames to clients are taken to arrive.

Download: branches no frame can reach (a send that fails, which needs
`ROUTER_MANDATORY`; a `stream_object_end` with an error, which `node.py` never
sends; the forwarding of `download_resend`, whose transfer is always gone by
then); rot of a chunk file, which a node hashes before it sends and a download
cannot see; the passing of time behind the daily limit.

`ItemTree`: multipart files, `copy_batch`, duplicates of backups, sharing; what
PostgreSQL does to a recursive query that does not end, other than that its request
changes nothing.

The other parts of section 1 that no module names are not modelled, for the
reason given in PROJECT.json.  What the plan has left, in this order:

1. `ItemTree`, the rest.
2. `StorageAudit`: when audits are scheduled, over slices of an object.
3. `Billing`: monthly close and its retries.
