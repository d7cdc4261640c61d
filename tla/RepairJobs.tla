------------------------------ MODULE RepairJobs ------------------------------
(***************************************************************************)
(* replica_repair_service.py, with the audit transactions that decide a    *)
(* repair (storage_audit_service.py, DataServer._apply_audit_result) and   *)
(* the deletion of unreferenced objects (object_gc.py).                    *)
(*                                                                         *)
(* One action is one database transaction.  The transfer itself is the     *)
(* environment here: a source may fail, a target may store the object, an  *)
(* audit may report any outcome, a DataServer may stop renewing its lease, *)
(* at any time.  RepairTransfer composes these transactions with the       *)
(* DataServer's memory, the storage nodes and the messages.                *)
(***************************************************************************)
EXTENDS ReplicaDb

(* upload rows: at most TARGET_REPLICA_COUNT replicas, healthy after a      *)
(* commit or 'pending' after backfill_replica_health.                       *)
DbInit ==
    /\ objects = Objects
    /\ replicas \in [Objects ->
           {S \in SUBSET Nodes : Cardinality(S) \in 1..TargetReplicas}]
    /\ \E s \in {"pending", "healthy"} :
           health = [o \in Objects |-> [n \in Nodes |->
                        IF n \in replicas[o] THEN s ELSE "none"]]
    /\ reserved = [n \in Nodes |-> Cardinality({o \in Objects : n \in replicas[o]})]
    /\ \A n \in Nodes : reserved[n] <= Capacity
    /\ job = [j \in Jobs |-> NoJob]
    /\ audit = [j \in Jobs |-> NoAudit]
    /\ transfer = [t \in Transfers |-> NoTransfer]
    /\ gcQueue = [o \in Objects |-> [n \in Nodes |-> NoGc]]

-----------------------------------------------------------------------------
(* Fault: enqueue_repair_job does not look for an active job. *)
MayEnqueueTwice(o, h) == o \in objects /\ ~Blocked(o, h)

(* enqueue_repair_job: the row is inserted only for an existing object that *)
(* is short, can accept a new replica and has no active job.                *)
MayEnqueue(o, h) ==
    /\ o \in objects
    /\ ~Blocked(o, h)
    /\ ActiveJobs(o) = {}

Inserted(j, o) ==
    [job EXCEPT ![j] = [NoJob EXCEPT !.status = "queued", !.object = o]]

EnqueueRepairJob(j, o) ==
    /\ job[j].status = "absent"
    /\ MayEnqueue(o, health)
    /\ job' = Inserted(j, o)
    /\ UNCHANGED <<objects, replicas, health, reserved, audit, transfer, gcQueue>>

(* A download or commit observed replica n (mark_replica_healthy,          *)
(* mark_replica_failure).  The answer may come after n was retired.        *)
Observable(o, n) ==
    o \in objects /\ (n \in replicas[o] \/ health[o][n] = "deleted")

ReplicaObserved(o, n, s) ==
    /\ Observable(o, n)
    /\ health' = SetHealth(o, n, s)
    /\ UNCHANGED <<objects, replicas, reserved, job, audit, transfer, gcQueue>>

(* The result of a scheduled audit: a missing or corrupt replica enqueues  *)
(* the repair of the object in the same transaction.                       *)
ScheduledAuditResult(o, n, s) ==
    /\ Observable(o, n)
    /\ health' = SetHealth(o, n, s)
    /\ IF s \in {"missing", "corrupt"} /\ MayEnqueue(o, health')
       THEN \E j \in Jobs : job[j].status = "absent" /\ job' = Inserted(j, o)
       ELSE UNCHANGED job
    /\ UNCHANGED <<objects, replicas, reserved, audit, transfer, gcQueue>>

-----------------------------------------------------------------------------
(* schedule_repair_retry of job row jb, as the transaction left it.  A      *)
(* terminal job is left alone.                                              *)
RetryOf(j, jb, au, h) ==
    IF jb.status \in Terminal
    THEN /\ job' = [job EXCEPT ![j] = jb]
         /\ audit' = au
         /\ health' = h
         /\ UNCHANGED <<reserved, transfer>>
    ELSE /\ job' = [job EXCEPT ![j] =
              [jb EXCEPT !.status = IF jb.attempts >= MaxAttempts
                                    THEN "failed" ELSE "retry_wait",
                         !.target = None, !.transfer = None, !.reserved = FALSE]]
         /\ reserved' = JobReservationReleased(jb)
         /\ transfer' = CleanupQueued(jb.transfer)
         /\ audit' = AuditCanceled(j, au)
         /\ health' = TargetDropped(jb, h)

ScheduleRepairRetry(j) ==
    /\ job[j].status # "absent"
    /\ RetryOf(j, job[j], audit, health)
    /\ UNCHANGED <<objects, replicas, gcQueue>>

(* recover_stale_repair_jobs: a running job whose lease ran out.            *)
RecoverStaleRepairJob(j) ==
    /\ job[j].status \in Running
    /\ ScheduleRepairRetry(j)

-----------------------------------------------------------------------------
(* claim_due_repair_jobs and the rest of its transaction in                 *)
(* DataServer._process_repair_jobs: a blocked job is canceled, a job        *)
(* without object, verified source or target waits for a retry, any other   *)
(* gets a target with its capacity reserved.                                *)
Claimable(j) ==
    job[j].status \in {"queued", "retry_wait"} /\ job[j].attempts < MaxAttempts

Claimed(j) == [job[j] EXCEPT !.attempts = @ + 1]

ClaimBlocked(j) ==
    /\ Claimable(j)
    /\ Blocked(job[j].object, health)
    /\ job' = [job EXCEPT ![j] = [Claimed(j) EXCEPT !.status = "canceled"]]
    /\ UNCHANGED <<objects, replicas, health, reserved, audit, transfer, gcQueue>>

(* Fault: a node whose deletion of the object is unfinished is a target. *)
EligibleDespiteDelete(o, n, sources) ==
    /\ reserved[n] < Capacity
    /\ n \notin sources \cup replicas[o]
    /\ \A t \in Transfers : transfer[t].object = o /\ transfer[t].node = n
                              => transfer[t].cleanup \notin QueueOpen

(* select_and_reserve_target: not a source, not a replica, no unfinished    *)
(* deletion or cleanup of this object on the node, room for the object.     *)
EligibleTarget(o, n, sources) ==
    /\ reserved[n] < Capacity
    /\ n \notin sources \cup replicas[o]
    /\ gcQueue[o][n].status \notin QueueOpen
    /\ \A t \in Transfers : transfer[t].object = o /\ transfer[t].node = n
                              => transfer[t].cleanup \notin QueueOpen

(* Which nodes are online, unpaused and recently verified, and the country *)
(* and failure-domain rules, are left open: any source set, any eligible n. *)
ClaimWithTarget(j, sources, n) ==
    LET o == job[j].object IN
    /\ Claimable(j)
    /\ ~Blocked(o, health)
    /\ o \in objects
    /\ sources \subseteq Healthy(o, health) /\ sources # {}
    /\ EligibleTarget(o, n, sources)
    /\ reserved' = [reserved EXCEPT ![n] = @ + 1]
    /\ job' = [job EXCEPT ![j] =
                 [Claimed(j) EXCEPT !.status = "selecting_target",
                                    !.target = n, !.reserved = TRUE]]
    /\ health' = SetHealth(o, n, "repairing")
    /\ UNCHANGED <<objects, replicas, audit, transfer, gcQueue>>

ClaimWithoutTarget(j) ==
    /\ Claimable(j)
    /\ ~Blocked(job[j].object, health)
    /\ RetryOf(j, Claimed(j), audit, health)
    /\ UNCHANGED <<objects, replicas, gcQueue>>

-----------------------------------------------------------------------------
(* mark_repair_target_started with a fresh transfer id. *)
TargetStartable(j, n) ==
    job[j].target = n /\ job[j].status \in {"selecting_target", "copying"}

Unused(t) == transfer[t].node = None

MarkRepairTargetStarted(j, t) ==
    /\ TargetStartable(j, job[j].target)
    /\ Unused(t)
    /\ job' = [job EXCEPT ![j].transfer = t]
    /\ transfer' = [transfer EXCEPT ![t] =
          [object |-> job[j].object, node |-> job[j].target, cleanup |-> "none"]]
    /\ UNCHANGED <<objects, replicas, health, reserved, audit, gcQueue>>

(* mark_repair_copying names the transfer the target was started with. *)
MarkRepairCopying(j) ==
    /\ job[j].status \in {"selecting_target", "copying"}
    /\ job[j].transfer # None
    /\ job' = [job EXCEPT ![j].status = "copying"]
    /\ UNCHANGED <<objects, replicas, health, reserved, audit, transfer, gcQueue>>

(* note_source_failure and queue_repair_cleanup of the abandoned transfer:  *)
(* one transaction of DataServer._restart_repair_from_next_source.  The job *)
(* row is not touched, nor looked at.                                       *)
NoteSourceFailure(o, src, s, t) ==
    /\ health' = SetHealth(o, src, s)
    /\ transfer' = CleanupQueued(t)
    /\ UNCHANGED <<objects, replicas, reserved, job, audit, gcQueue>>

(* store_object_end_reply ok: mark_repair_verifying and the verification    *)
(* audit in one transaction, or a retry when the job is no longer copying   *)
(* or no audit row can be inserted (no slice, another audit still open).    *)
StoreVerifying(j) ==
    /\ job[j].status = "copying"
    /\ job' = [job EXCEPT ![j].status = "verifying"]
    /\ audit' = [audit EXCEPT ![j] = [status |-> "queued", attempts |-> 0]]
    /\ UNCHANGED <<objects, replicas, health, reserved, transfer, gcQueue>>

-----------------------------------------------------------------------------
(* claim_due_audit_jobs *)
ClaimAudit(j) ==
    /\ audit[j].status \in {"queued", "retry_wait"}
    /\ audit' = [audit EXCEPT ![j] = [status |-> "sent", attempts |-> @.attempts + 1]]
    /\ UNCHANGED <<objects, replicas, health, reserved, job, transfer, gcQueue>>

(* Fault: any other replica may be retired, whatever its health. *)
RetiredSetsAnyHealth(o, n, h) ==
    LET rs == replicas[o] \cup {n} IN
    {S \in SUBSET (rs \ {n}) : Cardinality(rs) - Cardinality(S) = TargetReplicas}

(* _retire_bad_replicas once n is published: as many known-bad replicas as  *)
(* exceed the target are dropped and their deletion is queued.              *)
RetiredSets(o, n, h) ==
    LET rs     == replicas[o] \cup {n}
        bad    == {m \in rs \ {n} : h[o][m] \in Bad}
        excess == IF Cardinality(rs) > TargetReplicas
                  THEN Cardinality(rs) - TargetReplicas ELSE 0
    IN {S \in SUBSET bad :
          Cardinality(S) = IF excess < Cardinality(bad) THEN excess ELSE Cardinality(bad)}

Publish(j, h, retired) ==
    LET o == job[j].object  n == job[j].target IN
    /\ replicas' = [replicas EXCEPT ![o] = (@ \cup {n}) \ retired]
    /\ health' = [h EXCEPT ![o] = [m \in Nodes |->
                     IF m \in retired THEN "deleted" ELSE @[m]]]
    /\ gcQueue' = [gcQueue EXCEPT ![o] = [m \in Nodes |->
                     IF m \in retired THEN [status |-> "pending", attempts |-> 0]
                     ELSE @[m]]]
    /\ reserved' = ReleasedOn(retired)
    /\ job' = [job EXCEPT ![j].status = "completed"]
    /\ UNCHANGED <<objects, transfer>>

(* The block branch of complete_repair_job: the verified copy is not needed *)
(* any more.  target_node_id and transfer_id stay in the canceled row.      *)
DiscardTarget(j, h) ==
    LET jb == job[j]  published == jb.target \in replicas[jb.object] IN
    /\ reserved' = IF published THEN reserved ELSE JobReservationReleased(jb)
    /\ transfer' = IF published THEN transfer ELSE CleanupQueued(jb.transfer)
    /\ health' = TargetDropped(jb, h)
    /\ job' = [job EXCEPT ![j] = [jb EXCEPT !.status = "canceled", !.reserved = FALSE]]
    /\ UNCHANGED <<objects, replicas, gcQueue>>

(* complete_audit_job and complete_repair_job, after an ok answer for the   *)
(* attempt that is still current.  Nothing happens once the object is gone. *)
AuditPassed(j) ==
    LET o == job[j].object
        h == SetHealth(o, job[j].target, "healthy") IN
    /\ audit[j].status = "sent"
    /\ o \in objects
    /\ audit' = [audit EXCEPT ![j].status = "completed"]
    /\ IF Blocked(o, h) THEN DiscardTarget(j, h)
       ELSE \E retired \in RetiredSets(o, job[j].target, h) : Publish(j, h, retired)

(* An answer that is not ok: s is the classification; it ends the audit,    *)
(* and with it the repair attempt, unless it is only suspect and attempts   *)
(* are left.                                                                *)
AuditFailed(j, s) ==
    LET o == job[j].object
        h == SetHealth(o, job[j].target, s) IN
    /\ audit[j].status = "sent"
    /\ o \in objects
    /\ IF s = "suspect" /\ audit[j].attempts < AuditMaxAttempts
       THEN /\ audit' = [audit EXCEPT ![j].status = "retry_wait"]
            /\ health' = h
            /\ UNCHANGED <<reserved, job, transfer>>
       ELSE RetryOf(j, job[j], [audit EXCEPT ![j].status = "failed"], h)
    /\ UNCHANGED <<objects, replicas, gcQueue>>

(* recover_stale_audit_jobs: a sent audit nobody waits for counts as timed  *)
(* out.  Its last attempt ends the audit but, unlike an answer, not the     *)
(* repair attempt.                                                          *)
RecoverStaleAudit(j) ==
    /\ audit[j].status = "sent"
    /\ job[j].object \in objects
    /\ audit' = [audit EXCEPT ![j].status =
          IF audit[j].attempts < AuditMaxAttempts THEN "retry_wait" ELSE "failed"]
    /\ health' = SetHealth(job[j].object, job[j].target, "suspect")
    /\ UNCHANGED <<objects, replicas, reserved, job, transfer, gcQueue>>

-----------------------------------------------------------------------------
(* cancel_repair_job: the admin page and the maintenance worker's CLI. *)
CancelRepairJob(j) ==
    LET jb == job[j] IN
    /\ jb.status \in Active
    /\ job' = [job EXCEPT ![j] = [jb EXCEPT !.status = "canceled", !.reserved = FALSE]]
    /\ reserved' = JobReservationReleased(jb)
    /\ transfer' = CleanupQueued(jb.transfer)
    /\ audit' = AuditCanceled(j, audit)
    /\ health' = TargetDropped(jb, health)
    /\ UNCHANGED <<objects, replicas, gcQueue>>

(* Fault: any ended job is requeued, a completed one too. *)
RequeueEndedJob(j, resetAttempts) ==
    /\ job[j].status \in Terminal
    /\ ActiveJobs(job[j].object) \ {j} = {}
    /\ job' = [job EXCEPT ![j] =
          [NoJob EXCEPT !.status = "queued", !.object = job[j].object]]
    /\ UNCHANGED <<objects, replicas, health, reserved, audit, transfer, gcQueue>>

(* requeue_repair_job: refused while another job of the object is active. *)
RequeueRepairJob(j, resetAttempts) ==
    /\ job[j].status \in {"failed", "canceled"}
    /\ ActiveJobs(job[j].object) \ {j} = {}
    /\ job' = [job EXCEPT ![j] =
          [NoJob EXCEPT !.status = "queued", !.object = job[j].object,
                        !.attempts = IF resetAttempts THEN 0 ELSE job[j].attempts]]
    /\ UNCHANGED <<objects, replicas, health, reserved, audit, transfer, gcQueue>>

-----------------------------------------------------------------------------
(* gc_unreferenced_objects: the purge of the last reference of o.  A queue  *)
(* row of (o, n) that already exists is kept as it is.                      *)
GcUnreferencedObject(o) ==
    /\ o \in objects
    /\ gcQueue' = [gcQueue EXCEPT ![o] = [n \in Nodes |->
          IF n \in replicas[o] /\ @[n].status = "none"
          THEN [status |-> "pending", attempts |-> 0] ELSE @[n]]]
    /\ reserved' = ReleasedOn(replicas[o])
    /\ replicas' = [replicas EXCEPT ![o] = {}]
    /\ objects' = objects \ {o}
    /\ UNCHANGED <<health, job, audit, transfer>>

(* fetch_pending_object_gc_tasks, mark_object_gc_task_sent: a sent row is   *)
(* offered again only while attempts are left.                              *)
SendObjectDelete(o, n) ==
    LET g == gcQueue[o][n] IN
    /\ \/ g.status = "pending"
       \/ g.status = "sent" /\ g.attempts < GcMaxAttempts
    /\ gcQueue' = [gcQueue EXCEPT ![o][n] =
          [status |-> "sent", attempts |-> g.attempts + 1]]
    /\ UNCHANGED <<objects, replicas, health, reserved, job, audit, transfer>>

(* mark_object_gc_task_done_by_reply: any delete_object_reply of the node.  *)
ObjectDeleted(o, n) ==
    /\ gcQueue[o][n].status \in QueueOpen
    /\ gcQueue' = [gcQueue EXCEPT ![o][n].status = "done"]
    /\ UNCHANGED <<objects, replicas, health, reserved, job, audit, transfer>>

(* Fault: a cleanup is sent once and never again. *)
ClaimPendingCleanup(t) ==
    /\ transfer[t].cleanup = "pending"
    /\ transfer' = [transfer EXCEPT ![t].cleanup = "sent"]
    /\ UNCHANGED <<objects, replicas, health, reserved, job, audit, gcQueue>>

(* Fault: the cleanup row gets the final status of a job row. *)
MarkCleanupCompleted(t, success) ==
    /\ transfer[t].cleanup \in QueueOpen
    /\ transfer' = [transfer EXCEPT ![t].cleanup =
                       IF success THEN "completed" ELSE "pending"]
    /\ UNCHANGED <<objects, replicas, health, reserved, job, audit, gcQueue>>

(* claim_repair_cleanup_tasks and mark_repair_cleanup_result. *)
ClaimRepairCleanup(t) ==
    /\ transfer[t].cleanup \in QueueOpen
    /\ transfer' = [transfer EXCEPT ![t].cleanup = "sent"]
    /\ UNCHANGED <<objects, replicas, health, reserved, job, audit, gcQueue>>

MarkRepairCleanupResult(t, success) ==
    /\ transfer[t].cleanup \in QueueOpen
    /\ transfer' = [transfer EXCEPT ![t].cleanup = IF success THEN "done" ELSE "pending"]
    /\ UNCHANGED <<objects, replicas, health, reserved, job, audit, gcQueue>>

-----------------------------------------------------------------------------
(* What the transfer guarantees the transactions: a copy is only pursued    *)
(* while its transfer has not been given up (RepairTransfer shows it).      *)
CopyCurrent(j) ==
    job[j].transfer # None /\ transfer[job[j].transfer].cleanup = "none"

Worker ==
    \E j \in Jobs :
        \/ \E S \in SUBSET Nodes, n \in Nodes : ClaimWithTarget(j, S, n)
        \/ ClaimBlocked(j)
        \/ ClaimWithoutTarget(j)
        \/ ~CopyCurrent(j) /\ \E t \in Transfers : MarkRepairTargetStarted(j, t)
        \/ CopyCurrent(j) /\ MarkRepairCopying(j)
        \/ CopyCurrent(j) /\ StoreVerifying(j)
        \/ job[j].status \in Active /\ ScheduleRepairRetry(j)
        \/ ClaimAudit(j)
        \/ AuditPassed(j)
        \/ \E s \in FailureKinds : AuditFailed(j, s)
        \/ RecoverStaleAudit(j)

(* A source fails under transfer t: never once the copy of t is stored. *)
SourceFailed ==
    \E t \in Transfers, n \in Nodes, s \in FailureKinds :
        /\ ~Unused(t)
        /\ \A j \in Jobs : job[j].transfer = t
                            => job[j].status \notin {"verifying", "completed"}
        /\ health[transfer[t].object][n] # "none"
        /\ NoteSourceFailure(transfer[t].object, n, s, t)

Observers ==
    \E o \in Objects, n \in Nodes :
        \/ \E s \in FailureKinds \cup {"healthy"} :
               ReplicaObserved(o, n, s) \/ ScheduledAuditResult(o, n, s)
        \/ SendObjectDelete(o, n)
        \/ ObjectDeleted(o, n)

Operators ==
    \/ \E j \in Jobs, o \in Objects : EnqueueRepairJob(j, o)
    \/ \E j \in Jobs : CancelRepairJob(j)
    \/ \E j \in Jobs, r \in BOOLEAN : RequeueRepairJob(j, r)
    \/ \E o \in Objects : GcUnreferencedObject(o)

Cleanups ==
    \E t \in Transfers :
        \/ ClaimRepairCleanup(t)
        \/ \E ok \in BOOLEAN : MarkRepairCleanupResult(t, ok)

DbNext == Worker \/ SourceFailed \/ Observers \/ Operators \/ Cleanups

DbSpec == DbInit /\ [][DbNext]_dbVars
-----------------------------------------------------------------------------
(* reserved_bytes of a node is exactly its published replicas plus the      *)
(* targets reserved by active repairs: nothing is released twice or leaked, *)
(* across claim, retry, cancel, requeue, publication, retirement and GC.    *)
ReservationsExact ==
    \A n \in Nodes :
        reserved[n] = Cardinality({o \in Objects : n \in replicas[o]})
                    + Cardinality({j \in Jobs : /\ job[j].target = n
                                                /\ job[j].reserved
                                                /\ job[j].status \in Active})

(* "Create at most one active repair for an object": enqueue by any caller  *)
(* and requeue of any old job, in any order.                                *)
OneActiveRepair == \A o \in Objects : Cardinality(ActiveJobs(o)) <= 1

(* No sequence of repairs gives an object more replicas than the target     *)
(* (docs/PHASE2_TEST_PLAN: no unneeded fourth copy).                        *)
ReplicaBound == \A o \in Objects : Cardinality(replicas[o]) <= TargetReplicas

(* No node that holds a published replica, or is receiving one, has an      *)
(* unfinished delete_object for that object queued.                         *)
NoDeleteOfLiveCopy ==
    \A o \in Objects, n \in Nodes :
        gcQueue[o][n].status \in QueueOpen =>
            n \notin replicas[o] /\ \A j \in ActiveJobs(o) : job[j].target # n

(* The transfer of a copy that is being verified or was published is never  *)
(* in the cleanup queue, and every other transfer that was begun is there   *)
(* unless its job still runs on it: no copy is lost and none is abandoned.  *)
CleanupExact ==
    \A t \in Transfers : ~Unused(t) =>
        LET owners == {j \in Jobs : job[j].transfer = t} IN
        /\ \A j \in owners : job[j].status \in {"verifying", "completed"}
                              => transfer[t].cleanup = "none"
        /\ transfer[t].cleanup = "none"
              => \E j \in owners : job[j].status \in Running \cup {"completed"}

(* A verification audit is only open while its job waits for it. *)
AuditOnlyWhileVerifying ==
    \A j \in Jobs : audit[j].status \in AuditOpen => job[j].status = "verifying"

(* While the object exists, a step that changes its replicas adds a healthy *)
(* one, keeps every healthy one and removes only known-bad ones.            *)
RepairOnlyImproves ==
    [][\A o \in Objects : o \in objects' /\ replicas'[o] # replicas[o] =>
         /\ Healthy(o, health) \subseteq Healthy(o, health)'
         /\ Healthy(o, health)' \ replicas[o] # {}
         /\ \A n \in replicas[o] \ replicas'[o] : health[o][n] \in Bad]_dbVars

(* Only an operator brings an ended repair back, and it then holds neither  *)
(* capacity nor target; a completed repair never changes again.             *)
EndedStaysEnded ==
    [][\A j \in Jobs : job[j].status \in Terminal /\ job'[j] # job[j] =>
         /\ job[j].status # "completed"
         /\ job'[j].status = "queued" /\ ~job'[j].reserved]_dbVars

-----------------------------------------------------------------------------
(* What the repository says and the code does not do. *)

(* object_gc.py: the metadata of a purged object is removed first, and the  *)
(* deletion of the chunks on every node that held them is queued.           *)
PurgeQueuesDeletion ==
    [][\A o \in objects \ objects' : \A n \in replicas[o] :
          gcQueue'[o][n].status \in QueueOpen]_dbVars

(* recover_stale_audit_jobs, "return sent rows abandoned by a stopped       *)
(* DataServer to a retryable state": a repair under verification has an     *)
(* audit that is still to be answered or tried again.                       *)
StaleAuditRetryable ==
    \A j \in Jobs : job[j].status = "verifying" => audit[j].status \in AuditOpen
=============================================================================
