------------------------------ MODULE ReplicaDb ------------------------------
(***************************************************************************)
(* The PostgreSQL rows that describe where the bytes of an object live:    *)
(* objects, replicas, replica_health, nodes.reserved_bytes, repair_jobs,   *)
(* audit_jobs (the verification audit of a repair), repair_cleanup_queue   *)
(* and object_gc_queue.  Several processes write them - the DataServer,    *)
(* the API processes, the maintenance worker - each in transactions that   *)
(* hold the objects row (repair_object_lock.py) or the job row.            *)
(*                                                                         *)
(* The module holds the state and the row-level helpers; RepairJobs holds  *)
(* the transactions.  Every object has size one, so capacity and           *)
(* reserved_bytes count objects.                                           *)
(***************************************************************************)
EXTENDS Naturals, FiniteSets

CONSTANTS
    Objects,          \* file_object_id values
    Nodes,            \* node_id values
    Jobs,             \* repair_job_id values; bounds the jobs ever enqueued
    Transfers,        \* target transfer ids (uuid4); bounds the copies begun
    None,             \* SQL NULL
    TargetReplicas,   \* TARGET_REPLICA_COUNT
    MaxAttempts,      \* REPAIR_MAX_ATTEMPTS
    AuditMaxAttempts, \* AUDIT_MAX_ATTEMPTS
    GcMaxAttempts,    \* OBJECT_GC_MAX_ATTEMPTS
    Capacity,         \* nodes.capacity_bytes, in objects
    FailureKinds      \* replica statuses a failed observation may report

ASSUME FiniteAssumption ==
    /\ IsFiniteSet(Objects) /\ IsFiniteSet(Nodes)
    /\ IsFiniteSet(Jobs) /\ IsFiniteSet(Transfers)
ASSUME NoneAssumption == None \notin Objects \cup Nodes \cup Transfers
ASSUME CountAssumption ==
    /\ TargetReplicas \in Nat \ {0} /\ MaxAttempts \in Nat \ {0}
    /\ AuditMaxAttempts \in Nat \ {0} /\ GcMaxAttempts \in Nat \ {0}
    /\ Capacity \in Nat
ASSUME KindAssumption == FailureKinds \subseteq {"suspect", "missing", "corrupt"}

VARIABLES
    objects,      \* the objects rows that exist
    replicas,     \* replicas[o]: the nodes with a replicas row for o
    health,       \* health[o][n]: replica_health.status, "none" without a row
    reserved,     \* nodes.reserved_bytes
    job,          \* the repair_jobs rows
    audit,        \* audit[j]: the latest repair_verify audit row of job j
    transfer,     \* repair_cleanup_queue row of each target transfer id
    gcQueue       \* gcQueue[o][n]: object_gc_queue row of (o, n)

dbVars == <<objects, replicas, health, reserved, job, audit, transfer, gcQueue>>

Running  == {"selecting_target", "copying", "verifying"}
Active   == Running \cup {"queued", "retry_wait"}
Terminal == {"completed", "failed", "canceled"}
Bad      == {"missing", "corrupt", "deleted"}

HealthStatus ==
    {"none", "pending", "healthy", "suspect", "repairing"} \cup Bad
JobRow ==
    [status: Active \cup Terminal \cup {"absent"}, object: Objects \cup {None},
     attempts: Nat, target: Nodes \cup {None}, transfer: Transfers \cup {None},
     reserved: BOOLEAN]
AuditOpen == {"queued", "sent", "retry_wait"}
AuditRow ==
    [status: AuditOpen \cup {"none", "completed", "failed", "canceled"},
     attempts: Nat]
QueueOpen == {"pending", "sent"}
TransferRow ==
    [object: Objects \cup {None}, node: Nodes \cup {None},
     cleanup: QueueOpen \cup {"none", "done"}]
GcRow == [status: QueueOpen \cup {"none", "done"}, attempts: Nat]

NoJob == [status |-> "absent", object |-> None, attempts |-> 0, target |-> None,
          transfer |-> None, reserved |-> FALSE]
NoAudit == [status |-> "none", attempts |-> 0]
NoTransfer == [object |-> None, node |-> None, cleanup |-> "none"]
NoGc == [status |-> "none", attempts |-> 0]

DbTypeOK ==
    /\ objects \subseteq Objects
    /\ replicas \in [Objects -> SUBSET Nodes]
    /\ health \in [Objects -> [Nodes -> HealthStatus]]
    /\ reserved \in [Nodes -> Nat]
    /\ job \in [Jobs -> JobRow]
    /\ audit \in [Jobs -> AuditRow]
    /\ transfer \in [Transfers -> TransferRow]
    /\ gcQueue \in [Objects -> [Nodes -> GcRow]]

-----------------------------------------------------------------------------
(* repair_replica_counts: replicas rows joined with replica_health h. *)
Healthy(o, h)   == {n \in replicas[o] : h[o][n] = "healthy"}
Retirable(o, h) == {n \in replicas[o] : h[o][n] \in Bad}

(* Fault: only the healthy replicas are counted against the target. *)
BlockedByHealthOnly(o, h) == Cardinality(Healthy(o, h)) >= TargetReplicas

(* repair_block_reason: enough healthy replicas, or publishing the new one *)
(* would exceed the target without a known-bad replica to retire.          *)
Blocked(o, h) ==
    \/ Cardinality(Healthy(o, h)) >= TargetReplicas
    \/ Cardinality(replicas[o]) + 1
         > TargetReplicas + Cardinality(Retirable(o, h))

ActiveJobs(o) == {j \in Jobs : job[j].object = o /\ job[j].status \in Active}

(* UPDATE nodes SET reserved_bytes=GREATEST(0,reserved_bytes-size) *)
ReleasedOn(ns) == [n \in Nodes |->
    IF n \in ns /\ reserved[n] > 0 THEN reserved[n] - 1 ELSE reserved[n]]

SetHealth(o, n, s) == [health EXCEPT ![o][n] = s]

(* Fault: an ended attempt keeps the capacity it reserved. *)
ReservationKept(jb) == reserved

(* _release_job_reservation *)
JobReservationReleased(jb) ==
    ReleasedOn(IF jb.reserved THEN {jb.target} ELSE {})

(* Fault: only the best-effort abort is sent, no cleanup row is written. *)
CleanupForgotten(t) == transfer

(* _queue_cleanup: nothing without a node and a transfer; the unique       *)
(* (node_id,transfer_id) key keeps an existing row.                        *)
CleanupQueued(t) ==
    IF t # None /\ transfer[t].cleanup = "none"
    THEN [transfer EXCEPT ![t].cleanup = "pending"]
    ELSE transfer

(* Health of an ended target: 'deleted' unless it is a published replica. *)
TargetDropped(jb, h) ==
    IF jb.target = None \/ jb.target \in replicas[jb.object] THEN h
    ELSE [h EXCEPT ![jb.object][jb.target] = "deleted"]

(* Fault: the audit of an ended attempt stays open. *)
AuditLeftOpen(j, a) == a

(* Audits of an ended attempt are canceled while they are open. *)
AuditCanceled(j, a) ==
    IF a[j].status \in AuditOpen THEN [a EXCEPT ![j].status = "canceled"] ELSE a
=============================================================================
