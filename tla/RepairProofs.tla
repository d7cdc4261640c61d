----------------------------- MODULE RepairProofs -----------------------------
(***************************************************************************)
(* Safety of the repair transactions for every number of objects, nodes,   *)
(* jobs and transfers and every value of the limits.                       *)
(*                                                                         *)
(* RowInv, SoleActive and LiveInv are about jobs, audits and replicas; the *)
(* second half is about accounts: capacity is reserved and released        *)
(* exactly once (ReservationsExact), and every copy that was begun is      *)
(* pursued, published or queued for removal (CleanupExact).                *)
(***************************************************************************)
EXTENDS RepairJobs, FiniteSetTheorems, TLAPS

(* A job that runs has a target: with it and AuditOnlyWhileVerifying, a      *)
(* passed audit publishes a node and not NULL.                              *)
RunningHasTarget == \A j \in Jobs : job[j].status \in Running => job[j].target # None

HasObject == \A j \in Jobs : job[j].status # "absent" => job[j].object \in Objects

RowInv == DbTypeOK /\ AuditOnlyWhileVerifying /\ RunningHasTarget /\ HasObject

HealthMap == [Objects -> [Nodes -> HealthStatus]]
AuditMap  == [Jobs -> AuditRow]

-----------------------------------------------------------------------------
(* The row helpers keep the types of the columns they rewrite. *)
LEMMA HelperTypes ==
    ASSUME DbTypeOK
    PROVE  /\ \A ns : ReleasedOn(ns) \in [Nodes -> Nat]
           /\ \A t : CleanupQueued(t) \in [Transfers -> TransferRow]
           /\ \A h \in HealthMap : \A o, n : \A s \in HealthStatus :
                 [h EXCEPT ![o][n] = s] \in HealthMap
           /\ \A a \in AuditMap, j \in Jobs : AuditCanceled(j, a) \in AuditMap
<1>1. \A ns : ReleasedOn(ns) \in [Nodes -> Nat]
  BY DEF DbTypeOK, ReleasedOn
<1>2. \A t : CleanupQueued(t) \in [Transfers -> TransferRow]
  <2>1. ASSUME NEW t PROVE [transfer EXCEPT ![t].cleanup = "pending"] \in [Transfers -> TransferRow]
    BY DEF DbTypeOK, TransferRow, QueueOpen
  <2> QED BY <2>1 DEF DbTypeOK, CleanupQueued
<1>3. \A h \in HealthMap : \A o, n : \A s \in HealthStatus :
        [h EXCEPT ![o][n] = s] \in HealthMap
  BY DEF HealthMap
<1>4. \A a \in AuditMap, j \in Jobs : AuditCanceled(j, a) \in AuditMap
  BY DEF AuditMap, AuditCanceled, AuditRow, AuditOpen
<1> QED BY <1>1, <1>2, <1>3, <1>4

(* The columns of a job row are written one by one. *)
LEMMA JobColumns ==
    ASSUME NEW r \in JobRow
    PROVE  /\ r.attempts \in Nat /\ r.target \in Nodes \cup {None}
           /\ r.object \in Objects \cup {None}
           /\ \A s \in Active \cup Terminal : [r EXCEPT !.status = s] \in JobRow
           /\ \A b \in BOOLEAN : [r EXCEPT !.status = "canceled", !.reserved = b] \in JobRow
           /\ [r EXCEPT !.attempts = @ + 1] \in JobRow
<1>1. \A s \in Active \cup Terminal : [r EXCEPT !.status = s] \in JobRow
  BY DEF JobRow
<1>2. \A b \in BOOLEAN : [r EXCEPT !.status = "canceled", !.reserved = b] \in JobRow
  <2>1. "canceled" \in Active \cup Terminal
    BY DEF Terminal
  <2> QED BY <2>1 DEF JobRow
<1>3. r.attempts \in Nat /\ [r EXCEPT !.attempts = r.attempts + 1] \in JobRow
  BY DEF JobRow
<1>4. r.target \in Nodes \cup {None} /\ r.object \in Objects \cup {None}
  BY DEF JobRow
<1> QED BY <1>1, <1>2, <1>3, <1>4

(* schedule_repair_retry writes well-typed rows. *)
LEMMA RetryTypes ==
    ASSUME DbTypeOK, NEW j \in Jobs, NEW jb \in JobRow, NEW au \in AuditMap,
           NEW h \in HealthMap, RetryOf(j, jb, au, h)
    PROVE  /\ job' \in [Jobs -> JobRow] /\ audit' \in AuditMap
           /\ health' \in HealthMap /\ reserved' \in [Nodes -> Nat]
           /\ transfer' \in [Transfers -> TransferRow]
<1>1. CASE jb.status \in Terminal
  BY <1>1 DEF RetryOf, DbTypeOK
<1>2. CASE jb.status \notin Terminal
  <2>1. job' \in [Jobs -> JobRow]
    <3> DEFINE row == [jb EXCEPT !.status = IF jb.attempts >= MaxAttempts
                                            THEN "failed" ELSE "retry_wait",
                                 !.target = None, !.transfer = None, !.reserved = FALSE]
    <3>1. row \in JobRow
      BY DEF JobRow, Active, Terminal
    <3>2. job' = [job EXCEPT ![j] = row]
      BY <1>2 DEF RetryOf
    <3> QED BY <3>1, <3>2 DEF DbTypeOK
  <2>2. audit' \in AuditMap
    BY <1>2, HelperTypes DEF RetryOf
  <2>3. health' \in HealthMap
    <3>1. "deleted" \in HealthStatus
      BY DEF HealthStatus, Bad
    <3>2. TargetDropped(jb, h) \in HealthMap
      BY <3>1, HelperTypes DEF TargetDropped
    <3> QED BY <1>2, <3>2 DEF RetryOf
  <2>4. reserved' \in [Nodes -> Nat]
    BY <1>2, HelperTypes DEF RetryOf, JobReservationReleased
  <2>5. transfer' \in [Transfers -> TransferRow]
    BY <1>2, HelperTypes DEF RetryOf
  <2> QED BY <2>1, <2>2, <2>3, <2>4, <2>5
<1> QED BY <1>1, <1>2

-----------------------------------------------------------------------------
(* The rows of a database the transactions start from are well typed. *)
LEMMA TypeInit == DbInit => DbTypeOK
<1> SUFFICES ASSUME DbInit PROVE DbTypeOK
  OBVIOUS
<1>1. NoJob \in JobRow /\ NoAudit \in AuditRow /\ NoTransfer \in TransferRow /\ NoGc \in GcRow
  BY DEF NoJob, JobRow, NoAudit, AuditRow, NoTransfer, TransferRow, NoGc, GcRow
<1>2. reserved \in [Nodes -> Nat]
  <2>1. ASSUME NEW n \in Nodes
        PROVE Cardinality({o \in Objects : n \in replicas[o]}) \in Nat
    BY FiniteAssumption, FS_Subset, FS_CardinalityType
  <2> QED BY <2>1 DEF DbInit
<1>3. health \in [Objects -> [Nodes -> HealthStatus]]
  BY DEF DbInit, HealthStatus
<1>4. replicas \in [Objects -> SUBSET Nodes]
  BY DEF DbInit
<1> QED BY <1>1, <1>2, <1>3, <1>4 DEF DbInit, DbTypeOK

(* Every transaction keeps the rows well typed. *)
LEMMA TypeStep == RowInv /\ [DbNext]_dbVars => DbTypeOK'
<1> SUFFICES ASSUME RowInv, [DbNext]_dbVars PROVE DbTypeOK'
  OBVIOUS
<1> DbTypeOK
  BY DEF RowInv
<1> USE DEF HealthMap, AuditMap
<1>a. \A x \in {"none", "pending", "healthy", "suspect", "repairing", "missing",
                 "corrupt", "deleted"} : x \in HealthStatus
  BY DEF HealthStatus, Bad
<1>b. \A s \in FailureKinds \cup {"healthy"} : s \in HealthStatus
  BY KindAssumption DEF HealthStatus, Bad
<1>c. ASSUME NEW j \in Jobs PROVE job[j] \in JobRow /\ Claimed(j) \in JobRow
  BY JobColumns DEF DbTypeOK, Claimed
<1>s. \A s \in {"queued", "retry_wait", "selecting_target", "copying", "verifying",
                 "completed", "failed", "canceled"} : s \in Active \cup Terminal
  BY DEF Active, Running, Terminal
<1>d. ASSUME NEW j \in Jobs, NEW o \in Objects PROVE Inserted(j, o) \in [Jobs -> JobRow]
  BY DEF DbTypeOK, Inserted, NoJob, JobRow, Active
<1>1. ASSUME NEW j \in Jobs, NEW S \in SUBSET Nodes, NEW n \in Nodes,
             ClaimWithTarget(j, S, n)
      PROVE DbTypeOK'
  <2>1. job' \in [Jobs -> JobRow]
    <3>1. [Claimed(j) EXCEPT !.status = "selecting_target", !.target = n,
                             !.reserved = TRUE] \in JobRow
      BY <1>c DEF JobRow, Active, Running
    <3> QED BY <1>1, <3>1 DEF ClaimWithTarget, DbTypeOK
  <2>2. health' \in HealthMap
    BY <1>1, <1>a, HelperTypes DEF ClaimWithTarget, SetHealth, DbTypeOK
  <2> QED BY <1>1, <2>1, <2>2 DEF ClaimWithTarget, DbTypeOK
<1>2. ASSUME NEW j \in Jobs, ClaimBlocked(j) PROVE DbTypeOK'
  BY <1>2, <1>c, <1>s, JobColumns DEF ClaimBlocked, DbTypeOK
<1>3. ASSUME NEW j \in Jobs, ClaimWithoutTarget(j) PROVE DbTypeOK'
  BY <1>3, <1>c, RetryTypes DEF ClaimWithoutTarget, DbTypeOK
<1>4. ASSUME NEW j \in Jobs, NEW t \in Transfers, MarkRepairTargetStarted(j, t)
      PROVE DbTypeOK'
  <2>1. job' \in [Jobs -> JobRow]
    <3>1. [job[j] EXCEPT !.transfer = t] \in JobRow
      BY <1>c DEF JobRow
    <3> QED BY <1>4, <3>1 DEF MarkRepairTargetStarted, DbTypeOK
  <2>2. transfer' \in [Transfers -> TransferRow]
    <3>1. job[j].object \in Objects \cup {None} /\ job[j].target \in Nodes \cup {None}
      BY <1>c DEF JobRow
    <3>2. [object |-> job[j].object, node |-> job[j].target, cleanup |-> "none"] \in TransferRow
      BY <3>1 DEF TransferRow
    <3> QED BY <1>4, <3>2 DEF MarkRepairTargetStarted, DbTypeOK
  <2> QED BY <1>4, <2>1, <2>2 DEF MarkRepairTargetStarted, DbTypeOK
<1>5. ASSUME NEW j \in Jobs, MarkRepairCopying(j) PROVE DbTypeOK'
  BY <1>5, <1>c, <1>s, JobColumns DEF MarkRepairCopying, DbTypeOK
<1>6. ASSUME NEW j \in Jobs, StoreVerifying(j) PROVE DbTypeOK'
  <2>1. [status |-> "queued", attempts |-> 0] \in AuditRow
    BY DEF AuditRow, AuditOpen
  <2> QED BY <1>6, <2>1, <1>c, <1>s, JobColumns DEF StoreVerifying, DbTypeOK
<1>7. ASSUME NEW j \in Jobs, ScheduleRepairRetry(j) PROVE DbTypeOK'
  BY <1>7, <1>c, RetryTypes DEF ScheduleRepairRetry, DbTypeOK
<1>8. ASSUME NEW j \in Jobs, ClaimAudit(j) PROVE DbTypeOK'
  BY <1>8 DEF ClaimAudit, DbTypeOK, AuditRow, AuditOpen
<1>9. ASSUME NEW j \in Jobs, AuditPassed(j) PROVE DbTypeOK'
  <2> DEFINE o == job[j].object
             h == SetHealth(o, job[j].target, "healthy")
  <2>1. h \in HealthMap
    BY <1>a, HelperTypes DEF SetHealth, DbTypeOK
  <2>2. audit' \in AuditMap
    BY <1>9 DEF AuditPassed, DbTypeOK, AuditRow
  <2>3. o \in Objects
    BY <1>9 DEF AuditPassed, DbTypeOK
  <2>4. CASE DiscardTarget(j, h)
    <3> HIDE DEF h
    <3>1. job' \in [Jobs -> JobRow]
      BY <2>4, <1>c, JobColumns DEF DiscardTarget, DbTypeOK
    <3>2. health' \in HealthMap
      BY <2>4, <2>1, <1>a, HelperTypes DEF DiscardTarget, TargetDropped
    <3>3. reserved' \in [Nodes -> Nat] /\ transfer' \in [Transfers -> TransferRow]
      BY <2>4, HelperTypes DEF DiscardTarget, JobReservationReleased, DbTypeOK
    <3> QED BY <2>2, <2>4, <3>1, <3>2, <3>3 DEF DiscardTarget, DbTypeOK
  <2>5. ASSUME NEW retired \in RetiredSets(o, job[j].target, h), Publish(j, h, retired)
        PROVE DbTypeOK'
    <3> HIDE DEF h
    <3> DEFINE n == job[j].target
    <3>1. n \in Nodes
      BY <1>9, <1>c DEF AuditPassed, RowInv, AuditOnlyWhileVerifying, AuditOpen,
                        RunningHasTarget, Running, JobRow
    <3>2. replicas' \in [Objects -> SUBSET Nodes]
      BY <2>5, <3>1 DEF Publish, DbTypeOK
    <3>3. health' \in HealthMap
      BY <2>1, <2>3, <2>5, <1>a DEF Publish
    <3>4. gcQueue' \in [Objects -> [Nodes -> GcRow]]
      BY <2>5, <2>3 DEF Publish, DbTypeOK, GcRow, QueueOpen
    <3>5. job' \in [Jobs -> JobRow]
      BY <2>5, <1>c, <1>s, JobColumns DEF Publish, DbTypeOK
    <3>6. reserved' \in [Nodes -> Nat]
      BY <2>5, HelperTypes DEF Publish
    <3> QED BY <2>2, <2>5, <3>2, <3>3, <3>4, <3>5, <3>6 DEF Publish, DbTypeOK
  <2> QED BY <1>9, <2>4, <2>5 DEF AuditPassed
<1>10. ASSUME NEW j \in Jobs, NEW s \in FailureKinds, AuditFailed(j, s) PROVE DbTypeOK'
  <2> DEFINE h == SetHealth(job[j].object, job[j].target, s)
  <2>1. h \in HealthMap
    BY <1>b, HelperTypes DEF SetHealth, DbTypeOK
  <2>2. [audit EXCEPT ![j].status = "failed"] \in AuditMap
    BY DEF DbTypeOK, AuditRow
  <2>3. [audit EXCEPT ![j].status = "retry_wait"] \in AuditMap
    BY DEF DbTypeOK, AuditRow, AuditOpen
  <2> HIDE DEF h
  <2>4. CASE s = "suspect" /\ audit[j].attempts < AuditMaxAttempts
    BY <1>10, <2>1, <2>3, <2>4 DEF AuditFailed, DbTypeOK, h
  <2>5. CASE ~(s = "suspect" /\ audit[j].attempts < AuditMaxAttempts)
    <3>1. RetryOf(j, job[j], [audit EXCEPT ![j].status = "failed"], h)
      BY <1>10, <2>5 DEF AuditFailed, h
    <3> QED BY <1>10, <3>1, <2>1, <2>2, <1>c, RetryTypes DEF AuditFailed, DbTypeOK
  <2> QED BY <2>4, <2>5
<1>11. ASSUME NEW t \in Transfers, NEW n \in Nodes, NEW s \in FailureKinds,
              NoteSourceFailure(transfer[t].object, n, s, t)
       PROVE DbTypeOK'
  BY <1>11, <1>b, HelperTypes DEF NoteSourceFailure, SetHealth, DbTypeOK
<1>12. ASSUME NEW o \in Objects, NEW n \in Nodes, NEW s \in FailureKinds \cup {"healthy"},
              ReplicaObserved(o, n, s) \/ ScheduledAuditResult(o, n, s)
       PROVE DbTypeOK'
  <2>1. SetHealth(o, n, s) \in HealthMap
    BY <1>b, HelperTypes DEF SetHealth, DbTypeOK
  <2> QED BY <1>12, <2>1, <1>d DEF ReplicaObserved, ScheduledAuditResult, DbTypeOK
<1>13. ASSUME NEW o \in Objects, NEW n \in Nodes,
              SendObjectDelete(o, n) \/ ObjectDeleted(o, n)
       PROVE DbTypeOK'
  <2>1. gcQueue[o][n] \in GcRow
    BY DEF DbTypeOK
  <2>2. /\ [status |-> "sent", attempts |-> gcQueue[o][n].attempts + 1] \in GcRow
        /\ [gcQueue[o][n] EXCEPT !.status = "done"] \in GcRow
    BY <2>1 DEF GcRow, QueueOpen
  <2>3. gcQueue' \in [Objects -> [Nodes -> GcRow]]
    <3>1. CASE SendObjectDelete(o, n)
      BY <3>1, <2>2 DEF SendObjectDelete, DbTypeOK
    <3>2. CASE ObjectDeleted(o, n)
      BY <3>2, <2>2 DEF ObjectDeleted, DbTypeOK
    <3> QED BY <1>13, <3>1, <3>2
  <2> QED BY <1>13, <2>3 DEF SendObjectDelete, ObjectDeleted, DbTypeOK
<1>14. ASSUME NEW j \in Jobs, NEW o \in Objects, EnqueueRepairJob(j, o) PROVE DbTypeOK'
  BY <1>14, <1>d DEF EnqueueRepairJob, DbTypeOK
<1>15. ASSUME NEW j \in Jobs, CancelRepairJob(j) PROVE DbTypeOK'
  <2>1. job' \in [Jobs -> JobRow]
    BY <1>15, <1>c, JobColumns DEF CancelRepairJob, DbTypeOK
  <2>2. health' \in HealthMap
    BY <1>15, <1>a, HelperTypes DEF CancelRepairJob, TargetDropped, DbTypeOK
  <2> QED BY <1>15, <2>1, <2>2, HelperTypes
          DEF CancelRepairJob, JobReservationReleased, DbTypeOK
<1>16. ASSUME NEW j \in Jobs, NEW r \in BOOLEAN, RequeueRepairJob(j, r) PROVE DbTypeOK'
  <2> DEFINE row == [NoJob EXCEPT !.status = "queued", !.object = job[j].object,
                                  !.attempts = IF r THEN 0 ELSE job[j].attempts]
  <2>1. job[j].object \in Objects \cup {None} /\ job[j].attempts \in Nat
    BY <1>c DEF JobRow
  <2>2. row \in JobRow
    BY <2>1 DEF NoJob, JobRow, Active
  <2>3. job' = [job EXCEPT ![j] = row]
    BY <1>16 DEF RequeueRepairJob
  <2> HIDE DEF row
  <2> QED BY <1>16, <2>2, <2>3 DEF RequeueRepairJob, DbTypeOK
<1>17. ASSUME NEW o \in Objects, GcUnreferencedObject(o) PROVE DbTypeOK'
  BY <1>17, HelperTypes DEF GcUnreferencedObject, DbTypeOK, GcRow, QueueOpen
<1>18. ASSUME NEW t \in Transfers, NEW ok \in BOOLEAN,
              ClaimRepairCleanup(t) \/ MarkRepairCleanupResult(t, ok)
       PROVE DbTypeOK'
  <2>1. \A c \in {"sent", "done", "pending"} : [transfer[t] EXCEPT !.cleanup = c] \in TransferRow
    BY DEF DbTypeOK, TransferRow, QueueOpen
  <2> QED BY <1>18, <2>1 DEF ClaimRepairCleanup, MarkRepairCleanupResult, DbTypeOK
<1>19. CASE UNCHANGED dbVars
  BY <1>19 DEF dbVars, DbTypeOK
<1>20. ASSUME NEW j \in Jobs, RecoverStaleAudit(j) PROVE DbTypeOK'
  <2>1. \A c \in {"retry_wait", "failed"} : [audit[j] EXCEPT !.status = c] \in AuditRow
    BY DEF DbTypeOK, AuditRow, AuditOpen
  <2>2. audit' \in AuditMap
    BY <1>20, <2>1 DEF RecoverStaleAudit, DbTypeOK
  <2>3. health' \in HealthMap
    BY <1>20, <1>a, HelperTypes DEF RecoverStaleAudit, SetHealth, DbTypeOK
  <2> QED BY <1>20, <2>2, <2>3 DEF RecoverStaleAudit, DbTypeOK
<1> QED
  BY <1>1, <1>2, <1>3, <1>4, <1>5, <1>6, <1>7, <1>8, <1>9, <1>10, <1>11, <1>12, <1>13,
     <1>14, <1>15, <1>16, <1>17, <1>18, <1>19, <1>20
  DEF DbNext, Worker, SourceFailed, Observers, Operators, Cleanups

-----------------------------------------------------------------------------
(* How a transaction may change the row of job j and its audit: not at all, *)
(* by queueing a job that is absent or ended while no other job of the      *)
(* object is active, or by moving an active job on.                         *)
JobKept(j) ==
    job'[j] = job[j] /\ (audit'[j].status \in AuditOpen => audit[j].status \in AuditOpen)

JobQueued(j) ==
    /\ job[j].status \in {"absent", "failed", "canceled"}
    /\ job'[j].status = "queued" /\ job'[j].object \in Objects
    /\ job'[j].target = None /\ ~job'[j].reserved
    /\ ActiveJobs(job'[j].object) \ {j} = {}
    /\ audit'[j] = audit[j]

(* select_and_reserve_target: neither a replica nor a node still deleting. *)
TargetChosen(j) ==
    /\ job'[j].target \notin replicas[job[j].object]
    /\ gcQueue[job[j].object][job'[j].target].status \notin QueueOpen
    /\ UNCHANGED <<replicas, gcQueue>>

JobMoved(j) ==
    /\ job[j].status \in Active
    /\ job'[j].object = job[j].object
    /\ audit'[j].status \in AuditOpen => job'[j].status = "verifying"
    /\ job'[j].status \in Running => job'[j].target # None
    /\ \/ job'[j].status \in Active => job'[j].target \in {None, job[j].target}
       \/ TargetChosen(j)

JobStep(j) ==
    /\ \A k \in Jobs \ {j} : job'[k] = job[k] /\ audit'[k] = audit[k]
    /\ JobKept(j) \/ JobQueued(j) \/ JobMoved(j)

(* schedule_repair_retry of a live job closes its audit and its attempt. *)
LEMMA RetryJobStep ==
    ASSUME RowInv, NEW j \in Jobs, NEW jb, NEW au, NEW h, RetryOf(j, jb, au, h),
           job[j].status \in Active, jb.status \in Active, jb.object = job[j].object,
           DOMAIN jb = DOMAIN NoJob,
           au \in AuditMap, \A k \in Jobs \ {j} : au[k] = audit[k]
    PROVE  JobStep(j)
<1>1. jb.status \notin Terminal
  BY DEF Active, Running, Terminal
<1>2. audit' = AuditCanceled(j, au)
  BY <1>1 DEF RetryOf
<1>3. /\ \A k \in Jobs \ {j} : audit'[k] = audit[k]
      /\ audit'[j].status \notin AuditOpen
  BY <1>2 DEF AuditCanceled, AuditOpen, AuditMap, AuditRow
<1> DEFINE row == [jb EXCEPT !.status = IF jb.attempts >= MaxAttempts
                                          THEN "failed" ELSE "retry_wait",
                               !.target = None, !.transfer = None, !.reserved = FALSE]
<1>5. job' = [job EXCEPT ![j] = row]
  BY <1>1 DEF RetryOf
<1>6. row.status \in {"failed", "retry_wait"} /\ row.object = jb.object /\ row.target = None
  BY DEF NoJob
<1>7. job'[j] = row /\ \A k \in Jobs \ {j} : job'[k] = job[k]
  BY <1>5 DEF RowInv, DbTypeOK
<1>8. JobMoved(j)
  BY <1>3, <1>6, <1>7 DEF JobMoved, Running
<1> QED BY <1>3, <1>7, <1>8 DEF JobStep

(* Every transaction leaves the jobs and audits alone or is a JobStep. *)
LEMMA JobSteps ==
    ASSUME RowInv, [DbNext]_dbVars
    PROVE  (job' = job /\ audit' = audit) \/ \E j \in Jobs : JobStep(j)
<1> DEFINE Goal == (job' = job /\ audit' = audit) \/ \E j \in Jobs : JobStep(j)
<1> USE DEF RowInv, DbTypeOK
<1>f. DOMAIN NoJob = {"status", "object", "attempts", "target", "transfer", "reserved"}
  BY DEF NoJob
<1>r. ASSUME NEW j \in Jobs
      PROVE  /\ DOMAIN job[j] = DOMAIN NoJob /\ DOMAIN Claimed(j) = DOMAIN NoJob
             /\ Claimed(j).status = job[j].status /\ Claimed(j).object = job[j].object
             /\ job[j].target \in Nodes \cup {None}
  BY <1>f DEF Claimed, JobRow
<1>n. None \notin Nodes
  BY NoneAssumption
<1>1. ASSUME NEW j \in Jobs, NEW S \in SUBSET Nodes, NEW n \in Nodes,
             ClaimWithTarget(j, S, n)
      PROVE Goal
  <2> DEFINE row == [Claimed(j) EXCEPT !.status = "selecting_target", !.target = n,
                                       !.reserved = TRUE]
  <2>1. job' = [job EXCEPT ![j] = row] /\ audit' = audit
    BY <1>1 DEF ClaimWithTarget
  <2>2. row.status = "selecting_target" /\ row.target = n /\ row.object = job[j].object
    BY <1>r, <1>f
  <2>3. job'[j] = row /\ \A k \in Jobs \ {j} : job'[k] = job[k]
    BY <2>1
  <2>4. job[j].status \in {"queued", "retry_wait"}
    BY <1>1 DEF ClaimWithTarget, Claimable
  <2>5. JobMoved(j)
    <3>1. TargetChosen(j)
      BY <1>1, <2>2, <2>3 DEF ClaimWithTarget, EligibleTarget, TargetChosen
    <3> QED BY <2>1, <2>2, <2>3, <2>4, <3>1, <1>n
            DEF JobMoved, Active, AuditOnlyWhileVerifying
  <2> QED BY <2>1, <2>3, <2>5 DEF JobStep
<1>2. ASSUME NEW j \in Jobs, ClaimBlocked(j) PROVE Goal
  <2> DEFINE row == [Claimed(j) EXCEPT !.status = "canceled"]
  <2>1. job' = [job EXCEPT ![j] = row] /\ audit' = audit
    BY <1>2 DEF ClaimBlocked
  <2>2. row.status = "canceled" /\ row.object = job[j].object
    BY <1>r, <1>f
  <2>3. job'[j] = row /\ \A k \in Jobs \ {j} : job'[k] = job[k]
    BY <2>1
  <2>4. job[j].status \in {"queued", "retry_wait"}
    BY <1>2 DEF ClaimBlocked, Claimable
  <2>5. JobMoved(j)
    BY <2>1, <2>2, <2>3, <2>4 DEF JobMoved, Active, Running, AuditOnlyWhileVerifying
  <2> QED BY <2>1, <2>3, <2>5 DEF JobStep
<1>3. ASSUME NEW j \in Jobs, ClaimWithoutTarget(j) PROVE Goal
  <2>1. job[j].status \in Active
    BY <1>3 DEF ClaimWithoutTarget, Claimable, Active
  <2>2. RetryOf(j, Claimed(j), audit, health)
    BY <1>3 DEF ClaimWithoutTarget
  <2> QED BY <2>1, <2>2, <1>r, RetryJobStep DEF AuditMap
<1>4. ASSUME NEW j \in Jobs, NEW t \in Transfers, MarkRepairTargetStarted(j, t) PROVE Goal
  <2>1. job' = [job EXCEPT ![j].transfer = t] /\ audit' = audit
    BY <1>4 DEF MarkRepairTargetStarted
  <2>2. /\ job'[j].status = job[j].status /\ job'[j].object = job[j].object
        /\ job'[j].target = job[j].target
        /\ \A k \in Jobs \ {j} : job'[k] = job[k]
    BY <2>1, <1>r, <1>f
  <2>3. job[j].status \in {"selecting_target", "copying"}
    BY <1>4 DEF MarkRepairTargetStarted, TargetStartable
  <2>4. JobMoved(j)
    BY <2>1, <2>2, <2>3
    DEF JobMoved, Active, Running, AuditOnlyWhileVerifying, RunningHasTarget
  <2> QED BY <2>1, <2>2, <2>4 DEF JobStep
<1>5. ASSUME NEW j \in Jobs, MarkRepairCopying(j) PROVE Goal
  <2>1. job' = [job EXCEPT ![j].status = "copying"] /\ audit' = audit
    BY <1>5 DEF MarkRepairCopying
  <2>2. /\ job'[j].status = "copying" /\ job'[j].object = job[j].object
        /\ job'[j].target = job[j].target
        /\ \A k \in Jobs \ {j} : job'[k] = job[k]
    BY <2>1, <1>r, <1>f
  <2>3. job[j].status \in {"selecting_target", "copying"}
    BY <1>5 DEF MarkRepairCopying
  <2>4. JobMoved(j)
    BY <2>1, <2>2, <2>3
    DEF JobMoved, Active, Running, AuditOnlyWhileVerifying, RunningHasTarget
  <2> QED BY <2>1, <2>2, <2>4 DEF JobStep
<1>6. ASSUME NEW j \in Jobs, StoreVerifying(j) PROVE Goal
  <2>1. /\ job' = [job EXCEPT ![j].status = "verifying"]
        /\ audit' = [audit EXCEPT ![j] = [status |-> "queued", attempts |-> 0]]
        /\ job[j].status = "copying"
    BY <1>6 DEF StoreVerifying
  <2>2. /\ job'[j].status = "verifying" /\ job'[j].object = job[j].object
        /\ job'[j].target = job[j].target
        /\ \A k \in Jobs \ {j} : job'[k] = job[k] /\ audit'[k] = audit[k]
    BY <2>1, <1>r, <1>f
  <2>3. audit'[j].status \in AuditOpen
    BY <2>1 DEF AuditOpen
  <2>4. JobMoved(j)
    BY <2>1, <2>2, <2>3 DEF JobMoved, Active, Running, RunningHasTarget
  <2> QED BY <2>2, <2>4 DEF JobStep
<1>7. ASSUME NEW j \in Jobs, job[j].status \in Active, ScheduleRepairRetry(j) PROVE Goal
  <2>1. RetryOf(j, job[j], audit, health)
    BY <1>7 DEF ScheduleRepairRetry
  <2> QED BY <1>7, <2>1, <1>r, RetryJobStep DEF AuditMap
<1>8. ASSUME NEW j \in Jobs, ClaimAudit(j) PROVE Goal
  <2>1. /\ job' = job /\ \A k \in Jobs \ {j} : audit'[k] = audit[k]
        /\ audit[j].status \in AuditOpen /\ audit'[j].status \in AuditOpen
    BY <1>8 DEF ClaimAudit, AuditOpen, AuditRow
  <2>2. JobKept(j)
    BY <2>1 DEF JobKept
  <2> QED BY <2>1, <2>2 DEF JobStep
<1>v. ASSUME NEW j \in Jobs, audit[j].status = "sent" PROVE job[j].status = "verifying"
  BY <1>v DEF AuditOnlyWhileVerifying, AuditOpen
<1>9. ASSUME NEW j \in Jobs, AuditPassed(j) PROVE Goal
  <2>1. /\ audit[j].status = "sent"
        /\ audit' = [audit EXCEPT ![j].status = "completed"]
    BY <1>9 DEF AuditPassed
  <2>2. /\ job'[j].status \in {"completed", "canceled"}
        /\ job'[j].object = job[j].object
        /\ \A k \in Jobs \ {j} : job'[k] = job[k]
    <3>1. \/ job' = [job EXCEPT ![j].status = "completed"]
          \/ job' = [job EXCEPT ![j] = [job[j] EXCEPT !.status = "canceled", !.reserved = FALSE]]
      BY <1>9 DEF AuditPassed, DiscardTarget, Publish
    <3>2. job \in [Jobs -> JobRow]
      BY <1>r DEF RowInv, DbTypeOK
    <3>3. CASE job' = [job EXCEPT ![j].status = "completed"]
      BY <3>2, <3>3 DEF JobRow
    <3>4. CASE job' = [job EXCEPT ![j] = [job[j] EXCEPT !.status = "canceled", !.reserved = FALSE]]
      BY <3>2, <3>4 DEF JobRow
    <3> QED BY <3>1, <3>3, <3>4
  <2>3. audit'[j].status \notin AuditOpen /\ \A k \in Jobs \ {j} : audit'[k] = audit[k]
    BY <2>1 DEF AuditOpen, AuditRow
  <2>4. JobMoved(j)
    BY <2>1, <2>2, <2>3, <1>v DEF JobMoved, Active, Running
  <2> QED BY <2>2, <2>3, <2>4 DEF JobStep
<1>10. ASSUME NEW j \in Jobs, NEW s \in FailureKinds, AuditFailed(j, s) PROVE Goal
  <2>1. audit[j].status = "sent" /\ job[j].status = "verifying"
    BY <1>10, <1>v DEF AuditFailed
  <2>2. CASE s = "suspect" /\ audit[j].attempts < AuditMaxAttempts
    <3>1. job' = job /\ audit' = [audit EXCEPT ![j].status = "retry_wait"]
      BY <1>10, <2>2 DEF AuditFailed
    <3>2. JobKept(j) /\ \A k \in Jobs \ {j} : job'[k] = job[k] /\ audit'[k] = audit[k]
      BY <2>1, <3>1 DEF JobKept, AuditOpen, AuditRow
    <3> QED BY <3>2 DEF JobStep
  <2>3. CASE ~(s = "suspect" /\ audit[j].attempts < AuditMaxAttempts)
    <3> DEFINE au == [audit EXCEPT ![j].status = "failed"]
               h  == SetHealth(job[j].object, job[j].target, s)
    <3>1. RetryOf(j, job[j], au, h)
      BY <1>10, <2>3 DEF AuditFailed
    <3>2. au \in AuditMap /\ \A k \in Jobs \ {j} : au[k] = audit[k]
      BY DEF AuditMap, AuditRow
    <3> HIDE DEF au, h
    <3> QED BY <2>1, <3>1, <3>2, <1>r, RetryJobStep DEF Active, Running
  <2> QED BY <2>2, <2>3
<1>q. ASSUME NEW j \in Jobs, NEW o \in Objects, job[j].status = "absent",
             MayEnqueue(o, health) \/ MayEnqueue(o, health'), job' = Inserted(j, o),
             audit' = audit
      PROVE Goal
  <2>1. ActiveJobs(o) = {}
    BY <1>q DEF MayEnqueue
  <2>2. /\ job'[j].status = "queued" /\ job'[j].object = o /\ job'[j].target = None
        /\ ~job'[j].reserved /\ \A k \in Jobs \ {j} : job'[k] = job[k]
    BY <1>q DEF Inserted, NoJob
  <2>3. JobQueued(j)
    BY <1>q, <2>1, <2>2 DEF JobQueued
  <2> QED BY <1>q, <2>2, <2>3 DEF JobStep
<1>12. ASSUME NEW o \in Objects, NEW n \in Nodes, NEW s, ScheduledAuditResult(o, n, s)
       PROVE Goal
  BY <1>12, <1>q DEF ScheduledAuditResult
<1>14. ASSUME NEW j \in Jobs, NEW o \in Objects, EnqueueRepairJob(j, o) PROVE Goal
  BY <1>14, <1>q DEF EnqueueRepairJob
<1>15. ASSUME NEW j \in Jobs, CancelRepairJob(j) PROVE Goal
  <2>1. /\ job[j].status \in Active
        /\ job' = [job EXCEPT ![j] = [job[j] EXCEPT !.status = "canceled", !.reserved = FALSE]]
        /\ audit' = AuditCanceled(j, audit)
    BY <1>15 DEF CancelRepairJob
  <2>2. /\ job'[j].status = "canceled" /\ job'[j].object = job[j].object
        /\ \A k \in Jobs \ {j} : job'[k] = job[k]
    BY <2>1, <1>r, <1>f
  <2>3. audit'[j].status \notin AuditOpen /\ \A k \in Jobs \ {j} : audit'[k] = audit[k]
    BY <2>1 DEF AuditCanceled, AuditOpen, AuditRow
  <2>4. JobMoved(j)
    BY <2>1, <2>2, <2>3 DEF JobMoved, Running
  <2> QED BY <2>2, <2>3, <2>4 DEF JobStep
<1>16. ASSUME NEW j \in Jobs, NEW r \in BOOLEAN, RequeueRepairJob(j, r) PROVE Goal
  <2>1. /\ job[j].status \in {"failed", "canceled"} /\ audit' = audit
        /\ ActiveJobs(job[j].object) \ {j} = {}
    BY <1>16 DEF RequeueRepairJob
  <2>2. /\ job'[j].status = "queued" /\ job'[j].object = job[j].object
        /\ job'[j].target = None /\ ~job'[j].reserved
        /\ \A k \in Jobs \ {j} : job'[k] = job[k]
        /\ job[j].object \in Objects
    BY <1>16 DEF RequeueRepairJob, NoJob, HasObject
  <2>3. JobQueued(j)
    BY <2>1, <2>2 DEF JobQueued
  <2> QED BY <2>1, <2>2, <2>3 DEF JobStep
<1> HIDE DEF RowInv, DbTypeOK
<1>17. ASSUME NEW o \in Objects, NEW n \in Nodes, NEW s,
              \/ ReplicaObserved(o, n, s) \/ SendObjectDelete(o, n)
              \/ ObjectDeleted(o, n) \/ GcUnreferencedObject(o)
       PROVE Goal
  BY <1>17 DEF ReplicaObserved, SendObjectDelete, ObjectDeleted, GcUnreferencedObject
<1>18. ASSUME NEW t \in Transfers, NEW n, NEW s, NEW ok,
              \/ NoteSourceFailure(transfer[t].object, n, s, t)
              \/ ClaimRepairCleanup(t) \/ MarkRepairCleanupResult(t, ok)
       PROVE Goal
  BY <1>18 DEF NoteSourceFailure, ClaimRepairCleanup, MarkRepairCleanupResult
<1>25. ASSUME NEW j \in Jobs, RecoverStaleAudit(j) PROVE Goal
  <2>1. job' = job /\ \A k \in Jobs \ {j} : audit'[k] = audit[k]
    BY <1>25 DEF RecoverStaleAudit
  <2>2. audit[j].status \in AuditOpen
    BY <1>25 DEF RecoverStaleAudit, AuditOpen
  <2> QED BY <2>1, <2>2 DEF JobStep, JobKept
<1>19. CASE UNCHANGED dbVars
  BY <1>19 DEF dbVars
<1>20. CASE Worker
  BY <1>20, <1>1, <1>2, <1>3, <1>4, <1>5, <1>6, <1>7, <1>8, <1>9, <1>10,
     <1>25 DEF Worker
<1>21. CASE SourceFailed
  BY <1>21, <1>18 DEF SourceFailed
<1>22. CASE Observers
  BY <1>22, <1>12, <1>17 DEF Observers
<1>23. CASE Operators
  <2>1. CASE \E o \in Objects : GcUnreferencedObject(o)
    BY <2>1 DEF GcUnreferencedObject
  <2>2. CASE \E j \in Jobs, o \in Objects : EnqueueRepairJob(j, o)
    BY <2>2, <1>14
  <2>3. CASE \E j \in Jobs : CancelRepairJob(j)
    BY <2>3, <1>15
  <2>4. CASE \E j \in Jobs, r \in BOOLEAN : RequeueRepairJob(j, r)
    BY <2>4, <1>16
  <2> QED BY <1>23, <2>1, <2>2, <2>3, <2>4 DEF Operators
<1>24. CASE Cleanups
  BY <1>24, <1>18 DEF Cleanups
<1> QED BY <1>19, <1>20, <1>21, <1>22, <1>23, <1>24 DEF DbNext

-----------------------------------------------------------------------------
(* The database starts in the row invariant. *)
LEMMA RowInit == DbInit => RowInv
<1> SUFFICES ASSUME DbInit PROVE AuditOnlyWhileVerifying /\ RunningHasTarget /\ HasObject
  BY TypeInit DEF RowInv
<1> QED BY DEF DbInit, AuditOnlyWhileVerifying, RunningHasTarget, HasObject, AuditOpen, Running,
               NoJob, NoAudit

(* The row invariant is inductive over every transaction. *)
LEMMA RowStep == RowInv /\ [DbNext]_dbVars => RowInv'
<1> SUFFICES ASSUME RowInv, [DbNext]_dbVars PROVE RowInv'
  OBVIOUS
<1>1. DbTypeOK'
  BY TypeStep
<1>2. CASE job' = job /\ audit' = audit
  BY <1>1, <1>2 DEF RowInv, AuditOnlyWhileVerifying, RunningHasTarget, HasObject
<1>3. ASSUME NEW j \in Jobs, JobStep(j) PROVE RowInv'
  <2>1. AuditOnlyWhileVerifying'
    <3> SUFFICES ASSUME NEW k \in Jobs
                 PROVE  audit'[k].status \in AuditOpen => job'[k].status = "verifying"
      BY DEF AuditOnlyWhileVerifying
    <3>1. CASE k # j
      BY <1>3, <3>1 DEF JobStep, RowInv, AuditOnlyWhileVerifying
    <3>2. CASE k = j
      BY <1>3, <3>2 DEF JobStep, JobKept, JobQueued, JobMoved, RowInv,
                        AuditOnlyWhileVerifying
    <3> QED BY <3>1, <3>2
  <2>2. RunningHasTarget'
    BY <1>3 DEF JobStep, JobKept, JobQueued, JobMoved, RowInv, RunningHasTarget, Running
  <2>3. HasObject'
    BY <1>3 DEF JobStep, JobKept, JobQueued, JobMoved, RowInv, HasObject, Active, Running
  <2> QED BY <1>1, <2>1, <2>2, <2>3 DEF RowInv
<1> QED BY <1>2, <1>3, JobSteps

(* Every reachable database is well typed: in particular a repair never     *)
(* publishes, reserves or cleans up a NULL node, whatever is interleaved.   *)
THEOREM RowsWellTyped == DbSpec => []DbTypeOK
<1>1. RowInv => DbTypeOK
  BY DEF RowInv
<1> QED BY RowInit, RowStep, <1>1, PTL DEF DbSpec

(* A verification audit is open exactly while its job is verifying: retry,  *)
(* cancel, requeue and recovery never leave an audit behind that could      *)
(* decide a later attempt.                                                  *)
THEOREM AuditsFollowJobs == DbSpec => []AuditOnlyWhileVerifying
<1>1. RowInv => AuditOnlyWhileVerifying
  BY DEF RowInv
<1> QED BY RowInit, RowStep, <1>1, PTL DEF DbSpec

(* A late retry, audit result, cancellation or recovery never brings back a *)
(* repair that ended; only requeue_repair_job does, and never a completed   *)
(* one.                                                                     *)
THEOREM EndedJobsStayEnded == DbSpec => EndedStaysEnded
<1> DEFINE A == \A j \in Jobs : job[j].status \in Terminal /\ job'[j] # job[j] =>
                   /\ job[j].status # "completed"
                   /\ job'[j].status = "queued" /\ ~job'[j].reserved
<1>1. ASSUME RowInv, [DbNext]_dbVars PROVE [A]_dbVars
  <2>1. CASE job' = job
    BY <2>1
  <2>2. ASSUME NEW j \in Jobs, JobStep(j) PROVE A
    <3> SUFFICES ASSUME NEW k \in Jobs, job[k].status \in Terminal, job'[k] # job[k]
                 PROVE  /\ job[k].status # "completed"
                        /\ job'[k].status = "queued" /\ ~job'[k].reserved
      OBVIOUS
    <3>1. k = j /\ ~JobKept(j)
      BY <2>2 DEF JobStep, JobKept
    <3>2. ~JobMoved(j)
      BY <3>1 DEF JobMoved, Active, Running, Terminal
    <3> QED BY <2>2, <3>1, <3>2 DEF JobStep, JobQueued
  <2> QED BY <1>1, <2>1, <2>2, JobSteps
<1> QED BY RowInit, RowStep, <1>1, PTL DEF DbSpec, EndedStaysEnded

-----------------------------------------------------------------------------
(* No two active jobs repair the same object. *)
SoleActive ==
    \A j, k \in Jobs :
        /\ job[j].status \in Active /\ job[k].status \in Active
        /\ job[j].object = job[k].object
        => j = k

(* No job is active at the start. *)
LEMMA SoleActiveInit == DbInit => SoleActive
BY DEF DbInit, SoleActive, NoJob, Active, Running

(* No transaction makes a second job of an object active. *)
LEMMA SoleActiveStep == RowInv /\ SoleActive /\ [DbNext]_dbVars => SoleActive'
<1> SUFFICES ASSUME RowInv, SoleActive, [DbNext]_dbVars PROVE SoleActive'
  OBVIOUS
<1>1. CASE job' = job
  BY <1>1 DEF SoleActive
<1>2. ASSUME NEW i \in Jobs, JobStep(i) PROVE SoleActive'
  <2>1. ASSUME JobKept(i) \/ JobMoved(i) PROVE SoleActive'
    <3>1. \A k \in Jobs : job'[k].status \in Active /\ job[k].status \notin Active => FALSE
      BY <1>2, <2>1 DEF JobStep, JobKept, JobMoved
    <3>2. \A k \in Jobs : job'[k].object = job[k].object
      BY <1>2, <2>1 DEF JobStep, JobKept, JobMoved
    <3> QED BY <3>1, <3>2 DEF SoleActive
  <2>2. ASSUME JobQueued(i) PROVE SoleActive'
    <3>1. \A k \in Jobs \ {i} : job'[k] = job[k]
      BY <1>2 DEF JobStep
    <3>2. \A k \in Jobs \ {i} : job[k].status \in Active => job[k].object # job'[i].object
      BY <2>2 DEF JobQueued, ActiveJobs
    <3> QED BY <3>1, <3>2 DEF SoleActive
  <2> QED BY <1>2, <2>1, <2>2 DEF JobStep
<1> QED BY <1>1, <1>2, JobSteps

(* "At most one active repair for an object", for every number of jobs: the *)
(* check of enqueue_repair_job and of requeue_repair_job is enough.         *)
THEOREM AtMostOneActiveRepair == DbSpec => []OneActiveRepair
<1>1. SoleActive => OneActiveRepair
  <2> SUFFICES ASSUME SoleActive, NEW o \in Objects
               PROVE  Cardinality(ActiveJobs(o)) <= 1
    BY DEF OneActiveRepair
  <2>1. CASE ActiveJobs(o) = {}
    BY <2>1, FS_EmptySet
  <2>2. ASSUME NEW j \in ActiveJobs(o) PROVE Cardinality(ActiveJobs(o)) <= 1
    <3>1. ActiveJobs(o) = {j}
      BY <2>2 DEF ActiveJobs, SoleActive
    <3> QED BY <3>1, FS_Singleton
  <2> QED BY <2>1, <2>2
<1>2. DbInit => RowInv /\ SoleActive
  BY RowInit, SoleActiveInit
<1>3. RowInv /\ SoleActive /\ [DbNext]_dbVars => (RowInv /\ SoleActive)'
  BY RowStep, SoleActiveStep
<1> QED BY <1>1, <1>2, <1>3, PTL DEF DbSpec

-----------------------------------------------------------------------------
(* How a transaction may change the replicas and the deletion queue: by the *)
(* publication of job j, by the purge of object o, or by moving one         *)
(* unfinished queue row on.                                                 *)
Published(j) ==
    LET o == job[j].object
        h == SetHealth(o, job[j].target, "healthy") IN
    /\ job[j].status = "verifying" /\ o \in objects /\ ~Blocked(o, h)
    /\ \E retired \in RetiredSets(o, job[j].target, h) : Publish(j, h, retired)

QueueRowMoved ==
    /\ replicas' = replicas
    /\ \A o \in Objects, n \in Nodes :
          gcQueue'[o][n].status \in QueueOpen => gcQueue[o][n].status \in QueueOpen

CopyStep ==
    \/ UNCHANGED <<replicas, gcQueue>>
    \/ \E j \in Jobs : Published(j)
    \/ \E o \in Objects : GcUnreferencedObject(o)
    \/ QueueRowMoved

(* Every transaction moves the replicas, targets and deletions by a CopyStep. *)
LEMMA CopySteps ==
    ASSUME RowInv, [DbNext]_dbVars
    PROVE  CopyStep
<1>1. ASSUME NEW j \in Jobs, AuditPassed(j) PROVE CopyStep
  <2> DEFINE h == SetHealth(job[j].object, job[j].target, "healthy")
  <2>1. CASE Blocked(job[j].object, h)
    BY <1>1, <2>1 DEF AuditPassed, DiscardTarget, CopyStep
  <2>2. CASE ~Blocked(job[j].object, h)
    <3>1. job[j].status = "verifying" /\ job[j].object \in objects
      BY <1>1 DEF AuditPassed, RowInv, AuditOnlyWhileVerifying, AuditOpen
    <3>2. \E retired \in RetiredSets(job[j].object, job[j].target, h) : Publish(j, h, retired)
      BY <1>1, <2>2 DEF AuditPassed
    <3> QED BY <2>2, <3>1, <3>2 DEF Published, CopyStep
  <2> QED BY <2>1, <2>2
<1>2. ASSUME NEW o \in Objects, NEW n \in Nodes, SendObjectDelete(o, n) \/ ObjectDeleted(o, n)
      PROVE CopyStep
  <2>1. /\ gcQueue[o][n].status \in QueueOpen /\ replicas' = replicas
        /\ \A p \in Objects, m \in Nodes :
              <<p, m>> # <<o, n>> => gcQueue'[p][m] = gcQueue[p][m]
    BY <1>2 DEF SendObjectDelete, ObjectDeleted, QueueOpen, RowInv, DbTypeOK
  <2> QED BY <2>1 DEF QueueRowMoved, CopyStep
<1>3. ASSUME NEW o \in Objects, GcUnreferencedObject(o) PROVE CopyStep
  BY <1>3 DEF CopyStep
<1>4. CASE UNCHANGED <<replicas, gcQueue>>
  BY <1>4 DEF CopyStep
<1>5. CASE Worker
  <2>1. CASE \E j \in Jobs : AuditPassed(j)
    BY <2>1, <1>1
  <2>2. CASE ~\E j \in Jobs : AuditPassed(j)
    <3>1. PICK j \in Jobs :
            \/ \E S \in SUBSET Nodes, n \in Nodes : ClaimWithTarget(j, S, n)
            \/ ClaimBlocked(j) \/ ClaimWithoutTarget(j)
            \/ \E t \in Transfers : MarkRepairTargetStarted(j, t)
            \/ MarkRepairCopying(j) \/ StoreVerifying(j) \/ ScheduleRepairRetry(j)
            \/ ClaimAudit(j) \/ \E s \in FailureKinds : AuditFailed(j, s)
            \/ RecoverStaleAudit(j)
      BY <1>5, <2>2 DEF Worker
    <3>2. UNCHANGED <<replicas, gcQueue>>
      BY <3>1 DEF ClaimWithTarget, ClaimBlocked, ClaimWithoutTarget, MarkRepairTargetStarted,
                  MarkRepairCopying, StoreVerifying, ScheduleRepairRetry, ClaimAudit, AuditFailed,
                  RecoverStaleAudit
    <3> QED BY <3>2 DEF CopyStep
  <2> QED BY <2>1, <2>2
<1>6. CASE SourceFailed
  BY <1>6, <1>4 DEF SourceFailed, NoteSourceFailure
<1>7. CASE Observers
  <2>1. CASE \E o \in Objects, n \in Nodes : SendObjectDelete(o, n) \/ ObjectDeleted(o, n)
    BY <2>1, <1>2
  <2>2. CASE \E o \in Objects, n \in Nodes, s \in FailureKinds \cup {"healthy"} :
               ReplicaObserved(o, n, s) \/ ScheduledAuditResult(o, n, s)
    BY <2>2, <1>4 DEF ReplicaObserved, ScheduledAuditResult
  <2> QED BY <1>7, <2>1, <2>2 DEF Observers
<1>8. CASE Operators
  <2>1. CASE \E o \in Objects : GcUnreferencedObject(o)
    BY <2>1, <1>3
  <2>2. CASE \E j \in Jobs, o \in Objects : EnqueueRepairJob(j, o)
    BY <2>2, <1>4 DEF EnqueueRepairJob
  <2>3. CASE \E j \in Jobs : CancelRepairJob(j)
    BY <2>3, <1>4 DEF CancelRepairJob
  <2>4. CASE \E j \in Jobs, r \in BOOLEAN : RequeueRepairJob(j, r)
    BY <2>4, <1>4 DEF RequeueRepairJob
  <2> QED BY <1>8, <2>1, <2>2, <2>3, <2>4 DEF Operators
<1>9. CASE Cleanups
  BY <1>9, <1>4 DEF Cleanups, ClaimRepairCleanup, MarkRepairCleanupResult
<1>10. CASE UNCHANGED dbVars
  BY <1>10, <1>4 DEF dbVars
<1> QED BY <1>5, <1>6, <1>7, <1>8, <1>9, <1>10 DEF DbNext

-----------------------------------------------------------------------------
(* The target of an active job is not yet a replica: no purge or retirement *)
(* queues its deletion.                                                     *)
TargetIsNew ==
    \A j \in Jobs : job[j].status \in Active /\ job[j].target # None
                      => job[j].target \notin replicas[job[j].object]

LiveInv == RowInv /\ SoleActive /\ TargetIsNew /\ NoDeleteOfLiveCopy

(* A target an active job has after a step is the one it had before, or one *)
(* that was just chosen.                                                    *)
LEMMA TargetSteps ==
    ASSUME RowInv, [DbNext]_dbVars, NEW j \in Jobs,
           job'[j].status \in Active, job'[j].target # None
    PROVE  /\ job'[j].object = job[j].object /\ job[j].status \in Active
           /\ job'[j].target = job[j].target \/ TargetChosen(j)
<1>1. CASE job' = job
  BY <1>1
<1>2. ASSUME NEW i \in Jobs, JobStep(i)
      PROVE  /\ job'[j].object = job[j].object /\ job[j].status \in Active
             /\ job'[j].target = job[j].target \/ TargetChosen(j)
  <2>1. CASE i # j
    BY <1>2, <2>1 DEF JobStep
  <2>2. CASE i = j
    BY <1>2, <2>2 DEF JobStep, JobKept, JobQueued, JobMoved
  <2> QED BY <2>1, <2>2
<1> QED BY <1>1, <1>2, JobSteps

(* What complete_repair_job publishes: a new node beside the old replicas,  *)
(* minus as many known-bad ones as exceed the target, each of them queued.  *)
LEMMA PublishFacts ==
    ASSUME LiveInv, NEW j \in Jobs, Published(j)
    PROVE  LET o == job[j].object  n == job[j].target IN
           /\ o \in Objects /\ n \in Nodes /\ n \notin replicas[o]
           /\ job'[j].status = "completed"
           /\ health'[o][n] = "healthy"
           /\ UNCHANGED objects
           /\ \E retired \in SUBSET Retirable(o, health) :
                /\ replicas' = [replicas EXCEPT ![o] = (@ \cup {n}) \ retired]
                /\ \A m \in replicas[o] \ retired : health'[o][m] = health[o][m]
                /\ \A m \in Nodes \ retired : gcQueue'[o][m] = gcQueue[o][m]
                /\ Cardinality((replicas[o] \cup {n}) \ retired) <= TargetReplicas
           /\ \A p \in Objects \ {o} :
                replicas'[p] = replicas[p] /\ gcQueue'[p] = gcQueue[p]
<1> DEFINE o == job[j].object
           n == job[j].target
           h == SetHealth(o, n, "healthy")
           rs == replicas[o] \cup {n}
           bad == {m \in rs \ {n} : h[o][m] \in Bad}
           excess == IF Cardinality(rs) > TargetReplicas
                     THEN Cardinality(rs) - TargetReplicas ELSE 0
<1>0. DbTypeOK
  BY DEF LiveInv, RowInv
<1>1. o \in objects /\ o \in Objects /\ job[j].status = "verifying"
  BY <1>0 DEF Published, DbTypeOK
<1>2. n \in Nodes /\ n \notin replicas[o] /\ replicas[o] \subseteq Nodes
  <2>1. n # None
    BY <1>1 DEF LiveInv, RowInv, RunningHasTarget, Running
  <2>2. n \in Nodes
    BY <2>1, <1>0 DEF DbTypeOK, JobRow
  <2>3. n \notin replicas[o]
    BY <1>1, <2>1 DEF LiveInv, TargetIsNew, Active, Running
  <2> QED BY <2>2, <2>3, <1>0, <1>1 DEF DbTypeOK
<1>3. h[o][n] = "healthy" /\ \A m \in Nodes \ {n} : h[o][m] = health[o][m]
  BY <1>0, <1>1, <1>2 DEF SetHealth, DbTypeOK
<1>4. bad = Retirable(o, health) /\ Retirable(o, h) = Retirable(o, health)
  BY <1>2, <1>3 DEF Retirable
<1>5. ~Blocked(o, h)
  BY DEF Published
<1>6. PICK retired \in RetiredSets(o, n, h) : Publish(j, h, retired)
  BY DEF Published
<1>7. /\ retired \in SUBSET bad
      /\ Cardinality(retired) = IF excess < Cardinality(bad) THEN excess ELSE Cardinality(bad)
  BY <1>6 DEF RetiredSets
<1>8. Cardinality(rs \ retired) <= TargetReplicas
  <2>1. IsFiniteSet(replicas[o]) /\ IsFiniteSet(rs) /\ IsFiniteSet(bad)
    BY <1>2, FiniteAssumption, FS_Subset
  <2>2. Cardinality(rs) = Cardinality(replicas[o]) + 1
    BY <1>2, <2>1, FS_AddElement
  <2>3. Cardinality(replicas[o]) + 1 <= TargetReplicas + Cardinality(bad)
    <3>1. /\ Cardinality(replicas[o]) \in Nat /\ Cardinality(bad) \in Nat
          /\ TargetReplicas \in Nat
      BY <2>1, FS_CardinalityType, CountAssumption
    <3>2. Cardinality(Retirable(o, h)) = Cardinality(bad)
      BY <1>4
    <3> HIDE DEF h, bad
    <3>3. ~(Cardinality(replicas[o]) + 1 > TargetReplicas + Cardinality(Retirable(o, h)))
      BY <1>5 DEF Blocked
    <3> QED BY <3>1, <3>2, <3>3
  <2>4. retired \subseteq rs /\ IsFiniteSet(retired)
    BY <1>7, <2>1, FS_Subset
  <2>5. Cardinality(rs \ retired) = Cardinality(rs) - Cardinality(retired)
    <3>1. rs \cap retired = retired
      BY <2>4
    <3> HIDE DEF rs
    <3>2. Cardinality(rs \ retired) = Cardinality(rs) - Cardinality(rs \cap retired)
      BY <2>1, <2>4, FS_Difference
    <3> QED BY <3>1, <3>2
  <2>6. /\ Cardinality(rs) \in Nat /\ Cardinality(bad) \in Nat
        /\ Cardinality(replicas[o]) \in Nat /\ TargetReplicas \in Nat
    <3> HIDE DEF rs, bad
    <3>1. Cardinality(rs) \in Nat
      BY <2>1, FS_CardinalityType
    <3>2. Cardinality(bad) \in Nat
      BY <2>1, FS_CardinalityType
    <3>3. Cardinality(replicas[o]) \in Nat
      BY <2>1, FS_CardinalityType
    <3> QED BY <3>1, <3>2, <3>3, CountAssumption
  <2> HIDE DEF rs, bad
  <2> QED BY <1>7, <2>2, <2>3, <2>5, <2>6
<1>9. /\ job'[j].status = "completed" /\ UNCHANGED objects
      /\ replicas' = [replicas EXCEPT ![o] = (@ \cup {n}) \ retired]
      /\ \A m \in Nodes \ retired : health'[o][m] = h[o][m] /\ gcQueue'[o][m] = gcQueue[o][m]
      /\ \A p \in Objects \ {o} : replicas'[p] = replicas[p] /\ gcQueue'[p] = gcQueue[p]
  <2>1. /\ replicas' = [replicas EXCEPT ![o] = (@ \cup {n}) \ retired]
        /\ health' = [h EXCEPT ![o] = [m \in Nodes |->
                         IF m \in retired THEN "deleted" ELSE @[m]]]
        /\ gcQueue' = [gcQueue EXCEPT ![o] = [m \in Nodes |->
                         IF m \in retired THEN [status |-> "pending", attempts |-> 0]
                         ELSE @[m]]]
        /\ job' = [job EXCEPT ![j].status = "completed"] /\ UNCHANGED objects
    BY <1>6 DEF Publish
  <2>2. h \in HealthMap
    <3>1. "healthy" \in HealthStatus
      BY DEF HealthStatus
    <3> QED BY <1>0, <3>1, HelperTypes DEF SetHealth, DbTypeOK, HealthMap
  <2> HIDE DEF h
  <2>3. job'[j].status = "completed"
    BY <2>1, <1>0 DEF DbTypeOK, JobRow
  <2>4. /\ \A m \in Nodes \ retired : health'[o][m] = h[o][m] /\ gcQueue'[o][m] = gcQueue[o][m]
        /\ \A p \in Objects \ {o} : replicas'[p] = replicas[p] /\ gcQueue'[p] = gcQueue[p]
    BY <2>1, <2>2, <1>0, <1>1 DEF DbTypeOK, HealthMap
  <2> QED BY <2>1, <2>3, <2>4
<1>10. retired \in SUBSET Retirable(o, health) /\ n \notin retired
  BY <1>2, <1>4, <1>7 DEF Retirable
<1>11. /\ health'[o][n] = "healthy"
       /\ \A m \in replicas[o] \ retired : health'[o][m] = health[o][m]
  BY <1>2, <1>3, <1>9, <1>10
<1> HIDE DEF rs, bad, excess
<1> QED BY <1>1, <1>2, <1>8, <1>9, <1>10, <1>11 DEF rs

-----------------------------------------------------------------------------
(* No deletion is queued and no repair runs at the start. *)
LEMMA LiveInit == DbInit => LiveInv
<1> SUFFICES ASSUME DbInit PROVE TargetIsNew /\ NoDeleteOfLiveCopy
  BY RowInit, SoleActiveInit DEF LiveInv
<1>1. TargetIsNew
  BY DEF DbInit, TargetIsNew, NoJob, Active, Running
<1>2. NoDeleteOfLiveCopy
  BY DEF DbInit, NoDeleteOfLiveCopy, NoGc, QueueOpen
<1> QED BY <1>1, <1>2

(* Every transaction keeps unfinished deletions away from live copies. *)
LEMMA LiveStep == LiveInv /\ [DbNext]_dbVars => LiveInv'
<1> SUFFICES ASSUME LiveInv, [DbNext]_dbVars PROVE TargetIsNew' /\ NoDeleteOfLiveCopy'
  BY RowStep, SoleActiveStep DEF LiveInv
<1>0. RowInv /\ DbTypeOK
  BY DEF LiveInv, RowInv
<1>t. ASSUME NEW j \in Jobs, job'[j].status \in Active, job'[j].target # None
      PROVE  /\ job'[j].object = job[j].object /\ job[j].status \in Active
             /\ job'[j].target = job[j].target \/ TargetChosen(j)
             /\ job'[j].target \notin replicas[job[j].object]
  <2>1. /\ job'[j].object = job[j].object /\ job[j].status \in Active
        /\ job'[j].target = job[j].target \/ TargetChosen(j)
    BY <1>0, <1>t, TargetSteps
  <2> QED BY <1>t, <2>1 DEF TargetChosen, LiveInv, TargetIsNew
<1>d. ASSUME NEW o \in Objects, NEW n \in Nodes, gcQueue[o][n].status \in QueueOpen,
             NEW j \in Jobs, job'[j].object = o, job'[j].status \in Active
      PROVE job'[j].target # n
  <2> SUFFICES ASSUME job'[j].target = n PROVE FALSE
    OBVIOUS
  <2>1. n # None
    BY NoneAssumption
  <2>2. /\ job[j].object = o /\ job[j].status \in Active
        /\ job[j].target = n \/ TargetChosen(j)
    BY <1>d, <1>t, <2>1
  <2> QED BY <1>d, <2>2 DEF TargetChosen, LiveInv, NoDeleteOfLiveCopy, ActiveJobs
<1>1. TargetIsNew'
  <2> SUFFICES ASSUME NEW j \in Jobs, job'[j].status \in Active, job'[j].target # None
               PROVE  job'[j].target \notin replicas'[job'[j].object]
    BY DEF TargetIsNew
  <2>1. /\ job'[j].object = job[j].object /\ job[j].status \in Active
        /\ job'[j].target \notin replicas[job[j].object]
    BY <1>t
  <2>2. CASE replicas' = replicas
    BY <2>1, <2>2
  <2>3. ASSUME NEW k \in Jobs, Published(k)
        PROVE  job'[j].target \notin replicas'[job'[j].object]
    <3>1. /\ job'[k].status = "completed" /\ job[k].status = "verifying"
          /\ \A p \in Objects \ {job[k].object} : replicas'[p] = replicas[p]
      BY <2>3, PublishFacts DEF Published
    <3>2. k # j
      BY <3>1 DEF Active, Running
    <3>3. job[j].object # job[k].object
      BY <2>1, <3>1, <3>2 DEF LiveInv, SoleActive, Active, Running
    <3>4. job[j].object \in Objects
      BY <2>1, <1>0 DEF RowInv, HasObject, Active, Running
    <3> QED BY <2>1, <3>1, <3>3, <3>4
  <2>4. ASSUME NEW p \in Objects, GcUnreferencedObject(p)
        PROVE  job'[j].target \notin replicas'[job'[j].object]
    <3>1. replicas' = [replicas EXCEPT ![p] = {}]
      BY <2>4 DEF GcUnreferencedObject
    <3> QED BY <2>1, <3>1, <1>0 DEF DbTypeOK
  <2> QED BY <2>2, <2>3, <2>4, <1>0, CopySteps DEF CopyStep, QueueRowMoved
<1>2. NoDeleteOfLiveCopy'
  <2> SUFFICES ASSUME NEW o \in Objects, NEW n \in Nodes, gcQueue'[o][n].status \in QueueOpen
               PROVE  /\ n \notin replicas'[o]
                      /\ \A j \in Jobs : job'[j].object = o /\ job'[j].status \in Active
                                        => job'[j].target # n
    BY DEF NoDeleteOfLiveCopy, ActiveJobs
  <2>1. CASE gcQueue[o][n].status \in QueueOpen /\ n \notin replicas'[o]
    BY <2>1, <1>d
  <2>2. CASE UNCHANGED <<replicas, gcQueue>> \/ QueueRowMoved
    <3>1. gcQueue[o][n].status \in QueueOpen /\ replicas' = replicas
      BY <2>2 DEF QueueRowMoved
    <3> QED BY <2>1, <3>1 DEF LiveInv, NoDeleteOfLiveCopy
  <2>3. ASSUME NEW k \in Jobs, Published(k)
        PROVE  /\ n \notin replicas'[o]
               /\ \A j \in Jobs : job'[j].object = o /\ job'[j].status \in Active
                                 => job'[j].target # n
    <3> DEFINE p == job[k].object
               m == job[k].target
    <3>1. CASE o # p
      <4>1. gcQueue'[o] = gcQueue[o] /\ replicas'[o] = replicas[o]
        BY <2>3, <3>1, PublishFacts
      <4> QED BY <2>1, <4>1 DEF LiveInv, NoDeleteOfLiveCopy
    <3>2. CASE o = p
      <4>1. PICK retired \in SUBSET Retirable(p, health) :
              /\ replicas' = [replicas EXCEPT ![p] = (@ \cup {m}) \ retired]
              /\ \A i \in Nodes \ retired : gcQueue'[p][i] = gcQueue[p][i]
        BY <2>3, PublishFacts
      <4>2. gcQueue[o][m].status \notin QueueOpen
        <5>1. m \in Nodes
          BY <2>3, PublishFacts
        <5>2. k \in ActiveJobs(o)
          BY <2>3, <3>2 DEF Published, ActiveJobs, Active, Running
        <5> QED BY <5>1, <5>2 DEF LiveInv, NoDeleteOfLiveCopy
      <4>3. n \notin replicas'[o]
        <5>1. replicas'[o] = (replicas[o] \cup {m}) \ retired
          BY <3>2, <4>1, <1>0 DEF DbTypeOK
        <5>2. n \in retired \/ gcQueue[o][n].status \in QueueOpen
          BY <3>2, <4>1
        <5> QED BY <4>2, <5>1, <5>2 DEF LiveInv, NoDeleteOfLiveCopy
      <4>4. ASSUME NEW j \in Jobs, job'[j].object = o, job'[j].status \in Active,
                   job'[j].target = n
            PROVE FALSE
        <5>1. job[j].object = o /\ job[j].status \in Active
          BY <4>4, <1>t, NoneAssumption
        <5>2. j = k
          BY <2>3, <3>2, <5>1 DEF Published, LiveInv, SoleActive, Active, Running
        <5> QED BY <2>3, <4>4, <5>2, PublishFacts DEF Active, Running
      <4> QED BY <4>3, <4>4
    <3> QED BY <3>1, <3>2
  <2>4. ASSUME NEW p \in Objects, GcUnreferencedObject(p)
        PROVE  /\ n \notin replicas'[o]
               /\ \A j \in Jobs : job'[j].object = o /\ job'[j].status \in Active
                                 => job'[j].target # n
    <3>1. /\ replicas' = [replicas EXCEPT ![p] = {}]
          /\ gcQueue' = [gcQueue EXCEPT ![p] = [i \in Nodes |->
                IF i \in replicas[p] /\ @[i].status = "none"
                THEN [status |-> "pending", attempts |-> 0] ELSE @[i]]]
      BY <2>4 DEF GcUnreferencedObject
    <3>2. CASE o # p
      <4>1. gcQueue'[o] = gcQueue[o] /\ replicas'[o] = replicas[o]
        BY <3>1, <3>2, <1>0 DEF DbTypeOK
      <4> QED BY <2>1, <4>1 DEF LiveInv, NoDeleteOfLiveCopy
    <3>3. CASE o = p
      <4>1. replicas'[o] = {}
        BY <3>1, <3>3, <1>0 DEF DbTypeOK
      <4>2. n \in replicas[o] \/ gcQueue[o][n].status \in QueueOpen
        BY <3>1, <3>3, <1>0 DEF DbTypeOK
      <4>3. ASSUME NEW j \in Jobs, job'[j].object = o, job'[j].status \in Active,
                   job'[j].target = n
            PROVE FALSE
        <5>1. n \notin replicas[o]
          BY <4>3, <1>t, NoneAssumption
        <5> QED BY <4>2, <4>3, <5>1, <1>d
      <4> QED BY <4>1, <4>3
    <3> QED BY <3>2, <3>3
  <2> QED BY <2>2, <2>3, <2>4, <1>0, CopySteps DEF CopyStep
<1> QED BY <1>1, <1>2

(* A node that holds a published replica, or is receiving one for an active *)
(* repair, never has an unfinished delete_object of that object queued,     *)
(* however purge, retirement, cancellation and new claims interleave.       *)
THEOREM LiveCopiesNotDeleted == DbSpec => []NoDeleteOfLiveCopy
<1>1. LiveInv => NoDeleteOfLiveCopy
  BY DEF LiveInv
<1> QED BY LiveInit, LiveStep, <1>1, PTL DEF DbSpec

(* No transaction takes the replicas of an object past the target. *)
LEMMA BoundStep == LiveInv /\ ReplicaBound /\ [DbNext]_dbVars => ReplicaBound'
<1> SUFFICES ASSUME LiveInv, ReplicaBound, [DbNext]_dbVars, NEW o \in Objects
             PROVE  Cardinality(replicas'[o]) <= TargetReplicas
  BY DEF ReplicaBound
<1>0. RowInv /\ DbTypeOK
  BY DEF LiveInv, RowInv
<1>1. CASE replicas' = replicas
  BY <1>1 DEF ReplicaBound
<1>2. ASSUME NEW j \in Jobs, Published(j) PROVE Cardinality(replicas'[o]) <= TargetReplicas
  <2> DEFINE p == job[j].object
             m == job[j].target
  <2>1. CASE o # p
    BY <1>2, <2>1, PublishFacts DEF ReplicaBound
  <2>2. CASE o = p
    <3>1. PICK retired \in SUBSET Retirable(p, health) :
            /\ replicas' = [replicas EXCEPT ![p] = (@ \cup {m}) \ retired]
            /\ Cardinality((replicas[p] \cup {m}) \ retired) <= TargetReplicas
      BY <1>2, PublishFacts
    <3> QED BY <2>2, <3>1, <1>0 DEF DbTypeOK
  <2> QED BY <2>1, <2>2
<1>3. ASSUME NEW p \in Objects, GcUnreferencedObject(p)
      PROVE Cardinality(replicas'[o]) <= TargetReplicas
  <2>1. replicas' = [replicas EXCEPT ![p] = {}]
    BY <1>3 DEF GcUnreferencedObject
  <2>2. CASE o # p
    BY <2>1, <2>2, <1>0 DEF DbTypeOK, ReplicaBound
  <2>3. CASE o = p
    BY <2>1, <2>3, <1>0, FS_EmptySet, CountAssumption DEF DbTypeOK
  <2> QED BY <2>2, <2>3
<1> QED BY <1>0, <1>1, <1>2, <1>3, CopySteps DEF CopyStep, QueueRowMoved

(* No sequence of repairs, observations and retirements gives an object     *)
(* more replicas than TARGET_REPLICA_COUNT: retiring known-bad replicas at  *)
(* publication makes exactly enough room.                                   *)
THEOREM ReplicasBounded == DbSpec => []ReplicaBound
<1>1. DbInit => LiveInv /\ ReplicaBound
  <2>1. DbInit => ReplicaBound
    <3> SUFFICES ASSUME DbInit, NEW o \in Objects PROVE Cardinality(replicas[o]) <= TargetReplicas
      BY DEF ReplicaBound
    <3>1. Cardinality(replicas[o]) \in 1..TargetReplicas
      BY DEF DbInit
    <3> QED BY <3>1, CountAssumption
  <2> QED BY <2>1, LiveInit
<1>2. LiveInv /\ ReplicaBound /\ [DbNext]_dbVars => (LiveInv /\ ReplicaBound)'
  BY LiveStep, BoundStep
<1> QED BY <1>1, <1>2, PTL DEF DbSpec

(* While an object exists, a transaction that changes its replicas adds a   *)
(* healthy one, keeps every healthy one and drops only replicas known to be *)
(* missing, corrupt or deleted: a repair never costs a good copy.           *)
THEOREM RepairsOnlyImprove == DbSpec => RepairOnlyImproves
<1> DEFINE A == \A o \in Objects : o \in objects' /\ replicas'[o] # replicas[o] =>
                   /\ Healthy(o, health) \subseteq Healthy(o, health)'
                   /\ Healthy(o, health)' \ replicas[o] # {}
                   /\ \A n \in replicas[o] \ replicas'[o] : health[o][n] \in Bad
<1>1. ASSUME LiveInv, [DbNext]_dbVars PROVE A
  <2> SUFFICES ASSUME NEW o \in Objects, o \in objects', replicas'[o] # replicas[o]
               PROVE  /\ Healthy(o, health) \subseteq Healthy(o, health)'
                      /\ Healthy(o, health)' \ replicas[o] # {}
                      /\ \A n \in replicas[o] \ replicas'[o] : health[o][n] \in Bad
    OBVIOUS
  <2>0. RowInv /\ DbTypeOK
    BY <1>1 DEF LiveInv, RowInv
  <2>1. ~\E p \in Objects : GcUnreferencedObject(p)
    <3> SUFFICES ASSUME NEW p \in Objects, GcUnreferencedObject(p) PROVE FALSE
      OBVIOUS
    <3>1. replicas' = [replicas EXCEPT ![p] = {}] /\ objects' = objects \ {p}
      BY DEF GcUnreferencedObject
    <3> QED BY <3>1, <2>0 DEF DbTypeOK
  <2>2. PICK j \in Jobs : Published(j)
    BY <1>1, <2>0, <2>1, CopySteps DEF CopyStep, QueueRowMoved
  <2> DEFINE p == job[j].object
             n == job[j].target
  <2>3. o = p
    BY <1>1, <2>2, PublishFacts
  <2>4. n \in Nodes /\ n \notin replicas[p] /\ health'[p][n] = "healthy"
    BY <1>1, <2>2, PublishFacts
  <2>5. PICK retired \in SUBSET Retirable(p, health) :
          /\ replicas' = [replicas EXCEPT ![p] = (@ \cup {n}) \ retired]
          /\ \A m \in replicas[p] \ retired : health'[p][m] = health[p][m]
    BY <1>1, <2>2, PublishFacts
  <2>6. replicas'[o] = (replicas[o] \cup {n}) \ retired
    BY <2>3, <2>5, <2>0 DEF DbTypeOK
  <2>7. \A m \in retired : m \in replicas[o] /\ health[o][m] \in Bad
    BY <2>3 DEF Retirable
  <2>8. Healthy(o, health) \subseteq Healthy(o, health)'
    BY <2>3, <2>5, <2>6, <2>7 DEF Healthy, Bad
  <2>9. n \in Healthy(o, health)' \ replicas[o]
    BY <2>3, <2>4, <2>6, <2>7 DEF Healthy
  <2> QED BY <2>6, <2>7, <2>8, <2>9
<1>2. LiveInv /\ [DbNext]_dbVars => [A]_dbVars
  BY <1>1
<1> QED BY LiveInit, LiveStep, <1>2, PTL DEF DbSpec, RepairOnlyImproves

-----------------------------------------------------------------------------
(* Accounts: which attempt owns which copy, and what a node has reserved. *)

Pursued == Running \cup {"completed"}
Kept == {"verifying", "completed"}

(* A transfer named by a job has been begun, by that job and no other. *)
OwnTransfer ==
    /\ \A j \in Jobs : job[j].transfer # None => ~Unused(job[j].transfer)
    /\ \A i, j \in Jobs : job[i].transfer # None /\ job[i].transfer = job[j].transfer
                            => i = j

CopyInv == OwnTransfer /\ CleanupExact

(* What CleanupExact says of one transfer. *)
Accounted(t) ==
    /\ \A j \in Jobs : job[j].transfer = t /\ job[j].status \in Kept
                         => transfer[t].cleanup = "none"
    /\ transfer[t].cleanup = "none"
         => \E j \in Jobs : job[j].transfer = t /\ job[j].status \in Pursued

LEMMA CleanupByTransfer ==
    CleanupExact <=> \A t \in Transfers : ~Unused(t) => Accounted(t)
<1> QED BY DEF CleanupExact, Accounted, Kept, Pursued

LEMMA CleanupByTransferNext ==
    CleanupExact' <=> \A t \in Transfers : ~Unused(t)' => Accounted(t)'
<1> QED BY DEF CleanupExact, Accounted, Kept, Pursued

(* _queue_cleanup leaves no transfer without a row and begins none. *)
LEMMA CleanupQueuedFacts ==
    ASSUME DbTypeOK, NEW t \in Transfers \cup {None}
    PROVE  /\ \A u \in Transfers : CleanupQueued(t)[u].node = transfer[u].node
           /\ \A u \in Transfers \ {t} : CleanupQueued(t)[u] = transfer[u]
           /\ t # None => CleanupQueued(t)[t].cleanup # "none"
<1> QED BY DEF CleanupQueued, DbTypeOK, TransferRow

-----------------------------------------------------------------------------
(* Cleanup: what a transaction may do to the row of one job.                *)

(* The row keeps its transfer, and is not given up. *)
LEMMA RowMovedOn ==
    ASSUME DbTypeOK, CopyInv, NEW j \in Jobs, NEW row,
           job' = [job EXCEPT ![j] = row], UNCHANGED transfer,
           row.transfer = job[j].transfer,
           row.status \in Kept => \/ job[j].status \in Kept
                                  \/ /\ job[j].transfer # None
                                     /\ transfer[job[j].transfer].cleanup = "none",
           job[j].status \in Pursued => row.status \in Pursued
    PROVE  CopyInv'
<1>1. \A k \in Jobs : job'[k] = IF k = j THEN row ELSE job[k] BY DEF DbTypeOK
<1>2. \A k \in Jobs : job'[k].transfer = job[k].transfer BY <1>1
<1>3. OwnTransfer' BY <1>2 DEF CopyInv, OwnTransfer, Unused
<1>4. ASSUME NEW t \in Transfers, ~Unused(t) PROVE Accounted(t)'
  <2>1. Accounted(t) BY <1>4, CleanupByTransfer DEF CopyInv
  <2>2. ASSUME NEW k \in Jobs, job'[k].transfer = t, job'[k].status \in Kept
        PROVE  transfer'[t].cleanup = "none"
    BY <1>1, <1>2, <2>1, <2>2 DEF Accounted
  <2>3. ASSUME transfer[t].cleanup = "none"
        PROVE  \E k \in Jobs : job'[k].transfer = t /\ job'[k].status \in Pursued
    BY <1>1, <1>2, <2>1, <2>3 DEF Accounted
  <2> QED BY <2>2, <2>3 DEF Accounted
<1> QED BY <1>3, <1>4, CleanupByTransferNext DEF CopyInv, Unused

(* The attempt ends and its transfer is queued. *)
LEMMA AttemptEnded ==
    ASSUME DbTypeOK, CopyInv, NEW j \in Jobs, NEW row,
           job' = [job EXCEPT ![j] = row], transfer' = CleanupQueued(job[j].transfer),
           row.transfer \in {None, job[j].transfer},
           job[j].status \notin Kept \/ job[j].status = "verifying",
           row.status \notin Kept
    PROVE  CopyInv'
<1> DEFINE old == job[j].transfer
<1>0. old \in Transfers \cup {None} BY DEF DbTypeOK, JobRow
<1>1. \A k \in Jobs : job'[k] = IF k = j THEN row ELSE job[k] BY DEF DbTypeOK
<1>2. /\ \A u \in Transfers : transfer'[u].node = transfer[u].node
      /\ \A u \in Transfers \ {old} : transfer'[u] = transfer[u]
      /\ old # None => transfer'[old].cleanup # "none"
  BY <1>0, CleanupQueuedFacts
<1>3. \A k \in Jobs : job[k].transfer \in Transfers \cup {None} BY DEF DbTypeOK, JobRow
<1>4. OwnTransfer' BY <1>1, <1>2, <1>3 DEF CopyInv, OwnTransfer, Unused
<1>5. ASSUME NEW t \in Transfers, ~Unused(t) PROVE Accounted(t)'
  <2>1. Accounted(t) BY <1>5, CleanupByTransfer DEF CopyInv
  <2>2. t # None BY NoneAssumption
  <2>3. CASE t = old
    <3>1. \A k \in Jobs \ {j} : job'[k].transfer # t
      BY <1>1, <2>2, <2>3 DEF CopyInv, OwnTransfer
    <3>2. \A k \in Jobs : ~(job'[k].transfer = t /\ job'[k].status \in Kept)
      BY <1>1, <3>1
    <3>3. transfer'[t].cleanup # "none" BY <1>2, <2>2, <2>3
    <3> QED BY <3>2, <3>3 DEF Accounted
  <2>4. CASE t # old
    <3>1. transfer'[t] = transfer[t] BY <1>2, <2>4
    <3>2. job'[j].transfer # t BY <1>1, <2>2, <2>4
    <3> QED BY <1>1, <2>1, <2>4, <3>1, <3>2 DEF Accounted
  <2> QED BY <2>3, <2>4
<1>6. \A t \in Transfers : Unused(t)' <=> Unused(t) BY <1>2 DEF Unused
<1> QED BY <1>4, <1>5, <1>6, CleanupByTransferNext DEF CopyInv

(* A job that pursues nothing is queued, for the first time or again. *)
LEMMA RowQueued ==
    ASSUME DbTypeOK, CopyInv, NEW j \in Jobs, NEW row,
           job' = [job EXCEPT ![j] = row], UNCHANGED transfer,
           row.transfer = None, row.status = "queued", job[j].status \notin Pursued
    PROVE  CopyInv'
<1>1. \A k \in Jobs : job'[k] = IF k = j THEN row ELSE job[k] BY DEF DbTypeOK
<1>2. OwnTransfer' BY <1>1 DEF CopyInv, OwnTransfer, Unused
<1>3. ASSUME NEW t \in Transfers, ~Unused(t) PROVE Accounted(t)'
  <2>1. Accounted(t) BY <1>3, CleanupByTransfer DEF CopyInv
  <2>2. t # None BY NoneAssumption
  <2> QED BY <1>1, <2>1, <2>2 DEF Accounted, Kept
<1> QED BY <1>2, <1>3, CleanupByTransferNext DEF CopyInv, Unused

(* Only the cleanup of a transfer that is not pursued changes. *)
LEMMA CleanupMoved ==
    ASSUME DbTypeOK, CopyInv, UNCHANGED job, NEW t \in Transfers,
           \A u \in Transfers : transfer'[u].node = transfer[u].node,
           \A u \in Transfers \ {t} : transfer'[u] = transfer[u],
           transfer'[t].cleanup # "none",
           \A j \in Jobs : job[j].transfer = t => job[j].status \notin Kept
    PROVE  CopyInv'
<1>1. OwnTransfer'
  <2>1. \A k \in Jobs : job[k].transfer \in Transfers \cup {None} BY DEF DbTypeOK, JobRow
  <2> QED BY <2>1 DEF CopyInv, OwnTransfer, Unused
<1>2. ASSUME NEW u \in Transfers, ~Unused(u) PROVE Accounted(u)'
  <2>1. Accounted(u) BY <1>2, CleanupByTransfer DEF CopyInv
  <2> QED BY <2>1 DEF Accounted
<1>3. \A u \in Transfers : Unused(u)' <=> Unused(u) BY DEF Unused
<1> QED BY <1>1, <1>2, <1>3, CleanupByTransferNext DEF CopyInv

(* schedule_repair_retry of a job that is not ended *)
LEMMA RetryAccounts ==
    ASSUME DbTypeOK, CopyInv, NEW j \in Jobs, NEW jb, NEW au, NEW h,
           RetryOf(j, jb, au, h), job[j].status \in Active, jb.status \in Active,
           jb.transfer = job[j].transfer, DOMAIN jb = DOMAIN NoJob
    PROVE  CopyInv'
<1> DEFINE row == [jb EXCEPT !.status = IF jb.attempts >= MaxAttempts
                                        THEN "failed" ELSE "retry_wait",
                             !.target = None, !.transfer = None, !.reserved = FALSE]
<1>1. jb.status \notin Terminal /\ (job[j].status \notin Kept \/ job[j].status = "verifying")
  BY DEF Active, Running, Terminal, Kept
<1>2. job' = [job EXCEPT ![j] = row] /\ transfer' = CleanupQueued(job[j].transfer)
  BY <1>1 DEF RetryOf
<1>3. row.transfer = None /\ row.status \notin Kept BY DEF NoJob, Kept
<1> HIDE DEF row
<1> QED BY <1>1, <1>2, <1>3, AttemptEnded

-----------------------------------------------------------------------------
LEMMA CopyInvInit == DbInit => CopyInv
<1> SUFFICES ASSUME DbInit PROVE CopyInv
  OBVIOUS
<1>1. \A j \in Jobs : job[j].transfer = None BY DEF DbInit, NoJob
<1>2. \A t \in Transfers : Unused(t) BY DEF DbInit, NoTransfer, Unused
<1> QED BY <1>1, <1>2 DEF CopyInv, OwnTransfer, CleanupExact

(* Every transaction keeps the account of the copies. *)
LEMMA CopyInvStep == LiveInv /\ CopyInv /\ [DbNext]_dbVars => CopyInv'
<1> SUFFICES ASSUME LiveInv, CopyInv, [DbNext]_dbVars PROVE CopyInv'
  OBVIOUS
<1>0. RowInv /\ DbTypeOK BY DEF LiveInv, RowInv
<1>a. ASSUME UNCHANGED <<job, transfer>> PROVE CopyInv'
  BY <1>a DEF CopyInv, OwnTransfer, CleanupExact, Unused
<1>b. ASSUME NEW j \in Jobs
      PROVE  /\ job[j] \in JobRow /\ DOMAIN job[j] = DOMAIN NoJob
             /\ job[j].transfer \in Transfers \cup {None}
  BY <1>0 DEF DbTypeOK, JobRow, NoJob
<1>1. ASSUME NEW j \in Jobs, NEW S \in SUBSET Nodes, NEW n \in Nodes,
             ClaimWithTarget(j, S, n)
      PROVE CopyInv'
  <2> DEFINE row == [Claimed(j) EXCEPT !.status = "selecting_target", !.target = n,
                                       !.reserved = TRUE]
  <2>1. row.transfer = job[j].transfer /\ row.status = "selecting_target"
    BY <1>b DEF Claimed, NoJob
  <2>2. job' = [job EXCEPT ![j] = row] /\ UNCHANGED transfer BY <1>1 DEF ClaimWithTarget
  <2> HIDE DEF row
  <2> QED BY <2>1, <2>2, <1>0, RowMovedOn DEF Kept, Pursued, Running
<1>2. ASSUME NEW j \in Jobs, ClaimBlocked(j) PROVE CopyInv'
  <2> DEFINE row == [Claimed(j) EXCEPT !.status = "canceled"]
  <2>1. row.transfer = job[j].transfer /\ row.status = "canceled"
    BY <1>b DEF Claimed, NoJob
  <2>2. /\ job' = [job EXCEPT ![j] = row] /\ UNCHANGED transfer
        /\ job[j].status \in {"queued", "retry_wait"}
    BY <1>2 DEF ClaimBlocked, Claimable
  <2> HIDE DEF row
  <2> QED BY <2>1, <2>2, <1>0, RowMovedOn DEF Kept, Pursued, Running
<1>3. ASSUME NEW j \in Jobs, ClaimWithoutTarget(j) PROVE CopyInv'
  <2>1. /\ Claimed(j).status = job[j].status /\ Claimed(j).transfer = job[j].transfer
        /\ DOMAIN Claimed(j) = DOMAIN NoJob
    BY <1>b DEF Claimed, NoJob
  <2>2. job[j].status \in Active BY <1>3 DEF ClaimWithoutTarget, Claimable, Active
  <2> QED BY <1>3, <2>1, <2>2, <1>0, RetryAccounts DEF ClaimWithoutTarget
<1>4. ASSUME NEW j \in Jobs, NEW t \in Transfers, ~CopyCurrent(j),
             MarkRepairTargetStarted(j, t)
      PROVE CopyInv'
  <2> DEFINE row == [job[j] EXCEPT !.transfer = t]
  <2>0. row.transfer = t /\ row.status = job[j].status BY <1>b DEF NoJob
  <2>1. /\ job[j].status \in {"selecting_target", "copying"} /\ Unused(t)
        /\ job' = [job EXCEPT ![j] = row]
        /\ transfer' = [transfer EXCEPT ![t] =
              [object |-> job[j].object, node |-> job[j].target, cleanup |-> "none"]]
    BY <1>4 DEF MarkRepairTargetStarted, TargetStartable
  <2>2. job[j].target # None BY <2>1, <1>0 DEF RowInv, RunningHasTarget, Running
  <2> HIDE DEF row
  <2>3. \A k \in Jobs : job'[k] = IF k = j THEN row ELSE job[k] BY <2>1, <1>0 DEF DbTypeOK
  <2>4. /\ \A u \in Transfers \ {t} : transfer'[u] = transfer[u]
        /\ transfer'[t].cleanup = "none" /\ ~Unused(t)'
    BY <2>1, <2>2, <1>0 DEF DbTypeOK, Unused
  <2>5. t # None BY NoneAssumption
  <2>6. \A k \in Jobs : job[k].transfer # t
    BY <2>1, <2>5 DEF CopyInv, OwnTransfer
  <2>7. OwnTransfer'
    <3>1. ASSUME NEW k \in Jobs, job'[k].transfer # None
          PROVE  transfer'[job'[k].transfer].node # None
      <4>1. CASE k = j BY <4>1, <2>0, <2>3, <2>4 DEF Unused
      <4>2. CASE k # j
        <5>1. job'[k] = job[k] /\ job[k].transfer \in Transfers \ {t}
          BY <3>1, <4>2, <2>3, <2>6, <1>b
        <5> QED BY <3>1, <5>1, <2>4 DEF CopyInv, OwnTransfer, Unused
      <4> QED BY <4>1, <4>2
    <3>2. ASSUME NEW i \in Jobs, NEW k \in Jobs, job'[i].transfer # None,
                 job'[i].transfer = job'[k].transfer
          PROVE  i = k
      BY <3>2, <2>0, <2>3, <2>6 DEF CopyInv, OwnTransfer
    <3> QED BY <3>1, <3>2 DEF OwnTransfer, Unused
  <2>8. ASSUME NEW u \in Transfers, ~Unused(u)' PROVE Accounted(u)'
    <3>1. CASE u = t
      <4>1. job'[j].transfer = t /\ job'[j].status \in Pursued
        BY <2>0, <2>1, <2>3 DEF Pursued, Running
      <4> QED BY <3>1, <4>1, <2>4 DEF Accounted
    <3>2. CASE u # t
      <4>1. transfer'[u] = transfer[u] /\ Accounted(u)
        BY <2>8, <3>2, <2>4, CleanupByTransfer DEF CopyInv, Unused
      <4>2. job[j].transfer = u => transfer[u].cleanup # "none"
        BY <1>4, NoneAssumption DEF CopyCurrent
      <4>3. job'[j].transfer # u BY <3>2, <2>0, <2>3
      <4> QED BY <4>1, <4>2, <4>3, <2>3 DEF Accounted
    <3> QED BY <3>1, <3>2
  <2> QED BY <2>7, <2>8, CleanupByTransferNext DEF CopyInv
<1>5. ASSUME NEW j \in Jobs, CopyCurrent(j), MarkRepairCopying(j) \/ StoreVerifying(j)
      PROVE CopyInv'
  <2>1. PICK s \in {"copying", "verifying"} : job' = [job EXCEPT ![j].status = s]
    BY <1>5 DEF MarkRepairCopying, StoreVerifying
  <2> DEFINE row == [job[j] EXCEPT !.status = s]
  <2>2. row.transfer = job[j].transfer /\ row.status = s BY <1>b DEF NoJob
  <2>3. job' = [job EXCEPT ![j] = row] /\ UNCHANGED transfer
    BY <1>5, <2>1 DEF MarkRepairCopying, StoreVerifying
  <2> HIDE DEF row
  <2> QED BY <1>5, <2>2, <2>3, <1>0, RowMovedOn DEF Kept, Pursued, Running, CopyCurrent
<1>6. ASSUME NEW j \in Jobs, job[j].status \in Active, ScheduleRepairRetry(j)
      PROVE CopyInv'
  BY <1>6, <1>0, <1>b, RetryAccounts DEF ScheduleRepairRetry
<1>7. ASSUME NEW j \in Jobs, AuditPassed(j) PROVE CopyInv'
  <2> DEFINE o == job[j].object
             h == SetHealth(o, job[j].target, "healthy")
  <2>1. job[j].status = "verifying"
    BY <1>7, <1>0 DEF AuditPassed, RowInv, AuditOnlyWhileVerifying, AuditOpen
  <2>2. job[j].target \notin replicas[o]
    BY <2>1, <1>0 DEF LiveInv, TargetIsNew, RowInv, RunningHasTarget, Active, Running
  <2>3. CASE DiscardTarget(j, h)
    <3> DEFINE row == [job[j] EXCEPT !.status = "canceled", !.reserved = FALSE]
    <3>1. row.transfer = job[j].transfer /\ row.status = "canceled" BY <1>b DEF NoJob
    <3>2. job' = [job EXCEPT ![j] = row] /\ transfer' = CleanupQueued(job[j].transfer)
      BY <2>2, <2>3 DEF DiscardTarget
    <3> HIDE DEF row
    <3> QED BY <3>1, <3>2, <2>1, <1>0, AttemptEnded DEF Kept
  <2>4. ASSUME NEW retired, Publish(j, h, retired) PROVE CopyInv'
    <3> DEFINE row == [job[j] EXCEPT !.status = "completed"]
    <3>1. row.transfer = job[j].transfer /\ row.status = "completed" BY <1>b DEF NoJob
    <3>2. job' = [job EXCEPT ![j] = row] /\ UNCHANGED transfer BY <2>4 DEF Publish
    <3> HIDE DEF row
    <3> QED BY <3>1, <3>2, <2>1, <1>0, RowMovedOn DEF Kept, Pursued
  <2> HIDE DEF h
  <2> QED BY <1>7, <2>3, <2>4 DEF AuditPassed, h
<1>8. ASSUME NEW j \in Jobs, NEW s \in FailureKinds, AuditFailed(j, s) PROVE CopyInv'
  <2>1. job[j].status \in Active
    BY <1>8, <1>0 DEF AuditFailed, RowInv, AuditOnlyWhileVerifying, AuditOpen, Active, Running
  <2>2. CASE UNCHANGED <<job, transfer>> BY <2>2, <1>a
  <2>3. CASE RetryOf(j, job[j], [audit EXCEPT ![j].status = "failed"],
                     SetHealth(job[j].object, job[j].target, s))
    BY <2>1, <2>3, <1>0, <1>b, RetryAccounts
  <2> QED BY <1>8, <2>2, <2>3 DEF AuditFailed
<1>9. ASSUME NEW t \in Transfers, NEW n \in Nodes, NEW s \in FailureKinds,
             \A j \in Jobs : job[j].transfer = t
                               => job[j].status \notin {"verifying", "completed"},
             NoteSourceFailure(transfer[t].object, n, s, t)
      PROVE CopyInv'
  <2>1. t # None BY NoneAssumption
  <2>2. UNCHANGED job /\ transfer' = CleanupQueued(t) BY <1>9 DEF NoteSourceFailure
  <2>3. /\ \A u \in Transfers : transfer'[u].node = transfer[u].node
        /\ \A u \in Transfers \ {t} : transfer'[u] = transfer[u]
        /\ transfer'[t].cleanup # "none"
    BY <2>1, <2>2, <1>0, CleanupQueuedFacts
  <2>4. \A j \in Jobs : job[j].transfer = t => job[j].status \notin Kept
    BY <1>9 DEF Kept
  <2> QED BY <2>2, <2>3, <2>4, <1>0, CleanupMoved
<1>10. ASSUME NEW t \in Transfers, NEW ok \in BOOLEAN,
              ClaimRepairCleanup(t) \/ MarkRepairCleanupResult(t, ok)
       PROVE CopyInv'
  <2>1. /\ UNCHANGED job /\ transfer[t].cleanup \in QueueOpen
        /\ \E c \in {"sent", "done", "pending"} :
              transfer' = [transfer EXCEPT ![t].cleanup = c]
    BY <1>10 DEF ClaimRepairCleanup, MarkRepairCleanupResult
  <2>2. /\ \A u \in Transfers : transfer'[u].node = transfer[u].node
        /\ \A u \in Transfers \ {t} : transfer'[u] = transfer[u]
        /\ transfer'[t].cleanup # "none"
    BY <2>1, <1>0 DEF DbTypeOK, TransferRow
  <2>3. \A j \in Jobs : job[j].transfer = t => job[j].status \notin Kept
    <3> SUFFICES ASSUME NEW j \in Jobs, job[j].transfer = t PROVE job[j].status \notin Kept
      OBVIOUS
    <3>1. ~Unused(t) BY NoneAssumption DEF CopyInv, OwnTransfer
    <3>2. Accounted(t) BY <3>1, CleanupByTransfer DEF CopyInv
    <3> QED BY <3>2, <2>1 DEF Accounted, QueueOpen
  <2> QED BY <2>1, <2>2, <2>3, <1>0, CleanupMoved
<1>11. ASSUME NEW j \in Jobs, NEW o \in Objects, job[j].status = "absent",
              job' = Inserted(j, o), UNCHANGED transfer
       PROVE CopyInv'
  <2> DEFINE row == [NoJob EXCEPT !.status = "queued", !.object = o]
  <2>1. row.transfer = None /\ row.status = "queued" BY DEF NoJob
  <2>2. job' = [job EXCEPT ![j] = row] BY <1>11 DEF Inserted
  <2> HIDE DEF row
  <2> QED BY <1>11, <2>1, <2>2, <1>0, RowQueued DEF Pursued, Running
<1>12. ASSUME NEW j \in Jobs, NEW r \in BOOLEAN, RequeueRepairJob(j, r) PROVE CopyInv'
  <2> DEFINE row == [NoJob EXCEPT !.status = "queued", !.object = job[j].object,
                                  !.attempts = IF r THEN 0 ELSE job[j].attempts]
  <2>1. row.transfer = None /\ row.status = "queued" BY DEF NoJob
  <2>2. /\ job' = [job EXCEPT ![j] = row] /\ UNCHANGED transfer
        /\ job[j].status \in {"failed", "canceled"}
    BY <1>12 DEF RequeueRepairJob
  <2> HIDE DEF row
  <2> QED BY <2>1, <2>2, <1>0, RowQueued DEF Pursued, Running
<1>13. ASSUME NEW j \in Jobs, CancelRepairJob(j) PROVE CopyInv'
  <2> DEFINE row == [job[j] EXCEPT !.status = "canceled", !.reserved = FALSE]
  <2>1. row.transfer = job[j].transfer /\ row.status = "canceled" BY <1>b DEF NoJob
  <2>2. /\ job' = [job EXCEPT ![j] = row] /\ transfer' = CleanupQueued(job[j].transfer)
        /\ job[j].status \in Active
    BY <1>13 DEF CancelRepairJob
  <2> HIDE DEF row
  <2> QED BY <2>1, <2>2, <1>0, AttemptEnded DEF Kept, Active, Running
<1>14. ASSUME NEW o \in Objects, NEW n \in Nodes, NEW s \in FailureKinds \cup {"healthy"},
              ReplicaObserved(o, n, s) \/ ScheduledAuditResult(o, n, s)
       PROVE CopyInv'
  BY <1>14, <1>a, <1>11 DEF ReplicaObserved, ScheduledAuditResult
<1>15. CASE Worker
  BY <1>15, <1>a, <1>1, <1>2, <1>3, <1>4, <1>5, <1>6, <1>7, <1>8
     DEF Worker, ClaimAudit, RecoverStaleAudit
<1>16. CASE SourceFailed BY <1>16, <1>9 DEF SourceFailed
<1>17. CASE Observers
  BY <1>17, <1>a, <1>14 DEF Observers, SendObjectDelete, ObjectDeleted
<1>18. CASE Operators
  BY <1>18, <1>a, <1>11, <1>12, <1>13 DEF Operators, EnqueueRepairJob, GcUnreferencedObject
<1>19. CASE Cleanups BY <1>19, <1>10 DEF Cleanups
<1>20. CASE UNCHANGED dbVars BY <1>20, <1>a DEF dbVars
<1> QED BY <1>15, <1>16, <1>17, <1>18, <1>19, <1>20 DEF DbNext

(* The transfer of a copy that is verified or published is never queued for *)
(* removal, and every other one that was begun is, unless its job still     *)
(* runs on it: whatever retries, cancellations, source failures and audit   *)
(* answers come in between, no copy is lost and none is left behind.        *)
THEOREM CopiesAccountedFor == DbSpec => []CleanupExact
<1>1. DbInit => LiveInv /\ CopyInv BY LiveInit, CopyInvInit
<1>2. LiveInv /\ CopyInv /\ [DbNext]_dbVars => (LiveInv /\ CopyInv)'
  BY LiveStep, CopyInvStep
<1>3. CopyInv => CleanupExact BY DEF CopyInv
<1> QED BY <1>1, <1>2, <1>3, PTL DEF DbSpec

-----------------------------------------------------------------------------
(* Capacity.  What a node's reserved_bytes pay for: its published replicas  *)
(* and the targets of active jobs.                                          *)
Holds(row, n) == row.target = n /\ row.reserved /\ row.status \in Active
Holding(n) == {j \in Jobs : Holds(job[j], n)}
Holdings(n) == {o \in Objects : n \in replicas[o]}

(* A job holds a reservation while it runs, and none while it waits. *)
HoldsWhileRunning ==
    \A j \in Jobs : /\ job[j].status \in Running => job[j].reserved
                    /\ job[j].status \in {"queued", "retry_wait"} => ~job[j].reserved

CapacityInv == HoldsWhileRunning /\ ReservationsExact

LEMMA ExactByNode ==
    /\ ReservationsExact <=>
         \A n \in Nodes : reserved[n] = Cardinality(Holdings(n)) + Cardinality(Holding(n))
    /\ ReservationsExact' <=>
         \A n \in Nodes : reserved'[n] = Cardinality(Holdings(n)') + Cardinality(Holding(n)')
BY DEF ReservationsExact, Holding, Holdings, Holds

LEMMA FiniteAccounts ==
    ASSUME NEW n
    PROVE  /\ IsFiniteSet(Holding(n)) /\ Cardinality(Holding(n)) \in Nat
           /\ IsFiniteSet(Holdings(n)) /\ Cardinality(Holdings(n)) \in Nat
<1>1. Holding(n) \in SUBSET Jobs /\ Holdings(n) \in SUBSET Objects BY DEF Holding, Holdings
<1>2. IsFiniteSet(Holding(n)) /\ IsFiniteSet(Holdings(n))
  BY <1>1, FiniteAssumption, FS_Subset
<1> QED BY <1>2, FS_CardinalityType

(* The row of a job changes and reserves as much as before. *)
LEMMA SameHoldings ==
    ASSUME DbTypeOK, CapacityInv, NEW j \in Jobs, NEW row,
           job' = [job EXCEPT ![j] = row], UNCHANGED <<replicas, reserved>>,
           \A n \in Nodes : Holds(row, n) <=> Holds(job[j], n),
           row.status \in Running => row.reserved,
           row.status \in {"queued", "retry_wait"} => ~row.reserved
    PROVE  CapacityInv'
<1>1. \A k \in Jobs : job'[k] = IF k = j THEN row ELSE job[k] BY DEF DbTypeOK
<1>2. HoldsWhileRunning' BY <1>1 DEF CapacityInv, HoldsWhileRunning
<1>3. ASSUME NEW n \in Nodes PROVE Holding(n)' = Holding(n) /\ Holdings(n)' = Holdings(n)
  BY <1>1 DEF Holding, Holdings, Holds
<1> QED BY <1>2, <1>3, ExactByNode DEF CapacityInv

(* A new or requeued job waits without a reservation. *)
LEMMA QueuedHoldsNothing ==
    ASSUME DbTypeOK, CapacityInv, NEW j \in Jobs, NEW row,
           job' = [job EXCEPT ![j] = row], UNCHANGED <<replicas, reserved>>,
           job[j].status \in {"absent", "failed", "canceled"},
           row.status = "queued", ~row.reserved
    PROVE  CapacityInv'
<1>1. \A n \in Nodes : ~Holds(row, n) /\ ~Holds(job[j], n) BY DEF Holds, Active, Running
<1> QED BY <1>1, SameHoldings DEF Running

(* An active job gives its reservation back. *)
LEMMA HoldingReleased ==
    ASSUME DbTypeOK, CapacityInv, NEW j \in Jobs, NEW row,
           job' = [job EXCEPT ![j] = row], UNCHANGED replicas,
           job[j].status \in Active, reserved' = JobReservationReleased(job[j]),
           row.status \notin Running, ~row.reserved
    PROVE  CapacityInv'
<1>1. \A k \in Jobs : job'[k] = IF k = j THEN row ELSE job[k] BY DEF DbTypeOK
<1>2. HoldsWhileRunning' BY <1>1 DEF CapacityInv, HoldsWhileRunning
<1>3. ASSUME NEW n \in Nodes
      PROVE  reserved'[n] = Cardinality(Holdings(n)') + Cardinality(Holding(n)')
  <2>0. /\ reserved[n] = Cardinality(Holdings(n)) + Cardinality(Holding(n))
        /\ IsFiniteSet(Holding(n)) /\ Cardinality(Holding(n)) \in Nat
        /\ Cardinality(Holdings(n)) \in Nat
    BY ExactByNode, FiniteAccounts DEF CapacityInv
  <2>1. Holdings(n)' = Holdings(n) BY DEF Holdings
  <2>2. Holding(n)' = Holding(n) \ {j} BY <1>1 DEF Holding, Holds
  <2>3. Cardinality(Holding(n) \ {j}) =
          IF j \in Holding(n) THEN Cardinality(Holding(n)) - 1 ELSE Cardinality(Holding(n))
    BY <2>0, FS_RemoveElement
  <2>4. CASE j \in Holding(n)
    <3>1. job[j].reserved /\ job[j].target = n BY <2>4 DEF Holding, Holds
    <3>2. Cardinality(Holding(n)) > 0 BY <2>0, <2>4, FS_EmptySet
    <3>3. reserved'[n] = reserved[n] - 1
      BY <2>0, <3>1, <3>2 DEF JobReservationReleased, ReleasedOn
    <3> QED BY <2>0, <2>1, <2>2, <2>3, <2>4, <3>3
  <2>5. CASE j \notin Holding(n)
    <3>1. ~(job[j].reserved /\ job[j].target = n) BY <2>5 DEF Holding, Holds
    <3>2. reserved'[n] = reserved[n] BY <3>1 DEF JobReservationReleased, ReleasedOn
    <3> QED BY <2>0, <2>1, <2>2, <2>3, <2>5, <3>2
  <2> QED BY <2>4, <2>5
<1> QED BY <1>2, <1>3, ExactByNode DEF CapacityInv

(* schedule_repair_retry of a job that is not ended *)
LEMMA RetryReleases ==
    ASSUME DbTypeOK, CapacityInv, NEW j \in Jobs, NEW jb, NEW au, NEW h,
           RetryOf(j, jb, au, h), UNCHANGED replicas,
           job[j].status \in Active, jb.status \in Active, DOMAIN jb = DOMAIN NoJob,
           jb.target = job[j].target, jb.reserved = job[j].reserved
    PROVE  CapacityInv'
<1> DEFINE row == [jb EXCEPT !.status = IF jb.attempts >= MaxAttempts
                                        THEN "failed" ELSE "retry_wait",
                             !.target = None, !.transfer = None, !.reserved = FALSE]
<1>1. jb.status \notin Terminal BY DEF Active, Running, Terminal
<1>2. job' = [job EXCEPT ![j] = row] BY <1>1 DEF RetryOf
<1>3. reserved' = JobReservationReleased(job[j])
  BY <1>1 DEF RetryOf, JobReservationReleased
<1>4. row.status \notin Running /\ ~row.reserved BY DEF NoJob, Running
<1> HIDE DEF row
<1> QED BY <1>2, <1>3, <1>4, HoldingReleased

(* claim_due_repair_jobs with a target *)
LEMMA ClaimReserves ==
    ASSUME DbTypeOK, CapacityInv, NEW j \in Jobs, NEW S, NEW m \in Nodes,
           ClaimWithTarget(j, S, m)
    PROVE  CapacityInv'
<1> DEFINE row == [Claimed(j) EXCEPT !.status = "selecting_target", !.target = m,
                                     !.reserved = TRUE]
<1>1. /\ job' = [job EXCEPT ![j] = row] /\ UNCHANGED replicas
      /\ reserved' = [reserved EXCEPT ![m] = @ + 1]
      /\ job[j].status \in {"queued", "retry_wait"}
  BY DEF ClaimWithTarget, Claimable
<1>2. row.status = "selecting_target" /\ row.target = m /\ row.reserved
  BY DEF Claimed, DbTypeOK, JobRow
<1> HIDE DEF row
<1>3. \A k \in Jobs : job'[k] = IF k = j THEN row ELSE job[k] BY <1>1 DEF DbTypeOK
<1>4. HoldsWhileRunning' BY <1>2, <1>3 DEF CapacityInv, HoldsWhileRunning
<1>5. ASSUME NEW n \in Nodes
      PROVE  reserved'[n] = Cardinality(Holdings(n)') + Cardinality(Holding(n)')
  <2>0. /\ reserved[n] = Cardinality(Holdings(n)) + Cardinality(Holding(n))
        /\ IsFiniteSet(Holding(n)) /\ Cardinality(Holding(n)) \in Nat
        /\ Cardinality(Holdings(n)) \in Nat
    BY ExactByNode, FiniteAccounts DEF CapacityInv
  <2>1. Holdings(n)' = Holdings(n) BY <1>1 DEF Holdings
  <2>2. j \notin Holding(n) BY <1>1 DEF CapacityInv, HoldsWhileRunning, Holding, Holds
  <2>3. CASE n = m
    <3>1. Holding(n)' = Holding(n) \cup {j}
      BY <1>2, <1>3, <2>3 DEF Holding, Holds, Active, Running
    <3>2. Cardinality(Holding(n) \cup {j}) = Cardinality(Holding(n)) + 1
      BY <2>0, <2>2, FS_AddElement
    <3>3. reserved'[n] = reserved[n] + 1 BY <1>1, <2>3 DEF DbTypeOK
    <3> QED BY <2>0, <2>1, <3>1, <3>2, <3>3
  <2>4. CASE n # m
    <3>1. Holding(n)' = Holding(n) BY <1>2, <1>3, <2>2, <2>4 DEF Holding, Holds
    <3>2. reserved'[n] = reserved[n] BY <1>1, <2>4 DEF DbTypeOK
    <3> QED BY <2>0, <2>1, <3>1, <3>2
  <2> QED BY <2>3, <2>4
<1> QED BY <1>4, <1>5, ExactByNode DEF CapacityInv

(* gc_unreferenced_objects *)
LEMMA PurgeReleases ==
    ASSUME DbTypeOK, CapacityInv, NEW o \in Objects, GcUnreferencedObject(o)
    PROVE  CapacityInv'
<1>1. /\ UNCHANGED job /\ reserved' = ReleasedOn(replicas[o])
      /\ replicas' = [replicas EXCEPT ![o] = {}]
  BY DEF GcUnreferencedObject
<1>2. HoldsWhileRunning' BY <1>1 DEF CapacityInv, HoldsWhileRunning
<1>3. ASSUME NEW n \in Nodes
      PROVE  reserved'[n] = Cardinality(Holdings(n)') + Cardinality(Holding(n)')
  <2>0. /\ reserved[n] = Cardinality(Holdings(n)) + Cardinality(Holding(n))
        /\ IsFiniteSet(Holdings(n)) /\ Cardinality(Holding(n)) \in Nat
        /\ Cardinality(Holdings(n)) \in Nat
    BY ExactByNode, FiniteAccounts DEF CapacityInv
  <2>1. Holding(n)' = Holding(n) BY <1>1 DEF Holding
  <2>2. Holdings(n)' = Holdings(n) \ {o} BY <1>1 DEF Holdings, DbTypeOK
  <2>3. Cardinality(Holdings(n) \ {o}) =
          IF o \in Holdings(n) THEN Cardinality(Holdings(n)) - 1
          ELSE Cardinality(Holdings(n))
    BY <2>0, FS_RemoveElement
  <2>4. CASE o \in Holdings(n)
    <3>1. Cardinality(Holdings(n)) > 0 BY <2>0, <2>4, FS_EmptySet
    <3>2. reserved'[n] = reserved[n] - 1
      BY <1>1, <2>0, <2>4, <3>1 DEF Holdings, ReleasedOn
    <3> QED BY <2>0, <2>1, <2>2, <2>3, <2>4, <3>2
  <2>5. CASE o \notin Holdings(n)
    <3>1. reserved'[n] = reserved[n] BY <1>1, <2>5 DEF Holdings, ReleasedOn
    <3> QED BY <2>0, <2>1, <2>2, <2>3, <2>5, <3>1
  <2> QED BY <2>4, <2>5
<1> QED BY <1>2, <1>3, ExactByNode DEF CapacityInv

(* The publication of a verified copy: its reservation becomes the          *)
(* replica's, and each retired replica gives up its own.                    *)
LEMMA PublishTransfers ==
    ASSUME DbTypeOK, CapacityInv, NEW j \in Jobs, NEW h, NEW retired,
           job[j].status = "verifying", job[j].target \in Nodes, job[j].object \in Objects,
           job[j].target \notin replicas[job[j].object],
           retired \subseteq replicas[job[j].object], Publish(j, h, retired)
    PROVE  CapacityInv'
<1> DEFINE o == job[j].object
           m == job[j].target
           row == [job[j] EXCEPT !.status = "completed"]
<1>1. /\ job' = [job EXCEPT ![j] = row] /\ reserved' = ReleasedOn(retired)
      /\ replicas' = [replicas EXCEPT ![o] = (@ \cup {m}) \ retired]
  BY DEF Publish
<1>2. row.status = "completed" BY DEF DbTypeOK, JobRow
<1> HIDE DEF row
<1>3. \A k \in Jobs : job'[k] = IF k = j THEN row ELSE job[k] BY <1>1 DEF DbTypeOK
<1>4. HoldsWhileRunning' BY <1>2, <1>3 DEF CapacityInv, HoldsWhileRunning, Running
<1>5. \A p \in Objects : replicas'[p] = IF p = o THEN (replicas[o] \cup {m}) \ retired
                                        ELSE replicas[p]
  BY <1>1 DEF DbTypeOK
<1>6. ASSUME NEW n \in Nodes
      PROVE  reserved'[n] = Cardinality(Holdings(n)') + Cardinality(Holding(n)')
  <2>0. /\ reserved[n] = Cardinality(Holdings(n)) + Cardinality(Holding(n))
        /\ IsFiniteSet(Holdings(n)) /\ Cardinality(Holding(n)) \in Nat
        /\ IsFiniteSet(Holding(n)) /\ Cardinality(Holdings(n)) \in Nat
    BY ExactByNode, FiniteAccounts DEF CapacityInv
  <2>1. Holding(n)' = Holding(n) \ {j}
    BY <1>2, <1>3 DEF Holding, Holds, Active, Running
  <2>2. j \in Holding(n) <=> n = m
    BY DEF CapacityInv, HoldsWhileRunning, Holding, Holds, Active, Running
  <2>3. Cardinality(Holding(n) \ {j}) =
          IF j \in Holding(n) THEN Cardinality(Holding(n)) - 1 ELSE Cardinality(Holding(n))
    BY <2>0, FS_RemoveElement
  <2>4. CASE n = m
    <3>1. o \notin Holdings(n) /\ n \notin retired BY <2>4 DEF Holdings
    <3>2. Holdings(n)' = Holdings(n) \cup {o} BY <1>5, <2>4, <3>1 DEF Holdings
    <3>3. Cardinality(Holdings(n) \cup {o}) = Cardinality(Holdings(n)) + 1
      BY <2>0, <3>1, FS_AddElement
    <3>4. reserved'[n] = reserved[n] BY <1>1, <3>1 DEF ReleasedOn
    <3> QED BY <2>0, <2>1, <2>2, <2>3, <2>4, <3>2, <3>3, <3>4
  <2>5. CASE n \in retired
    <3>1. o \in Holdings(n) /\ n # m BY <2>5 DEF Holdings
    <3>2. Holdings(n)' = Holdings(n) \ {o} BY <1>5, <2>5 DEF Holdings
    <3>3. Cardinality(Holdings(n) \ {o}) = Cardinality(Holdings(n)) - 1
      BY <2>0, <3>1, FS_RemoveElement
    <3>4. Cardinality(Holdings(n)) > 0 BY <2>0, <3>1, FS_EmptySet
    <3>5. reserved'[n] = reserved[n] - 1 BY <1>1, <2>0, <2>5, <3>4 DEF ReleasedOn
    <3> QED BY <2>0, <2>1, <2>2, <2>3, <3>1, <3>2, <3>3, <3>5
  <2>6. CASE n # m /\ n \notin retired
    <3>1. Holdings(n)' = Holdings(n) BY <1>5, <2>6 DEF Holdings
    <3>2. reserved'[n] = reserved[n] BY <1>1, <2>6 DEF ReleasedOn
    <3> QED BY <2>0, <2>1, <2>2, <2>3, <2>6, <3>1, <3>2
  <2> QED BY <2>4, <2>5, <2>6
<1> QED BY <1>4, <1>6, ExactByNode DEF CapacityInv

-----------------------------------------------------------------------------
LEMMA CapacityInit == DbInit => CapacityInv
<1> SUFFICES ASSUME DbInit PROVE CapacityInv
  OBVIOUS
<1>1. \A j \in Jobs : job[j].status = "absent" BY DEF DbInit, NoJob
<1>2. HoldsWhileRunning BY <1>1 DEF HoldsWhileRunning, Running
<1>3. ASSUME NEW n \in Nodes
      PROVE  reserved[n] = Cardinality(Holdings(n)) + Cardinality(Holding(n))
  <2>1. Holding(n) = {} BY <1>1 DEF Holding, Holds, Active, Running
  <2>2. reserved[n] = Cardinality(Holdings(n)) BY DEF DbInit, Holdings
  <2> QED BY <2>1, <2>2, FiniteAccounts, FS_EmptySet
<1> QED BY <1>2, <1>3, ExactByNode DEF CapacityInv

(* Every transaction keeps the account of the capacity. *)
LEMMA CapacityStep == LiveInv /\ CapacityInv /\ [DbNext]_dbVars => CapacityInv'
<1> SUFFICES ASSUME LiveInv, CapacityInv, [DbNext]_dbVars PROVE CapacityInv'
  OBVIOUS
<1>0. RowInv /\ DbTypeOK BY DEF LiveInv, RowInv
<1>a. ASSUME UNCHANGED <<job, replicas, reserved>> PROVE CapacityInv'
  BY <1>a DEF CapacityInv, HoldsWhileRunning, ReservationsExact
<1>b. ASSUME NEW j \in Jobs PROVE job[j] \in JobRow /\ DOMAIN job[j] = DOMAIN NoJob
  BY <1>0 DEF DbTypeOK, JobRow, NoJob
<1>1. ASSUME NEW j \in Jobs, NEW S \in SUBSET Nodes, NEW n \in Nodes,
             ClaimWithTarget(j, S, n)
      PROVE CapacityInv'
  BY <1>1, <1>0, ClaimReserves
<1>2. ASSUME NEW j \in Jobs, ClaimBlocked(j) PROVE CapacityInv'
  <2> DEFINE row == [Claimed(j) EXCEPT !.status = "canceled"]
  <2>1. row.reserved = job[j].reserved /\ row.status = "canceled"
    BY <1>b DEF Claimed, NoJob
  <2>2. /\ job' = [job EXCEPT ![j] = row] /\ UNCHANGED <<replicas, reserved>>
        /\ job[j].status \in {"queued", "retry_wait"}
    BY <1>2 DEF ClaimBlocked, Claimable
  <2> HIDE DEF row
  <2>3. ~job[j].reserved BY <2>2 DEF CapacityInv, HoldsWhileRunning
  <2> QED BY <2>1, <2>2, <2>3, <1>0, SameHoldings DEF Holds, Running
<1>3. ASSUME NEW j \in Jobs, ClaimWithoutTarget(j) PROVE CapacityInv'
  <2>1. /\ Claimed(j).status = job[j].status /\ Claimed(j).target = job[j].target
        /\ Claimed(j).reserved = job[j].reserved /\ DOMAIN Claimed(j) = DOMAIN NoJob
    BY <1>b DEF Claimed, NoJob
  <2>2. job[j].status \in Active BY <1>3 DEF ClaimWithoutTarget, Claimable, Active
  <2> QED BY <1>3, <2>1, <2>2, <1>0, RetryReleases DEF ClaimWithoutTarget
<1>4. ASSUME NEW j \in Jobs, NEW t \in Transfers, MarkRepairTargetStarted(j, t)
      PROVE CapacityInv'
  <2> DEFINE row == [job[j] EXCEPT !.transfer = t]
  <2>1. /\ row.status = job[j].status /\ row.target = job[j].target
        /\ row.reserved = job[j].reserved
    BY <1>b DEF NoJob
  <2>2. job' = [job EXCEPT ![j] = row] /\ UNCHANGED <<replicas, reserved>>
    BY <1>4 DEF MarkRepairTargetStarted
  <2> HIDE DEF row
  <2> QED BY <2>1, <2>2, <1>0, SameHoldings DEF Holds, CapacityInv, HoldsWhileRunning
<1>5. ASSUME NEW j \in Jobs, MarkRepairCopying(j) \/ StoreVerifying(j) PROVE CapacityInv'
  <2>1. PICK s \in {"copying", "verifying"} : job' = [job EXCEPT ![j].status = s]
    BY <1>5 DEF MarkRepairCopying, StoreVerifying
  <2> DEFINE row == [job[j] EXCEPT !.status = s]
  <2>2. row.status = s /\ row.target = job[j].target /\ row.reserved = job[j].reserved
    BY <1>b DEF NoJob
  <2>3. /\ job' = [job EXCEPT ![j] = row] /\ UNCHANGED <<replicas, reserved>>
        /\ job[j].status \in {"selecting_target", "copying"}
    BY <1>5, <2>1 DEF MarkRepairCopying, StoreVerifying
  <2> HIDE DEF row
  <2>4. job[j].reserved BY <2>3 DEF CapacityInv, HoldsWhileRunning, Running
  <2> QED BY <2>2, <2>3, <2>4, <1>0, SameHoldings DEF Holds, Active, Running
<1>6. ASSUME NEW j \in Jobs, job[j].status \in Active, ScheduleRepairRetry(j)
      PROVE CapacityInv'
  BY <1>6, <1>0, <1>b, RetryReleases DEF ScheduleRepairRetry
<1>7. ASSUME NEW j \in Jobs, AuditPassed(j) PROVE CapacityInv'
  <2> DEFINE o == job[j].object
             h == SetHealth(o, job[j].target, "healthy")
  <2>1. job[j].status = "verifying" /\ o \in Objects
    BY <1>7, <1>0 DEF AuditPassed, RowInv, AuditOnlyWhileVerifying, AuditOpen, DbTypeOK
  <2>2. job[j].target \in Nodes /\ job[j].target \notin replicas[o]
    BY <2>1, <1>0, <1>b
       DEF LiveInv, TargetIsNew, RowInv, RunningHasTarget, Active, Running, JobRow
  <2>3. CASE DiscardTarget(j, h)
    <3> DEFINE row == [job[j] EXCEPT !.status = "canceled", !.reserved = FALSE]
    <3>1. row.status = "canceled" /\ ~row.reserved BY <1>b DEF NoJob
    <3>2. /\ job' = [job EXCEPT ![j] = row] /\ UNCHANGED replicas
          /\ reserved' = JobReservationReleased(job[j])
      BY <2>2, <2>3 DEF DiscardTarget
    <3> HIDE DEF row
    <3> QED BY <3>1, <3>2, <2>1, <1>0, HoldingReleased DEF Active, Running
  <2>4. ASSUME NEW retired \in RetiredSets(o, job[j].target, h), Publish(j, h, retired)
        PROVE CapacityInv'
    <3>1. retired \subseteq replicas[o] BY DEF RetiredSets
    <3> HIDE DEF h
    <3> QED BY <3>1, <2>1, <2>2, <2>4, <1>0, PublishTransfers
  <2> HIDE DEF h
  <2> QED BY <1>7, <2>3, <2>4 DEF AuditPassed, h
<1>8. ASSUME NEW j \in Jobs, NEW s \in FailureKinds, AuditFailed(j, s) PROVE CapacityInv'
  <2>1. job[j].status \in Active
    BY <1>8, <1>0 DEF AuditFailed, RowInv, AuditOnlyWhileVerifying, AuditOpen, Active, Running
  <2>2. UNCHANGED replicas BY <1>8 DEF AuditFailed
  <2>3. CASE UNCHANGED <<job, reserved>> BY <2>2, <2>3, <1>a
  <2>4. CASE RetryOf(j, job[j], [audit EXCEPT ![j].status = "failed"],
                     SetHealth(job[j].object, job[j].target, s))
    BY <2>1, <2>2, <2>4, <1>0, <1>b, RetryReleases
  <2> QED BY <1>8, <2>3, <2>4 DEF AuditFailed
<1>9. ASSUME NEW j \in Jobs, NEW o \in Objects, job[j].status = "absent",
              job' = Inserted(j, o), UNCHANGED <<replicas, reserved>>
       PROVE CapacityInv'
  <2> DEFINE row == [NoJob EXCEPT !.status = "queued", !.object = o]
  <2>1. ~row.reserved /\ row.status = "queued" BY DEF NoJob
  <2>2. job' = [job EXCEPT ![j] = row] BY <1>9 DEF Inserted
  <2> HIDE DEF row
  <2> QED BY <1>9, <2>1, <2>2, <1>0, QueuedHoldsNothing
<1>10. ASSUME NEW j \in Jobs, NEW r \in BOOLEAN, RequeueRepairJob(j, r) PROVE CapacityInv'
  <2> DEFINE row == [NoJob EXCEPT !.status = "queued", !.object = job[j].object,
                                  !.attempts = IF r THEN 0 ELSE job[j].attempts]
  <2>1. ~row.reserved /\ row.status = "queued" BY DEF NoJob
  <2>2. /\ job' = [job EXCEPT ![j] = row] /\ UNCHANGED <<replicas, reserved>>
        /\ job[j].status \in {"failed", "canceled"}
    BY <1>10 DEF RequeueRepairJob
  <2> HIDE DEF row
  <2> QED BY <2>1, <2>2, <1>0, QueuedHoldsNothing
<1>11. ASSUME NEW j \in Jobs, CancelRepairJob(j) PROVE CapacityInv'
  <2> DEFINE row == [job[j] EXCEPT !.status = "canceled", !.reserved = FALSE]
  <2>1. row.status = "canceled" /\ ~row.reserved BY <1>b DEF NoJob
  <2>2. /\ job' = [job EXCEPT ![j] = row] /\ UNCHANGED replicas
        /\ reserved' = JobReservationReleased(job[j]) /\ job[j].status \in Active
    BY <1>11 DEF CancelRepairJob
  <2> HIDE DEF row
  <2> QED BY <2>1, <2>2, <1>0, HoldingReleased DEF Running
<1>12. ASSUME NEW o \in Objects, NEW n \in Nodes, NEW s \in FailureKinds \cup {"healthy"},
              ReplicaObserved(o, n, s) \/ ScheduledAuditResult(o, n, s)
       PROVE CapacityInv'
  BY <1>12, <1>a, <1>9 DEF ReplicaObserved, ScheduledAuditResult
<1>13. CASE Worker
  BY <1>13, <1>a, <1>1, <1>2, <1>3, <1>4, <1>5, <1>6, <1>7, <1>8
     DEF Worker, ClaimAudit, RecoverStaleAudit
<1>14. CASE SourceFailed BY <1>14, <1>a DEF SourceFailed, NoteSourceFailure
<1>15. CASE Observers
  BY <1>15, <1>a, <1>12 DEF Observers, SendObjectDelete, ObjectDeleted
<1>16. CASE Operators
  BY <1>16, <1>0, <1>9, <1>10, <1>11, PurgeReleases DEF Operators, EnqueueRepairJob
<1>17. CASE Cleanups
  BY <1>17, <1>a DEF Cleanups, ClaimRepairCleanup, MarkRepairCleanupResult
<1>18. CASE UNCHANGED dbVars BY <1>18, <1>a DEF dbVars
<1> QED BY <1>13, <1>14, <1>15, <1>16, <1>17, <1>18 DEF DbNext

(* reserved_bytes of a node are exactly its published replicas and the      *)
(* targets reserved by active repairs: over claims, retries, cancellations, *)
(* publications, retirements and purges in any order nothing is released    *)
(* twice and nothing leaks.                                                 *)
THEOREM CapacityAccountedFor == DbSpec => []ReservationsExact
<1>1. DbInit => LiveInv /\ CapacityInv BY LiveInit, CapacityInit
<1>2. LiveInv /\ CapacityInv /\ [DbNext]_dbVars => (LiveInv /\ CapacityInv)'
  BY LiveStep, CapacityStep
<1>3. CapacityInv => ReservationsExact BY DEF CapacityInv
<1> QED BY <1>1, <1>2, <1>3, PTL DEF DbSpec
=============================================================================
