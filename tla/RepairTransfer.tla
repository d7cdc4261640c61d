---------------------------- MODULE RepairTransfer ----------------------------
(***************************************************************************)
(* A replica repair end to end: the transactions of RepairJobs, driven by  *)
(* the DataServer's in-memory contexts (server.py, repair_transfer.py),    *)
(* the storage nodes that send and store the bytes (node.py) and the       *)
(* messages between them.                                                  *)
(*                                                                         *)
(* The DataServer is one thread: a handler runs to its end before the next *)
(* message is read.  Other processes write the database between any two of *)
(* its transactions, so a handler with two transactions is two steps here, *)
(* the second in phase "starting" or "failing", and Idle keeps the server  *)
(* from doing anything else in between.                                    *)
(*                                                                         *)
(* Frames to and from one node are ordered (one ZeroMQ connection); a lost *)
(* connection or a restart loses some of them, and nobody is told.  An     *)
(* object is a single chunk; "stream" stands for the source's              *)
(* stream_object_ready and that chunk.                                     *)
(***************************************************************************)
EXTENDS RepairJobs, Sequences

CONSTANTS
    RepairMaxInflight,  \* REPAIR_MAX_INFLIGHT: contexts held at once
    DbErrors,           \* the DataServer's transactions that may fail
    MaxDisturbances     \* bounds what happens from outside: see Disturbed

ASSUME TransferAssumption ==
    /\ RepairMaxInflight \in Nat \ {0} /\ MaxDisturbances \in Nat
    /\ DbErrors \subseteq {"audit_result", "source_failure", "target_start"}
    /\ {"suspect", "missing"} \subseteq FailureKinds   \* reported by the handlers

VARIABLES
    ctx,          \* DataServer.repairs: RepairTransferState of each job
    auditPending, \* DataServer.audit_pending: the current event of each job
    toNode,       \* frames on their way to each node
    toServer,     \* replies on their way from each node
    session,      \* node.transfers: receiving session of each target transfer
    disk,         \* disk[o][n]: the object directory, named by what wrote it
    damaged,      \* damaged[o]: nodes whose bytes of o the environment lost
    disturbances  \* how many outside events there were

memVars == <<ctx, auditPending>>
nodeVars == <<session, disk, damaged>>
vars == <<dbVars, memVars, toNode, toServer, nodeVars, disturbances>>

Upload == "upload"      \* an object directory written by an upload
(* An upload leaves no transfer id in the object directory. *)
ASSUME UploadAssumption == Upload \notin Transfers \cup {None}
NoEvent == <<None, 0>>

NoCtx == [phase |-> "none", target |-> None, transfer |-> None,
          source |-> None, sources |-> {}, tried |-> {}]
Phases == {"none", "starting", "failing", "awaiting_target_ready",
           "awaiting_source_ready", "copying", "awaiting_target_commit", "verifying"}

ToNode == [op : {"store_object_begin", "store", "store_object_end", "repair_abort",
                 "stream_object_begin"}, t : Transfers]
          \cup [op : {"delete_object"}, o : Objects]
          \cup [op : {"audit_slice"}, j : Jobs, event : Transfers \X Nat]
ToServer == [op : {"store_object_ready", "store_end_ok", "store_end_error",
                   "repair_abort_reply", "stream", "stream_object_end",
                   "stream_missing"}, t : Transfers]
            \cup [op : {"delete_object_reply"}, o : Objects]
            \cup [op : {"audit_ok", "audit_missing"}, j : Jobs,
                  event : Transfers \X Nat]

TypeOK ==
    /\ DbTypeOK
    /\ ctx \in [Jobs -> [phase : Phases, target : Nodes \cup {None},
                         transfer : Transfers \cup {None}, source : Nodes \cup {None},
                         sources : SUBSET Nodes, tried : SUBSET Nodes]]
    /\ auditPending \in [Jobs -> (Transfers \cup {None}) \X Nat]
    /\ toNode \in [Nodes -> Seq(ToNode)]
    /\ toServer \in [Nodes -> Seq(ToServer)]
    /\ session \in [Transfers -> {"none", "open", "full"}]
    /\ disk \in [Objects -> [Nodes -> Transfers \cup {Upload, None}]]
    /\ damaged \in [Objects -> SUBSET Nodes]
    /\ disturbances \in 0..MaxDisturbances

Init ==
    /\ DbInit
    /\ ctx = [j \in Jobs |-> NoCtx]
    /\ auditPending = [j \in Jobs |-> NoEvent]
    /\ toNode = [n \in Nodes |-> <<>>]
    /\ toServer = [n \in Nodes |-> <<>>]
    /\ session = [t \in Transfers |-> "none"]
    /\ disk = [o \in Objects |-> [n \in Nodes |->
                  IF n \in replicas[o] THEN Upload ELSE None]]
    /\ damaged = [o \in Objects |-> {}]
    /\ disturbances = 0

-----------------------------------------------------------------------------
Idle == \A j \in Jobs : ctx[j].phase \notin {"starting", "failing"}

Sent(n, ms) == [toNode EXCEPT ![n] = @ \o ms]

Msg(op, t) == [op |-> op, t |-> t]

(* _abort_repair_transport: best effort, beside the persistent cleanup queue. *)
Aborted(c) ==
    IF c.transfer = None THEN toNode
    ELSE Sent(c.target, <<Msg("repair_abort", c.transfer)>>)

(* Fault: an ended context is marked instead of removed. *)
MarkedDone(j) == [ctx EXCEPT ![j].phase = "done"]

Discarded(j) == [ctx EXCEPT ![j] = NoCtx]

(* The reply m is the oldest one of node n; handling it consumes it. *)
Receive(n, op) ==
    /\ Idle
    /\ toServer[n] # <<>>
    /\ Head(toServer[n]).op = op
    /\ toServer' = [toServer EXCEPT ![n] = Tail(@)]

(* The context a target's or a source's reply belongs to (accepts_target,   *)
(* accepts_source): stale transfer ids belong to none.                      *)
TargetCtx(n, t) == {j \in Jobs : ctx[j].phase # "none"
                                 /\ ctx[j].transfer = t /\ ctx[j].target = n}
SourceCtx(n, t) == {j \in Jobs : ctx[j].phase # "none"
                                 /\ ctx[j].transfer = t /\ ctx[j].source = n}

(* A stale or unknown reply is dropped. *)
Dropped == UNCHANGED <<dbVars, memVars, toNode, nodeVars>>

-----------------------------------------------------------------------------
(* _process_repair_jobs: one job per step.  A context whose job stopped     *)
(* running is given up; otherwise its lease is renewed, so only a job       *)
(* without a context is ever found stale.                                   *)
EndContext(j) ==
    /\ Idle
    /\ ctx[j].phase # "none"
    /\ job[j].status \notin Running
    /\ toNode' = Aborted(ctx[j])
    /\ ctx' = Discarded(j)
    /\ UNCHANGED <<dbVars, auditPending, toServer, nodeVars>>

RecoverStale(j) ==
    /\ Idle
    /\ ctx[j].phase = "none"
    /\ RecoverStaleRepairJob(j)
    /\ UNCHANGED <<memVars, toNode, toServer, nodeVars>>

SlotFor(j) ==
    /\ ctx[j].phase = "none"
    /\ Cardinality({k \in Jobs : ctx[k].phase # "none"}) < RepairMaxInflight

ClaimStart(j, sources, n) ==
    /\ Idle
    /\ SlotFor(j)
    /\ ClaimWithTarget(j, sources, n)
    /\ ctx' = [ctx EXCEPT ![j] = [NoCtx EXCEPT !.phase = "starting",
                                    !.target = n, !.sources = sources]]
    /\ UNCHANGED <<auditPending, toNode, toServer, nodeVars>>

ClaimSkip(j) ==
    /\ Idle
    /\ SlotFor(j)
    /\ ClaimBlocked(j) \/ ClaimWithoutTarget(j)
    /\ UNCHANGED <<memVars, toNode, toServer, nodeVars>>

(* _start_repair_target, after a claim or after a source failed. *)
StartRepairTarget(j) ==
    /\ ctx[j].phase = "starting"
    /\ IF TargetStartable(j, ctx[j].target)
       THEN \E t \in Transfers :
              /\ MarkRepairTargetStarted(j, t)
              /\ toNode' = Sent(ctx[j].target, <<Msg("store_object_begin", t)>>)
              /\ ctx' = [ctx EXCEPT ![j].phase = "awaiting_target_ready",
                                    ![j].transfer = t]
       ELSE /\ ctx' = Discarded(j)
            /\ UNCHANGED <<dbVars, toNode>>
    /\ UNCHANGED <<auditPending, toServer, nodeVars>>

(* _fail_repair_job: the retry is persisted whatever became of the job. *)
Fail(j) ==
    /\ ScheduleRepairRetry(j)
    /\ toNode' = Aborted(ctx[j])
    /\ ctx' = Discarded(j)
    /\ UNCHANGED <<auditPending, nodeVars>>

FailLater(j) ==
    /\ ctx[j].phase = "failing"
    /\ Fail(j)
    /\ UNCHANGED toServer

(* _restart_repair_from_next_source after its first transaction; the next   *)
(* step of the same handler starts the target again or fails the attempt.   *)
NextSource(j) ==
    /\ toNode' = Aborted(ctx[j])
    /\ ctx' = [ctx EXCEPT ![j].source = None,
                          ![j].phase = IF ctx[j].tried = ctx[j].sources
                                       THEN "failing" ELSE "starting"]
    /\ UNCHANGED <<auditPending, nodeVars>>

RestartFromNextSource(j, s) ==
    /\ NoteSourceFailure(job[j].object, ctx[j].source, s, ctx[j].transfer)
    /\ NextSource(j)

(* Fault: a target that does not answer is waited for without limit. *)
TimeoutOfSourcesOnly(j) ==
    /\ Idle
    /\ ctx[j].phase \in {"awaiting_source_ready", "copying"}
    /\ RestartFromNextSource(j, "suspect")
    /\ UNCHANGED toServer

(* Fault: a context under verification restarts from the next source. *)
TimeoutWhileVerifying(j) ==
    /\ Idle
    /\ ctx[j].phase = "verifying"
    /\ RestartFromNextSource(j, "suspect")
    /\ UNCHANGED toServer

(* _process_repair_timeouts: a context under verification never times out. *)
RepairTimeout(j) ==
    /\ Idle
    /\ \/ /\ ctx[j].phase \in {"awaiting_source_ready", "copying"}
          /\ RestartFromNextSource(j, "suspect")
       \/ ctx[j].phase \in {"awaiting_target_ready", "awaiting_target_commit"} /\ Fail(j)
    /\ UNCHANGED toServer

-----------------------------------------------------------------------------
(* store_object_ready, then _begin_next_repair_source *)
BeginNextSource(j, src) ==
    IF job[j].status \in {"selecting_target", "copying"}
    THEN /\ MarkRepairCopying(j)
         /\ ctx' = [ctx EXCEPT ![j].phase = "awaiting_source_ready",
                               ![j].source = src, ![j].tried = @ \cup {src}]
         /\ toNode' = Sent(src, <<Msg("stream_object_begin", ctx[j].transfer)>>)
    ELSE /\ toNode' = Aborted(ctx[j])
         /\ ctx' = Discarded(j)
         /\ UNCHANGED dbVars

StoreObjectReady(n) ==
    /\ Receive(n, "store_object_ready")
    /\ LET cs == TargetCtx(n, Head(toServer[n]).t) IN
       IF cs = {} THEN Dropped
       ELSE \E j \in cs :
              /\ \E src \in ctx[j].sources \ ctx[j].tried : BeginNextSource(j, src)
              /\ UNCHANGED <<auditPending, nodeVars>>

(* The chunk of the source's stream is forwarded to the target. *)
SourceStream(n) ==
    /\ Receive(n, "stream")
    /\ LET t == Head(toServer[n]).t  cs == SourceCtx(n, t) IN
       IF cs = {} THEN Dropped
       ELSE \E j \in cs :
              /\ toNode' = Sent(ctx[j].target, <<Msg("store", t)>>)
              /\ ctx' = [ctx EXCEPT ![j].phase = "copying"]
              /\ UNCHANGED <<dbVars, auditPending, nodeVars>>

(* stream_object_end: the target finalizes if every chunk came by. *)
StreamObjectEnd(n) ==
    /\ Receive(n, "stream_object_end")
    /\ LET t == Head(toServer[n]).t  cs == SourceCtx(n, t) IN
       IF cs = {} THEN Dropped
       ELSE \E j \in cs :
              IF ctx[j].phase = "copying"
              THEN /\ toNode' = Sent(ctx[j].target, <<Msg("store_object_end", t)>>)
                   /\ ctx' = [ctx EXCEPT ![j].phase = "awaiting_target_commit"]
                   /\ UNCHANGED <<dbVars, auditPending, nodeVars>>
              ELSE RestartFromNextSource(j, "missing")

StreamObjectMissing(n) ==
    /\ Receive(n, "stream_missing")
    /\ LET cs == SourceCtx(n, Head(toServer[n]).t) IN
       IF cs = {} THEN Dropped
       ELSE \E j \in cs : RestartFromNextSource(j, "missing")

(* store_object_end_reply: verification starts, unless the job is no longer *)
(* copying or its audit cannot be inserted.                                 *)
StoreObjectEndOk(n) ==
    /\ Receive(n, "store_end_ok")
    /\ LET cs == TargetCtx(n, Head(toServer[n]).t) IN
       IF cs = {} THEN Dropped
       ELSE \E j \in cs :
              \/ /\ StoreVerifying(j)
                 /\ ctx' = [ctx EXCEPT ![j].phase = "verifying"]
                 /\ UNCHANGED <<auditPending, toNode, nodeVars>>
              \/ Fail(j)

StoreObjectEndError(n) ==
    /\ Receive(n, "store_end_error")
    /\ LET cs == TargetCtx(n, Head(toServer[n]).t) IN
       IF cs = {} THEN Dropped ELSE \E j \in cs : Fail(j)

-----------------------------------------------------------------------------
(* _schedule_one_audit and _send_audit_job; a fresh event id per attempt. *)
CurrentEvent(j) == <<job[j].transfer, audit[j].attempts>>

SendAudit(j) ==
    LET event == <<job[j].transfer, audit[j].attempts + 1>> IN
    /\ Idle
    /\ ClaimAudit(j)
    /\ auditPending' = [auditPending EXCEPT ![j] = event]
    /\ toNode' = Sent(job[j].target,
                      <<[op |-> "audit_slice", j |-> j, event |-> event]>>)
    /\ UNCHANGED <<ctx, toServer, nodeVars>>

(* Fault: the target is told to abort even when its copy was published. *)
AuditAppliedThenAborted(j, decided) ==
    /\ decided
    /\ IF job'[j].status = "verifying"
       THEN UNCHANGED <<ctx, toNode>>
       ELSE ctx' = Discarded(j) /\ toNode' = Aborted(ctx[j])

(* _apply_audit_result with its transaction; a repair that ended in it      *)
(* loses its context, with a repair_abort unless it was completed.          *)
AuditApplied(j, decided) ==
    /\ decided
    /\ IF job'[j].status = "verifying"
       THEN UNCHANGED <<ctx, toNode>>
       ELSE /\ ctx' = Discarded(j)
            /\ toNode' = IF job'[j].status = "completed" THEN toNode
                         ELSE Aborted(ctx[j])

AuditReply(n, op) ==
    /\ Receive(n, op)
    /\ LET m == Head(toServer[n])  j == m.j IN
       /\ IF auditPending[j] # m.event THEN UNCHANGED auditPending
          ELSE auditPending' = [auditPending EXCEPT ![j] = NoEvent]
       /\ IF /\ auditPending[j] = m.event /\ m.event = CurrentEvent(j)
             /\ audit[j].status = "sent" /\ job[j].object \in objects
          THEN AuditApplied(j, IF op = "audit_ok" THEN AuditPassed(j)
                               ELSE AuditFailed(j, "missing"))
          ELSE UNCHANGED <<dbVars, ctx, toNode>>
    /\ UNCHANGED nodeVars

(* No answer within AUDIT_TIMEOUT_SEC. *)
AuditTimeout(j) ==
    /\ Idle
    /\ auditPending[j] # NoEvent
    /\ auditPending' = [auditPending EXCEPT ![j] = NoEvent]
    /\ IF /\ auditPending[j] = CurrentEvent(j)
          /\ audit[j].status = "sent" /\ job[j].object \in objects
       THEN AuditApplied(j, AuditFailed(j, "suspect"))
       ELSE UNCHANGED <<dbVars, ctx, toNode>>
    /\ UNCHANGED <<toServer, nodeVars>>

(* A sent audit the DataServer's memory does not hold. *)
RecoverAudit(j) ==
    /\ Idle
    /\ auditPending[j] # CurrentEvent(j)
    /\ RecoverStaleAudit(j)
    /\ UNCHANGED <<memVars, toNode, toServer, nodeVars>>

-----------------------------------------------------------------------------
(* _process_repair_cleanup_queue and _process_object_gc_queue.  A row is    *)
(* sent again 300 seconds later: by then the frame and its reply came       *)
(* through or were lost.                                                    *)
InFlight(n, m, reply) ==
    \/ \E i \in 1..Len(toNode[n]) : toNode[n][i] = m
    \/ \E i \in 1..Len(toServer[n]) : toServer[n][i] = reply

SendRepairCleanup(t) ==
    LET n == transfer[t].node  m == Msg("repair_abort", t) IN
    /\ Idle
    /\ ClaimRepairCleanup(t)
    /\ ~InFlight(n, m, Msg("repair_abort_reply", t))
    /\ toNode' = Sent(n, <<m>>)
    /\ UNCHANGED <<memVars, toServer, nodeVars>>

RepairAbortReply(n) ==
    /\ Receive(n, "repair_abort_reply")
    /\ LET t == Head(toServer[n]).t IN
       IF transfer[t].cleanup \in QueueOpen
       THEN MarkRepairCleanupResult(t, TRUE) /\ UNCHANGED <<memVars, toNode, nodeVars>>
       ELSE Dropped

SendGcDelete(o, n) ==
    LET m == [op |-> "delete_object", o |-> o] IN
    /\ Idle
    /\ SendObjectDelete(o, n)
    /\ ~InFlight(n, m, [op |-> "delete_object_reply", o |-> o])
    /\ toNode' = Sent(n, <<m>>)
    /\ UNCHANGED <<memVars, toServer, nodeVars>>

DeleteObjectReply(n) ==
    /\ Receive(n, "delete_object_reply")
    /\ LET o == Head(toServer[n]).o IN
       IF gcQueue[o][n].status \in QueueOpen
       THEN ObjectDeleted(o, n) /\ UNCHANGED <<memVars, toNode, nodeVars>>
       ELSE Dropped

(* Restarts, lost connections, lost disks, observations and operators'      *)
(* requests come from outside; only so many of them are followed.           *)
Disturbed ==
    disturbances < MaxDisturbances /\ disturbances' = disturbances + 1

(* The DataServer stops and starts again: its memory is gone. *)
ServerRestart ==
    /\ ctx' = [j \in Jobs |-> NoCtx]
    /\ auditPending' = [j \in Jobs |-> NoEvent]
    /\ Disturbed
    /\ UNCHANGED <<dbVars, toNode, toServer, nodeVars>>

ServerReceives(n) ==
    \/ StoreObjectReady(n)
    \/ SourceStream(n)
    \/ StreamObjectEnd(n)
    \/ StreamObjectMissing(n)
    \/ StoreObjectEndOk(n)
    \/ StoreObjectEndError(n)
    \/ \E op \in {"audit_ok", "audit_missing"} : AuditReply(n, op)
    \/ RepairAbortReply(n)
    \/ DeleteObjectReply(n)

(* What the loop of serve_forever does for a job that has been claimed. *)
ServerPolls(j) ==
    \/ EndContext(j)
    \/ RecoverStale(j)
    \/ StartRepairTarget(j)
    \/ FailLater(j)
    \/ RepairTimeout(j)
    \/ SendAudit(j)
    \/ AuditTimeout(j)
    \/ RecoverAudit(j)

Server ==
    \/ \E n \in Nodes : ServerReceives(n)
    \/ \E j \in Jobs : ServerPolls(j)
    \/ \E j \in Jobs, S \in SUBSET Nodes, n \in Nodes : ClaimStart(j, S, n)
    \/ \E j \in Jobs : ClaimSkip(j)
    \/ \E o \in Objects, n \in Nodes : SendGcDelete(o, n)
    \/ \E t \in Transfers : SendRepairCleanup(t)

-----------------------------------------------------------------------------
(* node.py: a storage node answers the oldest frame.                        *)
NodeReceive(n, op) ==
    /\ toNode[n] # <<>>
    /\ Head(toNode[n]).op = op
    /\ toNode' = [toNode EXCEPT ![n] = Tail(@)]
    /\ UNCHANGED <<dbVars, memVars>>

Replied(n, ms) == toServer' = [toServer EXCEPT ![n] = @ \o ms]

NodeStoreObjectBegin(n) ==
    LET t == Head(toNode[n]).t IN
    /\ NodeReceive(n, "store_object_begin")
    /\ session' = [session EXCEPT ![t] = "open"]
    /\ Replied(n, <<Msg("store_object_ready", t)>>)
    /\ UNCHANGED <<disk, damaged>>

NodeStore(n) ==
    LET t == Head(toNode[n]).t IN
    /\ NodeReceive(n, "store")
    /\ session' = [session EXCEPT ![t] = IF @ = "none" THEN @ ELSE "full"]
    /\ UNCHANGED <<toServer, disk, damaged>>

(* Fault: a session the node does not know is taken for finalized. *)
StoreEndUnknownOk(n) ==
    LET t == Head(toNode[n]).t
        stored == session[t] = "full" /\ disk[transfer[t].object][n] # Upload IN
    /\ NodeReceive(n, "store_object_end")
    /\ session' = [session EXCEPT ![t] = "none"]
    /\ disk' = IF stored THEN [disk EXCEPT ![transfer[t].object][n] = t] ELSE disk
    /\ Replied(n, <<Msg(IF stored \/ session[t] = "none"
                        THEN "store_end_ok" ELSE "store_end_error", t)>>)
    /\ UNCHANGED damaged

(* _transfer_finalize: a complete session replaces whatever an earlier      *)
(* repair left, never an uploaded object; without a session the object that *)
(* this very transfer finalized counts as success.                          *)
NodeStoreObjectEnd(n) ==
    LET t == Head(toNode[n]).t
        o == transfer[t].object
        stored == session[t] = "full" /\ disk[o][n] # Upload
        found  == session[t] = "none" /\ disk[o][n] = t IN
    /\ NodeReceive(n, "store_object_end")
    /\ session' = [session EXCEPT ![t] = "none"]
    /\ disk' = IF stored THEN [disk EXCEPT ![o][n] = t] ELSE disk
    /\ damaged' = IF stored THEN [damaged EXCEPT ![o] = @ \ {n}] ELSE damaged
    /\ Replied(n, <<Msg(IF stored \/ found THEN "store_end_ok" ELSE "store_end_error", t)>>)

(* _abort_repair_transfer: only bytes that still belong to the transfer. *)
NodeRepairAbort(n) ==
    LET t == Head(toNode[n]).t  o == transfer[t].object IN
    /\ NodeReceive(n, "repair_abort")
    /\ session' = [session EXCEPT ![t] = "none"]
    /\ disk' = IF disk[o][n] = t THEN [disk EXCEPT ![o][n] = None] ELSE disk
    /\ Replied(n, <<Msg("repair_abort_reply", t)>>)
    /\ UNCHANGED damaged

NodeDeleteObject(n) ==
    LET o == Head(toNode[n]).o IN
    /\ NodeReceive(n, "delete_object")
    /\ disk' = [disk EXCEPT ![o][n] = None]
    /\ Replied(n, <<[op |-> "delete_object_reply", o |-> o]>>)
    /\ UNCHANGED <<session, damaged>>

NodeStreamObjectBegin(n) ==
    LET t == Head(toNode[n]).t IN
    /\ NodeReceive(n, "stream_object_begin")
    /\ Replied(n, IF disk[transfer[t].object][n] = None
                  THEN <<Msg("stream_missing", t)>>
                  ELSE <<Msg("stream", t), Msg("stream_object_end", t)>>)
    /\ UNCHANGED <<session, disk, damaged>>

NodeAuditSlice(n) ==
    LET m == Head(toNode[n]) IN
    /\ NodeReceive(n, "audit_slice")
    /\ Replied(n, <<[m EXCEPT !.op = IF disk[job[m.j].object][n] = None
                                     THEN "audit_missing" ELSE "audit_ok"]>>)
    /\ UNCHANGED <<session, disk, damaged>>

NodeStep(n) ==
    \/ NodeStoreObjectBegin(n)
    \/ NodeStore(n)
    \/ NodeStoreObjectEnd(n)
    \/ NodeRepairAbort(n)
    \/ NodeDeleteObject(n)
    \/ NodeStreamObjectBegin(n)
    \/ NodeAuditSlice(n)

-----------------------------------------------------------------------------
(* The connection of n breaks, with or without a restart of the node: of    *)
(* the frames to it only those already received survive, of its replies     *)
(* some consecutive ones are lost.  A restart forgets the receiving         *)
(* sessions; objects on disk stay.                                          *)
LoseConnection(n, restart) ==
    /\ Disturbed
    /\ \E k \in 0..Len(toNode[n]) :
         /\ restart => k = 0
         /\ toNode' = [toNode EXCEPT ![n] = SubSeq(@, 1, k)]
    /\ \E i \in 0..Len(toServer[n]) : \E k \in i..Len(toServer[n]) :
         toServer' = [toServer EXCEPT
                        ![n] = SubSeq(@, 1, i) \o SubSeq(@, k + 1, Len(@))]
    /\ session' = [t \in Transfers |->
                     IF restart /\ transfer[t].node = n THEN "none" ELSE session[t]]
    /\ UNCHANGED <<dbVars, memVars, disk, damaged>>

(* The provider's disk loses an object. *)
LoseBytes(o, n) ==
    /\ Disturbed
    /\ disk[o][n] # None
    /\ disk' = [disk EXCEPT ![o][n] = None]
    /\ damaged' = [damaged EXCEPT ![o] = @ \cup {n}]
    /\ UNCHANGED <<dbVars, memVars, toNode, toServer, session>>

(* A transaction of a DataServer handler fails and is logged.  Where the    *)
(* handler then keeps its state, the reply is as good as lost; here it goes *)
(* on: an audit result that was taken from audit_pending, a source failure  *)
(* that is not noted, a target that could not be marked as started.         *)
TransactionFails(j) ==
    /\ Disturbed
    /\ \/ /\ "audit_result" \in DbErrors /\ Idle
          /\ auditPending[j] # NoEvent
          /\ auditPending' = [auditPending EXCEPT ![j] = NoEvent]
          /\ UNCHANGED <<ctx, toNode, nodeVars>>
       \/ /\ "source_failure" \in DbErrors /\ Idle
          /\ ctx[j].phase \in {"awaiting_source_ready", "copying"}
          /\ NextSource(j)
       \/ /\ "target_start" \in DbErrors
          /\ ctx[j].phase = "starting"
          /\ ctx' = [ctx EXCEPT ![j].phase = "failing"]
          /\ UNCHANGED <<auditPending, toNode, nodeVars>>
    /\ UNCHANGED <<dbVars, toServer>>

Faults ==
    \/ ServerRestart
    \/ \E j \in Jobs : TransactionFails(j)
    \/ \E n \in Nodes, restart \in BOOLEAN : LoseConnection(n, restart)
    \/ \E o \in Objects, n \in Nodes : LoseBytes(o, n)

(* The other writers of the database run at any time, also between the two  *)
(* transactions of one DataServer handler: the maintenance worker's scan,   *)
(* operators, the purge of the last reference.                              *)
ScanEnqueues ==
    /\ \E j \in Jobs, o \in Objects : EnqueueRepairJob(j, o)
    /\ UNCHANGED <<memVars, toNode, toServer, nodeVars, disturbances>>

OtherProcesses ==
    /\ Disturbed
    /\ \/ \E j \in Jobs : CancelRepairJob(j)
       \/ \E j \in Jobs, r \in BOOLEAN : RequeueRepairJob(j, r)
       \/ \E o \in Objects : GcUnreferencedObject(o)
    /\ UNCHANGED <<memVars, toNode, toServer, nodeVars>>

(* Uploads, downloads and scheduled audits of the same DataServer observe   *)
(* replicas; a result may be older than the replica's present state.        *)
ObserveReplica ==
    /\ Idle
    /\ Disturbed
    /\ \E o \in Objects, n \in Nodes, s \in FailureKinds \cup {"healthy"} :
         ReplicaObserved(o, n, s) \/ ScheduledAuditResult(o, n, s)
    /\ UNCHANGED <<memVars, toNode, toServer, nodeVars>>

Next ==
    \/ Server /\ UNCHANGED disturbances
    \/ (\E n \in Nodes : NodeStep(n)) /\ UNCHANGED disturbances
    \/ ScanEnqueues
    \/ Faults
    \/ OtherProcesses
    \/ ObserveReplica

Spec == Init /\ [][Next]_vars

(* The loop of the one DataServer never stops polling; nothing is assumed   *)
(* of the nodes, which may stay silent for ever.                            *)
ServerFairness ==
    /\ \A n \in Nodes : WF_vars(ServerReceives(n) /\ UNCHANGED disturbances)
    /\ \A j \in Jobs : WF_vars(ServerPolls(j) /\ UNCHANGED disturbances)
    /\ \A t \in Transfers : WF_vars(SendRepairCleanup(t) /\ UNCHANGED disturbances)

(* A node that is connected handles the frames it received. *)
NodeFairness == \A n \in Nodes : WF_vars(NodeStep(n) /\ UNCHANGED disturbances)

FairSpec == Spec /\ ServerFairness
-----------------------------------------------------------------------------
(* A replica the database publishes is on its node's disk unless the        *)
(* environment lost it there: no abort, cleanup, deletion or overwrite of   *)
(* any earlier attempt, however late it is handled, reaches it.             *)
StoredUnlessDamaged ==
    \A o \in objects : \A n \in replicas[o] :
        disk[o][n] # None \/ n \in damaged[o]

(* A repair is verified against the bytes its own transfer stored, not      *)
(* against what an older attempt left on the same node; and a replica the   *)
(* database publishes is what its upload stored or what the transfer of a   *)
(* completed repair did.                                                    *)
VerifiesOwnCopy ==
    /\ \A j \in Jobs : job[j].status = "verifying" =>
          \/ disk[job[j].object][job[j].target] = job[j].transfer
          \/ job[j].target \in damaged[job[j].object]
    /\ \A o \in objects : \A n \in replicas[o] :
          \/ disk[o][n] = Upload \/ n \in damaged[o]
          \/ \E j \in Jobs : /\ job[j].status = "completed"
                            /\ job[j].object = o /\ job[j].target = n
                            /\ disk[o][n] = job[j].transfer

(* Bytes of a copy that was not published are still wanted by the running   *)
(* job, or the cleanup queue still has to remove them: a crash, a lost      *)
(* frame or a cancellation leaves no copy nobody will delete.               *)
AbandonedCopyQueued ==
    \A o \in Objects, n \in Nodes : disk[o][n] \in Transfers =>
        LET t == disk[o][n] IN
        \/ transfer[t].cleanup \in QueueOpen
        \/ \E j \in Jobs : job[j].transfer = t /\ job[j].status \in Running \cup {"completed"}

(* Every repair attempt ends, whatever node or message is lost and whenever *)
(* the DataServer restarts, and its slot of REPAIR_MAX_INFLIGHT is free     *)
(* again - unless the object is purged meanwhile: no audit result is        *)
(* applied then, while the lease of the verifying job is renewed for ever.  *)
AttemptEnds ==
    \A j \in Jobs :
        (job[j].status \in Running \/ ctx[j].phase # "none")
        ~> \/ job[j].status \notin Running /\ ctx[j].phase = "none"
           \/ job[j].object \notin objects

(* If the nodes answer, every abandoned copy is erased for good. *)
AbandonedCopyErased ==
    NodeFairness =>
        \A t \in Transfers :
            transfer[t].cleanup \in QueueOpen
            ~> [](/\ transfer[t].cleanup = "done" /\ session[t] = "none"
                 /\ \A o \in Objects, n \in Nodes : disk[o][n] # t)
=============================================================================
