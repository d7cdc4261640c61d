------------------------- MODULE RepairTransferProofs -------------------------
(***************************************************************************)
(* The DataServer, its nodes and their messages respect the guards of the  *)
(* repair transactions: RepairTransfer implements DbSpec for every number  *)
(* of objects, nodes, jobs and transfers, so all that RepairProofs proves  *)
(* holds of the whole system.                                              *)
(*                                                                         *)
(* The guards look at rows only, the handlers at a context and a message.  *)
(* The link is one token per transfer: the frames that drive a copy        *)
(* (Chain) follow each other, there is at most one of them in flight, and  *)
(* it is the one the context of that transfer waits for.                   *)
(***************************************************************************)
EXTENDS RepairTransfer, RepairProofs

CtxRow == [phase : Phases, target : Nodes \cup {None}, transfer : Transfers \cup {None},
           source : Nodes \cup {None}, sources : SUBSET Nodes, tried : SUBSET Nodes]

Live(c) == c.phase \notin {"none", "starting", "failing"}

(* What an ended context leaves behind: nothing. *)
CtxEmpty(j) ==
    /\ ctx[j].phase = "none" => ctx[j].transfer = None /\ ctx[j].source = None
    /\ ctx[j].source # None => Live(ctx[j])
    /\ Live(ctx[j]) => ctx[j].transfer # None
    /\ ctx[j].phase \in {"awaiting_source_ready", "copying"} => ctx[j].source # None

(* The rows a context was made from.  Its job may have ended or may be      *)
(* queued again meanwhile; the object, the copy and the sources stay.       *)
CtxRows(j) ==
    LET c == ctx[j]  o == job[j].object IN
    /\ c.phase # "none" =>
         /\ job[j].status \notin {"absent", "completed"}
         /\ c.target # None
         /\ \A n \in Nodes : n \in c.sources \/ n = c.source => health[o][n] # "none"
    /\ c.transfer # None =>
         /\ transfer[c.transfer].object = o /\ transfer[c.transfer].node = c.target
         /\ \A k \in Jobs \ {j} : c.transfer # job[k].transfer /\ c.transfer # ctx[k].transfer

(* While the job runs, its row names the target and the copy of the context *)
(* and the copy has not been given up - or, before a restart, it has.       *)
CtxRuns(j) ==
    LET c == ctx[j] IN
    c.phase # "none" /\ job[j].status \in Running =>
        /\ job[j].target = c.target /\ job[j].transfer = c.transfer
        /\ job[j].status = "verifying" => c.phase = "verifying"
        /\ c.phase = "verifying" => job[j].status = "verifying"
        /\ Live(c) => transfer[c.transfer].cleanup = "none"
        /\ c.phase = "starting" /\ c.transfer # None => transfer[c.transfer].cleanup # "none"

CtxSound(j) == CtxEmpty(j) /\ CtxRows(j) /\ CtxRuns(j)
CtxInv == \A j \in Jobs : CtxSound(j)

(* A job that waits to be claimed pursues no copy, one under verification   *)
(* does.                                                                    *)
WaitingHasNone ==
    \A j \in Jobs : job[j].status \in {"queued", "retry_wait"} => job[j].transfer = None
VerifyingHasCopy == \A j \in Jobs : job[j].status = "verifying" => job[j].transfer # None

(* The frames that drive a copy, and the phases in which each is awaited. *)
Chain == {"store_object_begin", "store_object_ready", "stream_object_begin", "stream",
          "stream_object_end", "stream_missing", "store_object_end", "store_end_ok",
          "store_end_error"}
Awaited ==
    [store_object_begin  |-> {"awaiting_target_ready"},
     store_object_ready  |-> {"awaiting_target_ready"},
     stream_object_begin |-> {"awaiting_source_ready"},
     stream              |-> {"awaiting_source_ready"},
     stream_object_end   |-> {"awaiting_source_ready", "copying"},
     stream_missing      |-> {"awaiting_source_ready"},
     store_object_end    |-> {"awaiting_target_commit"},
     store_end_ok        |-> {"awaiting_target_commit"},
     store_end_error     |-> {"awaiting_target_commit"}]

Named == Chain \cup {"store", "repair_abort", "repair_abort_reply"}
Drives(m, t) == m.op \in Chain /\ m.t = t
Names(m, t) == m.op \in Named /\ m.t = t

(* At most one frame drives a copy, but for the chunk before the end of the *)
(* stream.                                                                  *)
OneDriver(t) ==
    /\ \A n, m \in Nodes : \A i \in 1 .. Len(toNode[n]), k \in 1 .. Len(toNode[m]) :
         Drives(toNode[n][i], t) /\ Drives(toNode[m][k], t) => n = m /\ i = k
    /\ \A n, m \in Nodes : \A i \in 1 .. Len(toNode[n]), k \in 1 .. Len(toServer[m]) :
         ~(Drives(toNode[n][i], t) /\ Drives(toServer[m][k], t))
    /\ \A n, m \in Nodes : \A i \in 1 .. Len(toServer[n]), k \in 1 .. Len(toServer[m]) :
         Drives(toServer[n][i], t) /\ Drives(toServer[m][k], t) =>
            /\ n = m
            /\ i < k => toServer[n][i].op = "stream" /\ toServer[n][k].op = "stream_object_end"

(* A frame of the copy of a live context is the one it waits for. *)
InPhase(j) ==
    Live(ctx[j]) => \A n \in Nodes :
        /\ \A i \in 1 .. Len(toNode[n]) : Drives(toNode[n][i], ctx[j].transfer)
              => ctx[j].phase \in Awaited[toNode[n][i].op]
        /\ \A i \in 1 .. Len(toServer[n]) : Drives(toServer[n][i], ctx[j].transfer)
              => ctx[j].phase \in Awaited[toServer[n][i].op]

(* A transfer id that was never used is nowhere. *)
Fresh(t) ==
    Unused(t) => \A n \in Nodes :
        /\ \A i \in 1 .. Len(toNode[n]) : ~Names(toNode[n][i], t)
        /\ \A i \in 1 .. Len(toServer[n]) : ~Names(toServer[n][i], t)

FrameInv == /\ \A t \in Transfers : OneDriver(t) /\ Fresh(t)
            /\ \A j \in Jobs : InPhase(j)

RepairInv ==
    /\ TypeOK /\ LiveInv /\ CopyInv /\ WaitingHasNone /\ VerifyingHasCopy
    /\ CtxInv /\ FrameInv

(* What any transaction does to the copies that were begun.                 *)
CopiesKept ==
    \A t \in Transfers : ~Unused(t) =>
        /\ transfer'[t].object = transfer[t].object /\ transfer'[t].node = transfer[t].node
        /\ transfer[t].cleanup # "none" => transfer'[t].cleanup # "none"

-----------------------------------------------------------------------------
(* Rows *)

LEMMA RowFacts ==
    ASSUME DbTypeOK, NEW j \in Jobs
    PROVE  /\ job[j].status \in Active \cup Terminal \cup {"absent"}
           /\ job[j].object \in Objects \cup {None} /\ job[j].target \in Nodes \cup {None}
           /\ job[j].transfer \in Transfers \cup {None}
           /\ job[j] \in JobRow
BY DEF DbTypeOK, JobRow

LEMMA CtxFacts ==
    ASSUME TypeOK, NEW j \in Jobs
    PROVE  /\ ctx[j] \in CtxRow
           /\ ctx[j].phase \in Phases /\ ctx[j].target \in Nodes \cup {None}
           /\ ctx[j].transfer \in Transfers \cup {None} /\ ctx[j].source \in Nodes \cup {None}
           /\ ctx[j].sources \in SUBSET Nodes /\ ctx[j].tried \in SUBSET Nodes
BY DEF TypeOK, CtxRow

(* The columns of a context are written one by one. *)
LEMMA CtxSourcePhase ==
    ASSUME NEW d \in CtxRow, NEW p, NEW s
    PROVE  [d EXCEPT !.source = s, !.phase = p]
              = [phase |-> p, target |-> d.target, transfer |-> d.transfer, source |-> s,
                 sources |-> d.sources, tried |-> d.tried]
<1> DEFINE e == [d EXCEPT !.source = s]
<1>1. e = [phase |-> d.phase, target |-> d.target, transfer |-> d.transfer, source |-> s,
           sources |-> d.sources, tried |-> d.tried]
  BY DEF CtxRow
<1>2. [d EXCEPT !.source = s, !.phase = p] = [e EXCEPT !.phase = p] OBVIOUS
<1> HIDE DEF e
<1> QED BY <1>1, <1>2

LEMMA CtxPhaseTransfer ==
    ASSUME NEW d \in CtxRow, NEW p, NEW t
    PROVE  [d EXCEPT !.phase = p, !.transfer = t]
              = [phase |-> p, target |-> d.target, transfer |-> t, source |-> d.source,
                 sources |-> d.sources, tried |-> d.tried]
<1> DEFINE e == [d EXCEPT !.phase = p]
<1>1. e = [phase |-> p, target |-> d.target, transfer |-> d.transfer, source |-> d.source,
           sources |-> d.sources, tried |-> d.tried]
  BY DEF CtxRow
<1>2. [d EXCEPT !.phase = p, !.transfer = t] = [e EXCEPT !.transfer = t] OBVIOUS
<1> HIDE DEF e
<1> QED BY <1>1, <1>2

LEMMA CtxPhaseSourceTried ==
    ASSUME NEW d \in CtxRow, NEW p, NEW s, NEW S
    PROVE  [d EXCEPT !.phase = p, !.source = s, !.tried = S]
              = [phase |-> p, target |-> d.target, transfer |-> d.transfer, source |-> s,
                 sources |-> d.sources, tried |-> S]
<1> DEFINE e == [d EXCEPT !.phase = p]
           f == [e EXCEPT !.source = s]
<1>1. e = [phase |-> p, target |-> d.target, transfer |-> d.transfer, source |-> d.source,
           sources |-> d.sources, tried |-> d.tried]
  BY DEF CtxRow
<1>2. [d EXCEPT !.phase = p, !.source = s, !.tried = S] = [f EXCEPT !.tried = S] OBVIOUS
<1> HIDE DEF e
<1>3. f = [phase |-> p, target |-> d.target, transfer |-> d.transfer, source |-> s,
           sources |-> d.sources, tried |-> d.tried]
  BY <1>1
<1> HIDE DEF f
<1> QED BY <1>2, <1>3

LEMMA ClaimedCtx ==
    ASSUME NEW n, NEW S
    PROVE  [NoCtx EXCEPT !.phase = "starting", !.target = n, !.sources = S]
              = [phase |-> "starting", target |-> n, transfer |-> None, source |-> None,
                 sources |-> S, tried |-> {}]
<1> DEFINE a == [NoCtx EXCEPT !.phase = "starting"]
           b == [a EXCEPT !.target = n]
<1>1. a = [phase |-> "starting", target |-> None, transfer |-> None, source |-> None,
           sources |-> {}, tried |-> {}]
  BY DEF NoCtx
<1>2. b = [phase |-> "starting", target |-> n, transfer |-> None, source |-> None,
           sources |-> {}, tried |-> {}]
  <2> HIDE DEF a
  <2> QED BY <1>1
<1>3. [b EXCEPT !.sources = S]
         = [phase |-> "starting", target |-> n, transfer |-> None, source |-> None,
            sources |-> S, tried |-> {}]
  <2> HIDE DEF b
  <2> QED BY <1>2
<1> QED BY <1>3

(* The oldest frame of a queue. *)
LEMMA HeadFrame ==
    ASSUME NEW S, NEW q \in Seq(S), q # <<>>
    PROVE  /\ Len(q) \in Nat /\ 1 \in 1 .. Len(q) /\ Head(q) = q[1] /\ Head(q) \in S
           /\ Tail(q) \in Seq(S) /\ Len(Tail(q)) = Len(q) - 1
           /\ \A i \in 1 .. Len(Tail(q)) : i + 1 \in 1 .. Len(q) /\ Tail(q)[i] = q[i + 1]
OBVIOUS

-----------------------------------------------------------------------------
(* Each step is a transaction, or none.  Four of the transactions answer a  *)
(* frame or the loss of one; what else is known of the step goes with them. *)
AttemptRows(j) ==
    \/ \E S \in SUBSET Nodes, n \in Nodes : ClaimWithTarget(j, S, n)
    \/ ClaimBlocked(j) \/ ClaimWithoutTarget(j)
    \/ ~CopyCurrent(j) /\ \E t \in Transfers : MarkRepairTargetStarted(j, t)
    \/ CopyCurrent(j) /\ MarkRepairCopying(j)
    \/ job[j].status \in Active /\ ScheduleRepairRetry(j)
    \/ ClaimAudit(j) \/ AuditPassed(j)
    \/ \E s \in FailureKinds : AuditFailed(j, s)
    \/ RecoverStaleAudit(j)

OtherRows ==
    \/ \E j \in Jobs : AttemptRows(j)
    \/ Operators
    \/ \E o \in Objects, n \in Nodes :
          \/ \E s \in FailureKinds \cup {"healthy"} :
                 ReplicaObserved(o, n, s) \/ ScheduledAuditResult(o, n, s)
          \/ SendObjectDelete(o, n)
    \/ \E t \in Transfers : ClaimRepairCleanup(t)
    \/ UNCHANGED dbVars

CopyStored(n, j) ==
    /\ toServer[n] # <<>> /\ Head(toServer[n]) = Msg("store_end_ok", job[j].transfer)
    /\ CopyCurrent(j) /\ StoreVerifying(j)

SourceGivenUp(j) ==
    /\ ctx[j].phase \in {"awaiting_source_ready", "copying"}
    /\ \E s \in FailureKinds : NoteSourceFailure(job[j].object, ctx[j].source, s, ctx[j].transfer)

CopyErased(n, t) ==
    /\ toServer[n] # <<>> /\ Head(toServer[n]) = Msg("repair_abort_reply", t)
    /\ toServer' = [toServer EXCEPT ![n] = Tail(@)]
    /\ MarkRepairCleanupResult(t, TRUE)

ObjectErased(n, o) ==
    /\ toServer[n] # <<>> /\ Head(toServer[n]) = [op |-> "delete_object_reply", o |-> o]
    /\ toServer' = [toServer EXCEPT ![n] = Tail(@)]
    /\ ObjectDeleted(o, n)

Transacts ==
    \/ OtherRows
    \/ \E n \in Nodes, j \in Jobs : CopyStored(n, j)
    \/ \E j \in Jobs : SourceGivenUp(j)
    \/ \E n \in Nodes, t \in Transfers : CopyErased(n, t)
    \/ \E n \in Nodes, o \in Objects : ObjectErased(n, o)

(* _fail_repair_job of a job that has ended changes no row. *)
LEMMA RetryRefines ==
    ASSUME DbTypeOK, NEW j \in Jobs, ScheduleRepairRetry(j)
    PROVE  Transacts
<1>1. CASE job[j].status \in Active BY <1>1 DEF Transacts, OtherRows, AttemptRows
<1>2. CASE job[j].status \notin Active
  <2>1. job[j].status \in Terminal BY <1>2, RowFacts DEF ScheduleRepairRetry
  <2>2. [job EXCEPT ![j] = job[j]] = job BY DEF DbTypeOK
  <2>3. UNCHANGED dbVars BY <2>1, <2>2 DEF ScheduleRepairRetry, RetryOf, dbVars
  <2> QED BY <2>3 DEF Transacts, OtherRows
<1> QED BY <1>1, <1>2

(* The copy of a live context whose job runs has not been given up. *)
LEMMA LiveCopyCurrent ==
    ASSUME RepairInv, NEW j \in Jobs, Idle, ctx[j].phase # "none", job[j].status \in Running
    PROVE  CopyCurrent(j) /\ Live(ctx[j]) /\ job[j].transfer = ctx[j].transfer
<1>1. Live(ctx[j]) BY DEF Idle, Live
<1> QED BY <1>1 DEF RepairInv, CtxInv, CtxSound, CtxEmpty, CtxRuns, CopyCurrent

(* A source fails under a copy that is not stored yet. *)
LEMMA SourceFailureRefines ==
    ASSUME RepairInv, NEW j \in Jobs, NEW s \in FailureKinds,
           ctx[j].phase # "none", ctx[j].phase # "verifying", ctx[j].source # None,
           NoteSourceFailure(job[j].object, ctx[j].source, s, ctx[j].transfer)
    PROVE  DbNext
<1> DEFINE t == ctx[j].transfer  n == ctx[j].source
<1>a. CtxSound(j) BY DEF RepairInv, CtxInv
<1>1. t \in Transfers /\ n \in Nodes
  BY <1>a, CtxFacts DEF RepairInv, CtxSound, CtxEmpty
<1>2. t # None BY <1>1, NoneAssumption
<1>3. /\ transfer[t].object = job[j].object /\ transfer[t].node = ctx[j].target
      /\ ctx[j].target # None
      /\ \A k \in Jobs \ {j} : t # job[k].transfer
      /\ job[j].status # "completed"
  BY <1>a, <1>2 DEF CtxSound, CtxRows
<1>4. ~Unused(t) BY <1>3 DEF Unused
<1>5. job[j].status # "verifying"
  BY <1>a DEF CtxSound, CtxRuns, Running
<1>6. health[transfer[t].object][n] # "none" BY <1>a, <1>1, <1>3 DEF CtxSound, CtxRows
<1>7. NoteSourceFailure(transfer[t].object, n, s, t) BY <1>3
<1>8. SourceFailed
  <2>1. \A k \in Jobs : job[k].transfer = t => job[k].status \notin {"verifying", "completed"}
    BY <1>3, <1>5
  <2> QED BY <1>1, <1>4, <1>6, <1>7, <2>1 DEF SourceFailed
<1> QED BY <1>8 DEF DbNext

(* The reply a source sent is one the context waits for. *)
LEMMA SourceReplyInPhase ==
    ASSUME RepairInv, NEW n \in Nodes, NEW j \in Jobs, Idle, toServer[n] # <<>>,
           Head(toServer[n]).op \in Chain,
           ctx[j].phase # "none", ctx[j].transfer = Head(toServer[n]).t
    PROVE  Live(ctx[j]) /\ ctx[j].phase \in Awaited[Head(toServer[n]).op]
<1>1. Live(ctx[j]) BY DEF Idle, Live
<1>2. Head(toServer[n]) = toServer[n][1] /\ 1 \in 1 .. Len(toServer[n])
  BY HeadFrame DEF RepairInv, TypeOK
<1>3. Drives(toServer[n][1], ctx[j].transfer) BY <1>2 DEF Drives
<1> QED BY <1>1, <1>2, <1>3 DEF RepairInv, FrameInv, InPhase

LEMMA ReceiveRefines ==
    ASSUME RepairInv, NEW n \in Nodes, ServerReceives(n)
    PROVE  Transacts
<1> USE DEF RepairInv
<1>k. "suspect" \in FailureKinds /\ "missing" \in FailureKinds BY TransferAssumption
<1>1. CASE StoreObjectReady(n)
  <2> DEFINE t == Head(toServer[n]).t
  <2>1. CASE TargetCtx(n, t) = {} BY <1>1, <2>1 DEF StoreObjectReady, Dropped, Transacts, OtherRows
  <2>2. CASE TargetCtx(n, t) # {}
    <3>1. PICK j \in TargetCtx(n, t) : \E src \in ctx[j].sources \ ctx[j].tried : BeginNextSource(j, src)
      BY <1>1, <2>2 DEF StoreObjectReady
    <3>2. PICK src \in ctx[j].sources \ ctx[j].tried : BeginNextSource(j, src) BY <3>1
    <3>3. j \in Jobs /\ ctx[j].phase # "none" /\ Idle
      BY <1>1 DEF TargetCtx, StoreObjectReady, Receive
    <3>4. CASE job[j].status \in {"selecting_target", "copying"}
      <4>1. CopyCurrent(j) BY <3>3, <3>4, LiveCopyCurrent DEF Running
      <4> QED BY <3>2, <3>3, <3>4, <4>1 DEF BeginNextSource, Transacts, OtherRows, AttemptRows
    <3> QED BY <3>2, <3>4 DEF BeginNextSource, Transacts, OtherRows
  <2> QED BY <2>1, <2>2
<1>2. CASE SourceStream(n) BY <1>2 DEF SourceStream, Dropped, Transacts, OtherRows
<1>3. CASE StreamObjectEnd(n)
  <2> DEFINE t == Head(toServer[n]).t
  <2>1. CASE SourceCtx(n, t) = {} BY <1>3, <2>1 DEF StreamObjectEnd, Dropped, Transacts, OtherRows
  <2>2. CASE SourceCtx(n, t) # {}
    <3>1. PICK j \in SourceCtx(n, t) : \/ UNCHANGED dbVars
                                       \/ RestartFromNextSource(j, "missing")
      BY <1>3, <2>2 DEF StreamObjectEnd
    <3>2. /\ j \in Jobs /\ ctx[j].phase # "none" /\ ctx[j].transfer = t /\ ctx[j].source = n
          /\ Idle /\ toServer[n] # <<>> /\ Head(toServer[n]).op = "stream_object_end"
      BY <1>3 DEF SourceCtx, StreamObjectEnd, Receive
    <3>3. ctx[j].phase \in {"awaiting_source_ready", "copying"}
      BY <3>2, SourceReplyInPhase DEF Chain, Awaited
    <3> QED BY <1>k, <3>1, <3>2, <3>3 DEF RestartFromNextSource, SourceGivenUp, Transacts, OtherRows
  <2> QED BY <2>1, <2>2
<1>4. CASE StreamObjectMissing(n)
  <2> DEFINE t == Head(toServer[n]).t
  <2>1. CASE SourceCtx(n, t) = {} BY <1>4, <2>1 DEF StreamObjectMissing, Dropped, Transacts, OtherRows
  <2>2. CASE SourceCtx(n, t) # {}
    <3>1. PICK j \in SourceCtx(n, t) : RestartFromNextSource(j, "missing")
      BY <1>4, <2>2 DEF StreamObjectMissing
    <3>2. /\ j \in Jobs /\ ctx[j].phase # "none" /\ ctx[j].transfer = t /\ ctx[j].source = n
          /\ Idle /\ toServer[n] # <<>> /\ Head(toServer[n]).op = "stream_missing"
      BY <1>4 DEF SourceCtx, StreamObjectMissing, Receive
    <3>3. ctx[j].phase \in {"awaiting_source_ready", "copying"}
      BY <3>2, SourceReplyInPhase DEF Chain, Awaited
    <3> QED BY <1>k, <3>1, <3>2, <3>3 DEF RestartFromNextSource, SourceGivenUp, Transacts, OtherRows
  <2> QED BY <2>1, <2>2
<1>5. CASE StoreObjectEndOk(n)
  <2> DEFINE t == Head(toServer[n]).t
  <2>1. CASE TargetCtx(n, t) = {} BY <1>5, <2>1 DEF StoreObjectEndOk, Dropped, Transacts, OtherRows
  <2>2. CASE TargetCtx(n, t) # {}
    <3>1. PICK j \in TargetCtx(n, t) : StoreVerifying(j) \/ Fail(j)
      BY <1>5, <2>2 DEF StoreObjectEndOk
    <3>2. j \in Jobs /\ ctx[j].phase # "none" /\ Idle
      BY <1>5 DEF TargetCtx, StoreObjectEndOk, Receive
    <3>3. CASE StoreVerifying(j)
      <4>1. CopyCurrent(j) /\ job[j].transfer = ctx[j].transfer
        BY <3>2, <3>3, LiveCopyCurrent DEF StoreVerifying, Running
      <4>2. /\ toServer[n] # <<>> /\ Head(toServer[n]) \in ToServer
            /\ Head(toServer[n]).op = "store_end_ok" /\ ctx[j].transfer = t
        BY <1>5, HeadFrame DEF StoreObjectEndOk, Receive, TargetCtx, TypeOK
      <4>3. Head(toServer[n]) = Msg("store_end_ok", t) BY <4>2 DEF ToServer, Msg
      <4> QED BY <3>2, <3>3, <4>1, <4>2, <4>3 DEF CopyStored, Transacts
    <3>4. CASE Fail(j) BY <3>2, <3>4, RetryRefines DEF Fail, TypeOK
    <3> QED BY <3>1, <3>3, <3>4
  <2> QED BY <2>1, <2>2
<1>6. CASE StoreObjectEndError(n)
  <2> DEFINE t == Head(toServer[n]).t
  <2>1. CASE TargetCtx(n, t) = {} BY <1>6, <2>1 DEF StoreObjectEndError, Dropped, Transacts, OtherRows
  <2>2. CASE TargetCtx(n, t) # {}
    <3>1. PICK j \in TargetCtx(n, t) : Fail(j) BY <1>6, <2>2 DEF StoreObjectEndError
    <3>2. j \in Jobs BY DEF TargetCtx
    <3> QED BY <3>1, <3>2, RetryRefines DEF Fail, TypeOK
  <2> QED BY <2>1, <2>2
<1>7. ASSUME NEW op \in {"audit_ok", "audit_missing"}, AuditReply(n, op)
      PROVE  Transacts
  <2> DEFINE m == Head(toServer[n])  j == m.j
  <2>1. m \in ToServer /\ m.op = op
    BY <1>7, HeadFrame DEF AuditReply, Receive, TypeOK
  <2>2. j \in Jobs BY <1>7, <2>1 DEF ToServer
  <2>3. \/ UNCHANGED dbVars
        \/ AuditPassed(j)
        \/ AuditFailed(j, "missing")
    BY <1>7 DEF AuditReply, AuditApplied
  <2> QED BY <1>k, <2>2, <2>3 DEF Transacts, OtherRows, AttemptRows
<1>8. CASE RepairAbortReply(n)
  <2> DEFINE t == Head(toServer[n]).t
  <2>1. t \in Transfers
    <3>1. Head(toServer[n]) \in ToServer /\ Head(toServer[n]).op = "repair_abort_reply"
      BY <1>8, HeadFrame DEF RepairAbortReply, Receive, TypeOK
    <3> QED BY <3>1 DEF ToServer
  <2>2. Head(toServer[n]) = Msg("repair_abort_reply", t)
    <3>1. Head(toServer[n]) \in ToServer /\ Head(toServer[n]).op = "repair_abort_reply"
      BY <1>8, HeadFrame DEF RepairAbortReply, Receive, TypeOK
    <3> QED BY <3>1 DEF ToServer, Msg
  <2>3. CopyErased(n, t) \/ UNCHANGED dbVars
    BY <1>8, <2>2 DEF RepairAbortReply, Receive, Dropped, CopyErased
  <2> QED BY <2>1, <2>3 DEF Transacts, OtherRows
<1>9. CASE DeleteObjectReply(n)
  <2> DEFINE o == Head(toServer[n]).o
  <2>1. o \in Objects
    <3>1. Head(toServer[n]) \in ToServer /\ Head(toServer[n]).op = "delete_object_reply"
      BY <1>9, HeadFrame DEF DeleteObjectReply, Receive, TypeOK
    <3> QED BY <3>1 DEF ToServer
  <2>2. Head(toServer[n]) = [op |-> "delete_object_reply", o |-> o]
    <3>1. Head(toServer[n]) \in ToServer /\ Head(toServer[n]).op = "delete_object_reply"
      BY <1>9, HeadFrame DEF DeleteObjectReply, Receive, TypeOK
    <3> QED BY <3>1 DEF ToServer
  <2>3. ObjectErased(n, o) \/ UNCHANGED dbVars
    BY <1>9, <2>2 DEF DeleteObjectReply, Receive, Dropped, ObjectErased
  <2> QED BY <2>1, <2>3 DEF Transacts, OtherRows
<1> QED BY <1>1, <1>2, <1>3, <1>4, <1>5, <1>6, <1>7, <1>8, <1>9 DEF ServerReceives

LEMMA PollRefines ==
    ASSUME RepairInv, NEW j \in Jobs, ServerPolls(j)
    PROVE  Transacts
<1> USE DEF RepairInv
<1>k. "suspect" \in FailureKinds /\ "missing" \in FailureKinds BY TransferAssumption
<1>1. CASE EndContext(j) BY <1>1 DEF EndContext, Transacts, OtherRows
<1>2. CASE RecoverStale(j)
  BY <1>2, RetryRefines DEF RecoverStale, RecoverStaleRepairJob, TypeOK
<1>3. CASE StartRepairTarget(j)
  <2>1. CASE ~TargetStartable(j, ctx[j].target) BY <1>3, <2>1 DEF StartRepairTarget, Transacts, OtherRows
  <2>2. CASE TargetStartable(j, ctx[j].target)
    <3>1. PICK t \in Transfers : MarkRepairTargetStarted(j, t)
      BY <1>3, <2>2 DEF StartRepairTarget
    <3>2. ctx[j].phase = "starting" BY <1>3 DEF StartRepairTarget
    <3>3. job[j].status \in Running BY <2>2 DEF TargetStartable, Running
    <3>4. CtxSound(j) BY DEF CtxInv
    <3>5. ~CopyCurrent(j) BY <3>2, <3>3, <3>4 DEF CtxSound, CtxRuns, CopyCurrent
    <3> QED BY <3>1, <3>5 DEF Transacts, OtherRows, AttemptRows
  <2> QED BY <2>1, <2>2
<1>4. CASE FailLater(j) BY <1>4, RetryRefines DEF FailLater, Fail, TypeOK
<1>5. CASE RepairTimeout(j)
  <2>1. CASE Fail(j) BY <2>1, RetryRefines DEF Fail, TypeOK
  <2>2. CASE /\ ctx[j].phase \in {"awaiting_source_ready", "copying"}
             /\ RestartFromNextSource(j, "suspect")
    BY <1>k, <2>2 DEF RestartFromNextSource, SourceGivenUp, Transacts, OtherRows
  <2> QED BY <1>5, <2>1, <2>2 DEF RepairTimeout
<1>6. CASE SendAudit(j) BY <1>6 DEF SendAudit, Transacts, OtherRows, AttemptRows
<1>7. CASE AuditTimeout(j)
  BY <1>7, <1>k DEF AuditTimeout, AuditApplied, Transacts, OtherRows, AttemptRows
<1>8. CASE RecoverAudit(j) BY <1>8 DEF RecoverAudit, Transacts, OtherRows, AttemptRows
<1> QED BY <1>1, <1>2, <1>3, <1>4, <1>5, <1>6, <1>7, <1>8 DEF ServerPolls

(* Claims, deletions and cleanups. *)
LEMMA ServerRefines == RepairInv /\ Server => Transacts
<1> SUFFICES ASSUME RepairInv, Server PROVE Transacts
  OBVIOUS
<1>1. ASSUME NEW j \in Jobs, NEW S \in SUBSET Nodes, NEW n \in Nodes, ClaimStart(j, S, n)
      PROVE  Transacts
  BY <1>1 DEF ClaimStart, Transacts, OtherRows, AttemptRows
<1>2. ASSUME NEW j \in Jobs, ClaimSkip(j) PROVE Transacts
  BY <1>2 DEF ClaimSkip, Transacts, OtherRows, AttemptRows
<1>3. ASSUME NEW o \in Objects, NEW n \in Nodes, SendGcDelete(o, n) PROVE Transacts
  BY <1>3 DEF SendGcDelete, Transacts, OtherRows
<1>4. ASSUME NEW t \in Transfers, SendRepairCleanup(t) PROVE Transacts
  BY <1>4 DEF SendRepairCleanup, Transacts, OtherRows
<1> QED BY <1>1, <1>2, <1>3, <1>4, ReceiveRefines, PollRefines DEF Server

(* Everything outside the DataServer is a transaction of its own or touches *)
(* no row.                                                                  *)
LEMMA StepTransacts == RepairInv /\ [Next]_vars => Transacts
<1> SUFFICES ASSUME RepairInv, [Next]_vars PROVE Transacts
  OBVIOUS
<1> USE DEF Transacts, OtherRows
<1>1. CASE Server BY <1>1, ServerRefines
<1>2. ASSUME NEW n \in Nodes, NodeStep(n) PROVE UNCHANGED dbVars
  BY <1>2 DEF NodeStep, NodeReceive, NodeStoreObjectBegin, NodeStore, NodeStoreObjectEnd,
              NodeRepairAbort, NodeDeleteObject, NodeStreamObjectBegin, NodeAuditSlice
<1>3. CASE ScanEnqueues BY <1>3 DEF ScanEnqueues, Operators
<1>4. CASE Faults
  BY <1>4 DEF Faults, ServerRestart, TransactionFails, LoseConnection, LoseBytes
<1>5. CASE OtherProcesses BY <1>5 DEF OtherProcesses, Operators
<1>6. CASE ObserveReplica BY <1>6 DEF ObserveReplica
<1>7. CASE UNCHANGED vars BY <1>7 DEF vars
<1> QED BY <1>1, <1>2, <1>3, <1>4, <1>5, <1>6, <1>7 DEF Next

LEMMA StepRefines == RepairInv /\ [Next]_vars => [DbNext]_dbVars
<1> SUFFICES ASSUME RepairInv, [Next]_vars PROVE [DbNext]_dbVars
  OBVIOUS
<1>1. CASE OtherRows
  <2>1. ASSUME NEW j \in Jobs, AttemptRows(j) PROVE DbNext
    BY <2>1 DEF AttemptRows, DbNext, Worker
  <2> QED BY <1>1, <2>1 DEF OtherRows, DbNext, Observers, Cleanups
<1>5. ASSUME NEW n \in Nodes, NEW j \in Jobs, CopyStored(n, j) PROVE DbNext
  BY <1>5 DEF CopyStored, DbNext, Worker
<1>2. ASSUME NEW j \in Jobs, SourceGivenUp(j) PROVE DbNext
  <2>1. ctx[j].source # None BY <1>2 DEF SourceGivenUp, RepairInv, CtxInv, CtxSound, CtxEmpty
  <2> QED BY <1>2, <2>1, SourceFailureRefines DEF SourceGivenUp
<1>3. ASSUME NEW n \in Nodes, NEW t \in Transfers, CopyErased(n, t) PROVE DbNext
  BY <1>3 DEF CopyErased, DbNext, Cleanups
<1>4. ASSUME NEW n \in Nodes, NEW o \in Objects, ObjectErased(n, o) PROVE DbNext
  BY <1>4 DEF ObjectErased, DbNext, Observers
<1> QED BY <1>1, <1>2, <1>3, <1>4, <1>5, StepTransacts DEF Transacts
-----------------------------------------------------------------------------
(* What a transaction for job j does to the rows a context relies on. *)
TransfersKept(j) ==
    \A t \in Transfers : ~Unused(t) =>
        /\ transfer'[t].object = transfer[t].object /\ transfer'[t].node = transfer[t].node
        /\ transfer[t].cleanup # "none" => transfer'[t].cleanup # "none"
        /\ transfer[t].cleanup = "none" /\ transfer'[t].cleanup # "none"
              => t = job[j].transfer \/ t = ctx[j].transfer

HealthKept ==
    \A o \in Objects, n \in Nodes : health[o][n] # "none" => health'[o][n] # "none"

JobKeeps(j) ==
    /\ \A k \in Jobs \ {j} : job'[k] = job[k]
    /\ job[j].status # "absent" => job'[j].object = job[j].object /\ job'[j].status # "absent"
    /\ \/ job'[j].transfer \in {None, job[j].transfer}
       \/ job'[j].transfer \in Transfers /\ Unused(job'[j].transfer)
    /\ job'[j].status \in {"queued", "retry_wait"} => job'[j].transfer = None

Effect(j) == TransfersKept(j) /\ HealthKept /\ JobKeeps(j)

(* Two helpers of the transactions. *)
LEMMA QueuedKeeps ==
    ASSUME DbTypeOK, NEW j \in Jobs, NEW t \in Transfers \cup {None},
           t = job[j].transfer \/ t = ctx[j].transfer, transfer' = CleanupQueued(t)
    PROVE  TransfersKept(j)
BY DEF DbTypeOK, CleanupQueued, TransfersKept

LEMMA HealthSet ==
    ASSUME DbTypeOK, NEW o, NEW n, NEW s, s # "none"
    PROVE  \A p \in Objects, m \in Nodes :
              health[p][m] # "none" => SetHealth(o, n, s)[p][m] # "none"
BY DEF DbTypeOK, SetHealth

LEMMA HealthDropped ==
    ASSUME DbTypeOK, NEW jb, NEW S, NEW h \in [Objects -> [Nodes -> S]],
           \A p \in Objects, m \in Nodes : health[p][m] # "none" => h[p][m] # "none"
    PROVE  \A p \in Objects, m \in Nodes :
              health[p][m] # "none" => TargetDropped(jb, h)[p][m] # "none"
BY DEF TargetDropped

(* schedule_repair_retry *)
LEMMA RetryEffect ==
    ASSUME DbTypeOK, NEW j \in Jobs, NEW jb \in JobRow, NEW au,
           NEW S, NEW h \in [Objects -> [Nodes -> S]],
           \A p \in Objects, m \in Nodes : health[p][m] # "none" => h[p][m] # "none",
           RetryOf(j, jb, au, h), jb.transfer = job[j].transfer, jb.object = job[j].object,
           jb.status # "absent"
    PROVE  Effect(j)
<1>1. CASE jb.status \in Terminal
  <2>1. job' = [job EXCEPT ![j] = jb] /\ UNCHANGED transfer /\ health' = h
    BY <1>1 DEF RetryOf
  <2>2. jb.status \notin {"queued", "retry_wait", "absent"} BY <1>1 DEF Terminal
  <2> QED BY <2>1, <2>2 DEF Effect, TransfersKept, HealthKept, JobKeeps, DbTypeOK
<1>2. CASE jb.status \notin Terminal
  <2> DEFINE row == [jb EXCEPT !.status = IF jb.attempts >= MaxAttempts
                                          THEN "failed" ELSE "retry_wait",
                               !.target = None, !.transfer = None, !.reserved = FALSE]
  <2>1. /\ job' = [job EXCEPT ![j] = row] /\ transfer' = CleanupQueued(job[j].transfer)
        /\ health' = TargetDropped(jb, h)
    BY <1>2 DEF RetryOf
  <2>2. row.transfer = None /\ row.object = jb.object /\ row.status # "absent"
    BY DEF JobRow
  <2> HIDE DEF row
  <2>3. JobKeeps(j) BY <2>1, <2>2 DEF JobKeeps, DbTypeOK
  <2>4. HealthKept BY <2>1, HealthDropped DEF HealthKept
  <2> QED BY <2>1, <2>3, <2>4, QueuedKeeps, RowFacts DEF Effect
<1> QED BY <1>1, <1>2

LEMMA ClaimEffect ==
    ASSUME RowInv, WaitingHasNone, NEW j \in Jobs,
           \/ \E S \in SUBSET Nodes, n \in Nodes : ClaimWithTarget(j, S, n)
           \/ ClaimBlocked(j) \/ ClaimWithoutTarget(j)
    PROVE  Effect(j)
<1>0. DbTypeOK /\ Claimed(j) \in JobRow BY JobColumns, RowFacts DEF RowInv, Claimed
<1>1. /\ Claimed(j).transfer = job[j].transfer /\ Claimed(j).object = job[j].object
      /\ Claimed(j).status = job[j].status
  BY <1>0, RowFacts DEF Claimed, JobRow
<1>2. job[j].transfer = None /\ Claimed(j).status \notin Terminal \cup {"absent"}
  BY <1>1 DEF ClaimWithTarget, ClaimBlocked, ClaimWithoutTarget, Claimable, WaitingHasNone, Terminal
<1>3. ASSUME NEW S \in SUBSET Nodes, NEW n \in Nodes, ClaimWithTarget(j, S, n)
      PROVE  Effect(j)
  <2> DEFINE row == [Claimed(j) EXCEPT !.status = "selecting_target", !.target = n,
                                       !.reserved = TRUE]
  <2>1. /\ job' = [job EXCEPT ![j] = row] /\ UNCHANGED transfer
        /\ health' = SetHealth(job[j].object, n, "repairing")
    BY <1>3 DEF ClaimWithTarget
  <2>2. row.transfer = None /\ row.object = job[j].object /\ row.status = "selecting_target"
    BY <1>0, <1>1, <1>2 DEF JobRow
  <2> HIDE DEF row
  <2>3. JobKeeps(j) BY <1>0, <2>1, <2>2 DEF JobKeeps, DbTypeOK
  <2>4. HealthKept BY <1>0, <2>1, HealthSet DEF HealthKept
  <2> QED BY <2>1, <2>3, <2>4 DEF Effect, TransfersKept
<1>4. CASE ClaimBlocked(j)
  <2> DEFINE row == [Claimed(j) EXCEPT !.status = "canceled"]
  <2>1. job' = [job EXCEPT ![j] = row] /\ UNCHANGED <<transfer, health>>
    BY <1>4 DEF ClaimBlocked
  <2>2. row.transfer = None /\ row.object = job[j].object /\ row.status = "canceled"
    BY <1>0, <1>1, <1>2 DEF JobRow
  <2> HIDE DEF row
  <2> QED BY <1>0, <2>1, <2>2 DEF Effect, JobKeeps, HealthKept, TransfersKept, DbTypeOK
<1>5. CASE ClaimWithoutTarget(j)
  BY <1>0, <1>1, <1>2, <1>5, RetryEffect DEF ClaimWithoutTarget, DbTypeOK
<1> QED BY <1>3, <1>4, <1>5

LEMMA CopyEffect ==
    ASSUME RowInv, WaitingHasNone, NEW j \in Jobs,
           \/ \E t \in Transfers : MarkRepairTargetStarted(j, t)
           \/ MarkRepairCopying(j) \/ StoreVerifying(j)
           \/ \E n \in Nodes, s \in FailureKinds :
                 NoteSourceFailure(job[j].object, n, s, ctx[j].transfer)
                 /\ ctx[j].transfer \in Transfers \cup {None}
    PROVE  Effect(j)
<1>0. DbTypeOK /\ job[j] \in JobRow BY RowFacts DEF RowInv
<1>1. ASSUME NEW t \in Transfers, MarkRepairTargetStarted(j, t) PROVE Effect(j)
  <2>1. /\ job' = [job EXCEPT ![j] = [job[j] EXCEPT !.transfer = t]] /\ UNCHANGED health
        /\ \A u \in Transfers \ {t} : transfer'[u] = transfer[u]
    BY <1>0, <1>1 DEF MarkRepairTargetStarted, DbTypeOK
  <2>2. Unused(t) /\ job[j].status \notin {"queued", "retry_wait", "absent"}
    BY <1>1 DEF MarkRepairTargetStarted, TargetStartable
  <2>3. job'[j] = [job[j] EXCEPT !.transfer = t] BY <1>0, <2>1 DEF DbTypeOK
  <2>4. job'[j].transfer = t /\ job'[j].object = job[j].object /\ job'[j].status = job[j].status
    BY <1>0, <2>3 DEF JobRow
  <2>5. JobKeeps(j) BY <1>0, <2>1, <2>2, <2>4 DEF JobKeeps, DbTypeOK
  <2> QED BY <2>1, <2>2, <2>5 DEF Effect, TransfersKept, HealthKept
<1>2. ASSUME NEW s \in {"copying", "verifying"}, job' = [job EXCEPT ![j].status = s],
             UNCHANGED <<transfer, health>>, job[j].status # "absent"
      PROVE  Effect(j)
  <2>1. job'[j] = [job[j] EXCEPT !.status = s] BY <1>0, <1>2 DEF DbTypeOK
  <2>2. /\ job'[j].transfer = job[j].transfer /\ job'[j].object = job[j].object
        /\ job'[j].status = s
    BY <1>0, <2>1 DEF JobRow
  <2>3. \A k \in Jobs \ {j} : job'[k] = job[k] BY <1>0, <1>2 DEF DbTypeOK
  <2> QED BY <1>2, <2>2, <2>3 DEF Effect, JobKeeps, TransfersKept, HealthKept
<1>3. CASE MarkRepairCopying(j) BY <1>2, <1>3 DEF MarkRepairCopying
<1>4. CASE StoreVerifying(j) BY <1>2, <1>4 DEF StoreVerifying
<1>5. ASSUME NEW n \in Nodes, NEW s \in FailureKinds,
             NoteSourceFailure(job[j].object, n, s, ctx[j].transfer),
             ctx[j].transfer \in Transfers \cup {None}
      PROVE  Effect(j)
  <2>1. s # "none" BY KindAssumption
  <2>2. HealthKept BY <1>0, <1>5, <2>1, HealthSet DEF NoteSourceFailure, HealthKept
  <2>3. TransfersKept(j) BY <1>0, <1>5, QueuedKeeps DEF NoteSourceFailure
  <2> QED BY <1>5, <2>2, <2>3 DEF NoteSourceFailure, Effect, JobKeeps, WaitingHasNone
<1> QED BY <1>1, <1>3, <1>4, <1>5

(* The rows of the context stay when a job is only audited, canceled or     *)
(* queued again.                                                            *)
LEMMA PassedEffect ==
    ASSUME RowInv, WaitingHasNone, NEW j \in Jobs, AuditPassed(j)
    PROVE  Effect(j)
<1> DEFINE o == job[j].object  h == SetHealth(o, job[j].target, "healthy")
<1>0. DbTypeOK /\ job[j] \in JobRow BY RowFacts DEF RowInv
<1>1. job[j].status = "verifying"
  BY DEF AuditPassed, RowInv, AuditOnlyWhileVerifying, AuditOpen
<1>2. /\ h \in HealthMap
      /\ \A p \in Objects, m \in Nodes : health[p][m] # "none" => h[p][m] # "none"
  <2>1. "healthy" \in HealthStatus BY DEF HealthStatus
  <2>2. h \in HealthMap BY <1>0, <2>1, HelperTypes DEF SetHealth, DbTypeOK, HealthMap
  <2> QED BY <1>0, <2>2, HealthSet
<1> HIDE DEF h
<1>3. CASE DiscardTarget(j, h)
  <2>1. job' = [job EXCEPT ![j] = [job[j] EXCEPT !.status = "canceled", !.reserved = FALSE]]
    BY <1>3 DEF DiscardTarget
  <2>2. job'[j] = [job[j] EXCEPT !.status = "canceled", !.reserved = FALSE]
    BY <1>0, <2>1 DEF DbTypeOK
  <2>3. /\ job'[j].transfer = job[j].transfer /\ job'[j].object = job[j].object
        /\ job'[j].status = "canceled"
    BY <1>0, <2>2 DEF JobRow
  <2>4. JobKeeps(j) BY <1>0, <2>1, <2>3 DEF JobKeeps, DbTypeOK
  <2>5. HealthKept
    <3>1. health' = TargetDropped(job[j], h) BY <1>3 DEF DiscardTarget
    <3>2. h \in [Objects -> [Nodes -> HealthStatus]] BY <1>2 DEF HealthMap
    <3>3. \A p \in Objects, m \in Nodes :
            health[p][m] # "none" => TargetDropped(job[j], h)[p][m] # "none"
      BY <1>0, <1>2, <3>2, HealthDropped
    <3> QED BY <3>1, <3>3 DEF HealthKept
  <2>6. TransfersKept(j)
    <3>1. CASE UNCHANGED transfer BY <3>1 DEF TransfersKept
    <3>2. CASE transfer' = CleanupQueued(job[j].transfer)
      BY <1>0, <3>2, QueuedKeeps, RowFacts
    <3> QED BY <1>3, <3>1, <3>2 DEF DiscardTarget
  <2> QED BY <2>4, <2>5, <2>6 DEF Effect
<1>4. ASSUME NEW retired \in RetiredSets(o, job[j].target, h), Publish(j, h, retired)
      PROVE  Effect(j)
  <2>1. job' = [job EXCEPT ![j].status = "completed"] /\ UNCHANGED transfer
    BY <1>4 DEF Publish
  <2>2. job'[j] = [job[j] EXCEPT !.status = "completed"] BY <1>0, <2>1 DEF DbTypeOK
  <2>3. /\ job'[j].transfer = job[j].transfer /\ job'[j].object = job[j].object
        /\ job'[j].status = "completed"
    BY <1>0, <2>2 DEF JobRow
  <2>4. JobKeeps(j) BY <1>0, <2>1, <2>3 DEF JobKeeps, DbTypeOK
  <2>5. HealthKept
    <3>1. health' = [h EXCEPT ![o] = [m \in Nodes |-> IF m \in retired THEN "deleted" ELSE h[o][m]]]
      BY <1>4 DEF Publish
    <3>2. \A p \in Objects, m \in Nodes : health'[p][m] \in {"deleted", h[p][m]}
      BY <1>2, <3>1 DEF HealthMap
    <3> QED BY <1>2, <3>2 DEF HealthKept
  <2> QED BY <2>1, <2>4, <2>5 DEF Effect, TransfersKept
<1> QED BY <1>3, <1>4 DEF AuditPassed, h

LEMMA AuditEffect ==
    ASSUME RowInv, WaitingHasNone, NEW j \in Jobs,
           \/ ClaimAudit(j) \/ AuditPassed(j) \/ RecoverStaleAudit(j)
           \/ \E s \in FailureKinds : AuditFailed(j, s)
    PROVE  Effect(j)
<1>0. DbTypeOK /\ job[j] \in JobRow BY RowFacts DEF RowInv
<1>1. CASE ClaimAudit(j)
  BY <1>1 DEF ClaimAudit, Effect, TransfersKept, HealthKept, JobKeeps, WaitingHasNone
<1>2. CASE RecoverStaleAudit(j)
  BY <1>0, <1>2, HealthSet
  DEF RecoverStaleAudit, Effect, TransfersKept, HealthKept, JobKeeps, WaitingHasNone
<1>3. ASSUME NEW s \in FailureKinds, AuditFailed(j, s) PROVE Effect(j)
  <2> DEFINE h == SetHealth(job[j].object, job[j].target, s)
  <2>1. s \in HealthStatus /\ s # "none" BY KindAssumption DEF HealthStatus, Bad
  <2>2. h \in HealthMap BY <1>0, <2>1, HelperTypes DEF SetHealth, DbTypeOK, HealthMap
  <2>3. \A p \in Objects, m \in Nodes : health[p][m] # "none" => h[p][m] # "none"
    BY <1>0, <2>1, HealthSet
  <2> HIDE DEF h
  <2>4. job[j].status # "absent"
    BY <1>3 DEF AuditFailed, RowInv, AuditOnlyWhileVerifying, AuditOpen
  <2>5. CASE UNCHANGED <<job, transfer>> /\ health' = h
    BY <2>3, <2>5 DEF Effect, TransfersKept, HealthKept, JobKeeps, WaitingHasNone
  <2>6. CASE RetryOf(j, job[j], [audit EXCEPT ![j].status = "failed"], h)
    <3>1. h \in [Objects -> [Nodes -> HealthStatus]] BY <2>2 DEF HealthMap
    <3> QED BY <1>0, <2>3, <2>4, <2>6, <3>1, RetryEffect
  <2> QED BY <1>3, <2>5, <2>6 DEF AuditFailed, h
<1> QED BY <1>1, <1>2, <1>3, PassedEffect

LEMMA EndEffect ==
    ASSUME RowInv, WaitingHasNone, NEW j \in Jobs,
           \/ ScheduleRepairRetry(j) \/ CancelRepairJob(j)
           \/ \E r \in BOOLEAN : RequeueRepairJob(j, r)
    PROVE  Effect(j)
<1>0. DbTypeOK /\ job[j] \in JobRow /\ health \in [Objects -> [Nodes -> HealthStatus]]
  BY RowFacts DEF RowInv, DbTypeOK
<1>1. CASE ScheduleRepairRetry(j) BY <1>0, <1>1, RetryEffect DEF ScheduleRepairRetry
<1>2. CASE CancelRepairJob(j)
  <2>1. job' = [job EXCEPT ![j] = [job[j] EXCEPT !.status = "canceled", !.reserved = FALSE]]
    BY <1>2 DEF CancelRepairJob
  <2>2. job'[j] = [job[j] EXCEPT !.status = "canceled", !.reserved = FALSE]
    BY <1>0, <2>1 DEF DbTypeOK
  <2>3. /\ job'[j].transfer = job[j].transfer /\ job'[j].object = job[j].object
        /\ job'[j].status = "canceled"
    BY <1>0, <2>2 DEF JobRow
  <2>4. JobKeeps(j) BY <1>0, <2>1, <2>3 DEF JobKeeps, DbTypeOK
  <2>5. HealthKept BY <1>0, <1>2, HealthDropped DEF CancelRepairJob, HealthKept
  <2>6. TransfersKept(j) BY <1>0, <1>2, QueuedKeeps, RowFacts DEF CancelRepairJob
  <2> QED BY <2>4, <2>5, <2>6 DEF Effect
<1>3. ASSUME NEW r \in BOOLEAN, RequeueRepairJob(j, r) PROVE Effect(j)
  <2> DEFINE row == [NoJob EXCEPT !.status = "queued", !.object = job[j].object,
                                  !.attempts = IF r THEN 0 ELSE job[j].attempts]
  <2>1. job' = [job EXCEPT ![j] = row] /\ UNCHANGED <<transfer, health>>
    BY <1>3 DEF RequeueRepairJob
  <2>2. row.transfer = None /\ row.object = job[j].object /\ row.status = "queued"
    BY DEF NoJob
  <2> HIDE DEF row
  <2> QED BY <1>0, <2>1, <2>2 DEF Effect, TransfersKept, HealthKept, JobKeeps, DbTypeOK
<1> QED BY <1>1, <1>2, <1>3

(* The other writers: they touch no job but to insert one. *)
LEMMA InsertEffect ==
    ASSUME RowInv, WaitingHasNone, NEW j \in Jobs, NEW o \in Objects,
           job[j].status = "absent", job' = Inserted(j, o), UNCHANGED transfer, HealthKept
    PROVE  Effect(j)
<1>0. DbTypeOK BY DEF RowInv
<1>1. job'[j].transfer = None BY <1>0 DEF Inserted, NoJob, DbTypeOK
<1>2. \A k \in Jobs \ {j} : job'[k] = job[k] BY <1>0 DEF Inserted, DbTypeOK
<1> QED BY <1>1, <1>2 DEF Effect, JobKeeps, TransfersKept

LEMMA QueueEffect ==
    ASSUME RowInv, WaitingHasNone,
           \/ \E o \in Objects : GcUnreferencedObject(o)
           \/ \E o \in Objects, n \in Nodes : SendObjectDelete(o, n) \/ ObjectDeleted(o, n)
           \/ \E o \in Objects, n \in Nodes, s \in FailureKinds \cup {"healthy"} :
                 ReplicaObserved(o, n, s)
           \/ \E t \in Transfers : \/ ClaimRepairCleanup(t)
                                   \/ \E ok \in BOOLEAN : MarkRepairCleanupResult(t, ok)
    PROVE  /\ UNCHANGED job /\ \A j \in Jobs : Effect(j)
           /\ \A t \in Transfers :
                 transfer'[t].cleanup = "none" <=> transfer[t].cleanup = "none"
<1>0. DbTypeOK /\ \A s \in FailureKinds \cup {"healthy"} : s # "none"
  BY KindAssumption DEF RowInv
<1>1. CASE \E o \in Objects : GcUnreferencedObject(o)
  BY <1>1 DEF GcUnreferencedObject, Effect, TransfersKept, HealthKept, JobKeeps, WaitingHasNone
<1>2. CASE \E o \in Objects, n \in Nodes : SendObjectDelete(o, n) \/ ObjectDeleted(o, n)
  BY <1>2 DEF SendObjectDelete, ObjectDeleted, Effect, TransfersKept, HealthKept, JobKeeps,
              WaitingHasNone
<1>3. CASE \E o \in Objects, n \in Nodes, s \in FailureKinds \cup {"healthy"} :
             ReplicaObserved(o, n, s)
  BY <1>0, <1>3, HealthSet DEF ReplicaObserved, Effect, TransfersKept, HealthKept, JobKeeps,
              WaitingHasNone
<1>4. ASSUME NEW t \in Transfers,
             ClaimRepairCleanup(t) \/ \E ok \in BOOLEAN : MarkRepairCleanupResult(t, ok)
      PROVE  /\ UNCHANGED job /\ \A j \in Jobs : Effect(j)
             /\ \A u \in Transfers :
                   transfer'[u].cleanup = "none" <=> transfer[u].cleanup = "none"
  <2>1. /\ UNCHANGED <<job, health>> /\ transfer[t].cleanup # "none"
        /\ \E c \in {"sent", "done", "pending"} : transfer' = [transfer EXCEPT ![t].cleanup = c]
    BY <1>4 DEF ClaimRepairCleanup, MarkRepairCleanupResult, QueueOpen
  <2>2. PICK c \in {"sent", "done", "pending"} : transfer' = [transfer EXCEPT ![t].cleanup = c]
    BY <2>1
  <2>3. /\ \A u \in Transfers : transfer'[u].object = transfer[u].object
                                 /\ transfer'[u].node = transfer[u].node
        /\ \A u \in Transfers \ {t} : transfer'[u] = transfer[u]
        /\ transfer'[t].cleanup = c
    BY <1>0, <2>2 DEF DbTypeOK, TransferRow
  <2>4. \A j \in Jobs : TransfersKept(j) BY <2>1, <2>3 DEF TransfersKept
  <2> QED BY <2>1, <2>4 DEF Effect, HealthKept, JobKeeps, WaitingHasNone
<1> QED BY <1>1, <1>2, <1>3, <1>4

-----------------------------------------------------------------------------
(* A step for job j leaves the contexts of the other jobs sound. *)
LEMMA OtherCtx ==
    ASSUME RepairInv, NEW j \in Jobs, NEW k \in Jobs \ {j}, Effect(j),
           \A i \in Jobs \ {j} : ctx'[i] = ctx[i],
           \/ ctx'[j].transfer \in {None, ctx[j].transfer}
           \/ ctx'[j].transfer \in Transfers /\ Unused(ctx'[j].transfer)
    PROVE  CtxSound(k)'
<1> DEFINE c == ctx[k]  t == c.transfer
<1>a. CtxEmpty(k) /\ CtxRows(k) /\ CtxRuns(k) BY DEF RepairInv, CtxInv, CtxSound
<1>b. ctx'[k] = ctx[k] /\ job'[k] = job[k] BY DEF Effect, JobKeeps
<1>c. t \in Transfers \cup {None} BY CtxFacts DEF RepairInv
<1>1. CtxEmpty(k)' BY <1>a, <1>b DEF CtxEmpty, Live
<1>2. ASSUME t # None
      PROVE  /\ t \in Transfers /\ ~Unused(t) /\ c.phase # "none"
             /\ t # job[j].transfer /\ t # ctx[j].transfer
             /\ transfer'[t].object = transfer[t].object
             /\ transfer'[t].node = transfer[t].node
             /\ transfer'[t].cleanup = "none" <=> transfer[t].cleanup = "none"
  <2>1. c.phase # "none" BY <1>a, <1>2 DEF CtxEmpty
  <2>2. /\ t # job[j].transfer /\ t # ctx[j].transfer /\ transfer[t].node # None
        /\ t \in Transfers
    BY <1>a, <1>c, <1>2, <2>1 DEF CtxRows
  <2>3. ~Unused(t) BY <2>2 DEF Unused
  <2> QED BY <2>1, <2>2, <2>3 DEF Effect, TransfersKept
<1>3. CtxRows(k)'
  <2>1. ASSUME c.phase # "none"
        PROVE  /\ job[k].status \notin {"absent", "completed"} /\ c.target # None
               /\ \A n \in Nodes : n \in c.sources \/ n = c.source
                                     => health'[job[k].object][n] # "none"
    <3>1. job[k].status # "absent" BY <1>a, <2>1 DEF CtxRows
    <3>2. job[k].object \in Objects BY <3>1 DEF RepairInv, LiveInv, RowInv, HasObject
    <3> QED BY <1>a, <2>1, <3>2 DEF CtxRows, Effect, HealthKept
  <2>2. ASSUME t # None
        PROVE  /\ transfer'[t].object = job[k].object /\ transfer'[t].node = c.target
               /\ \A i \in Jobs \ {k} : t # job'[i].transfer /\ t # ctx'[i].transfer
    <3>1. ASSUME NEW i \in Jobs \ {k} PROVE t # job'[i].transfer /\ t # ctx'[i].transfer
      <4>1. t # job[i].transfer /\ t # ctx[i].transfer BY <1>a, <2>2 DEF CtxRows
      <4>2. CASE i # j BY <4>1, <4>2 DEF Effect, JobKeeps
      <4>3. CASE i = j BY <1>2, <2>2, <4>1, <4>3 DEF Effect, JobKeeps
      <4> QED BY <4>2, <4>3
    <3>2. transfer[t].object = job[k].object /\ transfer[t].node = c.target
      BY <1>a, <2>2 DEF CtxRows
    <3> QED BY <1>2, <2>2, <3>1, <3>2
  <2> QED BY <1>b, <2>1, <2>2 DEF CtxRows
<1>4. CtxRuns(k)'
  <2>1. Live(c) => t # None BY <1>a DEF CtxEmpty
  <2> QED BY <1>a, <1>b, <1>2, <2>1 DEF CtxRuns, Live
<1> QED BY <1>1, <1>3, <1>4 DEF CtxSound

(* The context of j itself, when the step leaves the contexts alone. *)
LEMMA SelfCtx ==
    ASSUME RepairInv, NEW j \in Jobs, Effect(j), \A i \in Jobs : ctx'[i] = ctx[i],
           ctx[j].phase # "none" =>
              /\ job'[j].status # "completed"
              /\ job'[j].transfer \in {None, job[j].transfer}
              /\ job'[j].status \in Running =>
                    /\ job'[j] = job[j]
                    /\ ctx[j].transfer \in Transfers =>
                         (transfer'[ctx[j].transfer].cleanup = "none"
                            <=> transfer[ctx[j].transfer].cleanup = "none")
    PROVE  CtxSound(j)'
<1> DEFINE c == ctx[j]  t == c.transfer
<1>a. CtxEmpty(j) /\ CtxRows(j) /\ CtxRuns(j) BY DEF RepairInv, CtxInv, CtxSound
<1>c. t \in Transfers \cup {None} BY CtxFacts DEF RepairInv
<1>1. CtxEmpty(j)' BY <1>a DEF CtxEmpty, Live
<1>2. ASSUME c.phase # "none"
      PROVE  job[j].status # "absent" /\ job'[j].object = job[j].object
             /\ job'[j].status # "absent" /\ job[j].object \in Objects
  <2>1. job[j].status # "absent" BY <1>a, <1>2 DEF CtxRows
  <2> QED BY <2>1 DEF Effect, JobKeeps, RepairInv, LiveInv, RowInv, HasObject
<1>3. ASSUME t # None
      PROVE  /\ t \in Transfers /\ c.phase # "none"
             /\ transfer'[t].object = transfer[t].object
             /\ transfer'[t].node = transfer[t].node
  <2>1. c.phase # "none" BY <1>a, <1>3 DEF CtxEmpty
  <2>2. t \in Transfers /\ ~Unused(t) BY <1>a, <1>c, <1>3, <2>1 DEF CtxRows, Unused
  <2> QED BY <2>1, <2>2 DEF Effect, TransfersKept
<1>4. CtxRows(j)'
  <2>1. ASSUME c.phase # "none"
        PROVE  /\ job'[j].status \notin {"absent", "completed"} /\ c.target # None
               /\ \A n \in Nodes : n \in c.sources \/ n = c.source
                                     => health'[job'[j].object][n] # "none"
    BY <1>a, <1>2, <2>1 DEF CtxRows, Effect, HealthKept
  <2>2. ASSUME t # None
        PROVE  /\ transfer'[t].object = job'[j].object /\ transfer'[t].node = c.target
               /\ \A i \in Jobs \ {j} : t # job'[i].transfer /\ t # ctx'[i].transfer
    BY <1>a, <1>2, <1>3, <2>2 DEF CtxRows, Effect, JobKeeps
  <2> QED BY <2>1, <2>2 DEF CtxRows
<1>5. CtxRuns(j)'
  <2>1. Live(c) => t # None BY <1>a DEF CtxEmpty
  <2> QED BY <1>a, <1>3, <2>1 DEF CtxRuns, Live
<1> QED BY <1>1, <1>4, <1>5 DEF CtxSound

LEMMA CtxStays ==
    ASSUME RepairInv, NEW j \in Jobs, Effect(j), UNCHANGED ctx,
           ctx[j].phase # "none" =>
              /\ job'[j].status # "completed"
              /\ job'[j].transfer \in {None, job[j].transfer}
              /\ job'[j].status \in Running =>
                    /\ job'[j] = job[j]
                    /\ ctx[j].transfer \in Transfers =>
                         (transfer'[ctx[j].transfer].cleanup = "none"
                            <=> transfer[ctx[j].transfer].cleanup = "none")
    PROVE  CtxInv'
<1>1. CtxSound(j)' BY SelfCtx
<1>2. \A k \in Jobs \ {j} : CtxSound(k)' BY OtherCtx
<1> QED BY <1>1, <1>2 DEF CtxInv

LEMMA CtxDiscarded ==
    ASSUME RepairInv, NEW j \in Jobs, Effect(j), ctx' = Discarded(j)
    PROVE  CtxInv'
<1>1. ctx'[j] = NoCtx /\ \A i \in Jobs \ {j} : ctx'[i] = ctx[i]
  BY DEF Discarded, RepairInv, TypeOK
<1>2. CtxSound(j)'
  BY <1>1 DEF CtxSound, CtxEmpty, CtxRows, CtxRuns, NoCtx, Live
<1>3. \A k \in Jobs \ {j} : CtxSound(k)' BY <1>1, OtherCtx DEF NoCtx
<1> QED BY <1>2, <1>3 DEF CtxInv

LEMMA CtxMoves ==
    ASSUME RepairInv, NEW j \in Jobs, Effect(j), NEW c, ctx' = [ctx EXCEPT ![j] = c],
           \/ c.transfer \in {None, ctx[j].transfer}
           \/ c.transfer \in Transfers /\ Unused(c.transfer),
           CtxSound(j)'
    PROVE  CtxInv'
<1>1. ctx'[j] = c /\ \A i \in Jobs \ {j} : ctx'[i] = ctx[i]
  BY DEF RepairInv, TypeOK
<1>2. \A k \in Jobs \ {j} : CtxSound(k)' BY <1>1, OtherCtx
<1> QED BY <1>2 DEF CtxInv

(* Nothing changes for the contexts. *)
LEMMA NoEffect ==
    ASSUME RepairInv, UNCHANGED dbVars, NEW j \in Jobs
    PROVE  Effect(j)
BY DEF dbVars, Effect, TransfersKept, HealthKept, JobKeeps, RepairInv, WaitingHasNone

LEMMA QueueCtx ==
    ASSUME RepairInv, UNCHANGED <<job, ctx>>, \A j \in Jobs : Effect(j),
           \A t \in Transfers : transfer'[t].cleanup = "none" <=> transfer[t].cleanup = "none"
    PROVE  CtxInv'
<1> SUFFICES ASSUME NEW j \in Jobs PROVE CtxSound(j)'
  BY DEF CtxInv
<1>1. ctx[j].phase # "none" => job[j].status # "completed"
  BY DEF RepairInv, CtxInv, CtxSound, CtxRows
<1> QED BY <1>1, SelfCtx

(* The answer to the audit leaves the job verifying only if nothing changed. *)
LEMMA VerdictOrNothing ==
    ASSUME RowInv, NEW j \in Jobs,
           AuditPassed(j) \/ \E s \in FailureKinds : AuditFailed(j, s),
           job'[j].status = "verifying"
    PROVE  UNCHANGED <<job, transfer>>
<1>0. DbTypeOK /\ job[j] \in JobRow /\ job[j].status = "verifying"
  BY RowFacts DEF AuditPassed, AuditFailed, RowInv, AuditOnlyWhileVerifying, AuditOpen
<1>1. ASSUME NEW h, DiscardTarget(j, h) PROVE FALSE
  <2>1. job'[j] = [job[j] EXCEPT !.status = "canceled", !.reserved = FALSE]
    BY <1>0, <1>1 DEF DiscardTarget, DbTypeOK
  <2> QED BY <1>0, <2>1 DEF JobRow
<1>2. ASSUME NEW h, NEW R, Publish(j, h, R) PROVE FALSE
  <2>1. job'[j] = [job[j] EXCEPT !.status = "completed"]
    BY <1>0, <1>2 DEF Publish, DbTypeOK
  <2> QED BY <1>0, <2>1 DEF JobRow
<1>3. ASSUME NEW au, NEW h, RetryOf(j, job[j], au, h) PROVE FALSE
  <2> DEFINE s == IF job[j].attempts >= MaxAttempts THEN "failed" ELSE "retry_wait"
  <2>1. job[j].status \notin Terminal BY <1>0 DEF Terminal
  <2>2. job'[j] = [job[j] EXCEPT !.status = s, !.target = None, !.transfer = None,
                                 !.reserved = FALSE]
    BY <1>0, <1>3, <2>1 DEF RetryOf, DbTypeOK
  <2>3. s # "verifying" OBVIOUS
  <2> HIDE DEF s
  <2>4. job'[j].status = s BY <1>0, <2>2 DEF JobRow
  <2> QED BY <2>3, <2>4
<1>4. CASE AuditPassed(j) BY <1>1, <1>2, <1>4 DEF AuditPassed
<1>5. ASSUME NEW s \in FailureKinds, AuditFailed(j, s) PROVE UNCHANGED <<job, transfer>>
  BY <1>3, <1>5 DEF AuditFailed
<1> QED BY <1>4, <1>5

LEMMA AuditCtx ==
    ASSUME RepairInv, NEW j \in Jobs, NEW decided,
           decided => AuditPassed(j) \/ \E s \in FailureKinds : AuditFailed(j, s),
           AuditApplied(j, decided)
    PROVE  CtxInv'
<1>1. AuditPassed(j) \/ \E s \in FailureKinds : AuditFailed(j, s) BY DEF AuditApplied
<1>2. Effect(j) BY <1>1, AuditEffect DEF RepairInv, LiveInv
<1>3. CASE job'[j].status = "verifying"
  <2>1. UNCHANGED <<job, transfer, ctx>>
    BY <1>1, <1>3, VerdictOrNothing DEF AuditApplied, RepairInv, LiveInv
  <2> QED BY <1>2, <1>3, <2>1, CtxStays
<1>4. CASE job'[j].status # "verifying"
  BY <1>2, <1>4, CtxDiscarded DEF AuditApplied
<1> QED BY <1>3, <1>4

LEMMA FailCtx ==
    ASSUME RepairInv, NEW j \in Jobs, Fail(j)
    PROVE  CtxInv'
<1>1. Effect(j) BY EndEffect DEF Fail, RepairInv, LiveInv
<1> QED BY <1>1, CtxDiscarded DEF Fail

(* The next source: the copy was given up in the same transaction. *)
LEMMA RestartCtx ==
    ASSUME RepairInv, NEW j \in Jobs, NEW s \in FailureKinds,
           ctx[j].phase \in {"awaiting_source_ready", "copying"}, RestartFromNextSource(j, s)
    PROVE  CtxInv'
<1> DEFINE d == ctx[j]  t == d.transfer
           p == IF d.tried = d.sources THEN "failing" ELSE "starting"
           c == [phase |-> p, target |-> d.target, transfer |-> t, source |-> None,
                 sources |-> d.sources, tried |-> d.tried]
<1>a. CtxEmpty(j) /\ CtxRows(j) /\ CtxRuns(j) BY DEF RepairInv, CtxInv, CtxSound
<1>b. d \in CtxRow /\ t \in Transfers \cup {None} /\ d.source \in Nodes \cup {None}
  BY CtxFacts DEF RepairInv
<1>1. t \in Transfers /\ t # None /\ d.source \in Nodes
  BY <1>a, <1>b, NoneAssumption DEF CtxEmpty, Live
<1>2. NoteSourceFailure(job[j].object, d.source, s, t) BY DEF RestartFromNextSource
<1>3. Effect(j)
  <2>1. \E n \in Nodes, z \in FailureKinds :
           NoteSourceFailure(job[j].object, n, z, ctx[j].transfer)
           /\ ctx[j].transfer \in Transfers \cup {None}
    BY <1>1, <1>2
  <2> QED BY <2>1, CopyEffect DEF RepairInv, LiveInv
<1>4. ctx' = [ctx EXCEPT ![j] = c]
  <2>1. c = [d EXCEPT !.source = None, !.phase = p] BY <1>b, CtxSourcePhase
  <2>2. ctx' = [ctx EXCEPT ![j].source = None, ![j].phase = p]
    BY DEF RestartFromNextSource, NextSource
  <2> HIDE DEF c, p
  <2> QED BY <2>1, <2>2 DEF RepairInv, TypeOK
<1>5. ctx'[j] = c BY <1>4 DEF RepairInv, TypeOK
<1>6. UNCHANGED job /\ transfer' = CleanupQueued(t) BY <1>2 DEF NoteSourceFailure
<1>7. /\ c.phase = p /\ c.target = d.target /\ c.transfer = t /\ c.source = None
      /\ c.sources = d.sources /\ p \in {"failing", "starting"}
  OBVIOUS
<1> HIDE DEF c, p
<1>8. CtxEmpty(j)' BY <1>5, <1>7 DEF CtxEmpty, Live
<1>9. CtxRows(j)'
  <2>1. transfer[t].object = job[j].object /\ transfer[t].node = d.target /\ d.target # None
        /\ job[j].status \notin {"absent", "completed"}
        /\ \A k \in Jobs \ {j} : t # job[k].transfer /\ t # ctx[k].transfer
    BY <1>a, <1>1 DEF CtxRows
  <2>2. ~Unused(t) BY <2>1 DEF Unused
  <2>3. transfer'[t].object = job[j].object /\ transfer'[t].node = d.target
    BY <1>1, <1>3, <2>1, <2>2 DEF Effect, TransfersKept
  <2>4. \A k \in Jobs \ {j} : ctx'[k] = ctx[k] BY <1>4 DEF RepairInv, TypeOK
  <2>5. job[j].object \in Objects BY <2>1 DEF RepairInv, LiveInv, RowInv, HasObject
  <2>6. \A n \in Nodes : n \in d.sources => health'[job[j].object][n] # "none"
    BY <1>3, <1>a, <2>5 DEF CtxRows, Effect, HealthKept
  <2>7. \A n \in Nodes : n # None BY NoneAssumption
  <2> QED BY <1>5, <1>6, <1>7, <2>1, <2>3, <2>4, <2>6, <2>7 DEF CtxRows
<1>10. CtxRuns(j)'
  <2>1. transfer'[t].cleanup # "none"
    BY <1>1, <1>6, CleanupQueuedFacts DEF RepairInv, TypeOK
  <2> QED BY <1>a, <1>5, <1>6, <1>7, <2>1 DEF CtxRuns, Live
<1>11. CtxSound(j)' BY <1>8, <1>9, <1>10 DEF CtxSound
<1> QED BY <1>3, <1>4, <1>7, <1>11, CtxMoves

(* A handler's context moves on; its rows stay or the job is copying. *)
LEMMA PhaseCtx ==
    ASSUME RepairInv, NEW j \in Jobs, Effect(j), UNCHANGED transfer, NEW c \in CtxRow,
           ctx' = [ctx EXCEPT ![j] = c], Live(c), ctx[j].transfer # None,
           c.target = ctx[j].target, c.transfer = ctx[j].transfer,
           c.source \in {None} \cup ctx[j].sources \cup {ctx[j].source},
           c.sources = ctx[j].sources,
           c.phase \in {"awaiting_source_ready", "copying"} => c.source # None,
           job'[j].target = job[j].target, job'[j].transfer = job[j].transfer,
           job'[j].status # "completed",
           job'[j].status \in Running =>
              /\ job[j].status \in Running /\ Live(ctx[j])
              /\ job'[j].status = "verifying" <=> c.phase = "verifying"
    PROVE  CtxInv'
<1> DEFINE d == ctx[j]  t == d.transfer
<1>a. CtxEmpty(j) /\ CtxRows(j) /\ CtxRuns(j) BY DEF RepairInv, CtxInv, CtxSound
<1>b. d \in CtxRow /\ t \in Transfers /\ d.phase # "none"
  BY <1>a, CtxFacts DEF RepairInv, CtxEmpty
<1>5. ctx'[j] = c /\ \A k \in Jobs \ {j} : ctx'[k] = ctx[k] BY DEF RepairInv, TypeOK
<1>8. CtxEmpty(j)' BY <1>5 DEF CtxEmpty, Live
<1>9. CtxRows(j)'
  <2>1. /\ transfer[t].object = job[j].object /\ transfer[t].node = d.target
        /\ d.target # None /\ job[j].status \notin {"absent", "completed"}
        /\ \A k \in Jobs \ {j} : t # job[k].transfer /\ t # ctx[k].transfer
    BY <1>a, <1>b DEF CtxRows
  <2>2. job'[j].object = job[j].object /\ job'[j].status # "absent"
        /\ job[j].object \in Objects
    BY <2>1 DEF Effect, JobKeeps, RepairInv, LiveInv, RowInv, HasObject
  <2>3. \A n \in Nodes : n \in d.sources \/ n = d.source => health'[job[j].object][n] # "none"
    BY <1>a, <1>b, <2>2 DEF CtxRows, Effect, HealthKept
  <2>4. \A n \in Nodes : n # None BY NoneAssumption
  <2>5. \A k \in Jobs \ {j} : job'[k] = job[k] BY DEF Effect, JobKeeps
  <2> QED BY <1>5, <2>1, <2>2, <2>3, <2>4, <2>5 DEF CtxRows
<1>10. CtxRuns(j)' BY <1>a, <1>b, <1>5 DEF CtxRuns, Live
<1>11. CtxSound(j)' BY <1>8, <1>9, <1>10 DEF CtxSound
<1> QED BY <1>11, CtxMoves

(* The replies of the nodes. *)
LEMMA StoreReadyCtx ==
    ASSUME RepairInv, NEW n \in Nodes, StoreObjectReady(n)
    PROVE  CtxInv'
<1> DEFINE cs == TargetCtx(n, Head(toServer[n]).t)
<1>1. CASE cs = {}
  BY <1>1, NoEffect, QueueCtx DEF StoreObjectReady, Dropped, dbVars, memVars
<1>2. CASE cs # {}
  <2>1. PICK j \in cs : \E src \in ctx[j].sources \ ctx[j].tried : BeginNextSource(j, src)
    BY <1>2 DEF StoreObjectReady
  <2>2. PICK src \in ctx[j].sources \ ctx[j].tried : BeginNextSource(j, src) BY <2>1
  <2>3. j \in Jobs /\ ctx[j].phase # "none" /\ Idle
    BY DEF TargetCtx, StoreObjectReady, Receive
  <2>4. CASE job[j].status \notin {"selecting_target", "copying"}
    BY <2>2, <2>3, <2>4, NoEffect, CtxDiscarded DEF BeginNextSource
  <2>5. CASE job[j].status \in {"selecting_target", "copying"}
    <3> DEFINE d == ctx[j]
               c == [phase |-> "awaiting_source_ready", target |-> d.target,
                     transfer |-> d.transfer, source |-> src, sources |-> d.sources,
                     tried |-> d.tried \cup {src}]
    <3>1. d \in CtxRow /\ src \in Nodes /\ src # None /\ job[j] \in JobRow
      BY <2>3, CtxFacts, RowFacts, NoneAssumption DEF RepairInv, TypeOK
    <3>2. MarkRepairCopying(j) /\ UNCHANGED transfer
      BY <2>2, <2>5 DEF BeginNextSource, MarkRepairCopying
    <3>3. Effect(j) BY <2>3, <3>2, CopyEffect DEF RepairInv, LiveInv
    <3>4. c \in CtxRow BY <3>1 DEF CtxRow, Phases
    <3>5. c = [d EXCEPT !.phase = "awaiting_source_ready", !.source = src,
                        !.tried = d.tried \cup {src}]
      <4> DEFINE S == d.tried \cup {src}
      <4> HIDE DEF d, S
      <4>1. [d EXCEPT !.phase = "awaiting_source_ready", !.source = src, !.tried = S]
              = [phase |-> "awaiting_source_ready", target |-> d.target,
                 transfer |-> d.transfer, source |-> src, sources |-> d.sources,
                 tried |-> S]
        BY <3>1, CtxPhaseSourceTried
      <4> QED BY <4>1 DEF S
    <3>6. ctx' = [ctx EXCEPT ![j].phase = "awaiting_source_ready",
                             ![j].source = src, ![j].tried = d.tried \cup {src}]
      BY <2>2, <2>5 DEF BeginNextSource
    <3>7. /\ c.phase = "awaiting_source_ready" /\ c.target = d.target /\ c.source = src
          /\ c.transfer = d.transfer /\ c.sources = d.sources
      OBVIOUS
    <3> HIDE DEF c
    <3>8. ctx' = [ctx EXCEPT ![j] = c] BY <2>3, <3>5, <3>6 DEF RepairInv, TypeOK
    <3>9. job'[j] = [job[j] EXCEPT !.status = "copying"]
      BY <2>3, <3>2 DEF MarkRepairCopying, RepairInv, TypeOK, DbTypeOK
    <3>10. /\ job'[j].status = "copying" /\ job'[j].target = job[j].target
           /\ job'[j].transfer = job[j].transfer
      BY <3>1, <3>9 DEF JobRow
    <3>11. Live(d) /\ d.transfer # None
      BY <2>3 DEF Idle, Live, RepairInv, CtxInv, CtxSound, CtxEmpty
    <3>12. Live(c) BY <3>7 DEF Live
    <3>13. src \in d.sources BY <2>2
    <3> HIDE DEF d
    <3>14. job[j].status \in Running BY <2>5 DEF Running
    <3> QED BY <2>3, <3>1, <3>2, <3>3, <3>4, <3>7, <3>8, <3>10, <3>11, <3>12, <3>13, <3>14,
               PhaseCtx DEF d
  <2> QED BY <2>4, <2>5
<1> QED BY <1>1, <1>2

LEMMA StreamCtx ==
    ASSUME RepairInv, NEW n \in Nodes, SourceStream(n) \/ StreamObjectEnd(n)
    PROVE  CtxInv'
<1> DEFINE cs == SourceCtx(n, Head(toServer[n]).t)
<1>1. CASE cs = {}
  BY <1>1, NoEffect, QueueCtx DEF SourceStream, StreamObjectEnd, Dropped, dbVars, memVars
<1>2. CASE cs # {}
  <2>1. PICK j \in cs :
           \/ \E p \in {"copying", "awaiting_target_commit"} :
                 /\ UNCHANGED dbVars /\ ctx' = [ctx EXCEPT ![j].phase = p]
                 /\ Head(toServer[n]).op \in {"stream", "stream_object_end"}
           \/ /\ Head(toServer[n]).op = "stream_object_end"
              /\ RestartFromNextSource(j, "missing")
    BY <1>2 DEF SourceStream, StreamObjectEnd, Receive
  <2>2. /\ j \in Jobs /\ ctx[j].phase # "none" /\ Idle /\ toServer[n] # <<>>
        /\ ctx[j].transfer = Head(toServer[n]).t /\ ctx[j].source = n /\ n # None
    BY NoneAssumption DEF SourceCtx, SourceStream, StreamObjectEnd, Receive
  <2>3. /\ Head(toServer[n]).op = "stream" => ctx[j].phase = "awaiting_source_ready"
        /\ Head(toServer[n]).op = "stream_object_end"
              => ctx[j].phase \in {"awaiting_source_ready", "copying"}
    BY <2>2, SourceReplyInPhase DEF Chain, Awaited
  <2>4. CASE RestartFromNextSource(j, "missing") /\ Head(toServer[n]).op = "stream_object_end"
    BY <2>2, <2>3, <2>4, RestartCtx, TransferAssumption
  <2>5. ASSUME NEW p \in {"copying", "awaiting_target_commit"}, UNCHANGED dbVars,
               ctx' = [ctx EXCEPT ![j].phase = p],
               Head(toServer[n]).op \in {"stream", "stream_object_end"}
        PROVE  CtxInv'
    <3> DEFINE d == ctx[j]
               c == [phase |-> p, target |-> d.target, transfer |-> d.transfer,
                     source |-> d.source, sources |-> d.sources, tried |-> d.tried]
    <3>1. d \in CtxRow BY <2>2, CtxFacts DEF RepairInv
    <3>2. Effect(j) /\ UNCHANGED <<transfer, job>> BY <2>2, <2>5, NoEffect DEF dbVars
    <3>4. c \in CtxRow BY <3>1 DEF CtxRow, Phases
    <3>5. c = [d EXCEPT !.phase = p] BY <3>1 DEF CtxRow
    <3>7. /\ c.phase = p /\ c.target = d.target /\ c.source = d.source
          /\ c.transfer = d.transfer /\ c.sources = d.sources
      OBVIOUS
    <3> HIDE DEF c
    <3>8. ctx' = [ctx EXCEPT ![j] = c] BY <2>2, <2>5, <3>5 DEF RepairInv, TypeOK
    <3>9. /\ CtxEmpty(j) /\ CtxRows(j) /\ CtxRuns(j)
      BY <2>2 DEF RepairInv, CtxInv, CtxSound
    <3>10. /\ Live(d) /\ d.transfer # None /\ job[j].status \notin {"completed", "verifying"}
      BY <2>2, <2>3, <2>5, <3>9 DEF CtxEmpty, CtxRows, CtxRuns, Live, Running
    <3>12. Live(c) /\ c.source # None /\ c.phase # "verifying" BY <2>2, <3>7 DEF Live
    <3> HIDE DEF d
    <3> QED BY <2>2, <3>2, <3>4, <3>7, <3>8, <3>10, <3>12, PhaseCtx DEF d
  <2> QED BY <2>1, <2>4, <2>5
<1> QED BY <1>1, <1>2

LEMMA StoreEndCtx ==
    ASSUME RepairInv, NEW n \in Nodes, StoreObjectEndOk(n) \/ StoreObjectEndError(n)
    PROVE  CtxInv'
<1> DEFINE cs == TargetCtx(n, Head(toServer[n]).t)
<1>1. CASE cs = {}
  BY <1>1, NoEffect, QueueCtx DEF StoreObjectEndOk, StoreObjectEndError, Dropped, dbVars, memVars
<1>2. CASE cs # {}
  <2>1. PICK j \in cs : \/ StoreVerifying(j) /\ ctx' = [ctx EXCEPT ![j].phase = "verifying"]
                        \/ Fail(j)
    BY <1>2 DEF StoreObjectEndOk, StoreObjectEndError
  <2>2. j \in Jobs /\ ctx[j].phase # "none" /\ Idle
    BY DEF TargetCtx, StoreObjectEndOk, StoreObjectEndError, Receive
  <2>3. CASE Fail(j) BY <2>2, <2>3, FailCtx
  <2>4. CASE StoreVerifying(j) /\ ctx' = [ctx EXCEPT ![j].phase = "verifying"]
    <3> DEFINE d == ctx[j]
               c == [phase |-> "verifying", target |-> d.target, transfer |-> d.transfer,
                     source |-> d.source, sources |-> d.sources, tried |-> d.tried]
    <3>1. d \in CtxRow /\ job[j] \in JobRow BY <2>2, CtxFacts, RowFacts DEF RepairInv, TypeOK
    <3>2. Effect(j) /\ UNCHANGED transfer
      BY <2>2, <2>4, CopyEffect DEF StoreVerifying, RepairInv, LiveInv
    <3>4. c \in CtxRow BY <3>1 DEF CtxRow, Phases
    <3>5. c = [d EXCEPT !.phase = "verifying"] BY <3>1 DEF CtxRow
    <3>7. /\ c.phase = "verifying" /\ c.target = d.target /\ c.source = d.source
          /\ c.transfer = d.transfer /\ c.sources = d.sources
      OBVIOUS
    <3> HIDE DEF c
    <3>8. ctx' = [ctx EXCEPT ![j] = c] BY <2>2, <2>4, <3>5 DEF RepairInv, TypeOK
    <3>9. job'[j] = [job[j] EXCEPT !.status = "verifying"]
      BY <2>2, <2>4 DEF StoreVerifying, RepairInv, TypeOK, DbTypeOK
    <3>10. /\ job'[j].status = "verifying" /\ job'[j].target = job[j].target
           /\ job'[j].transfer = job[j].transfer
      BY <3>1, <3>9 DEF JobRow
    <3>11. Live(d) /\ d.transfer # None /\ job[j].status \in Running
      BY <2>2, <2>4 DEF Idle, Live, RepairInv, CtxInv, CtxSound, CtxEmpty, StoreVerifying, Running
    <3>12. Live(c) BY <3>7 DEF Live
    <3> HIDE DEF d
    <3> QED BY <2>2, <3>2, <3>4, <3>7, <3>8, <3>10, <3>11, <3>12, PhaseCtx DEF d
  <2> QED BY <2>1, <2>3, <2>4
<1> QED BY <1>1, <1>2

(* What the DataServer's loop does to the contexts. *)
LEMMA ClaimCtx ==
    ASSUME RepairInv, NEW j \in Jobs, NEW S \in SUBSET Nodes, NEW n \in Nodes, ClaimStart(j, S, n)
    PROVE  CtxInv'
<1> DEFINE c == [phase |-> "starting", target |-> n, transfer |-> None, source |-> None,
                 sources |-> S, tried |-> {}]
<1>0. DbTypeOK /\ WaitingHasNone /\ Claimed(j) \in JobRow
  BY JobColumns, RowFacts DEF RepairInv, TypeOK, Claimed
<1>1. ClaimWithTarget(j, S, n) /\ ctx[j].phase = "none" BY DEF ClaimStart, SlotFor
<1>2. Effect(j) BY <1>1, ClaimEffect DEF RepairInv, LiveInv
<1>3. ctx' = [ctx EXCEPT ![j] = c] BY ClaimedCtx DEF ClaimStart
<1>4. /\ c.phase = "starting" /\ c.target = n /\ c.transfer = None /\ c.source = None
      /\ c.sources = S
  OBVIOUS
<1> HIDE DEF c
<1>5. ctx'[j] = c BY <1>3 DEF RepairInv, TypeOK
<1>6. /\ job'[j] = [Claimed(j) EXCEPT !.status = "selecting_target", !.target = n,
                                      !.reserved = TRUE]
      /\ health' = SetHealth(job[j].object, n, "repairing")
  BY <1>0, <1>1 DEF ClaimWithTarget, DbTypeOK
<1>7. /\ Claimed(j).transfer = job[j].transfer /\ Claimed(j).object = job[j].object
      /\ Claimed(j).status = job[j].status
  BY <1>0, RowFacts DEF Claimed, JobRow
<1>8. /\ job'[j].status = "selecting_target" /\ job'[j].target = n
      /\ job'[j].transfer = None /\ job'[j].object = job[j].object
  <2>1. job[j].transfer = None
    BY <1>0, <1>1 DEF ClaimWithTarget, Claimable, WaitingHasNone
  <2> QED BY <1>0, <1>6, <1>7, <2>1 DEF JobRow
<1>9. n # None /\ \A m \in Nodes : m # None BY NoneAssumption
<1>10. \A m \in Nodes : m \in S => health'[job[j].object][m] # "none"
  <2>1. job[j].object \in Objects /\ \A m \in S : health[job[j].object][m] = "healthy"
    BY <1>0, <1>1 DEF ClaimWithTarget, Healthy, DbTypeOK
  <2> QED BY <1>2, <2>1 DEF Effect, HealthKept
<1>11. CtxSound(j)'
  <2>1. CtxEmpty(j)' BY <1>4, <1>5 DEF CtxEmpty, Live
  <2>2. CtxRows(j)' BY <1>4, <1>5, <1>8, <1>9, <1>10 DEF CtxRows
  <2>3. CtxRuns(j)' BY <1>4, <1>5, <1>8 DEF CtxRuns, Live
  <2> QED BY <2>1, <2>2, <2>3 DEF CtxSound
<1> QED BY <1>2, <1>3, <1>4, <1>11, CtxMoves

LEMMA StartCtx ==
    ASSUME RepairInv, NEW j \in Jobs, StartRepairTarget(j)
    PROVE  CtxInv'
<1>a. CtxEmpty(j) /\ CtxRows(j) /\ CtxRuns(j) BY DEF RepairInv, CtxInv, CtxSound
<1>1. CASE ~TargetStartable(j, ctx[j].target)
  BY <1>1, NoEffect, CtxDiscarded DEF StartRepairTarget
<1>2. CASE TargetStartable(j, ctx[j].target)
  <2>1. PICK t \in Transfers : /\ MarkRepairTargetStarted(j, t)
                               /\ ctx' = [ctx EXCEPT ![j].phase = "awaiting_target_ready",
                                                     ![j].transfer = t]
    BY <1>2 DEF StartRepairTarget
  <2> DEFINE d == ctx[j]
             c == [phase |-> "awaiting_target_ready", target |-> d.target, transfer |-> t,
                   source |-> d.source, sources |-> d.sources, tried |-> d.tried]
  <2>2. d \in CtxRow /\ d.phase = "starting" /\ d.source = None /\ t # None
    BY <1>a, CtxFacts, NoneAssumption DEF RepairInv, StartRepairTarget, CtxEmpty, Live
  <2>3. ctx' = [ctx EXCEPT ![j] = c]
    <3>1. c = [d EXCEPT !.phase = "awaiting_target_ready", !.transfer = t]
      BY <2>2, CtxPhaseTransfer
    <3> HIDE DEF c
    <3> QED BY <2>1, <3>1 DEF RepairInv, TypeOK
  <2>4. /\ c.phase = "awaiting_target_ready" /\ c.target = d.target /\ c.transfer = t
        /\ c.source = None /\ c.sources = d.sources
    BY <2>2
  <2> HIDE DEF c
  <2>5. ctx'[j] = c /\ \A k \in Jobs \ {j} : ctx'[k] = ctx[k] BY <2>3 DEF RepairInv, TypeOK
  <2>6. Effect(j) BY <2>1, CopyEffect DEF RepairInv, LiveInv
  <2>7. job[j] \in JobRow /\ Unused(t) /\ job[j].target = d.target
        /\ job[j].status \in {"selecting_target", "copying"}
    BY <1>2, <2>1, RowFacts DEF RepairInv, TypeOK, MarkRepairTargetStarted, TargetStartable
  <2>8. job'[j] = [job[j] EXCEPT !.transfer = t]
    BY <2>1 DEF MarkRepairTargetStarted, RepairInv, TypeOK, DbTypeOK
  <2>9. /\ job'[j].transfer = t /\ job'[j].target = job[j].target
        /\ job'[j].status = job[j].status /\ job'[j].object = job[j].object
    BY <2>7, <2>8 DEF JobRow
  <2>10. transfer'[t] = [object |-> job[j].object, node |-> job[j].target, cleanup |-> "none"]
    BY <2>1 DEF MarkRepairTargetStarted, RepairInv, TypeOK, DbTypeOK
  <2>11. CtxEmpty(j)' BY <2>2, <2>4, <2>5 DEF CtxEmpty, Live
  <2>12. CtxRows(j)'
    <3>1. d.target # None /\ job[j].status # "absent" BY <1>a, <2>2 DEF CtxRows
    <3>2. job[j].object \in Objects BY <3>1 DEF RepairInv, LiveInv, RowInv, HasObject
    <3>3. \A n \in Nodes : n \in d.sources => health'[job[j].object][n] # "none"
      BY <1>a, <2>2, <2>6, <3>2 DEF CtxRows, Effect, HealthKept
    <3>4. \A k \in Jobs \ {j} : t # job'[k].transfer /\ t # ctx'[k].transfer
      <4> SUFFICES ASSUME NEW k \in Jobs \ {j} PROVE t # job[k].transfer /\ t # ctx[k].transfer
        BY <2>5, <2>6 DEF Effect, JobKeeps
      <4>1. t # job[k].transfer BY <2>2, <2>7 DEF RepairInv, CopyInv, OwnTransfer
      <4>2. CtxEmpty(k) /\ CtxRows(k) BY DEF RepairInv, CtxInv, CtxSound
      <4>3. t # ctx[k].transfer BY <2>2, <2>7, <4>2 DEF CtxEmpty, CtxRows, Unused
      <4> QED BY <4>1, <4>3
    <3>5. \A n \in Nodes : n # None BY NoneAssumption
    <3>6. transfer'[t].object = job[j].object /\ transfer'[t].node = d.target BY <2>7, <2>10
    <3>7. job[j].status \notin {"absent", "completed"} BY <2>7
    <3> QED BY <2>4, <2>5, <2>9, <3>1, <3>3, <3>4, <3>5, <3>6, <3>7 DEF CtxRows
  <2>13. CtxRuns(j)' BY <2>4, <2>5, <2>7, <2>9, <2>10 DEF CtxRuns, Live
  <2>14. CtxSound(j)' BY <2>11, <2>12, <2>13 DEF CtxSound
  <2> QED BY <2>3, <2>4, <2>6, <2>7, <2>14, CtxMoves
<1> QED BY <1>1, <1>2

LEMMA PollCtx ==
    ASSUME RepairInv, NEW j \in Jobs, ServerPolls(j)
    PROVE  CtxInv'
<1>k. "suspect" \in FailureKinds /\ "missing" \in FailureKinds BY TransferAssumption
<1>r. RowInv /\ WaitingHasNone BY DEF RepairInv, LiveInv
<1>s. ctx[j].phase # "none" => job[j].status # "completed"
  BY DEF RepairInv, CtxInv, CtxSound, CtxRows
<1>1. CASE EndContext(j) BY <1>1, NoEffect, CtxDiscarded DEF EndContext
<1>2. CASE RecoverStale(j)
  <2>1. Effect(j) BY <1>r, <1>2, EndEffect DEF RecoverStale, RecoverStaleRepairJob
  <2> QED BY <1>2, <2>1, CtxStays DEF RecoverStale, memVars
<1>3. CASE StartRepairTarget(j) BY <1>3, StartCtx
<1>4. CASE FailLater(j) BY <1>4, FailCtx DEF FailLater
<1>5. CASE RepairTimeout(j) BY <1>5, <1>k, FailCtx, RestartCtx DEF RepairTimeout
<1>6. CASE SendAudit(j)
  <2>1. Effect(j) BY <1>r, <1>6, AuditEffect DEF SendAudit
  <2> QED BY <1>6, <1>s, <2>1, CtxStays, RowFacts DEF SendAudit, ClaimAudit
<1>7. CASE AuditTimeout(j)
  <2>1. CASE UNCHANGED <<dbVars, ctx>>
    BY <2>1, <1>s, NoEffect, CtxStays DEF dbVars
  <2>2. CASE AuditApplied(j, AuditFailed(j, "suspect")) BY <1>k, <2>2, AuditCtx
  <2> QED BY <1>7, <2>1, <2>2 DEF AuditTimeout
<1>8. CASE RecoverAudit(j)
  <2>1. Effect(j) BY <1>r, <1>8, AuditEffect DEF RecoverAudit
  <2> QED BY <1>8, <1>s, <2>1, CtxStays DEF RecoverAudit, RecoverStaleAudit, memVars
<1> QED BY <1>1, <1>2, <1>3, <1>4, <1>5, <1>6, <1>7, <1>8 DEF ServerPolls

LEMMA ReceiveCtx ==
    ASSUME RepairInv, NEW n \in Nodes, ServerReceives(n)
    PROVE  CtxInv'
<1>k. "missing" \in FailureKinds BY TransferAssumption
<1>r. RowInv /\ WaitingHasNone BY DEF RepairInv, LiveInv
<1>0. CASE UNCHANGED <<dbVars, ctx>> BY <1>0, NoEffect, QueueCtx DEF dbVars
<1>4. CASE StreamObjectMissing(n)
  <2> DEFINE cs == SourceCtx(n, Head(toServer[n]).t)
  <2>1. CASE cs = {} BY <1>0, <1>4, <2>1 DEF StreamObjectMissing, Dropped, memVars
  <2>2. CASE cs # {}
    <3>1. PICK j \in cs : RestartFromNextSource(j, "missing")
      BY <1>4, <2>2 DEF StreamObjectMissing
    <3>2. /\ j \in Jobs /\ ctx[j].phase # "none" /\ ctx[j].transfer = Head(toServer[n]).t
          /\ Idle /\ toServer[n] # <<>> /\ Head(toServer[n]).op = "stream_missing"
      BY <1>4 DEF SourceCtx, StreamObjectMissing, Receive
    <3>3. ctx[j].phase = "awaiting_source_ready"
      BY <3>2, SourceReplyInPhase DEF Chain, Awaited
    <3> QED BY <1>k, <3>1, <3>2, <3>3, RestartCtx
  <2> QED BY <2>1, <2>2
<1>7. ASSUME NEW op \in {"audit_ok", "audit_missing"}, AuditReply(n, op)
      PROVE  CtxInv'
  <2> DEFINE m == Head(toServer[n])  j == m.j
  <2>1. m \in ToServer /\ m.op = op
    BY <1>7, HeadFrame DEF AuditReply, Receive, RepairInv, TypeOK
  <2>2. j \in Jobs BY <1>7, <2>1 DEF ToServer
  <2>3. \/ UNCHANGED <<dbVars, ctx>>
        \/ AuditApplied(j, AuditPassed(j))
        \/ AuditApplied(j, AuditFailed(j, "missing"))
    BY <1>7 DEF AuditReply
  <2> QED BY <1>k, <1>0, <2>2, <2>3, AuditCtx
<1>8. CASE RepairAbortReply(n)
  <2> DEFINE t == Head(toServer[n]).t
  <2>1. t \in Transfers
    <3>1. Head(toServer[n]) \in ToServer /\ Head(toServer[n]).op = "repair_abort_reply"
      BY <1>8, HeadFrame DEF RepairAbortReply, Receive, RepairInv, TypeOK
    <3> QED BY <3>1 DEF ToServer
  <2>2. \/ MarkRepairCleanupResult(t, TRUE) /\ UNCHANGED ctx
        \/ UNCHANGED <<dbVars, ctx>>
    BY <1>8 DEF RepairAbortReply, Dropped, memVars
  <2> QED BY <1>0, <1>r, <2>1, <2>2, QueueEffect, QueueCtx
<1>9. CASE DeleteObjectReply(n)
  <2> DEFINE o == Head(toServer[n]).o
  <2>1. o \in Objects
    <3>1. Head(toServer[n]) \in ToServer /\ Head(toServer[n]).op = "delete_object_reply"
      BY <1>9, HeadFrame DEF DeleteObjectReply, Receive, RepairInv, TypeOK
    <3> QED BY <3>1 DEF ToServer
  <2>2. \/ ObjectDeleted(o, n) /\ UNCHANGED ctx
        \/ UNCHANGED <<dbVars, ctx>>
    BY <1>9 DEF DeleteObjectReply, Dropped, memVars
  <2> QED BY <1>0, <1>r, <2>1, <2>2, QueueEffect, QueueCtx
<1> QED
  BY <1>4, <1>7, <1>8, <1>9, StoreReadyCtx, StreamCtx, StoreEndCtx DEF ServerReceives

(* What comes from outside. *)
LEMMA OutsideCtx ==
    ASSUME RepairInv, "source_failure" \notin DbErrors,
           Faults \/ ScanEnqueues \/ OtherProcesses \/ ObserveReplica
    PROVE  CtxInv'
<1>r. RowInv /\ WaitingHasNone /\ DbTypeOK BY DEF RepairInv, LiveInv, RowInv
<1>0. CASE UNCHANGED <<dbVars, ctx>> BY <1>0, NoEffect, QueueCtx DEF dbVars
<1>1. CASE ServerRestart
  BY <1>1 DEF ServerRestart, CtxInv, CtxSound, CtxEmpty, CtxRows, CtxRuns, NoCtx, Live
<1>2. ASSUME NEW j \in Jobs, TransactionFails(j) PROVE CtxInv'
  <2>1. CASE UNCHANGED ctx BY <1>0, <1>2, <2>1 DEF TransactionFails
  <2>2. CASE ctx[j].phase = "starting" /\ ctx' = [ctx EXCEPT ![j].phase = "failing"]
    <3> DEFINE d == ctx[j]
               c == [phase |-> "failing", target |-> d.target, transfer |-> d.transfer,
                     source |-> d.source, sources |-> d.sources, tried |-> d.tried]
    <3>1. d \in CtxRow BY CtxFacts DEF RepairInv
    <3>2. c = [d EXCEPT !.phase = "failing"] BY <3>1 DEF CtxRow
    <3>3. /\ c.phase = "failing" /\ c.target = d.target /\ c.transfer = d.transfer
          /\ c.source = d.source /\ c.sources = d.sources
      OBVIOUS
    <3> HIDE DEF c
    <3>4. ctx' = [ctx EXCEPT ![j] = c] BY <2>2, <3>2 DEF RepairInv, TypeOK
    <3>5. ctx'[j] = c /\ \A k \in Jobs \ {j} : ctx'[k] = ctx[k] BY <3>4 DEF RepairInv, TypeOK
    <3>6. CtxEmpty(j) /\ CtxRows(j) /\ CtxRuns(j) BY DEF RepairInv, CtxInv, CtxSound
    <3>7. UNCHANGED <<job, transfer, health>> /\ Effect(j)
      BY <1>2, NoEffect DEF TransactionFails, dbVars
    <3>8. CtxSound(j)'
      <4>1. CtxEmpty(j)' BY <2>2, <3>3, <3>5, <3>6 DEF CtxEmpty, Live
      <4>2. CtxRows(j)' BY <2>2, <3>3, <3>5, <3>6, <3>7 DEF CtxRows
      <4>3. CtxRuns(j)' BY <2>2, <3>3, <3>5, <3>6, <3>7 DEF CtxRuns, Live
      <4> QED BY <4>1, <4>2, <4>3 DEF CtxSound
    <3> QED BY <3>3, <3>4, <3>7, <3>8, CtxMoves
  <2> QED BY <1>2, <2>1, <2>2 DEF TransactionFails
<1>3. CASE Faults
  BY <1>0, <1>1, <1>2, <1>3 DEF Faults, LoseConnection, LoseBytes, memVars
<1>4. ASSUME NEW j \in Jobs, NEW o \in Objects, job[j].status = "absent", job' = Inserted(j, o),
             UNCHANGED <<transfer, ctx>>, HealthKept
      PROVE  CtxInv'
  <2>1. Effect(j) BY <1>r, <1>4, InsertEffect
  <2>2. ctx[j].phase = "none" BY <1>4 DEF RepairInv, CtxInv, CtxSound, CtxRows
  <2> QED BY <1>4, <2>1, <2>2, CtxStays
<1>5. CASE ScanEnqueues
  BY <1>4, <1>5 DEF ScanEnqueues, EnqueueRepairJob, memVars, HealthKept
<1>6. ASSUME NEW j \in Jobs, UNCHANGED ctx,
             CancelRepairJob(j) \/ \E r \in BOOLEAN : RequeueRepairJob(j, r)
      PROVE  CtxInv'
  <2>1. Effect(j) BY <1>r, <1>6, EndEffect
  <2>2. job'[j].status \in {"canceled", "queued"}
        /\ job'[j].transfer \in {None, job[j].transfer}
    <3>1. job[j] \in JobRow BY <1>r, RowFacts
    <3>2. CASE CancelRepairJob(j)
      <4>1. job'[j] = [job[j] EXCEPT !.status = "canceled", !.reserved = FALSE]
        BY <1>r, <3>2 DEF CancelRepairJob, DbTypeOK
      <4> QED BY <3>1, <4>1 DEF JobRow
    <3>3. ASSUME NEW r \in BOOLEAN, RequeueRepairJob(j, r)
          PROVE  job'[j].status = "queued" /\ job'[j].transfer = None
      <4>1. job'[j] = [NoJob EXCEPT !.status = "queued", !.object = job[j].object,
                                    !.attempts = IF r THEN 0 ELSE job[j].attempts]
        BY <1>r, <3>3 DEF RequeueRepairJob, DbTypeOK
      <4> QED BY <4>1 DEF NoJob
    <3> QED BY <1>6, <3>2, <3>3
  <2>3. job'[j].status \notin Running /\ job'[j].status # "completed" BY <2>2 DEF Running
  <2> QED BY <1>6, <2>1, <2>2, <2>3, CtxStays
<1>7. CASE OtherProcesses
  <2>1. CASE \E o \in Objects : GcUnreferencedObject(o)
    BY <1>r, <1>7, <2>1, QueueEffect, QueueCtx DEF OtherProcesses, memVars
  <2> QED BY <1>6, <1>7, <2>1 DEF OtherProcesses, memVars
<1>8. CASE ObserveReplica
  <2>1. PICK o \in Objects, n \in Nodes, s \in FailureKinds \cup {"healthy"} :
           ReplicaObserved(o, n, s) \/ ScheduledAuditResult(o, n, s)
    BY <1>8 DEF ObserveReplica
  <2>2. UNCHANGED ctx BY <1>8 DEF ObserveReplica, memVars
  <2>3. CASE ReplicaObserved(o, n, s) BY <1>r, <2>2, <2>3, QueueEffect, QueueCtx
  <2>4. CASE ScheduledAuditResult(o, n, s)
    <3>1. s # "none" BY KindAssumption
    <3>2. HealthKept BY <1>r, <2>4, <3>1, HealthSet DEF ScheduledAuditResult, HealthKept
    <3>3. UNCHANGED transfer BY <2>4 DEF ScheduledAuditResult
    <3>4. CASE UNCHANGED job
      <4>1. \A j \in Jobs : Effect(j)
        BY <1>r, <3>2, <3>3, <3>4 DEF Effect, TransfersKept, JobKeeps, WaitingHasNone
      <4> QED BY <2>2, <3>3, <3>4, <4>1, QueueCtx
    <3>5. CASE \E j \in Jobs : job[j].status = "absent" /\ job' = Inserted(j, o)
      BY <1>4, <2>2, <3>2, <3>3, <3>5
    <3> QED BY <2>4, <3>4, <3>5 DEF ScheduledAuditResult
  <2> QED BY <2>1, <2>3, <2>4
<1> QED BY <1>3, <1>5, <1>7, <1>8

LEMMA CtxStep ==
    ASSUME RepairInv, "source_failure" \notin DbErrors, [Next]_vars
    PROVE  CtxInv'
<1>r. RowInv /\ WaitingHasNone BY DEF RepairInv, LiveInv
<1>0. CASE UNCHANGED <<dbVars, ctx>> BY <1>0, NoEffect, QueueCtx DEF dbVars
<1>1. CASE Server
  <2>1. ASSUME NEW j \in Jobs, ClaimSkip(j) PROVE CtxInv'
    <3>1. Effect(j) BY <1>r, <2>1, ClaimEffect DEF ClaimSkip
    <3> QED BY <2>1, <3>1, CtxStays DEF ClaimSkip, SlotFor, memVars
  <2>2. ASSUME NEW o \in Objects, NEW n \in Nodes, SendGcDelete(o, n) PROVE CtxInv'
    BY <1>r, <2>2, QueueEffect, QueueCtx DEF SendGcDelete, memVars
  <2>3. ASSUME NEW t \in Transfers, SendRepairCleanup(t) PROVE CtxInv'
    BY <1>r, <2>3, QueueEffect, QueueCtx DEF SendRepairCleanup, memVars
  <2> QED BY <1>1, <2>1, <2>2, <2>3, ReceiveCtx, PollCtx, ClaimCtx DEF Server
<1>2. ASSUME NEW n \in Nodes, NodeStep(n) PROVE CtxInv'
  BY <1>0, <1>2
  DEF NodeStep, NodeReceive, memVars, NodeStoreObjectBegin, NodeStore, NodeStoreObjectEnd,
      NodeRepairAbort, NodeDeleteObject, NodeStreamObjectBegin, NodeAuditSlice
<1>3. CASE UNCHANGED vars BY <1>0, <1>3 DEF vars, memVars
<1> QED BY <1>1, <1>2, <1>3, OutsideCtx DEF Next


-----------------------------------------------------------------------------
LEMMA EffectKeeps ==
    ASSUME WaitingHasNone, NEW j \in Jobs, Effect(j)
    PROVE  WaitingHasNone' /\ CopiesKept
BY DEF Effect, JobKeeps, TransfersKept, WaitingHasNone, CopiesKept

LEMMA DbKeeps ==
    ASSUME RowInv, WaitingHasNone, [DbNext]_dbVars
    PROVE  WaitingHasNone' /\ CopiesKept
<1>0. DbTypeOK BY DEF RowInv
<1>1. ASSUME UNCHANGED <<job, transfer>> PROVE WaitingHasNone' /\ CopiesKept
  BY <1>1 DEF WaitingHasNone, CopiesKept
<1>2. ASSUME NEW j \in Jobs, NEW o \in Objects, job[j].status = "absent", job' = Inserted(j, o),
             UNCHANGED transfer
      PROVE  WaitingHasNone' /\ CopiesKept
  BY <1>0, <1>2 DEF Inserted, NoJob, WaitingHasNone, CopiesKept, DbTypeOK
<1>3. CASE Worker
  <2>1. PICK j \in Jobs :
           \/ \E S \in SUBSET Nodes, n \in Nodes : ClaimWithTarget(j, S, n)
           \/ ClaimBlocked(j) \/ ClaimWithoutTarget(j)
           \/ \E t \in Transfers : MarkRepairTargetStarted(j, t)
           \/ MarkRepairCopying(j) \/ StoreVerifying(j) \/ ScheduleRepairRetry(j)
           \/ ClaimAudit(j) \/ AuditPassed(j)
           \/ \E s \in FailureKinds : AuditFailed(j, s)
           \/ RecoverStaleAudit(j)
    BY <1>3 DEF Worker
  <2>2. Effect(j) BY <2>1, ClaimEffect, CopyEffect, EndEffect, AuditEffect
  <2> QED BY <2>2, EffectKeeps
<1>4. CASE SourceFailed
  <2>1. PICK t \in Transfers : transfer' = CleanupQueued(t) /\ UNCHANGED job
    BY <1>4 DEF SourceFailed, NoteSourceFailure
  <2> QED BY <1>0, <2>1 DEF CleanupQueued, WaitingHasNone, CopiesKept, DbTypeOK
<1>5. CASE Observers
  BY <1>1, <1>2, <1>5
  DEF Observers, ReplicaObserved, ScheduledAuditResult, SendObjectDelete, ObjectDeleted
<1>6. CASE Operators
  <2>1. ASSUME NEW j \in Jobs, CancelRepairJob(j) \/ \E r \in BOOLEAN : RequeueRepairJob(j, r)
        PROVE  WaitingHasNone' /\ CopiesKept
    <3>1. Effect(j) BY <2>1, EndEffect
    <3> QED BY <3>1, EffectKeeps
  <2> QED BY <1>1, <1>2, <1>6, <2>1 DEF Operators, EnqueueRepairJob, GcUnreferencedObject
<1>7. CASE Cleanups
  <2>1. PICK t \in Transfers, c \in {"sent", "done", "pending"} :
           transfer' = [transfer EXCEPT ![t].cleanup = c] /\ UNCHANGED job
    BY <1>7 DEF Cleanups, ClaimRepairCleanup, MarkRepairCleanupResult
  <2>2. \A u \in Transfers : /\ transfer'[u].object = transfer[u].object
                             /\ transfer'[u].node = transfer[u].node
                             /\ transfer'[u].cleanup \in {c, transfer[u].cleanup}
    BY <1>0, <2>1 DEF DbTypeOK, TransferRow
  <2> QED BY <2>1, <2>2 DEF WaitingHasNone, CopiesKept
<1>8. CASE UNCHANGED dbVars BY <1>1, <1>8 DEF dbVars
<1> QED BY <1>3, <1>4, <1>5, <1>6, <1>7, <1>8 DEF DbNext

(* Verification only starts on the copy the row names. *)
LEMMA VerifyingKeeps ==
    ASSUME RowInv, VerifyingHasCopy, [DbNext]_dbVars
    PROVE  VerifyingHasCopy'
<1>0. DbTypeOK BY DEF RowInv
<1>1. ASSUME NEW j \in Jobs, NEW row, job' = [job EXCEPT ![j] = row],
             row.status = "verifying" => row.transfer # None
      PROVE  VerifyingHasCopy'
  BY <1>0, <1>1 DEF VerifyingHasCopy, DbTypeOK
<1>2. ASSUME UNCHANGED job PROVE VerifyingHasCopy' BY <1>2 DEF VerifyingHasCopy
<1>3. ASSUME NEW j \in Jobs, NEW jb \in JobRow, NEW au, NEW h, RetryOf(j, jb, au, h),
             jb.status # "verifying" \/ jb = job[j]
      PROVE  VerifyingHasCopy'
  <2>1. CASE jb.status \in Terminal BY <1>1, <1>3, <2>1 DEF RetryOf, Terminal
  <2>2. CASE jb.status \notin Terminal
    <3> DEFINE row == [jb EXCEPT !.status = IF jb.attempts >= MaxAttempts
                                            THEN "failed" ELSE "retry_wait",
                                 !.target = None, !.transfer = None, !.reserved = FALSE]
    <3>1. job' = [job EXCEPT ![j] = row] BY <1>3, <2>2 DEF RetryOf
    <3>2. row.status # "verifying" BY DEF JobRow
    <3> HIDE DEF row
    <3> QED BY <1>1, <3>1, <3>2
  <2> QED BY <2>1, <2>2
<1>4. ASSUME NEW j \in Jobs, NEW s, job' = [job EXCEPT ![j].status = s],
             s # "verifying" \/ job[j].transfer # None
      PROVE  VerifyingHasCopy'
  <2> DEFINE row == [job[j] EXCEPT !.status = s]
  <2>1. job' = [job EXCEPT ![j] = row] BY <1>4
  <2>2. row.status = s /\ row.transfer = job[j].transfer BY <1>0, RowFacts DEF JobRow
  <2> HIDE DEF row
  <2> QED BY <1>1, <1>4, <2>1, <2>2
<1>5. ASSUME NEW j \in Jobs, job' = [job EXCEPT ![j] = [job[j] EXCEPT !.status = "canceled", !.reserved = FALSE]]
      PROVE  VerifyingHasCopy'
  <2> DEFINE row == [job[j] EXCEPT !.status = "canceled", !.reserved = FALSE]
  <2>1. row.status = "canceled" BY <1>0, RowFacts DEF JobRow
  <2> HIDE DEF row
  <2> QED BY <1>1, <1>5, <2>1 DEF row
<1>c. ASSUME NEW j \in Jobs, Claimable(j)
      PROVE  Claimed(j) \in JobRow /\ Claimed(j).status # "verifying"
  <2>1. Claimed(j) \in JobRow BY <1>0, JobColumns, RowFacts DEF Claimed
  <2>2. Claimed(j).status = job[j].status BY <1>0, RowFacts DEF Claimed, JobRow
  <2> QED BY <1>c, <2>1, <2>2 DEF Claimable
<1>6. ASSUME NEW j \in Jobs, NEW S \in SUBSET Nodes, NEW n \in Nodes, ClaimWithTarget(j, S, n)
      PROVE  VerifyingHasCopy'
  <2> DEFINE row == [Claimed(j) EXCEPT !.status = "selecting_target", !.target = n,
                                       !.reserved = TRUE]
  <2>1. job' = [job EXCEPT ![j] = row] BY <1>6 DEF ClaimWithTarget
  <2>2. row.status = "selecting_target" BY <1>c, <1>6 DEF ClaimWithTarget, JobRow
  <2> HIDE DEF row
  <2> QED BY <1>1, <2>1, <2>2
<1>7. ASSUME NEW j \in Jobs, ClaimBlocked(j) PROVE VerifyingHasCopy'
  <2> DEFINE row == [Claimed(j) EXCEPT !.status = "canceled"]
  <2>1. job' = [job EXCEPT ![j] = row] BY <1>7 DEF ClaimBlocked
  <2>2. row.status = "canceled" BY <1>c, <1>7 DEF ClaimBlocked, JobRow
  <2> HIDE DEF row
  <2> QED BY <1>1, <2>1, <2>2
<1>8. ASSUME NEW j \in Jobs, ClaimWithoutTarget(j) PROVE VerifyingHasCopy'
  BY <1>c, <1>3, <1>8 DEF ClaimWithoutTarget
<1>9. ASSUME NEW j \in Jobs, NEW t \in Transfers, MarkRepairTargetStarted(j, t)
      PROVE  VerifyingHasCopy'
  <2> DEFINE row == [job[j] EXCEPT !.transfer = t]
  <2>1. job' = [job EXCEPT ![j] = row] BY <1>9 DEF MarkRepairTargetStarted
  <2>2. row.transfer # None BY <1>0, NoneAssumption, RowFacts DEF JobRow
  <2> HIDE DEF row
  <2> QED BY <1>1, <2>1, <2>2
<1>10. ASSUME NEW j \in Jobs, AuditPassed(j) \/ \E s \in FailureKinds : AuditFailed(j, s)
       PROVE  VerifyingHasCopy'
  BY <1>0, <1>2, <1>3, <1>4, <1>5, <1>10, RowFacts
  DEF AuditPassed, AuditFailed, DiscardTarget, Publish
<1>11. ASSUME NEW j \in Jobs, NEW o \in Objects, job' = Inserted(j, o) PROVE VerifyingHasCopy'
  <2>1. [NoJob EXCEPT !.status = "queued", !.object = o].status = "queued" BY DEF NoJob
  <2> QED BY <1>1, <1>11, <2>1 DEF Inserted
<1>12. ASSUME NEW j \in Jobs, NEW r \in BOOLEAN, RequeueRepairJob(j, r) PROVE VerifyingHasCopy'
  <2> DEFINE row == [NoJob EXCEPT !.status = "queued", !.object = job[j].object,
                                  !.attempts = IF r THEN 0 ELSE job[j].attempts]
  <2>1. job' = [job EXCEPT ![j] = row] BY <1>12 DEF RequeueRepairJob
  <2>2. row.status = "queued" BY DEF NoJob
  <2> HIDE DEF row
  <2> QED BY <1>1, <2>1, <2>2
<1>13. CASE Worker
  <2>1. ASSUME NEW j \in Jobs, ScheduleRepairRetry(j) PROVE VerifyingHasCopy'
    BY <1>0, <1>3, <2>1, RowFacts DEF ScheduleRepairRetry
  <2>2. ASSUME NEW j \in Jobs, MarkRepairCopying(j) \/ (CopyCurrent(j) /\ StoreVerifying(j))
        PROVE  VerifyingHasCopy'
    BY <1>4, <2>2 DEF MarkRepairCopying, StoreVerifying, CopyCurrent
  <2>3. ASSUME NEW j \in Jobs, ClaimAudit(j) \/ RecoverStaleAudit(j) PROVE VerifyingHasCopy'
    BY <1>2, <2>3 DEF ClaimAudit, RecoverStaleAudit
  <2> QED BY <1>6, <1>7, <1>8, <1>9, <1>10, <1>13, <2>1, <2>2, <2>3 DEF Worker
<1>14. CASE SourceFailed \/ Cleanups
  BY <1>2, <1>14 DEF SourceFailed, Cleanups, NoteSourceFailure, ClaimRepairCleanup,
                     MarkRepairCleanupResult
<1>15. CASE Observers
  BY <1>2, <1>11, <1>15
  DEF Observers, ReplicaObserved, ScheduledAuditResult, SendObjectDelete, ObjectDeleted
<1>16. CASE Operators
  BY <1>2, <1>5, <1>11, <1>12, <1>16
  DEF Operators, EnqueueRepairJob, CancelRepairJob, GcUnreferencedObject
<1>17. CASE UNCHANGED dbVars BY <1>2, <1>17 DEF dbVars
<1> QED BY <1>13, <1>14, <1>15, <1>16, <1>17 DEF DbNext

-----------------------------------------------------------------------------
(* The queues, the memory and the disks keep their types. *)
Typed(c, a, qn, qs) ==
    /\ c \in [Jobs -> CtxRow] /\ a \in [Jobs -> (Transfers \cup {None}) \X Nat]
    /\ qn \in [Nodes -> Seq(ToNode)] /\ qs \in [Nodes -> Seq(ToServer)]

LEMMA TypedOK == TypeOK => Typed(ctx, auditPending, toNode, toServer)
BY DEF TypeOK, Typed, CtxRow

LEMMA Frames ==
    /\ \A op \in {"store_object_begin", "store", "store_object_end", "repair_abort",
                  "stream_object_begin"}, t \in Transfers : Msg(op, t) \in ToNode
    /\ \A op \in {"store_object_ready", "store_end_ok", "store_end_error",
                  "repair_abort_reply", "stream", "stream_object_end", "stream_missing"},
          t \in Transfers : Msg(op, t) \in ToServer
BY DEF Msg, ToNode, ToServer

LEMMA FramePushed ==
    ASSUME NEW S, NEW Q \in [Nodes -> Seq(S)], NEW n, NEW ms \in Seq(S)
    PROVE  [Q EXCEPT ![n] = @ \o ms] \in [Nodes -> Seq(S)]
<1> DEFINE q == Q[n] \o ms
<1>1. n \in Nodes => q \in Seq(S) OBVIOUS
<1>2. [Q EXCEPT ![n] = @ \o ms] = [Q EXCEPT ![n] = q] OBVIOUS
<1> HIDE DEF q
<1> QED BY <1>1, <1>2

LEMMA FramePopped ==
    ASSUME NEW S, NEW Q \in [Nodes -> Seq(S)], NEW n, Q[n] # <<>>
    PROVE  [Q EXCEPT ![n] = Tail(@)] \in [Nodes -> Seq(S)]
<1> DEFINE q == Tail(Q[n])
<1>1. n \in Nodes => q \in Seq(S) BY HeadFrame
<1>2. [Q EXCEPT ![n] = Tail(@)] = [Q EXCEPT ![n] = q] OBVIOUS
<1> HIDE DEF q
<1> QED BY <1>1, <1>2

LEMMA ToNodeTyped ==
    ASSUME TypeOK
    PROVE  /\ \A n, m : m \in ToNode => Sent(n, <<m>>) \in [Nodes -> Seq(ToNode)]
           /\ \A j \in Jobs : Aborted(ctx[j]) \in [Nodes -> Seq(ToNode)]
<1>1. ASSUME NEW n, NEW m \in ToNode PROVE Sent(n, <<m>>) \in [Nodes -> Seq(ToNode)]
  <2>1. <<m>> \in Seq(ToNode) OBVIOUS
  <2> QED BY <2>1, FramePushed DEF Sent, TypeOK
<1>2. ASSUME NEW j \in Jobs PROVE Aborted(ctx[j]) \in [Nodes -> Seq(ToNode)]
  <2>1. CASE ctx[j].transfer = None BY <2>1 DEF Aborted, TypeOK
  <2>2. CASE ctx[j].transfer # None
    <3>1. Msg("repair_abort", ctx[j].transfer) \in ToNode BY <2>2, CtxFacts, Frames
    <3> QED BY <1>1, <2>2, <3>1 DEF Aborted
  <2> QED BY <2>1, <2>2
<1> QED BY <1>1, <1>2

LEMMA CtxPhaseTyped ==
    ASSUME TypeOK, NEW j \in Jobs, NEW p \in Phases
    PROVE  [ctx EXCEPT ![j].phase = p] \in [Jobs -> CtxRow]
<1> DEFINE d == ctx[j]
           c == [phase |-> p, target |-> d.target, transfer |-> d.transfer,
                 source |-> d.source, sources |-> d.sources, tried |-> d.tried]
<1>0. ctx \in [Jobs -> CtxRow] /\ d \in CtxRow BY CtxFacts DEF TypeOK, CtxRow
<1>1. c = [d EXCEPT !.phase = p] BY <1>0 DEF CtxRow
<1>2. c \in CtxRow BY CtxFacts DEF CtxRow
<1> HIDE DEF c
<1> QED BY <1>0, <1>1, <1>2

LEMMA CtxTyped ==
    ASSUME TypeOK, NEW j \in Jobs, NEW p \in Phases
    PROVE  /\ Discarded(j) \in [Jobs -> CtxRow]
           /\ [k \in Jobs |-> NoCtx] \in [Jobs -> CtxRow]
           /\ \A t \in Transfers : [ctx EXCEPT ![j].phase = p, ![j].transfer = t] \in [Jobs -> CtxRow]
           /\ [ctx EXCEPT ![j].source = None, ![j].phase = p] \in [Jobs -> CtxRow]
           /\ \A n \in Nodes :
                [ctx EXCEPT ![j].phase = p, ![j].source = n, ![j].tried = @ \cup {n}]
                   \in [Jobs -> CtxRow]
<1> DEFINE d == ctx[j]
<1>0. ctx \in [Jobs -> CtxRow] /\ d \in CtxRow /\ NoCtx \in CtxRow
  BY CtxFacts DEF TypeOK, CtxRow, NoCtx, Phases
<1>f. /\ d.phase \in Phases /\ d.target \in Nodes \cup {None}
      /\ d.transfer \in Transfers \cup {None} /\ d.source \in Nodes \cup {None}
      /\ d.sources \in SUBSET Nodes /\ d.tried \in SUBSET Nodes
  BY CtxFacts
<1>s. ASSUME NEW c \in CtxRow PROVE [ctx EXCEPT ![j] = c] \in [Jobs -> CtxRow]
  BY <1>0
<1>1. Discarded(j) \in [Jobs -> CtxRow] BY <1>0, <1>s DEF Discarded
<1>2. [k \in Jobs |-> NoCtx] \in [Jobs -> CtxRow] BY <1>0
<1>3. ASSUME NEW t \in Transfers
      PROVE  [ctx EXCEPT ![j].phase = p, ![j].transfer = t] \in [Jobs -> CtxRow]
  <2> DEFINE c == [phase |-> p, target |-> d.target, transfer |-> t,
                   source |-> d.source, sources |-> d.sources, tried |-> d.tried]
  <2>1. c = [d EXCEPT !.phase = p, !.transfer = t] BY <1>0, CtxPhaseTransfer
  <2>2. c \in CtxRow BY <1>f DEF CtxRow
  <2>3. [ctx EXCEPT ![j].phase = p, ![j].transfer = t] = [ctx EXCEPT ![j] = c]
    <3> HIDE DEF c
    <3> QED BY <1>0, <2>1
  <2> HIDE DEF c
  <2> QED BY <1>s, <2>2, <2>3
<1>4. [ctx EXCEPT ![j].source = None, ![j].phase = p] \in [Jobs -> CtxRow]
  <2> DEFINE c == [phase |-> p, target |-> d.target, transfer |-> d.transfer,
                   source |-> None, sources |-> d.sources, tried |-> d.tried]
  <2>1. c = [d EXCEPT !.source = None, !.phase = p] BY <1>0, CtxSourcePhase
  <2>2. c \in CtxRow BY <1>f DEF CtxRow
  <2>3. [ctx EXCEPT ![j].source = None, ![j].phase = p] = [ctx EXCEPT ![j] = c]
    <3> HIDE DEF c
    <3> QED BY <1>0, <2>1
  <2> HIDE DEF c
  <2> QED BY <1>s, <2>2, <2>3
<1>5. ASSUME NEW n \in Nodes
      PROVE  [ctx EXCEPT ![j].phase = p, ![j].source = n, ![j].tried = @ \cup {n}]
                \in [Jobs -> CtxRow]
  <2> DEFINE S == d.tried \cup {n}
             c == [phase |-> p, target |-> d.target, transfer |-> d.transfer,
                   source |-> n, sources |-> d.sources, tried |-> S]
  <2>0. S \in SUBSET Nodes BY <1>f
  <2>1. c = [d EXCEPT !.phase = p, !.source = n, !.tried = S]
    <3> HIDE DEF S
    <3> QED BY <1>0, CtxPhaseSourceTried
  <2>2. c \in CtxRow
    <3> HIDE DEF S
    <3> QED BY <1>f, <2>0 DEF CtxRow
  <2>3. [ctx EXCEPT ![j].phase = p, ![j].source = n, ![j].tried = S] = [ctx EXCEPT ![j] = c]
    <3> HIDE DEF c, S
    <3> QED BY <1>0, <2>1
  <2>4. [ctx EXCEPT ![j].phase = p, ![j].source = n, ![j].tried = @ \cup {n}]
          = [ctx EXCEPT ![j].phase = p, ![j].source = n, ![j].tried = S]
    BY <1>0
  <2> HIDE DEF c, S
  <2> QED BY <1>s, <2>2, <2>3, <2>4
<1> QED BY <1>1, <1>2, <1>3, <1>4, <1>5

LEMMA NoFrameTyped ==
    ASSUME TypeOK
    PROVE  /\ ctx \in [Jobs -> CtxRow] /\ auditPending \in [Jobs -> (Transfers \cup {None}) \X Nat]
           /\ toNode \in [Nodes -> Seq(ToNode)] /\ toServer \in [Nodes -> Seq(ToServer)]
           /\ \A j \in Jobs : [auditPending EXCEPT ![j] = NoEvent]
                                 \in [Jobs -> (Transfers \cup {None}) \X Nat]
BY DEF TypeOK, CtxRow, NoEvent

LEMMA ReceiveTyped ==
    ASSUME RepairInv, NEW n \in Nodes, ServerReceives(n)
    PROVE  Typed(ctx', auditPending', toNode', toServer')
<1>0. TypeOK BY DEF RepairInv
<1>p. \A p \in {"awaiting_source_ready", "copying", "awaiting_target_commit", "verifying",
                "failing", "starting"} : p \in Phases
  BY DEF Phases
<1>1. toServer' \in [Nodes -> Seq(ToServer)]
  <2>1. toServer[n] # <<>> /\ toServer' = [toServer EXCEPT ![n] = Tail(@)]
    BY DEF ServerReceives, StoreObjectReady, SourceStream, StreamObjectEnd, StreamObjectMissing,
           StoreObjectEndOk, StoreObjectEndError, AuditReply, RepairAbortReply, DeleteObjectReply,
           Receive
  <2> QED BY <1>0, <2>1, FramePopped, NoFrameTyped
<1>2. auditPending' \in [Jobs -> (Transfers \cup {None}) \X Nat]
  <2>1. auditPending' = auditPending \/ \E j \in Jobs : auditPending' = [auditPending EXCEPT ![j] = NoEvent]
    <3>1. ASSUME NEW op \in {"audit_ok", "audit_missing"}, AuditReply(n, op)
          PROVE  auditPending' = auditPending
                 \/ \E j \in Jobs : auditPending' = [auditPending EXCEPT ![j] = NoEvent]
      <4>1. Head(toServer[n]) \in ToServer /\ Head(toServer[n]).op = op
        BY <1>0, <3>1, HeadFrame, NoFrameTyped DEF AuditReply, Receive
      <4>2. Head(toServer[n]).j \in Jobs BY <4>1 DEF ToServer
      <4> QED BY <3>1, <4>2 DEF AuditReply
    <3> QED
      BY <3>1
      DEF ServerReceives, StoreObjectReady, SourceStream, StreamObjectEnd, StreamObjectMissing,
          StoreObjectEndOk, StoreObjectEndError, RepairAbortReply, DeleteObjectReply,
          Dropped, Fail, RestartFromNextSource, NextSource, memVars
  <2> QED BY <1>0, <2>1, NoFrameTyped
<1> DEFINE T == ctx' \in [Jobs -> CtxRow] /\ toNode' \in [Nodes -> Seq(ToNode)]
<1>a. ASSUME NEW j \in Jobs,
             \/ Fail(j) \/ \E s \in FailureKinds : RestartFromNextSource(j, s)
             \/ ctx' = Discarded(j) /\ toNode' \in {toNode, Aborted(ctx[j])}
      PROVE  T
  <2>1. /\ toNode' \in {toNode, Aborted(ctx[j])}
        /\ \/ ctx' = Discarded(j)
           \/ \E p \in {"failing", "starting"} : ctx' = [ctx EXCEPT ![j].source = None, ![j].phase = p]
    BY <1>a DEF Fail, RestartFromNextSource, NextSource
  <2>2. toNode' \in [Nodes -> Seq(ToNode)] BY <1>0, <2>1, ToNodeTyped, NoFrameTyped
  <2>3. "failing" \in Phases /\ "starting" \in Phases BY <1>p
  <2>4. ctx' \in [Jobs -> CtxRow]
    <3>1. CASE ctx' = Discarded(j) BY <1>0, <2>3, <3>1, CtxTyped
    <3>2. ASSUME NEW p \in {"failing", "starting"},
                 ctx' = [ctx EXCEPT ![j].source = None, ![j].phase = p]
          PROVE  ctx' \in [Jobs -> CtxRow]
      BY <1>0, <1>p, <3>2, CtxTyped
    <3> QED BY <2>1, <3>1, <3>2
  <2> QED BY <2>2, <2>4
<1>b. ASSUME UNCHANGED <<ctx, toNode>> PROVE T BY <1>0, <1>b, NoFrameTyped
<1>t. ctx' \in [Jobs -> CtxRow] /\ toNode' \in [Nodes -> Seq(ToNode)] => T OBVIOUS
<1>c. "missing" \in FailureKinds BY TransferAssumption
<1> SUFFICES T BY <1>1, <1>2 DEF Typed
<1> HIDE DEF T
<1> DEFINE t == Head(toServer[n]).t
<1>3. CASE StoreObjectReady(n)
  <2>1. CASE Dropped BY <1>b, <2>1 DEF Dropped, memVars
  <2>2. ASSUME NEW j \in Jobs, NEW src \in ctx[j].sources, BeginNextSource(j, src), ctx[j].transfer # None
        PROVE  T
    <3>1. src \in Nodes /\ ctx[j].transfer \in Transfers BY <1>0, <2>2, CtxFacts
    <3>2. Msg("stream_object_begin", ctx[j].transfer) \in ToNode BY <3>1, Frames
    <3>3. CASE ctx' = Discarded(j) /\ toNode' = Aborted(ctx[j]) BY <1>a, <3>3
    <3>4. CASE /\ toNode' = Sent(src, <<Msg("stream_object_begin", ctx[j].transfer)>>)
               /\ ctx' = [ctx EXCEPT ![j].phase = "awaiting_source_ready",
                                     ![j].source = src, ![j].tried = @ \cup {src}]
      BY <1>0, <1>p, <1>t, <3>1, <3>2, <3>4, CtxTyped, ToNodeTyped
    <3> QED BY <2>2, <3>3, <3>4 DEF BeginNextSource
  <2>3. CASE TargetCtx(n, t) # {}
    <3>1. PICK j \in TargetCtx(n, t) : \E src \in ctx[j].sources \ ctx[j].tried : BeginNextSource(j, src)
      BY <1>3, <2>3 DEF StoreObjectReady
    <3>2. j \in Jobs /\ ctx[j].transfer # None
      BY <1>3 DEF TargetCtx, RepairInv, CtxInv, CtxSound, CtxEmpty, Live, StoreObjectReady, Receive,
                  Idle
    <3> QED BY <2>2, <3>1, <3>2
  <2> QED BY <1>3, <2>1, <2>3 DEF StoreObjectReady
<1>4. CASE SourceStream(n) \/ StreamObjectEnd(n)
  <2>1. CASE Dropped BY <1>b, <2>1 DEF Dropped, memVars
  <2>2. CASE SourceCtx(n, t) # {}
    <3>1. PICK j \in SourceCtx(n, t) :
             \/ RestartFromNextSource(j, "missing")
             \/ \E op \in {"store", "store_object_end"}, p \in {"copying", "awaiting_target_commit"} :
                   /\ toNode' = Sent(ctx[j].target, <<Msg(op, t)>>)
                   /\ ctx' = [ctx EXCEPT ![j].phase = p]
      BY <1>4, <2>2 DEF SourceStream, StreamObjectEnd
    <3>2. j \in Jobs /\ t = ctx[j].transfer /\ ctx[j].transfer # None
      BY <1>4 DEF SourceCtx, RepairInv, CtxInv, CtxSound, CtxEmpty, Live, SourceStream,
                  StreamObjectEnd, Receive, Idle
    <3>3. t \in Transfers BY <1>0, <3>2, CtxFacts
    <3>4. \A op \in {"store", "store_object_end"} : Msg(op, t) \in ToNode BY <3>3, Frames
    <3> HIDE DEF t
    <3>5. CASE RestartFromNextSource(j, "missing") BY <1>a, <1>c, <3>2, <3>5
    <3>6. ASSUME NEW op \in {"store", "store_object_end"}, NEW p \in {"copying", "awaiting_target_commit"},
                 toNode' = Sent(ctx[j].target, <<Msg(op, t)>>), ctx' = [ctx EXCEPT ![j].phase = p]
          PROVE  T
      <4>1. toNode' \in [Nodes -> Seq(ToNode)] BY <1>0, <3>4, <3>6, ToNodeTyped
      <4>2. ctx' \in [Jobs -> CtxRow] BY <1>0, <1>p, <3>2, <3>6, CtxPhaseTyped
      <4> QED BY <1>t, <4>1, <4>2
    <3> QED BY <3>1, <3>5, <3>6
  <2> QED BY <1>4, <2>1, <2>2 DEF SourceStream, StreamObjectEnd
<1>5. CASE StreamObjectMissing(n)
  BY <1>a, <1>b, <1>c, <1>5 DEF StreamObjectMissing, SourceCtx, Dropped, memVars
<1>6. CASE StoreObjectEndOk(n) \/ StoreObjectEndError(n)
  <2>1. \/ Dropped
        \/ \E j \in Jobs : \/ Fail(j)
                           \/ ctx' = [ctx EXCEPT ![j].phase = "verifying"] /\ UNCHANGED toNode
    BY <1>6 DEF StoreObjectEndOk, StoreObjectEndError, TargetCtx
  <2>2. ASSUME NEW j \in Jobs, ctx' = [ctx EXCEPT ![j].phase = "verifying"], UNCHANGED toNode
        PROVE  T
    BY <1>0, <1>p, <1>t, <2>2, CtxPhaseTyped, NoFrameTyped
  <2> QED BY <1>a, <1>b, <2>1, <2>2 DEF Dropped, memVars
<1>7. ASSUME NEW op \in {"audit_ok", "audit_missing"}, AuditReply(n, op) PROVE T
  <2>1. Head(toServer[n]) \in ToServer /\ Head(toServer[n]).op = op
    BY <1>0, <1>7, HeadFrame, NoFrameTyped DEF AuditReply, Receive
  <2>2. Head(toServer[n]).j \in Jobs BY <1>7, <2>1 DEF ToServer
  <2> QED BY <1>a, <1>b, <1>7, <2>2 DEF AuditReply, AuditApplied
<1>8. CASE RepairAbortReply(n) \/ DeleteObjectReply(n)
  BY <1>b, <1>8 DEF RepairAbortReply, DeleteObjectReply, Dropped, memVars
<1> QED BY <1>3, <1>4, <1>5, <1>6, <1>7, <1>8 DEF ServerReceives

(* A job with an open audit names its target and its copy. *)
LEMMA AuditedRow ==
    ASSUME RepairInv, NEW j \in Jobs, audit[j].status \in AuditOpen
    PROVE  job[j].target \in Nodes /\ job[j].transfer \in Transfers
<1>1. job[j].status = "verifying"
  BY DEF RepairInv, LiveInv, RowInv, AuditOnlyWhileVerifying
<1> QED
  BY <1>1, RowFacts
  DEF RepairInv, LiveInv, RowInv, VerifyingHasCopy, RunningHasTarget, Running

LEMMA PollTyped ==
    ASSUME RepairInv, NEW j \in Jobs, ServerPolls(j)
    PROVE  Typed(ctx', auditPending', toNode', toServer')
<1>0. TypeOK BY DEF RepairInv
<1>p. \A p \in {"awaiting_target_ready", "failing", "starting"} : p \in Phases BY DEF Phases
<1>1. toServer' \in [Nodes -> Seq(ToServer)]
  <2>1. UNCHANGED toServer
    BY DEF ServerPolls, EndContext, RecoverStale, StartRepairTarget, FailLater, RepairTimeout,
           SendAudit, AuditTimeout, RecoverAudit
  <2> QED BY <1>0, <2>1, NoFrameTyped
<1> DEFINE T == /\ ctx' \in [Jobs -> CtxRow] /\ toNode' \in [Nodes -> Seq(ToNode)]
                /\ auditPending' \in [Jobs -> (Transfers \cup {None}) \X Nat]
<1> SUFFICES T BY <1>1 DEF Typed
<1>a. ASSUME \/ Fail(j)
             \/ \E s \in FailureKinds : RestartFromNextSource(j, s)
             \/ /\ ctx' = Discarded(j) /\ toNode' \in {toNode, Aborted(ctx[j])}
                /\ auditPending' \in {auditPending, [auditPending EXCEPT ![j] = NoEvent]}
      PROVE  T
  <2>1. /\ toNode' \in {toNode, Aborted(ctx[j])}
        /\ auditPending' \in {auditPending, [auditPending EXCEPT ![j] = NoEvent]}
        /\ \/ ctx' = Discarded(j)
           \/ \E p \in {"failing", "starting"} : ctx' = [ctx EXCEPT ![j].source = None, ![j].phase = p]
    BY <1>a DEF Fail, RestartFromNextSource, NextSource
  <2>2. toNode' \in [Nodes -> Seq(ToNode)] BY <1>0, <2>1, ToNodeTyped, NoFrameTyped
  <2>3. "failing" \in Phases /\ "starting" \in Phases BY <1>p
  <2>4. ctx' \in [Jobs -> CtxRow]
    <3>1. CASE ctx' = Discarded(j) BY <1>0, <2>3, <3>1, CtxTyped
    <3>2. ASSUME NEW p \in {"failing", "starting"},
                 ctx' = [ctx EXCEPT ![j].source = None, ![j].phase = p]
          PROVE  ctx' \in [Jobs -> CtxRow]
      BY <1>0, <1>p, <3>2, CtxTyped
    <3> QED BY <2>1, <3>1, <3>2
  <2>5. auditPending' \in [Jobs -> (Transfers \cup {None}) \X Nat]
    BY <1>0, <2>1, NoFrameTyped, ZenonT(60)
  <2> QED BY <2>2, <2>4, <2>5
<1>b. ASSUME UNCHANGED <<ctx, toNode>>,
             auditPending' \in {auditPending, [auditPending EXCEPT ![j] = NoEvent]}
      PROVE T
  BY <1>0, <1>b, NoFrameTyped
<1>c. "missing" \in FailureKinds /\ "suspect" \in FailureKinds BY TransferAssumption
<1>t. /\ ctx' \in [Jobs -> CtxRow] /\ toNode' \in [Nodes -> Seq(ToNode)]
      /\ auditPending' \in [Jobs -> (Transfers \cup {None}) \X Nat]
      => T
  OBVIOUS
<1> HIDE DEF T
<1>2. CASE EndContext(j) BY <1>a, <1>2 DEF EndContext
<1>3. CASE RecoverStale(j) \/ RecoverAudit(j)
  BY <1>b, <1>3 DEF RecoverStale, RecoverAudit, memVars
<1>4. CASE StartRepairTarget(j)
  <2>1. CASE ctx' = Discarded(j) /\ UNCHANGED <<toNode, auditPending>> BY <1>a, <2>1
  <2>2. ASSUME NEW t \in Transfers,
               toNode' = Sent(ctx[j].target, <<Msg("store_object_begin", t)>>),
               ctx' = [ctx EXCEPT ![j].phase = "awaiting_target_ready", ![j].transfer = t],
               UNCHANGED auditPending
        PROVE  T
    <3>1. Msg("store_object_begin", t) \in ToNode BY Frames
    <3>2. toNode' \in [Nodes -> Seq(ToNode)] BY <1>0, <2>2, <3>1, ToNodeTyped
    <3>3. ctx' \in [Jobs -> CtxRow] BY <1>0, <1>p, <2>2, CtxTyped
    <3> QED BY <1>0, <1>t, <2>2, <3>2, <3>3, NoFrameTyped
  <2> QED BY <1>4, <2>1, <2>2 DEF StartRepairTarget
<1>5. CASE FailLater(j) BY <1>a, <1>5 DEF FailLater
<1>6. CASE RepairTimeout(j) BY <1>a, <1>c, <1>6 DEF RepairTimeout
<1>7. CASE SendAudit(j)
  <2> DEFINE event == <<job[j].transfer, audit[j].attempts + 1>>
             m == [op |-> "audit_slice", j |-> j, event |-> event]
  <2>1. audit[j].status \in AuditOpen BY <1>7 DEF SendAudit, ClaimAudit, AuditOpen
  <2>2. job[j].transfer \in Transfers BY <2>1, AuditedRow
  <2>3. audit[j].attempts + 1 \in Nat BY <1>0 DEF TypeOK, DbTypeOK, AuditRow
  <2>4. event \in Transfers \X Nat BY <2>2, <2>3
  <2>5. /\ auditPending' = [auditPending EXCEPT ![j] = event]
        /\ toNode' = Sent(job[j].target, <<m>>) /\ UNCHANGED ctx
    BY <1>7 DEF SendAudit
  <2> HIDE DEF event
  <2>6. m \in ToNode BY <2>4 DEF ToNode
  <2> HIDE DEF m
  <2>7. toNode' \in [Nodes -> Seq(ToNode)] BY <1>0, <2>5, <2>6, ToNodeTyped
  <2>8. event \in (Transfers \cup {None}) \X Nat BY <2>4
  <2>9. auditPending' \in [Jobs -> (Transfers \cup {None}) \X Nat]
    BY <1>0, <2>5, <2>8, NoFrameTyped
  <2> QED BY <1>0, <1>t, <2>5, <2>7, <2>9, NoFrameTyped
<1>8. CASE AuditTimeout(j)
  <2>1. auditPending' = [auditPending EXCEPT ![j] = NoEvent] BY <1>8 DEF AuditTimeout
  <2>2. CASE UNCHANGED <<dbVars, ctx, toNode>> BY <1>b, <2>1, <2>2
  <2>3. CASE AuditApplied(j, AuditFailed(j, "suspect"))
    BY <1>a, <1>b, <2>1, <2>3 DEF AuditApplied
  <2> QED BY <1>8, <2>2, <2>3 DEF AuditTimeout
<1> QED BY <1>2, <1>3, <1>4, <1>5, <1>6, <1>7, <1>8 DEF ServerPolls

LEMMA NodeTyped ==
    ASSUME RepairInv, NEW n \in Nodes, NodeStep(n)
    PROVE  /\ Typed(ctx', auditPending', toNode', toServer')
           /\ session' \in [Transfers -> {"none", "open", "full"}]
           /\ disk' \in [Objects -> [Nodes -> Transfers \cup {Upload, None}]]
           /\ damaged' \in [Objects -> SUBSET Nodes]
<1>0. TypeOK BY DEF RepairInv
<1>1. UNCHANGED <<ctx, auditPending>>
  BY DEF NodeStep, NodeReceive, memVars, NodeStoreObjectBegin, NodeStore, NodeStoreObjectEnd,
         NodeRepairAbort, NodeDeleteObject, NodeStreamObjectBegin, NodeAuditSlice
<1>2. toNode[n] # <<>> /\ toNode' = [toNode EXCEPT ![n] = Tail(@)]
  BY DEF NodeStep, NodeReceive, NodeStoreObjectBegin, NodeStore, NodeStoreObjectEnd,
         NodeRepairAbort, NodeDeleteObject, NodeStreamObjectBegin, NodeAuditSlice
<1>3. toNode' \in [Nodes -> Seq(ToNode)] BY <1>0, <1>2, FramePopped, NoFrameTyped
<1> DEFINE m == Head(toNode[n])
<1>4. m \in ToNode BY <1>0, <1>2, HeadFrame, NoFrameTyped
<1>5. m.op \notin {"delete_object", "audit_slice"} => m.t \in Transfers BY <1>4 DEF ToNode
<1>6. m.op = "delete_object" => m.o \in Objects BY <1>4 DEF ToNode
<1> DEFINE D == /\ session' \in [Transfers -> {"none", "open", "full"}]
                /\ disk' \in [Objects -> [Nodes -> Transfers \cup {Upload, None}]]
                /\ damaged' \in [Objects -> SUBSET Nodes]
           R == toServer' \in [Nodes -> Seq(ToServer)]
<1>7. ASSUME NEW ms \in Seq(ToServer), Replied(n, ms) PROVE R
  BY <1>0, <1>7, FramePushed, NoFrameTyped DEF Replied
<1>8. ASSUME NEW r \in ToServer PROVE <<r>> \in Seq(ToServer) OBVIOUS
<1>9. ASSUME NEW op \in {"store_object_ready", "store_end_ok", "store_end_error",
                         "repair_abort_reply", "stream", "stream_object_end", "stream_missing"},
             m.t \in Transfers
      PROVE  Msg(op, m.t) \in ToServer
  BY <1>9, Frames
<1> HIDE DEF m
<1>10. CASE NodeStoreObjectBegin(n)
  <2>1. m.op = "store_object_begin" BY <1>10 DEF NodeStoreObjectBegin, NodeReceive, m
  <2>2. Replied(n, <<Msg("store_object_ready", m.t)>>) /\ session' = [session EXCEPT ![m.t] = "open"]
        /\ UNCHANGED <<disk, damaged>>
    BY <1>10 DEF NodeStoreObjectBegin, m
  <2>3. R BY <1>5, <1>7, <1>8, <1>9, <2>1, <2>2
  <2>4. D BY <1>0, <2>2 DEF TypeOK
  <2> QED BY <1>0, <1>1, <1>3, <2>3, <2>4, NoFrameTyped DEF Typed
<1>11. CASE NodeStore(n)
  <2>1. /\ session' = [session EXCEPT ![m.t] = IF @ = "none" THEN @ ELSE "full"]
        /\ UNCHANGED <<toServer, disk, damaged>>
    BY <1>11 DEF NodeStore, m
  <2>2. D BY <1>0, <2>1 DEF TypeOK
  <2> QED BY <1>0, <1>1, <1>3, <2>1, <2>2, NoFrameTyped DEF Typed
<1>12. CASE NodeStoreObjectEnd(n)
  <2> DEFINE o == transfer[m.t].object
             stored == session[m.t] = "full" /\ disk[o][n] # Upload
             found == session[m.t] = "none" /\ disk[o][n] = m.t
  <2>1. m.op = "store_object_end" BY <1>12 DEF NodeStoreObjectEnd, NodeReceive, m
  <2>2. /\ session' = [session EXCEPT ![m.t] = "none"]
        /\ disk' = IF stored THEN [disk EXCEPT ![o][n] = m.t] ELSE disk
        /\ damaged' = IF stored THEN [damaged EXCEPT ![o] = @ \ {n}] ELSE damaged
        /\ Replied(n, <<Msg(IF stored \/ found THEN "store_end_ok" ELSE "store_end_error", m.t)>>)
    BY <1>12 DEF NodeStoreObjectEnd, m
  <2> HIDE DEF stored, found, o
  <2>3. R
    <3>1. m.t \in Transfers BY <1>5, <2>1
    <3>2. Msg("store_end_ok", m.t) \in ToServer /\ Msg("store_end_error", m.t) \in ToServer
      BY <1>9, <3>1
    <3>3. Msg(IF stored \/ found THEN "store_end_ok" ELSE "store_end_error", m.t) \in ToServer
      BY <3>2
    <3> QED BY <1>7, <1>8, <2>2, <3>3
  <2>4. D
    <3>1. m.t \in Transfers BY <1>5, <2>1
    <3> QED BY <1>0, <2>2, <3>1 DEF TypeOK
  <2> QED BY <1>0, <1>1, <1>3, <2>3, <2>4, NoFrameTyped DEF Typed
<1>13. CASE NodeRepairAbort(n)
  <2> DEFINE o == transfer[m.t].object
  <2>1. m.op = "repair_abort" BY <1>13 DEF NodeRepairAbort, NodeReceive, m
  <2>2. /\ session' = [session EXCEPT ![m.t] = "none"]
        /\ disk' = IF disk[o][n] = m.t THEN [disk EXCEPT ![o][n] = None] ELSE disk
        /\ UNCHANGED damaged /\ Replied(n, <<Msg("repair_abort_reply", m.t)>>)
    BY <1>13 DEF NodeRepairAbort, m
  <2> HIDE DEF o
  <2>3. R BY <1>5, <1>7, <1>8, <1>9, <2>1, <2>2
  <2>4. D BY <1>0, <2>2 DEF TypeOK
  <2> QED BY <1>0, <1>1, <1>3, <2>3, <2>4, NoFrameTyped DEF Typed
<1>14. CASE NodeDeleteObject(n)
  <2>1. m.op = "delete_object" BY <1>14 DEF NodeDeleteObject, NodeReceive, m
  <2>2. /\ disk' = [disk EXCEPT ![m.o][n] = None] /\ UNCHANGED <<session, damaged>>
        /\ Replied(n, <<[op |-> "delete_object_reply", o |-> m.o]>>)
    BY <1>14 DEF NodeDeleteObject, m
  <2>3. [op |-> "delete_object_reply", o |-> m.o] \in ToServer BY <1>6, <2>1 DEF ToServer
  <2>4. R BY <1>7, <1>8, <2>2, <2>3
  <2>5. D BY <1>0, <2>2 DEF TypeOK
  <2> QED BY <1>0, <1>1, <1>3, <2>4, <2>5, NoFrameTyped DEF Typed
<1>15. CASE NodeStreamObjectBegin(n)
  <2>1. m.op = "stream_object_begin" /\ UNCHANGED <<session, disk, damaged>>
    BY <1>15 DEF NodeStreamObjectBegin, NodeReceive, m
  <2>2. \/ Replied(n, <<Msg("stream_missing", m.t)>>)
        \/ Replied(n, <<Msg("stream", m.t), Msg("stream_object_end", m.t)>>)
    BY <1>15 DEF NodeStreamObjectBegin, m
  <2>3. Msg("stream", m.t) \in ToServer /\ Msg("stream_object_end", m.t) \in ToServer
        /\ Msg("stream_missing", m.t) \in ToServer
    BY <1>5, <1>9, <2>1
  <2>4. /\ <<Msg("stream_missing", m.t)>> \in Seq(ToServer)
        /\ <<Msg("stream", m.t), Msg("stream_object_end", m.t)>> \in Seq(ToServer)
    BY <2>3
  <2>5. R BY <1>7, <2>2, <2>4
  <2>6. D BY <1>0, <2>1 DEF TypeOK
  <2> QED BY <1>0, <1>1, <1>3, <2>5, <2>6, NoFrameTyped DEF Typed
<1>16. CASE NodeAuditSlice(n)
  <2>1. m.op = "audit_slice" /\ UNCHANGED <<session, disk, damaged>>
    BY <1>16 DEF NodeAuditSlice, NodeReceive, m
  <2>2. \E op \in {"audit_ok", "audit_missing"} : Replied(n, <<[m EXCEPT !.op = op]>>)
    BY <1>16 DEF NodeAuditSlice, m
  <2>3. PICK op \in {"audit_ok", "audit_missing"} : Replied(n, <<[m EXCEPT !.op = op]>>)
    BY <2>2
  <2>4. m \in [op : {"audit_slice"}, j : Jobs, event : Transfers \X Nat] BY <1>4, <2>1 DEF ToNode
  <2>5. [m EXCEPT !.op = op] = [op |-> op, j |-> m.j, event |-> m.event] BY <2>4
  <2>6. [m EXCEPT !.op = op] \in ToServer BY <2>4, <2>5 DEF ToServer
  <2>7. R BY <1>7, <1>8, <2>3, <2>6
  <2>8. D BY <1>0, <2>1 DEF TypeOK
  <2> QED BY <1>0, <1>1, <1>3, <2>7, <2>8, NoFrameTyped DEF Typed
<1> QED BY <1>10, <1>11, <1>12, <1>13, <1>14, <1>15, <1>16 DEF NodeStep

(* Restarts, lost connections and the other writers. *)
LEMMA FaultTyped ==
    ASSUME RepairInv, Faults
    PROVE  /\ Typed(ctx', auditPending', toNode', toServer')
           /\ session' \in [Transfers -> {"none", "open", "full"}]
           /\ disk' \in [Objects -> [Nodes -> Transfers \cup {Upload, None}]]
           /\ damaged' \in [Objects -> SUBSET Nodes]
<1>0. TypeOK BY DEF RepairInv
<1> DEFINE D == /\ session' \in [Transfers -> {"none", "open", "full"}]
                /\ disk' \in [Objects -> [Nodes -> Transfers \cup {Upload, None}]]
                /\ damaged' \in [Objects -> SUBSET Nodes]
<1>d. UNCHANGED nodeVars => D BY <1>0 DEF nodeVars, TypeOK
<1>1. CASE ServerRestart
  <2>1. NoCtx \in CtxRow /\ NoEvent \in (Transfers \cup {None}) \X Nat
    BY DEF NoCtx, CtxRow, Phases, NoEvent
  <2>2. ctx' \in [Jobs -> CtxRow] /\ auditPending' \in [Jobs -> (Transfers \cup {None}) \X Nat]
    BY <1>1, <2>1 DEF ServerRestart
  <2>3. UNCHANGED <<toNode, toServer>> /\ D BY <1>1, <1>d DEF ServerRestart
  <2> QED BY <1>0, <2>2, <2>3, NoFrameTyped DEF Typed
<1>2. ASSUME NEW j \in Jobs, TransactionFails(j)
      PROVE  Typed(ctx', auditPending', toNode', toServer') /\ D
  <2>p. \A p \in {"failing", "starting"} : p \in Phases BY DEF Phases
  <2>1. /\ toNode' \in {toNode, Aborted(ctx[j])} /\ UNCHANGED toServer /\ UNCHANGED nodeVars
        /\ auditPending' \in {auditPending, [auditPending EXCEPT ![j] = NoEvent]}
        /\ \/ UNCHANGED ctx
           \/ ctx' = [ctx EXCEPT ![j].phase = "failing"]
           \/ \E p \in {"failing", "starting"} : ctx' = [ctx EXCEPT ![j].source = None, ![j].phase = p]
    BY <1>2 DEF TransactionFails, NextSource
  <2>2. toNode' \in [Nodes -> Seq(ToNode)] BY <1>0, <2>1, ToNodeTyped, NoFrameTyped
  <2>3. auditPending' \in [Jobs -> (Transfers \cup {None}) \X Nat]
    BY <1>0, <2>1, NoFrameTyped, ZenonT(60)
  <2>4. ctx' \in [Jobs -> CtxRow]
    <3>1. ASSUME NEW p \in {"failing", "starting"},
                 ctx' = [ctx EXCEPT ![j].source = None, ![j].phase = p]
          PROVE  ctx' \in [Jobs -> CtxRow]
      BY <1>0, <2>p, <3>1, CtxTyped
    <3>2. CASE ctx' = [ctx EXCEPT ![j].phase = "failing"] BY <1>0, <2>p, <3>2, CtxPhaseTyped
    <3> QED BY <1>0, <2>1, <3>1, <3>2, NoFrameTyped
  <2> QED BY <1>0, <1>d, <2>1, <2>2, <2>3, <2>4, NoFrameTyped DEF Typed
<1>3. ASSUME NEW n \in Nodes, NEW r \in BOOLEAN, LoseConnection(n, r)
      PROVE  Typed(ctx', auditPending', toNode', toServer') /\ D
  <2>1. PICK a \in 0 .. Len(toNode[n]) : toNode' = [toNode EXCEPT ![n] = SubSeq(@, 1, a)]
    BY <1>3 DEF LoseConnection
  <2>2. PICK i \in 0 .. Len(toServer[n]) : \E k \in i .. Len(toServer[n]) :
           toServer' = [toServer EXCEPT ![n] = SubSeq(@, 1, i) \o SubSeq(@, k + 1, Len(@))]
    BY <1>3 DEF LoseConnection
  <2>3. PICK k \in i .. Len(toServer[n]) :
           toServer' = [toServer EXCEPT ![n] = SubSeq(@, 1, i) \o SubSeq(@, k + 1, Len(@))]
    BY <2>2
  <2> DEFINE q == SubSeq(toNode[n], 1, a)
             s == SubSeq(toServer[n], 1, i) \o SubSeq(toServer[n], k + 1, Len(toServer[n]))
  <2>4. q \in Seq(ToNode) BY <1>0 DEF TypeOK
  <2>5. s \in Seq(ToServer)
    <3>1. toServer[n] \in Seq(ToServer) BY <1>0 DEF TypeOK
    <3>2. SubSeq(toServer[n], 1, i) \in Seq(ToServer) BY <3>1
    <3>3. SubSeq(toServer[n], k + 1, Len(toServer[n])) \in Seq(ToServer) BY <3>1
    <3> QED BY <3>2, <3>3
  <2>6. toNode' = [toNode EXCEPT ![n] = q] /\ toServer' = [toServer EXCEPT ![n] = s]
    BY <2>1, <2>3
  <2> HIDE DEF q, s
  <2>7. toNode' \in [Nodes -> Seq(ToNode)] /\ toServer' \in [Nodes -> Seq(ToServer)]
    BY <1>0, <2>4, <2>5, <2>6 DEF TypeOK
  <2>8. UNCHANGED <<ctx, auditPending, disk, damaged>> BY <1>3 DEF LoseConnection, memVars
  <2>9. session' \in [Transfers -> {"none", "open", "full"}]
    BY <1>0, <1>3 DEF LoseConnection, TypeOK
  <2>10. D BY <1>0, <2>8, <2>9 DEF TypeOK
  <2> QED BY <1>0, <2>7, <2>8, <2>10, NoFrameTyped DEF Typed
<1>4. ASSUME NEW o \in Objects, NEW n \in Nodes, LoseBytes(o, n)
      PROVE  Typed(ctx', auditPending', toNode', toServer') /\ D
  <2>1. D BY <1>0, <1>4 DEF LoseBytes, TypeOK
  <2>2. UNCHANGED <<ctx, auditPending, toNode, toServer>> BY <1>4 DEF LoseBytes, memVars
  <2> QED BY <1>0, <2>1, <2>2, NoFrameTyped DEF Typed
<1> QED BY <1>1, <1>2, <1>3, <1>4, <1>d DEF Faults, ServerRestart

LEMMA TypeStays ==
    ASSUME RepairInv, "source_failure" \notin DbErrors, [Next]_vars
    PROVE  TypeOK'
<1>0. TypeOK BY DEF RepairInv
<1>1. DbTypeOK' BY StepRefines, RowStep DEF RepairInv, LiveInv, RowInv
<1>2. disturbances' \in 0 .. MaxDisturbances
  <2>1. disturbances' = disturbances \/ Disturbed
    BY DEF Next, ScanEnqueues, Faults, ServerRestart, TransactionFails, LoseConnection, LoseBytes,
           OtherProcesses, ObserveReplica, vars
  <2> QED BY <1>0, <2>1, TransferAssumption DEF Disturbed, TypeOK
<1> DEFINE Goal == /\ Typed(ctx', auditPending', toNode', toServer')
                   /\ session' \in [Transfers -> {"none", "open", "full"}]
                   /\ disk' \in [Objects -> [Nodes -> Transfers \cup {Upload, None}]]
                   /\ damaged' \in [Objects -> SUBSET Nodes]
<1> SUFFICES Goal BY <1>1, <1>2 DEF Typed, TypeOK, CtxRow
<1>n. UNCHANGED nodeVars /\ Typed(ctx', auditPending', toNode', toServer') => Goal
  BY <1>0 DEF nodeVars, TypeOK
<1>u. UNCHANGED <<memVars, toNode, toServer>> => Typed(ctx', auditPending', toNode', toServer')
  BY <1>0, NoFrameTyped DEF memVars, Typed
<1>3. CASE Server
  <2>1. UNCHANGED nodeVars
    BY <1>3, ZenonT(60)
    DEF Server, ServerReceives, ServerPolls, StoreObjectReady, SourceStream, StreamObjectEnd,
        StreamObjectMissing, StoreObjectEndOk, StoreObjectEndError, AuditReply, RepairAbortReply,
        DeleteObjectReply, Dropped, Fail, RestartFromNextSource, NextSource, EndContext,
        RecoverStale, StartRepairTarget, FailLater, RepairTimeout, SendAudit, AuditTimeout,
        RecoverAudit, ClaimStart, ClaimSkip, SendGcDelete, SendRepairCleanup, nodeVars
  <2>2. ASSUME NEW m \in ToNode, NEW n, toNode' = Sent(n, <<m>>), UNCHANGED <<memVars, toServer>>
        PROVE  Typed(ctx', auditPending', toNode', toServer')
    BY <1>0, <2>2, ToNodeTyped, NoFrameTyped DEF memVars, Typed
  <2>3. ASSUME NEW j \in Jobs, NEW S \in SUBSET Nodes, NEW n \in Nodes, ClaimStart(j, S, n)
        PROVE  Typed(ctx', auditPending', toNode', toServer')
    <3> DEFINE c == [phase |-> "starting", target |-> n, transfer |-> None, source |-> None,
                     sources |-> S, tried |-> {}]
    <3>1. c \in CtxRow BY DEF CtxRow, Phases
    <3>2. ctx' = [ctx EXCEPT ![j] = c] BY <2>3, ClaimedCtx DEF ClaimStart
    <3> HIDE DEF c
    <3>3. ctx' \in [Jobs -> CtxRow] BY <1>0, <3>1, <3>2, NoFrameTyped
    <3> QED BY <1>0, <2>3, <3>3, NoFrameTyped DEF ClaimStart, Typed
  <2>4. ASSUME NEW j \in Jobs, ClaimSkip(j) PROVE Typed(ctx', auditPending', toNode', toServer')
    BY <1>u, <2>4 DEF ClaimSkip
  <2>5. ASSUME NEW o \in Objects, NEW n \in Nodes, SendGcDelete(o, n)
        PROVE  Typed(ctx', auditPending', toNode', toServer')
    <3>1. [op |-> "delete_object", o |-> o] \in ToNode BY DEF ToNode
    <3> QED BY <2>2, <2>5, <3>1 DEF SendGcDelete
  <2>6. ASSUME NEW t \in Transfers, SendRepairCleanup(t)
        PROVE  Typed(ctx', auditPending', toNode', toServer')
    <3>1. Msg("repair_abort", t) \in ToNode BY Frames
    <3> QED BY <2>2, <2>6, <3>1 DEF SendRepairCleanup
  <2> QED BY <1>3, <1>n, <2>1, <2>3, <2>4, <2>5, <2>6, ReceiveTyped, PollTyped DEF Server
<1>4. ASSUME NEW n \in Nodes, NodeStep(n) PROVE Goal BY <1>4, NodeTyped
<1>5. CASE Faults BY <1>5, FaultTyped
<1>6. CASE ScanEnqueues \/ OtherProcesses \/ ObserveReplica
  BY <1>6, <1>n, <1>u DEF ScanEnqueues, OtherProcesses, ObserveReplica
<1>7. CASE UNCHANGED vars BY <1>7, <1>n, <1>u DEF vars
<1> QED BY <1>3, <1>4, <1>5, <1>6, <1>7 DEF Next

-----------------------------------------------------------------------------
(* q is a queue some frames were lost from, p the queue before. *)
Sub(q, p) ==
    \E f \in [Nat -> Nat] : \A i \in 1 .. Len(q) :
        /\ f[i] \in 1 .. Len(p) /\ p[f[i]] = q[i]
        /\ \A k \in 1 .. Len(q) : i < k => f[i] < f[k]

(* What a step does to the frames in flight: those about t are still in the *)
(* order they were in, some may be gone.                                    *)
From(q, p, t, ops) ==
    \E f \in [Nat -> Nat] : \A i \in 1 .. Len(q) : q[i].op \in ops /\ q[i].t = t =>
        /\ f[i] \in 1 .. Len(p) /\ p[f[i]] = q[i]
        /\ \A k \in 1 .. Len(q) : i < k /\ q[k].op \in ops /\ q[k].t = t => f[i] < f[k]

Carried(R, Q, t, ops) == \A n \in Nodes : From(R[n], Q[n], t, ops)

LEMMA SubSame ==
    ASSUME NEW S, NEW q \in Seq(S)
    PROVE  Sub(q, q)
<1> DEFINE f == [i \in Nat |-> i]
<1>1. f \in [Nat -> Nat] /\ \A i \in 1 .. Len(q) : f[i] = i OBVIOUS
<1> HIDE DEF f
<1> QED BY <1>1 DEF Sub

LEMMA SubTail ==
    ASSUME NEW S, NEW q \in Seq(S), q # <<>>
    PROVE  Sub(Tail(q), q)
<1> DEFINE f == [i \in Nat |-> i + 1]  p == Tail(q)
<1>1. f \in [Nat -> Nat] /\ \A i \in Nat : f[i] = i + 1 OBVIOUS
<1>2. /\ Len(p) \in Nat
      /\ \A i \in 1 .. Len(p) : i + 1 \in 1 .. Len(q) /\ p[i] = q[i + 1]
  BY HeadFrame
<1> HIDE DEF f, p
<1>3. ASSUME NEW i \in 1 .. Len(p) PROVE f[i] \in 1 .. Len(q) /\ q[f[i]] = p[i]
  <2>1. f[i] = i + 1 BY <1>1, <1>2
  <2> QED BY <1>2, <2>1
<1>4. ASSUME NEW i \in 1 .. Len(p), NEW k \in 1 .. Len(p), i < k PROVE f[i] < f[k]
  <2>1. f[i] = i + 1 /\ f[k] = k + 1 /\ i \in Nat /\ k \in Nat BY <1>1, <1>2
  <2> QED BY <1>4, <2>1
<1>5. Sub(p, q) BY <1>1, <1>3, <1>4 DEF Sub
<1> QED BY <1>5 DEF p

LEMMA SubPrefix ==
    ASSUME NEW S, NEW q \in Seq(S), NEW k \in 0 .. Len(q)
    PROVE  Sub(SubSeq(q, 1, k), q)
<1> DEFINE f == [i \in Nat |-> i]  p == SubSeq(q, 1, k)
<1>1. f \in [Nat -> Nat] /\ \A i \in Nat : f[i] = i OBVIOUS
<1>2. Len(p) = k /\ \A i \in 1 .. k : i \in 1 .. Len(q) /\ p[i] = q[i] OBVIOUS
<1> HIDE DEF f, p
<1>3. Sub(p, q) BY <1>1, <1>2 DEF Sub
<1> QED BY <1>3 DEF p

LEMMA Joined ==
    ASSUME NEW S, NEW l \in Seq(S), NEW r \in Seq(S)
    PROVE  /\ Len(l \o r) \in Nat /\ Len(l \o r) = Len(l) + Len(r)
           /\ \A i \in 1 .. Len(l \o r) : i <= Len(l) => (l \o r)[i] = l[i]
           /\ \A i \in 1 .. Len(l \o r) : ~(i <= Len(l)) => (l \o r)[i] = r[i - Len(l)]
OBVIOUS

LEMMA SubCut ==
    ASSUME NEW S, NEW q \in Seq(S), NEW a \in 0 .. Len(q), NEW b \in a .. Len(q)
    PROVE  Sub(SubSeq(q, 1, a) \o SubSeq(q, b + 1, Len(q)), q)
<1> DEFINE f == [i \in Nat |-> IF i <= a THEN i ELSE i + (b - a)]
           l == SubSeq(q, 1, a)  r == SubSeq(q, b + 1, Len(q))
           p == l \o r
<1>0. a \in Nat /\ b \in Nat /\ a <= b /\ Len(q) \in Nat OBVIOUS
<1>1. /\ f \in [Nat -> Nat]
      /\ \A i \in Nat : f[i] = IF i <= a THEN i ELSE i + (b - a)
  BY <1>0
<1>2. /\ l \in Seq(S) /\ Len(l) = a
      /\ \A i \in 1 .. a : l[i] = q[i]
  OBVIOUS
<1>3. /\ r \in Seq(S) /\ Len(r) = Len(q) - b
      /\ \A i \in 1 .. Len(r) : r[i] = q[i + b]
  OBVIOUS
<1> HIDE DEF f, l, r
<1>4. /\ Len(p) \in Nat /\ Len(p) = Len(l) + Len(r)
      /\ \A i \in 1 .. Len(p) : i <= Len(l) => p[i] = l[i]
      /\ \A i \in 1 .. Len(p) : ~(i <= Len(l)) => p[i] = r[i - Len(l)]
  BY <1>2, <1>3, Joined
<1> HIDE DEF p
<1>5. ASSUME NEW i \in 1 .. Len(p) PROVE f[i] \in 1 .. Len(q) /\ q[f[i]] = p[i]
  <2>0. i \in Nat /\ 1 <= i /\ i <= a + (Len(q) - b) BY <1>0, <1>2, <1>3, <1>4
  <2>1. CASE i <= a
    <3>1. f[i] = i /\ p[i] = l[i] /\ l[i] = q[i] BY <1>0, <1>1, <1>2, <1>4, <2>0, <2>1
    <3> QED BY <1>0, <2>0, <2>1, <3>1
  <2>2. CASE ~(i <= a)
    <3>1. i - a \in 1 .. Len(r) BY <1>0, <1>3, <2>0, <2>2
    <3>2. p[i] = r[i - a] BY <1>2, <1>4, <2>2
    <3>3. r[i - a] = q[i - a + b] BY <1>3, <3>1
    <3>4. f[i] = i + (b - a) BY <1>1, <2>0, <2>2
    <3>5. i - a + b = i + (b - a) BY <1>0, <2>0
    <3> QED BY <1>0, <2>0, <2>2, <3>2, <3>3, <3>4, <3>5
  <2> QED BY <2>1, <2>2
<1>6. \A i, k \in 1 .. Len(p) : i < k => f[i] < f[k]
  <2> SUFFICES ASSUME NEW i \in 1 .. Len(p), NEW k \in 1 .. Len(p), i < k
               PROVE  f[i] < f[k]
    OBVIOUS
  <2>1. i \in Nat /\ k \in Nat BY <1>4
  <2>2. f[i] = (IF i <= a THEN i ELSE i + (b - a)) /\ f[k] = (IF k <= a THEN k ELSE k + (b - a))
    BY <1>1, <2>1
  <2> QED BY <1>0, <2>1, <2>2
<1>7. Sub(p, q) BY <1>1, <1>5, <1>6 DEF Sub
<1> QED BY <1>7 DEF p, l, r

LEMMA SubFrom ==
    ASSUME NEW q, NEW p, NEW t, NEW ops, Sub(q, p)
    PROVE  From(q, p, t, ops)
BY DEF Sub, From

LEMMA FromSame ==
    ASSUME NEW S, NEW q \in Seq(S), NEW t, NEW ops
    PROVE  From(q, q, t, ops)
BY SubSame, SubFrom

LEMMA FromTail ==
    ASSUME NEW S, NEW q \in Seq(S), q # <<>>, NEW t, NEW ops
    PROVE  From(Tail(q), q, t, ops)
BY SubTail, SubFrom

LEMMA FromPrefix ==
    ASSUME NEW S, NEW q \in Seq(S), NEW k \in 0 .. Len(q), NEW t, NEW ops
    PROVE  From(SubSeq(q, 1, k), q, t, ops)
BY SubPrefix, SubFrom

LEMMA FromCut ==
    ASSUME NEW S, NEW q \in Seq(S), NEW a \in 0 .. Len(q), NEW b \in a .. Len(q), NEW t, NEW ops
    PROVE  From(SubSeq(q, 1, a) \o SubSeq(q, b + 1, Len(q)), q, t, ops)
BY SubCut, SubFrom

LEMMA FromPush ==
    ASSUME NEW S, NEW q \in Seq(S), NEW ms \in Seq(S), NEW t, NEW ops,
           \A i \in 1 .. Len(ms) : ~(ms[i].op \in ops /\ ms[i].t = t)
    PROVE  From(q \o ms, q, t, ops)
<1> DEFINE f == [i \in Nat |-> i]  p == q \o ms
<1>1. f \in [Nat -> Nat] /\ \A i \in Nat : f[i] = i OBVIOUS
<1>2. /\ Len(q) \in Nat /\ Len(p) \in Nat
      /\ \A i \in 1 .. Len(p) : i \in 1 .. Len(q) \/ i - Len(q) \in 1 .. Len(ms)
      /\ \A i \in 1 .. Len(p) : i \in 1 .. Len(q) => p[i] = q[i]
      /\ \A i \in 1 .. Len(p) : i \notin 1 .. Len(q) => p[i] = ms[i - Len(q)]
  OBVIOUS
<1> HIDE DEF f, p
<1>3. From(p, q, t, ops) BY <1>1, <1>2, SMTT(40) DEF From
<1> QED BY <1>3 DEF p

LEMMA FromFewer ==
    ASSUME NEW q, NEW p, NEW t, NEW ops, NEW fewer \in SUBSET ops, From(q, p, t, ops)
    PROVE  From(q, p, t, fewer)
BY DEF From

LEMMA CarriedSame ==
    ASSUME NEW S, NEW Q \in [Nodes -> Seq(S)], NEW t, NEW ops
    PROVE  Carried(Q, Q, t, ops)
BY FromSame DEF Carried

LEMMA CarriedOne ==
    ASSUME NEW S, NEW Q \in [Nodes -> Seq(S)], NEW n, NEW q, NEW t, NEW ops,
           From(q, Q[n], t, ops)
    PROVE  Carried([Q EXCEPT ![n] = q], Q, t, ops)
<1> SUFFICES ASSUME NEW m \in Nodes PROVE From([Q EXCEPT ![n] = q][m], Q[m], t, ops)
  BY DEF Carried
<1>1. [Q EXCEPT ![n] = q][m] = IF m = n THEN q ELSE Q[m] OBVIOUS
<1> QED BY <1>1, FromSame

LEMMA CarriedTail ==
    ASSUME NEW S, NEW Q \in [Nodes -> Seq(S)], NEW n \in Nodes, Q[n] # <<>>, NEW t, NEW ops
    PROVE  Carried([Q EXCEPT ![n] = Tail(@)], Q, t, ops)
<1>1. From(Tail(Q[n]), Q[n], t, ops) BY FromTail
<1> QED BY <1>1, CarriedOne

LEMMA CarriedPush ==
    ASSUME NEW S, NEW Q \in [Nodes -> Seq(S)], NEW n \in Nodes, NEW ms \in Seq(S), NEW t, NEW ops,
           \A i \in 1 .. Len(ms) : ~(ms[i].op \in ops /\ ms[i].t = t)
    PROVE  Carried([Q EXCEPT ![n] = @ \o ms], Q, t, ops)
<1>1. From(Q[n] \o ms, Q[n], t, ops) BY FromPush
<1> QED BY <1>1, CarriedOne

(* The frames of t stay one frame. *)
LEMMA DriverKept ==
    ASSUME NEW t, OneDriver(t),
           toNode' \in [Nodes -> Seq(ToNode)], toServer' \in [Nodes -> Seq(ToServer)],
           Carried(toNode', toNode, t, Chain), Carried(toServer', toServer, t, Chain)
    PROVE  OneDriver(t)'
<1>0. \A n \in Nodes : Len(toNode'[n]) \in Nat /\ Len(toServer'[n]) \in Nat OBVIOUS
<1>1. ASSUME NEW n \in Nodes
      PROVE  \E f \in [Nat -> Nat] : \A i \in 1 .. Len(toNode'[n]) : Drives(toNode'[n][i], t) =>
               /\ f[i] \in 1 .. Len(toNode[n]) /\ Drives(toNode[n][f[i]], t)
               /\ \A k \in 1 .. Len(toNode'[n]) : i < k /\ Drives(toNode'[n][k], t) => f[i] < f[k]
  <2>1. From(toNode'[n], toNode[n], t, Chain) BY DEF Carried
  <2>2. PICK f \in [Nat -> Nat] : \A i \in 1 .. Len(toNode'[n]) :
           toNode'[n][i].op \in Chain /\ toNode'[n][i].t = t =>
             /\ f[i] \in 1 .. Len(toNode[n]) /\ toNode[n][f[i]] = toNode'[n][i]
             /\ \A k \in 1 .. Len(toNode'[n]) :
                  i < k /\ toNode'[n][k].op \in Chain /\ toNode'[n][k].t = t => f[i] < f[k]
    BY <2>1 DEF From
  <2> WITNESS f \in [Nat -> Nat]
  <2> QED BY <2>2 DEF Drives
<1>2. ASSUME NEW n \in Nodes
      PROVE  \E f \in [Nat -> Nat] : \A i \in 1 .. Len(toServer'[n]) : Drives(toServer'[n][i], t) =>
               /\ f[i] \in 1 .. Len(toServer[n]) /\ Drives(toServer[n][f[i]], t)
               /\ toServer[n][f[i]] = toServer'[n][i]
               /\ \A k \in 1 .. Len(toServer'[n]) : i < k /\ Drives(toServer'[n][k], t) => f[i] < f[k]
  <2>1. From(toServer'[n], toServer[n], t, Chain) BY DEF Carried
  <2>2. PICK f \in [Nat -> Nat] : \A i \in 1 .. Len(toServer'[n]) :
           toServer'[n][i].op \in Chain /\ toServer'[n][i].t = t =>
             /\ f[i] \in 1 .. Len(toServer[n]) /\ toServer[n][f[i]] = toServer'[n][i]
             /\ \A k \in 1 .. Len(toServer'[n]) :
                  i < k /\ toServer'[n][k].op \in Chain /\ toServer'[n][k].t = t => f[i] < f[k]
    BY <2>1 DEF From
  <2> WITNESS f \in [Nat -> Nat]
  <2> QED BY <2>2 DEF Drives
<1>3. ASSUME NEW n \in Nodes, NEW m \in Nodes,
             NEW i \in 1 .. Len(toNode'[n]), NEW k \in 1 .. Len(toNode'[m]),
             Drives(toNode'[n][i], t), Drives(toNode'[m][k], t)
      PROVE  n = m /\ i = k
  <2>1. PICK f \in [Nat -> Nat] : \A x \in 1 .. Len(toNode'[n]) : Drives(toNode'[n][x], t) =>
               /\ f[x] \in 1 .. Len(toNode[n]) /\ Drives(toNode[n][f[x]], t)
               /\ \A y \in 1 .. Len(toNode'[n]) : x < y /\ Drives(toNode'[n][y], t) => f[x] < f[y]
    BY <1>1
  <2>2. \E y \in 1 .. Len(toNode[m]) : Drives(toNode[m][y], t) BY <1>1, <1>3
  <2>3. f[i] \in 1 .. Len(toNode[n]) /\ Drives(toNode[n][f[i]], t) BY <1>3, <2>1
  <2>4. n = m BY <2>2, <2>3 DEF OneDriver
  <2>5. f[k] \in 1 .. Len(toNode[n]) /\ Drives(toNode[n][f[k]], t) BY <1>3, <2>1, <2>4
  <2>6. f[i] = f[k]
    <3>1. \A a, b \in Nodes : \A x \in 1 .. Len(toNode[a]), y \in 1 .. Len(toNode[b]) :
             Drives(toNode[a][x], t) /\ Drives(toNode[b][y], t) => a = b /\ x = y
      BY DEF OneDriver
    <3> QED BY <2>3, <2>5, <3>1
  <2>7. i \in Nat /\ k \in Nat /\ f[i] \in Nat /\ f[k] \in Nat BY <1>0
  <2>8. ASSUME i < k PROVE FALSE
    <3>1. f[i] < f[k] BY <1>3, <2>1, <2>4, <2>8
    <3> QED BY <2>6, <2>7, <3>1
  <2>9. ASSUME k < i PROVE FALSE
    <3>1. f[k] < f[i] BY <1>3, <2>1, <2>4, <2>9
    <3> QED BY <2>6, <2>7, <3>1
  <2> QED BY <2>4, <2>7, <2>8, <2>9
<1>4. ASSUME NEW n \in Nodes, NEW m \in Nodes,
             NEW i \in 1 .. Len(toNode'[n]), NEW k \in 1 .. Len(toServer'[m]),
             Drives(toNode'[n][i], t), Drives(toServer'[m][k], t)
      PROVE  FALSE
  <2>1. \E x \in 1 .. Len(toNode[n]) : Drives(toNode[n][x], t) BY <1>1, <1>4
  <2>2. \E y \in 1 .. Len(toServer[m]) : Drives(toServer[m][y], t) BY <1>2, <1>4
  <2> QED BY <2>1, <2>2 DEF OneDriver
<1>5. ASSUME NEW n \in Nodes, NEW m \in Nodes,
             NEW i \in 1 .. Len(toServer'[n]), NEW k \in 1 .. Len(toServer'[m]),
             Drives(toServer'[n][i], t), Drives(toServer'[m][k], t)
      PROVE  /\ n = m
             /\ i < k => toServer'[n][i].op = "stream" /\ toServer'[n][k].op = "stream_object_end"
  <2>1. PICK f \in [Nat -> Nat] : \A x \in 1 .. Len(toServer'[n]) : Drives(toServer'[n][x], t) =>
               /\ f[x] \in 1 .. Len(toServer[n]) /\ Drives(toServer[n][f[x]], t)
               /\ toServer[n][f[x]] = toServer'[n][x]
               /\ \A y \in 1 .. Len(toServer'[n]) : x < y /\ Drives(toServer'[n][y], t) => f[x] < f[y]
    BY <1>2
  <2>2. \E y \in 1 .. Len(toServer[m]) : Drives(toServer[m][y], t)
    <3>1. PICK g \in [Nat -> Nat] : \A x \in 1 .. Len(toServer'[m]) : Drives(toServer'[m][x], t) =>
               g[x] \in 1 .. Len(toServer[m]) /\ Drives(toServer[m][g[x]], t)
      BY <1>2
    <3> QED BY <1>5, <3>1
  <2>3. /\ f[i] \in 1 .. Len(toServer[n]) /\ Drives(toServer[n][f[i]], t)
        /\ toServer[n][f[i]] = toServer'[n][i]
    BY <1>5, <2>1
  <2>4. n = m BY <2>2, <2>3 DEF OneDriver
  <2>5. /\ f[k] \in 1 .. Len(toServer[n]) /\ Drives(toServer[n][f[k]], t)
        /\ toServer[n][f[k]] = toServer'[n][k]
    BY <1>5, <2>1, <2>4
  <2>6. i < k => f[i] < f[k] BY <1>5, <2>1, <2>4
  <2>7. f[i] < f[k] => toServer[n][f[i]].op = "stream" /\ toServer[n][f[k]].op = "stream_object_end"
    BY <2>3, <2>5 DEF OneDriver
  <2> QED BY <2>3, <2>4, <2>5, <2>6, <2>7
<1>6. \A n, m \in Nodes : \A i \in 1 .. Len(toNode'[n]), k \in 1 .. Len(toNode'[m]) :
         Drives(toNode'[n][i], t) /\ Drives(toNode'[m][k], t) => n = m /\ i = k
  BY <1>3
<1>7. \A n, m \in Nodes : \A i \in 1 .. Len(toNode'[n]), k \in 1 .. Len(toServer'[m]) :
         ~(Drives(toNode'[n][i], t) /\ Drives(toServer'[m][k], t))
  BY <1>4
<1>8. \A n, m \in Nodes : \A i \in 1 .. Len(toServer'[n]), k \in 1 .. Len(toServer'[m]) :
         Drives(toServer'[n][i], t) /\ Drives(toServer'[m][k], t) =>
            /\ n = m
            /\ i < k => toServer'[n][i].op = "stream" /\ toServer'[n][k].op = "stream_object_end"
  BY <1>5
<1> QED BY <1>6, <1>7, <1>8, Zenon DEF OneDriver

-----------------------------------------------------------------------------
(* What a handler may do to the frames.  Those of every transfer but u stay *)
(* as they were, and no frame names a transfer nobody has started.          *)
Calm(R, Q, u) ==
    \A t \in Transfers \ {u} :
        Carried(R, Q, t, Chain) /\ (Unused(t)' => Carried(R, Q, t, Named))

NodeCalm(u) == Calm(toNode', toNode, u)
ServerCalm(u) == Calm(toServer', toServer, u)

(* No frame of a family drives t. *)
Free(Q, t) == \A n \in Nodes : \A i \in 1 .. Len(Q[n]) : ~Drives(Q[n][i], t)

(* Of the frames that drive t one of ops is left, or none. *)
Handed(t, ops) ==
    /\ OneDriver(t)' /\ ~Unused(t)'
    /\ \A n \in Nodes :
         /\ \A i \in 1 .. Len(toNode'[n]) : Drives(toNode'[n][i], t) => toNode'[n][i].op \in ops
         /\ \A i \in 1 .. Len(toServer'[n]) : Drives(toServer'[n][i], t) => toServer'[n][i].op \in ops

(* A context that waits for any of ops, about t. *)
Awaits(c, t, ops) == c.transfer = t /\ \A op \in ops : c.phase \in Awaited[op]

LEMMA ChainNamed == Chain \in SUBSET Named
BY DEF Named

LEMMA FrameTypes ==
    ASSUME TypeOK
    PROVE  toNode \in [Nodes -> Seq(ToNode)] /\ toServer \in [Nodes -> Seq(ToServer)]
BY DEF TypeOK

LEMMA CalmSame ==
    ASSUME NEW S, NEW Q \in [Nodes -> Seq(S)], NEW u
    PROVE  Calm(Q, Q, u)
BY CarriedSame DEF Calm

LEMMA CalmTail ==
    ASSUME NEW S, NEW Q \in [Nodes -> Seq(S)], NEW n \in Nodes, Q[n] # <<>>, NEW u
    PROVE  Calm([Q EXCEPT ![n] = Tail(@)], Q, u)
BY CarriedTail DEF Calm

LEMMA CalmPush ==
    ASSUME NEW S, NEW Q \in [Nodes -> Seq(S)], NEW n \in Nodes, NEW ms \in Seq(S), NEW u,
           \A i \in 1 .. Len(ms) : ms[i].op \in Named =>
               \/ ms[i].t = u
               \/ ms[i].op \notin Chain /\ ~Unused(ms[i].t)'
    PROVE  Calm([Q EXCEPT ![n] = @ \o ms], Q, u)
<1> DEFINE R == [Q EXCEPT ![n] = @ \o ms]
<1>1. ASSUME NEW t \in Transfers \ {u} PROVE Carried(R, Q, t, Chain)
  <2>1. \A i \in 1 .. Len(ms) : ~(ms[i].op \in Chain /\ ms[i].t = t) BY ChainNamed
  <2> QED BY <2>1, CarriedPush
<1>2. ASSUME NEW t \in Transfers \ {u}, Unused(t)' PROVE Carried(R, Q, t, Named)
  <2>1. \A i \in 1 .. Len(ms) : ~(ms[i].op \in Named /\ ms[i].t = t)
    <3> SUFFICES ASSUME NEW i \in 1 .. Len(ms), ms[i].op \in Named, ms[i].t = t PROVE FALSE
      OBVIOUS
    <3>1. ~Unused(ms[i].t)' OBVIOUS
    <3> QED BY <1>2, <3>1
  <2> QED BY <2>1, CarriedPush
<1> HIDE DEF R
<1>3. Calm(R, Q, u) BY <1>1, <1>2 DEF Calm
<1> QED BY <1>3 DEF R

(* One frame of a used transfer is sent to a node. *)
LEMMA NodeSent ==
    ASSUME TypeOK, NEW n, NEW m \in ToNode, NEW u, toNode' = Sent(n, <<m>>),
           m.op \in Named => \/ m.t = u
                             \/ m.op \notin Chain /\ ~Unused(m.t)'
    PROVE  NodeCalm(u)
<1> DEFINE ms == <<m>>
<1>1. ms \in Seq(ToNode) /\ Len(ms) = 1 /\ ms[1] = m OBVIOUS
<1>2. toNode' = [toNode EXCEPT ![n] = @ \o ms] BY DEF Sent
<1> HIDE DEF ms
<1>3. \A i \in 1 .. Len(ms) : ms[i] = m BY <1>1
<1>4. CASE n \in Nodes
  <2>1. Calm([toNode EXCEPT ![n] = @ \o ms], toNode, u) BY <1>1, <1>3, <1>4, FrameTypes, CalmPush
  <2> QED BY <1>2, <2>1 DEF NodeCalm
<1>5. CASE n \notin Nodes
  <2>1. toNode' = toNode BY <1>2, <1>5, FrameTypes
  <2> QED BY <2>1, FrameTypes, CalmSame DEF NodeCalm
<1> QED BY <1>4, <1>5

(* An abort names the copy of a context. *)
LEMMA NodeAborted ==
    ASSUME RepairInv, CopiesKept, NEW j \in Jobs, NEW u, toNode' = Aborted(ctx[j])
    PROVE  NodeCalm(u)
<1>1. CASE ctx[j].transfer = None
  BY <1>1, FrameTypes, CalmSame DEF RepairInv, Aborted, NodeCalm
<1>2. CASE ctx[j].transfer # None
  <2>1. PICK t \in Transfers : t = ctx[j].transfer BY <1>2, CtxFacts DEF RepairInv
  <2> DEFINE m == Msg("repair_abort", t)
  <2>2. m \in ToNode BY <2>1, Frames
  <2>3. ~Unused(t)
    <3>1. CtxSound(j) BY DEF RepairInv, CtxInv
    <3>2. ctx[j].phase # "none" BY <1>2, <3>1 DEF CtxSound, CtxEmpty
    <3>3. transfer[t].node = ctx[j].target /\ ctx[j].target # None
      BY <1>2, <2>1, <3>1, <3>2 DEF CtxSound, CtxRows
    <3> QED BY <3>3 DEF Unused
  <2>4. ~Unused(t)'
    <3>1. transfer'[t].node = transfer[t].node BY <2>1, <2>3 DEF CopiesKept
    <3> QED BY <2>3, <3>1 DEF Unused
  <2>5. m.op = "repair_abort" /\ m.t = t BY DEF Msg
  <2>6. toNode' = Sent(ctx[j].target, <<m>>) BY <1>2, <2>1 DEF Aborted
  <2>7. m.op \notin Chain BY <2>5 DEF Chain
  <2> HIDE DEF m
  <2>8. TypeOK BY DEF RepairInv
  <2> QED BY <2>2, <2>4, <2>5, <2>6, <2>7, <2>8, NodeSent
<1> QED BY <1>1, <1>2

LEMMA ServerPopped ==
    ASSUME TypeOK, NEW n \in Nodes, NEW op, Receive(n, op), NEW u
    PROVE  ServerCalm(u)
BY FrameTypes, CalmTail DEF Receive, ServerCalm

LEMMA ServerSame ==
    ASSUME TypeOK, UNCHANGED toServer, NEW u
    PROVE  ServerCalm(u)
BY FrameTypes, CalmSame DEF ServerCalm

LEMMA NodeSame ==
    ASSUME TypeOK, UNCHANGED toNode, NEW u
    PROVE  NodeCalm(u)
BY FrameTypes, CalmSame DEF NodeCalm

LEMMA NodePopped ==
    ASSUME TypeOK, NEW n \in Nodes, NEW op, NodeReceive(n, op), NEW u
    PROVE  NodeCalm(u)
BY FrameTypes, CalmTail DEF NodeReceive, NodeCalm

LEMMA ServerReplied ==
    ASSUME TypeOK, NEW n \in Nodes, NEW ms \in Seq(ToServer), Replied(n, ms), NEW u,
           \A i \in 1 .. Len(ms) : ms[i].op \in Named =>
               \/ ms[i].t = u
               \/ ms[i].op \notin Chain /\ ~Unused(ms[i].t)'
    PROVE  ServerCalm(u)
BY FrameTypes, CalmPush DEF Replied, ServerCalm

LEMMA CarriedFrom ==
    ASSUME NEW R, NEW Q, NEW t, NEW ops, Carried(R, Q, t, ops), NEW n \in Nodes,
           NEW i \in 1 .. Len(R[n]), R[n][i].op \in ops, R[n][i].t = t
    PROVE  \E k \in 1 .. Len(Q[n]) : Q[n][k] = R[n][i]
<1>1. From(R[n], Q[n], t, ops) BY DEF Carried
<1> QED BY <1>1 DEF From

(* The frames keep to the order of the copies: the step hands the copy of u *)
(* on and leaves the others alone.                                          *)
LEMMA FramesStay ==
    ASSUME RepairInv, CopiesKept, TypeOK', NEW u \in Transfers \cup {None}, NEW ops,
           NodeCalm(u), ServerCalm(u), u \in Transfers => Handed(u, ops),
           \A j \in Jobs : Live(ctx'[j]) =>
              \/ u \in Transfers /\ Awaits(ctx'[j], u, ops)
              \/ ctx'[j].transfer # u /\ Live(ctx[j])
                 /\ ctx'[j].transfer = ctx[j].transfer /\ ctx'[j].phase = ctx[j].phase
    PROVE  FrameInv'
<1>0. FrameInv BY DEF RepairInv
<1>1. ASSUME NEW t \in Transfers PROVE OneDriver(t)'
  <2>1. CASE t = u
    <3>1. Handed(u, ops) BY <2>1
    <3>2. OneDriver(u)' BY <3>1 DEF Handed
    <3> QED BY <2>1, <3>2
  <2>2. CASE t # u
    <3>1. Carried(toNode', toNode, t, Chain) /\ Carried(toServer', toServer, t, Chain)
      BY <2>2 DEF NodeCalm, ServerCalm, Calm
    <3>2. toNode' \in [Nodes -> Seq(ToNode)] /\ toServer' \in [Nodes -> Seq(ToServer)]
      BY DEF TypeOK
    <3>3. OneDriver(t) BY <1>0 DEF FrameInv
    <3> QED BY <3>1, <3>2, <3>3, DriverKept
  <2> QED BY <2>1, <2>2
<1>2. ASSUME NEW t \in Transfers, Unused(t)' PROVE Fresh(t)'
  <2>1. t # u
    <3> SUFFICES ASSUME t = u PROVE FALSE OBVIOUS
    <3>1. ~Unused(u)' BY DEF Handed
    <3> QED BY <1>2, <3>1
  <2>2. Unused(t) BY <1>2 DEF CopiesKept, Unused
  <2>3. Carried(toNode', toNode, t, Named) /\ Carried(toServer', toServer, t, Named)
    BY <1>2, <2>1 DEF NodeCalm, ServerCalm, Calm
  <2>4. \A n \in Nodes : /\ \A i \in 1 .. Len(toNode[n]) : ~Names(toNode[n][i], t)
                         /\ \A i \in 1 .. Len(toServer[n]) : ~Names(toServer[n][i], t)
    BY <1>0, <2>2 DEF FrameInv, Fresh
  <2>5. ASSUME NEW n \in Nodes, NEW i \in 1 .. Len(toNode'[n]), Names(toNode'[n][i], t)
        PROVE  FALSE
    <3>1. \E k \in 1 .. Len(toNode[n]) : toNode[n][k] = toNode'[n][i]
      BY <2>3, <2>5, CarriedFrom DEF Names
    <3> QED BY <2>4, <2>5, <3>1 DEF Names
  <2>6. ASSUME NEW n \in Nodes, NEW i \in 1 .. Len(toServer'[n]), Names(toServer'[n][i], t)
        PROVE  FALSE
    <3>1. \E k \in 1 .. Len(toServer[n]) : toServer[n][k] = toServer'[n][i]
      BY <2>3, <2>6, CarriedFrom DEF Names
    <3> QED BY <2>4, <2>6, <3>1 DEF Names
  <2> QED BY <2>5, <2>6 DEF Fresh
<1>3. ASSUME NEW j \in Jobs, Live(ctx'[j]) PROVE InPhase(j)'
  <2>1. CASE u \in Transfers /\ Awaits(ctx'[j], u, ops)
    <3>1. \A n \in Nodes :
            /\ \A i \in 1 .. Len(toNode'[n]) : Drives(toNode'[n][i], u) => toNode'[n][i].op \in ops
            /\ \A i \in 1 .. Len(toServer'[n]) :
                 Drives(toServer'[n][i], u) => toServer'[n][i].op \in ops
      BY <2>1 DEF Handed
    <3> QED BY <2>1, <3>1 DEF InPhase, Awaits
  <2>2. CASE ctx'[j].transfer # u /\ Live(ctx[j])
             /\ ctx'[j].transfer = ctx[j].transfer /\ ctx'[j].phase = ctx[j].phase
    <3>1. PICK t \in Transfers \ {u} : t = ctx[j].transfer /\ t = ctx'[j].transfer
      <4>1. ctx[j].transfer # None BY <2>2 DEF RepairInv, CtxInv, CtxSound, CtxEmpty
      <4> QED BY <2>2, <4>1, CtxFacts DEF RepairInv
    <3>2. Carried(toNode', toNode, t, Chain) /\ Carried(toServer', toServer, t, Chain)
      BY <3>1 DEF NodeCalm, ServerCalm, Calm
    <3>3. \A n \in Nodes :
            /\ \A i \in 1 .. Len(toNode[n]) : Drives(toNode[n][i], t)
                  => ctx[j].phase \in Awaited[toNode[n][i].op]
            /\ \A i \in 1 .. Len(toServer[n]) : Drives(toServer[n][i], t)
                  => ctx[j].phase \in Awaited[toServer[n][i].op]
      BY <1>0, <2>2, <3>1 DEF FrameInv, InPhase
    <3>4. ASSUME NEW n \in Nodes, NEW i \in 1 .. Len(toNode'[n]), Drives(toNode'[n][i], t)
          PROVE  ctx'[j].phase \in Awaited[toNode'[n][i].op]
      <4>1. PICK k \in 1 .. Len(toNode[n]) : toNode[n][k] = toNode'[n][i]
        BY <3>2, <3>4, CarriedFrom DEF Drives
      <4>2. Drives(toNode[n][k], t) BY <3>4, <4>1
      <4>3. ctx[j].phase \in Awaited[toNode[n][k].op] BY <3>3, <4>2
      <4> QED BY <2>2, <4>1, <4>3
    <3>5. ASSUME NEW n \in Nodes, NEW i \in 1 .. Len(toServer'[n]), Drives(toServer'[n][i], t)
          PROVE  ctx'[j].phase \in Awaited[toServer'[n][i].op]
      <4>1. PICK k \in 1 .. Len(toServer[n]) : toServer[n][k] = toServer'[n][i]
        BY <3>2, <3>5, CarriedFrom DEF Drives
      <4>2. Drives(toServer[n][k], t) BY <3>5, <4>1
      <4>3. ctx[j].phase \in Awaited[toServer[n][k].op] BY <3>3, <4>2
      <4> QED BY <2>2, <4>1, <4>3
    <3> QED BY <3>1, <3>4, <3>5 DEF InPhase
  <2> QED BY <1>3, <2>1, <2>2
<1>4. \A j \in Jobs : InPhase(j)' BY <1>3 DEF InPhase
<1>5. \A t \in Transfers : Fresh(t)' BY <1>2 DEF Fresh
<1> QED BY <1>1, <1>4, <1>5 DEF FrameInv

(* A step that hands no copy on. *)
LEMMA FramesCalm ==
    ASSUME RepairInv, CopiesKept, TypeOK', NodeCalm(None), ServerCalm(None),
           \A j \in Jobs : Live(ctx'[j]) =>
              Live(ctx[j]) /\ ctx'[j].transfer = ctx[j].transfer /\ ctx'[j].phase = ctx[j].phase
    PROVE  FrameInv'
<1>1. ASSUME NEW j \in Jobs, Live(ctx'[j])
      PROVE  ctx'[j].transfer # None
  <2>1. Live(ctx[j]) /\ ctx'[j].transfer = ctx[j].transfer BY <1>1
  <2>2. ctx[j].transfer # None BY <2>1 DEF RepairInv, CtxInv, CtxSound, CtxEmpty
  <2> QED BY <2>1, <2>2
<1>2. None \notin Transfers BY NoneAssumption
<1> QED BY <1>1, <1>2, FramesStay

(* The frame a handler consumes is the only one of its copy, but for the    *)
(* end of the stream after the chunk.                                       *)
LEMMA AloneAtServer ==
    ASSUME TypeOK, NEW t, OneDriver(t), NEW n \in Nodes, toServer[n] # <<>>,
           Drives(Head(toServer[n]), t), toServer' = [toServer EXCEPT ![n] = Tail(@)]
    PROVE  /\ Free(toNode, t)
           /\ Head(toServer[n]).op # "stream" => Free(toServer', t)
           /\ \A m \in Nodes : \A i \in 1 .. Len(toServer'[m]) :
                 Drives(toServer'[m][i], t) => toServer'[m][i].op = "stream_object_end"
<1> DEFINE q == toServer[n]
<1>1. /\ q \in Seq(ToServer) /\ q # <<>> /\ Drives(Head(q), t)
      /\ toServer \in [Nodes -> Seq(ToServer)]
  BY DEF TypeOK
<1> DEFINE r == Tail(q)
<1>r. toServer' = [toServer EXCEPT ![n] = r] OBVIOUS
<1> HIDE DEF q
<1>2. /\ 1 \in 1 .. Len(q) /\ Head(q) = q[1]
      /\ \A i \in 1 .. Len(r) : i + 1 \in 1 .. Len(q) /\ r[i] = q[i + 1]
      /\ Len(r) \in Nat
  BY <1>1, HeadFrame
<1> HIDE DEF r
<1>3. Drives(toServer[n][1], t) /\ 1 \in 1 .. Len(toServer[n]) BY <1>1, <1>2 DEF q
<1>4. Free(toNode, t) BY <1>3 DEF OneDriver, Free
<1>5. ASSUME NEW m \in Nodes, NEW i \in 1 .. Len(toServer'[m]), Drives(toServer'[m][i], t)
      PROVE  q[1].op = "stream" /\ toServer'[m][i].op = "stream_object_end"
  <2>1. CASE m # n
    <3>1. toServer'[m] = toServer[m] BY <1>1, <1>r, <2>1
    <3>2. m = n BY <1>3, <1>5, <3>1 DEF OneDriver
    <3> QED BY <2>1, <3>2
  <2>2. CASE m = n
    <3>1. toServer'[m] = r BY <1>1, <1>r, <2>2
    <3>2. i + 1 \in 1 .. Len(q) /\ r[i] = q[i + 1] /\ 1 < i + 1 BY <1>2, <1>5, <3>1
    <3>3. i + 1 \in 1 .. Len(toServer[n]) /\ Drives(toServer[n][i + 1], t)
      BY <1>5, <3>1, <3>2 DEF q
    <3>4. toServer[n][1].op = "stream" /\ toServer[n][i + 1].op = "stream_object_end"
      BY <1>3, <3>2, <3>3 DEF OneDriver
    <3> QED BY <3>1, <3>2, <3>4 DEF q
  <2> QED BY <2>1, <2>2
<1>6. Head(toServer[n]) = q[1] BY <1>2 DEF q
<1>7. Head(toServer[n]).op # "stream" => Free(toServer', t) BY <1>5, <1>6 DEF Free
<1> QED BY <1>4, <1>5, <1>7

LEMMA AloneAtNode ==
    ASSUME TypeOK, NEW t, OneDriver(t), NEW n \in Nodes, toNode[n] # <<>>,
           Drives(Head(toNode[n]), t), toNode' = [toNode EXCEPT ![n] = Tail(@)]
    PROVE  Free(toNode', t) /\ Free(toServer, t)
<1> DEFINE q == toNode[n]
<1>1. /\ q \in Seq(ToNode) /\ q # <<>> /\ Drives(Head(q), t)
      /\ toNode \in [Nodes -> Seq(ToNode)]
  BY DEF TypeOK
<1> DEFINE r == Tail(q)
<1>r. toNode' = [toNode EXCEPT ![n] = r] OBVIOUS
<1> HIDE DEF q
<1>2. /\ 1 \in 1 .. Len(q) /\ Head(q) = q[1]
      /\ \A i \in 1 .. Len(r) : i + 1 \in 1 .. Len(q) /\ r[i] = q[i + 1]
      /\ Len(r) \in Nat
  BY <1>1, HeadFrame
<1> HIDE DEF r
<1>3. Drives(toNode[n][1], t) /\ 1 \in 1 .. Len(toNode[n]) BY <1>1, <1>2 DEF q
<1>4. Free(toServer, t) BY <1>3 DEF OneDriver, Free
<1>5. ASSUME NEW m \in Nodes, NEW i \in 1 .. Len(toNode'[m]), Drives(toNode'[m][i], t) PROVE FALSE
  <2>1. CASE m # n
    <3>1. toNode'[m] = toNode[m] BY <1>1, <1>r, <2>1
    <3>2. m = n BY <1>3, <1>5, <3>1 DEF OneDriver
    <3> QED BY <2>1, <3>2
  <2>2. CASE m = n
    <3>1. toNode'[m] = r BY <1>1, <1>r, <2>2
    <3>2. i + 1 \in 1 .. Len(q) /\ r[i] = q[i + 1] /\ 1 # i + 1 BY <1>2, <1>5, <3>1
    <3>3. i + 1 \in 1 .. Len(toNode[n]) /\ Drives(toNode[n][i + 1], t)
      BY <1>5, <3>1, <3>2 DEF q
    <3>4. 1 = i + 1 BY <1>3, <3>3 DEF OneDriver
    <3> QED BY <3>2, <3>4
  <2> QED BY <2>1, <2>2
<1>6. Free(toNode', t) BY <1>5 DEF Free
<1> QED BY <1>4, <1>6

(* Where the frames of t are after some were pushed. *)
LEMMA PushedAt ==
    ASSUME NEW S, NEW R \in [Nodes -> Seq(S)], NEW n \in Nodes, NEW ms \in Seq(S), NEW t,
           Free(R, t)
    PROVE  LET Q == [R EXCEPT ![n] = @ \o ms] IN
           \A m \in Nodes : \A i \in 1 .. Len(Q[m]) : Drives(Q[m][i], t) =>
              m = n /\ i - Len(R[n]) \in 1 .. Len(ms) /\ Q[m][i] = ms[i - Len(R[n])]
<1> DEFINE p == R[n] \o ms  Q == [R EXCEPT ![n] = @ \o ms]
<1>1. Q = [R EXCEPT ![n] = p] OBVIOUS
<1>2. /\ Len(R[n]) \in Nat /\ Len(p) \in Nat
      /\ \A i \in 1 .. Len(p) : i \in 1 .. Len(R[n]) \/ i - Len(R[n]) \in 1 .. Len(ms)
      /\ \A i \in 1 .. Len(p) : i \in 1 .. Len(R[n]) => p[i] = R[n][i]
      /\ \A i \in 1 .. Len(p) : i \notin 1 .. Len(R[n]) => p[i] = ms[i - Len(R[n])]
  OBVIOUS
<1> HIDE DEF p, Q
<1> SUFFICES ASSUME NEW m \in Nodes, NEW i \in 1 .. Len(Q[m]), Drives(Q[m][i], t)
             PROVE  m = n /\ i - Len(R[n]) \in 1 .. Len(ms) /\ Q[m][i] = ms[i - Len(R[n])]
  BY DEF Q
<1>3. m = n
  <2> SUFFICES ASSUME m # n PROVE FALSE OBVIOUS
  <2>1. Q[m] = R[m] BY <1>1
  <2> QED BY <2>1 DEF Free
<1>4. Q[n] = p BY <1>1
<1>5. i \notin 1 .. Len(R[n]) BY <1>2, <1>3, <1>4 DEF Free
<1> QED BY <1>2, <1>3, <1>4, <1>5

LEMMA HandedToNode ==
    ASSUME TypeOK, NEW t \in Transfers, ~Unused(t)', NEW n \in Nodes, NEW m \in ToNode,
           toNode' = Sent(n, <<m>>), Free(toNode, t), Free(toServer', t)
    PROVE  Handed(t, {m.op})
<1> DEFINE ms == <<m>>
<1>1. ms \in Seq(ToNode) /\ Len(ms) = 1 /\ ms[1] = m OBVIOUS
<1>2. toNode' = [toNode EXCEPT ![n] = @ \o ms] BY DEF Sent
<1>3. toNode \in [Nodes -> Seq(ToNode)] /\ Len(toNode[n]) \in Nat BY DEF TypeOK
<1> HIDE DEF ms
<1>4. \A k \in Nodes : \A i \in 1 .. Len(toNode'[k]) : Drives(toNode'[k][i], t) =>
        k = n /\ i - Len(toNode[n]) \in 1 .. Len(ms) /\ toNode'[k][i] = ms[i - Len(toNode[n])]
  <2> DEFINE Q == [toNode EXCEPT ![n] = @ \o ms]
  <2>1. \A k \in Nodes : \A i \in 1 .. Len(Q[k]) : Drives(Q[k][i], t) =>
          k = n /\ i - Len(toNode[n]) \in 1 .. Len(ms) /\ Q[k][i] = ms[i - Len(toNode[n])]
    <3>1. ms \in Seq(ToNode) /\ toNode \in [Nodes -> Seq(ToNode)] BY <1>1, <1>3
    <3>2. n \in Nodes /\ Free(toNode, t) OBVIOUS
    <3> QED BY <3>1, <3>2, PushedAt
  <2>2. toNode' = Q BY <1>2
  <2> HIDE DEF Q
  <2> QED BY <2>1, <2>2
<1>5. \A k \in Nodes : \A i \in 1 .. Len(toNode'[k]) : Drives(toNode'[k][i], t) =>
        k = n /\ i = Len(toNode[n]) + 1 /\ toNode'[k][i] = m
  BY <1>1, <1>3, <1>4
<1>6. OneDriver(t)' BY <1>5 DEF OneDriver, Free
<1> QED BY <1>5, <1>6 DEF Handed, Free

LEMMA HandedToServer ==
    ASSUME TypeOK, NEW t \in Transfers, ~Unused(t)', NEW n \in Nodes, NEW ms \in Seq(ToServer),
           Replied(n, ms), Free(toNode', t), Free(toServer, t),
           \A i, k \in 1 .. Len(ms) :
              i < k => ms[i].op = "stream" /\ ms[k].op = "stream_object_end",
           NEW ops, \A i \in 1 .. Len(ms) : ms[i].op \in ops
    PROVE  Handed(t, ops)
<1>3. toServer \in [Nodes -> Seq(ToServer)] /\ Len(toServer[n]) \in Nat BY DEF TypeOK
<1>4. \A k \in Nodes : \A i \in 1 .. Len(toServer'[k]) : Drives(toServer'[k][i], t) =>
        k = n /\ i - Len(toServer[n]) \in 1 .. Len(ms) /\ toServer'[k][i] = ms[i - Len(toServer[n])]
  <2> DEFINE Q == [toServer EXCEPT ![n] = @ \o ms]
  <2>1. \A k \in Nodes : \A i \in 1 .. Len(Q[k]) : Drives(Q[k][i], t) =>
          k = n /\ i - Len(toServer[n]) \in 1 .. Len(ms) /\ Q[k][i] = ms[i - Len(toServer[n])]
    <3>1. ms \in Seq(ToServer) /\ toServer \in [Nodes -> Seq(ToServer)] BY <1>3
    <3>2. n \in Nodes /\ Free(toServer, t) OBVIOUS
    <3> QED BY <3>1, <3>2, PushedAt
  <2>2. toServer' = Q BY DEF Replied
  <2> HIDE DEF Q
  <2> QED BY <2>1, <2>2
<1>5. ASSUME NEW a \in Nodes, NEW b \in Nodes,
             NEW i \in 1 .. Len(toServer'[a]), NEW k \in 1 .. Len(toServer'[b]),
             Drives(toServer'[a][i], t), Drives(toServer'[b][k], t)
      PROVE  /\ a = b
             /\ i < k => toServer'[a][i].op = "stream" /\ toServer'[a][k].op = "stream_object_end"
  <2>1. /\ a = n /\ i - Len(toServer[n]) \in 1 .. Len(ms)
        /\ toServer'[a][i] = ms[i - Len(toServer[n])]
    BY <1>4, <1>5
  <2>2. /\ b = n /\ k - Len(toServer[n]) \in 1 .. Len(ms)
        /\ toServer'[b][k] = ms[k - Len(toServer[n])]
    BY <1>4, <1>5
  <2>3. i < k => i - Len(toServer[n]) < k - Len(toServer[n]) BY <1>3, <1>5
  <2> QED BY <2>1, <2>2, <2>3
<1>6. OneDriver(t)' BY <1>5 DEF OneDriver, Free
<1>7. \A k \in Nodes : \A i \in 1 .. Len(toServer'[k]) :
         Drives(toServer'[k][i], t) => toServer'[k][i].op \in ops
  BY <1>4
<1> QED BY <1>6, <1>7 DEF Handed, Free

LEMMA HandedNothing ==
    ASSUME NEW t, ~Unused(t)', Free(toNode', t), Free(toServer', t)
    PROVE  Handed(t, {})
<1>1. OneDriver(t)' BY DEF OneDriver, Free
<1> QED BY <1>1 DEF Handed, Free

LEMMA LostFrames ==
    ASSUME TypeOK, NEW n \in Nodes, NEW restart, LoseConnection(n, restart), NEW u
    PROVE  NodeCalm(u) /\ ServerCalm(u)
<1>1. toNode[n] \in Seq(ToNode) /\ toServer[n] \in Seq(ToServer) BY DEF TypeOK
<1>2. NodeCalm(u)
  <2>1. PICK k \in 0 .. Len(toNode[n]) : toNode' = [toNode EXCEPT ![n] = SubSeq(@, 1, k)]
    BY DEF LoseConnection
  <2> DEFINE q == SubSeq(toNode[n], 1, k)
  <2>2. toNode' = [toNode EXCEPT ![n] = q] BY <2>1
  <2>3. \A t, ops : From(q, toNode[n], t, ops) BY <1>1, FromPrefix
  <2> HIDE DEF q
  <2>4. \A t, ops : Carried(toNode', toNode, t, ops) BY <2>2, <2>3, FrameTypes, CarriedOne
  <2> QED BY <2>4 DEF NodeCalm, Calm
<1>3. ServerCalm(u)
  <2>1. PICK i \in 0 .. Len(toServer[n]) : \E k \in i .. Len(toServer[n]) :
          toServer' = [toServer EXCEPT ![n] = SubSeq(@, 1, i) \o SubSeq(@, k + 1, Len(@))]
    BY DEF LoseConnection
  <2>2. PICK k \in i .. Len(toServer[n]) :
          toServer' = [toServer EXCEPT ![n] = SubSeq(@, 1, i) \o SubSeq(@, k + 1, Len(@))]
    BY <2>1
  <2> DEFINE q == SubSeq(toServer[n], 1, i) \o SubSeq(toServer[n], k + 1, Len(toServer[n]))
  <2>3. toServer' = [toServer EXCEPT ![n] = q] BY <2>2
  <2>4. \A t, ops : From(q, toServer[n], t, ops) BY <1>1, FromCut
  <2> HIDE DEF q
  <2>5. \A t, ops : Carried(toServer', toServer, t, ops) BY <2>3, <2>4, FrameTypes, CarriedOne
  <2> QED BY <2>5 DEF ServerCalm, Calm
<1> QED BY <1>2, <1>3

-----------------------------------------------------------------------------
(* The order of the frames, action by action. *)

LEMMA UsedStays ==
    ASSUME CopiesKept, NEW t \in Transfers, ~Unused(t)
    PROVE  ~Unused(t)'
BY DEF CopiesKept, Unused

LEMMA CtxUsed ==
    ASSUME RepairInv, NEW j \in Jobs, NEW t, t = ctx[j].transfer, t # None
    PROVE  /\ t \in Transfers /\ ~Unused(t) /\ ctx[j].phase # "none"
           /\ \A k \in Jobs \ {j} : ctx[k].transfer # t
<1>1. CtxSound(j) BY DEF RepairInv, CtxInv
<1>2. ctx[j].phase # "none" BY <1>1 DEF CtxSound, CtxEmpty
<1>3. transfer[t].node = ctx[j].target /\ ctx[j].target # None
  BY <1>1, <1>2 DEF CtxSound, CtxRows
<1>4. \A k \in Jobs \ {j} : ctx[k].transfer # t BY <1>1 DEF CtxSound, CtxRows
<1> QED BY <1>2, <1>3, <1>4, CtxFacts DEF RepairInv, Unused

LEMMA NodeHeadUsed ==
    ASSUME RepairInv, NEW n \in Nodes, toNode[n] # <<>>, NEW t \in Transfers,
           Head(toNode[n]).op \in Named, Head(toNode[n]).t = t
    PROVE  ~Unused(t)
<1>1. Head(toNode[n]) = toNode[n][1] /\ 1 \in 1 .. Len(toNode[n])
  BY HeadFrame DEF RepairInv, TypeOK
<1>2. Names(toNode[n][1], t) BY <1>1 DEF Names
<1> QED BY <1>1, <1>2 DEF RepairInv, FrameInv, Fresh

LEMMA NodeHeadTyped ==
    ASSUME TypeOK, NEW n \in Nodes, toNode[n] # <<>>, Head(toNode[n]).op \in Named
    PROVE  Head(toNode[n]).t \in Transfers
<1>1. Head(toNode[n]) \in ToNode BY HeadFrame DEF TypeOK
<1> QED BY <1>1 DEF ToNode, Named, Chain

LEMMA ServerHeadTyped ==
    ASSUME TypeOK, NEW n \in Nodes, toServer[n] # <<>>, Head(toServer[n]).op \in Named
    PROVE  Head(toServer[n]).t \in Transfers
<1>1. Head(toServer[n]) \in ToServer BY HeadFrame DEF TypeOK
<1> QED BY <1>1 DEF ToServer, Named, Chain

(* The answer ms to a frame op of t: what waited for op waits for it. *)
Answers(op, t, ms, ops) ==
    /\ \A i, k \in 1 .. Len(ms) :
         i < k => ms[i].op = "stream" /\ ms[k].op = "stream_object_end"
    /\ \A i \in 1 .. Len(ms) : ms[i].op \in ops /\ ms[i].t = t
    /\ \A o \in ops : Awaited[op] \subseteq Awaited[o]

(* A node answers the frame that drives a copy. *)
LEMMA NodeHandsOn ==
    ASSUME RepairInv, CopiesKept, TypeOK', NEW n \in Nodes, NEW op \in Chain, NodeReceive(n, op),
           NEW t, Head(toNode[n]).t = t, NEW ms \in Seq(ToServer), Replied(n, ms),
           NEW ops, Answers(op, t, ms, ops)
    PROVE  FrameInv'
<1>a. /\ \A i, k \in 1 .. Len(ms) :
            i < k => ms[i].op = "stream" /\ ms[k].op = "stream_object_end"
      /\ \A i \in 1 .. Len(ms) : ms[i].op \in ops /\ ms[i].t = t
      /\ \A o \in ops : Awaited[op] \subseteq Awaited[o]
  BY DEF Answers
<1>1. toNode[n] # <<>> /\ Head(toNode[n]).op = op /\ UNCHANGED ctx
      /\ toNode' = [toNode EXCEPT ![n] = Tail(@)]
  BY DEF NodeReceive, memVars
<1>2. TypeOK /\ op \in Named BY DEF RepairInv, Named
<1>3. t \in Transfers BY <1>1, <1>2, NodeHeadTyped
<1>4. ~Unused(t) BY <1>1, <1>2, <1>3, NodeHeadUsed
<1>5. ~Unused(t)' BY <1>3, <1>4, UsedStays
<1>6. OneDriver(t) /\ Drives(Head(toNode[n]), t)
  BY <1>1, <1>3 DEF RepairInv, FrameInv, Drives
<1>7. Free(toNode', t) /\ Free(toServer, t) BY <1>1, <1>2, <1>6, AloneAtNode
<1>8. Handed(t, ops) BY <1>a, <1>2, <1>3, <1>5, <1>7, HandedToServer
<1>9. NodeCalm(t) BY <1>2, NodePopped
<1>10. ServerCalm(t) BY <1>a, <1>2, ServerReplied
<1>11. ASSUME NEW j \in Jobs, Live(ctx[j]), ctx[j].transfer = t
       PROVE  \A o \in ops : ctx[j].phase \in Awaited[o]
  <2>1. Head(toNode[n]) = toNode[n][1] /\ 1 \in 1 .. Len(toNode[n])
    BY <1>1, <1>2, HeadFrame DEF TypeOK
  <2>2. Drives(toNode[n][1], ctx[j].transfer) BY <1>6, <1>11, <2>1
  <2>3. ctx[j].phase \in Awaited[toNode[n][1].op]
    BY <1>11, <2>1, <2>2 DEF RepairInv, FrameInv, InPhase
  <2> QED BY <1>a, <1>1, <2>1, <2>3
<1>12. \A j \in Jobs : Live(ctx'[j]) =>
              \/ t \in Transfers /\ Awaits(ctx'[j], t, ops)
              \/ ctx'[j].transfer # t /\ Live(ctx[j])
                 /\ ctx'[j].transfer = ctx[j].transfer /\ ctx'[j].phase = ctx[j].phase
  BY <1>1, <1>3, <1>11 DEF Awaits
<1> QED BY <1>3, <1>8, <1>9, <1>10, <1>12, FramesStay

(* It answers with one frame: NodeHandsOn and ServerReplied for that case. *)
LEMMA OneFrame ==
    ASSUME NEW S, NEW m \in S
    PROVE  /\ <<m>> \in Seq(S) /\ \A i \in 1 .. Len(<<m>>) : <<m>>[i] = m
           /\ \A i, k \in 1 .. Len(<<m>>) : ~(i < k)
<1> DEFINE ms == <<m>>
<1>1. ms \in Seq(S) /\ Len(ms) = 1 /\ ms[1] = m OBVIOUS
<1> HIDE DEF ms
<1>2. \A i \in 1 .. Len(ms) : i = 1 BY <1>1
<1>3. (\A i \in 1 .. Len(ms) : ms[i] = m) /\ \A i, k \in 1 .. Len(ms) : ~(i < k)
  BY <1>1, <1>2
<1> QED BY <1>1, <1>3 DEF ms

LEMMA NodeAnswers ==
    ASSUME RepairInv, CopiesKept, TypeOK', NEW n \in Nodes, NEW op \in Chain, NodeReceive(n, op),
           NEW m \in ToServer, Replied(n, <<m>>), m.t = Head(toNode[n]).t,
           Awaited[op] \subseteq Awaited[m.op]
    PROVE  FrameInv'
<1> DEFINE ms == <<m>>  ops == {m.op}
<1>1. PICK t : Head(toNode[n]).t = t OBVIOUS
<1>2. /\ ms \in Seq(ToServer)
      /\ \A i \in 1 .. Len(ms) : ms[i] = m
      /\ \A i, k \in 1 .. Len(ms) : ~(i < k)
  BY OneFrame
<1>3. Replied(n, ms) /\ ops = {m.op} OBVIOUS
<1> HIDE DEF ms, ops
<1>4. \A i \in 1 .. Len(ms) : ms[i].op \in ops /\ ms[i].t = t BY <1>1, <1>2, <1>3
<1>5. \A o \in ops : Awaited[op] \subseteq Awaited[o] BY <1>3
<1>6. \A i, k \in 1 .. Len(ms) :
         i < k => ms[i].op = "stream" /\ ms[k].op = "stream_object_end"
  BY <1>2
<1>7. ms \in Seq(ToServer) /\ Replied(n, ms) BY <1>2, <1>3
<1>8. Answers(op, t, ms, ops) BY <1>4, <1>5, <1>6 DEF Answers
<1> QED BY <1>1, <1>7, <1>8, NodeHandsOn

LEMMA NodeReplies ==
    ASSUME RepairInv, CopiesKept, TypeOK', NEW n \in Nodes, NEW op, NodeReceive(n, op),
           NEW m \in ToServer, Replied(n, <<m>>), m.op \notin Chain,
           m.op \in Named => ~Unused(m.t)'
    PROVE  FrameInv'
<1> DEFINE ms == <<m>>
<1>1. ms \in Seq(ToServer) /\ \A i \in 1 .. Len(ms) : ms[i] = m BY OneFrame
<1>2. Replied(n, ms) OBVIOUS
<1> HIDE DEF ms
<1>3. \A i \in 1 .. Len(ms) : ms[i].op \in Named =>
               \/ ms[i].t = None
               \/ ms[i].op \notin Chain /\ ~Unused(ms[i].t)'
  BY <1>1
<1>4. TypeOK BY DEF RepairInv
<1>5. ServerCalm(None) BY <1>1, <1>2, <1>3, <1>4, ServerReplied
<1>6. NodeCalm(None) /\ UNCHANGED ctx BY <1>4, NodePopped DEF NodeReceive, memVars
<1> QED BY <1>5, <1>6, FramesCalm

LEMMA NodeFrames ==
    ASSUME RepairInv, CopiesKept, TypeOK', NEW n \in Nodes, NodeStep(n)
    PROVE  FrameInv'
<1>0. TypeOK BY DEF RepairInv
<1> DEFINE h == Head(toNode[n])
<1>h. toNode[n] # <<>> => h \in ToNode BY <1>0, HeadFrame DEF TypeOK
<1>t. toNode[n] # <<>> /\ h.op \in Named => h.t \in Transfers BY <1>0, NodeHeadTyped
<1>1. CASE NodeStoreObjectBegin(n)
  <2>1. /\ NodeReceive(n, "store_object_begin") /\ toNode[n] # <<>> /\ h.op = "store_object_begin"
        /\ Replied(n, <<Msg("store_object_ready", h.t)>>)
    BY <1>1 DEF NodeStoreObjectBegin, NodeReceive
  <2>2. h.t \in Transfers BY <1>t, <2>1 DEF Named, Chain
  <2>3. PICK m \in ToServer : m = Msg("store_object_ready", h.t) BY <2>2, Frames
  <2>4. m.op = "store_object_ready" /\ m.t = h.t BY <2>3 DEF Msg
  <2>5. Awaited["store_object_begin"] \subseteq Awaited[m.op] /\ "store_object_begin" \in Chain
    BY <2>4 DEF Awaited, Chain
  <2> QED BY <2>1, <2>3, <2>4, <2>5, NodeAnswers
<1>2. CASE NodeStore(n)
  <2>1. NodeReceive(n, "store") /\ UNCHANGED toServer BY <1>2 DEF NodeStore
  <2>2. UNCHANGED ctx BY <2>1 DEF NodeReceive, memVars
  <2> QED BY <1>0, <2>1, <2>2, NodePopped, ServerSame, FramesCalm
<1>3. CASE NodeStoreObjectEnd(n)
  <2>1. /\ NodeReceive(n, "store_object_end") /\ toNode[n] # <<>> /\ h.op = "store_object_end"
    BY <1>3 DEF NodeStoreObjectEnd, NodeReceive
  <2>2. PICK w \in {"store_end_ok", "store_end_error"} : Replied(n, <<Msg(w, h.t)>>)
    BY <1>3 DEF NodeStoreObjectEnd
  <2>3. h.t \in Transfers BY <1>t, <2>1 DEF Named, Chain
  <2>4. PICK m \in ToServer : m = Msg(w, h.t) BY <2>3, Frames
  <2>5. m.op = w /\ m.t = h.t BY <2>4 DEF Msg
  <2>6. Awaited["store_object_end"] \subseteq Awaited[m.op] /\ "store_object_end" \in Chain
    BY <2>5 DEF Awaited, Chain
  <2> QED BY <2>1, <2>2, <2>4, <2>5, <2>6, NodeAnswers
<1>4. CASE NodeRepairAbort(n)
  <2>1. /\ NodeReceive(n, "repair_abort") /\ toNode[n] # <<>> /\ h.op = "repair_abort"
        /\ Replied(n, <<Msg("repair_abort_reply", h.t)>>)
    BY <1>4 DEF NodeRepairAbort, NodeReceive
  <2>2. PICK t \in Transfers : t = h.t BY <1>t, <2>1 DEF Named
  <2>3. ~Unused(t)' BY <2>1, <2>2, NodeHeadUsed, UsedStays DEF Named
  <2>4. PICK m \in ToServer : m = Msg("repair_abort_reply", t) BY Frames
  <2>5. m.op = "repair_abort_reply" /\ m.t = t BY <2>4 DEF Msg
  <2>6. m.op \notin Chain /\ ~Unused(m.t)' BY <2>3, <2>5 DEF Chain
  <2>7. Replied(n, <<m>>) BY <2>1, <2>2, <2>4
  <2> QED BY <2>1, <2>6, <2>7, NodeReplies
<1>5. CASE NodeDeleteObject(n)
  <2>1. /\ NodeReceive(n, "delete_object") /\ toNode[n] # <<>> /\ h.op = "delete_object"
        /\ Replied(n, <<[op |-> "delete_object_reply", o |-> h.o]>>)
    BY <1>5 DEF NodeDeleteObject, NodeReceive
  <2>2. h.o \in Objects BY <1>h, <2>1 DEF ToNode
  <2>3. PICK m \in ToServer : m = [op |-> "delete_object_reply", o |-> h.o] BY <2>2 DEF ToServer
  <2>4. m.op \notin Named BY <2>3 DEF Chain, Named
  <2> QED BY <2>1, <2>3, <2>4, NodeReplies, ChainNamed
<1>6. CASE NodeStreamObjectBegin(n)
  <2>1. /\ NodeReceive(n, "stream_object_begin") /\ toNode[n] # <<>>
        /\ h.op = "stream_object_begin"
    BY <1>6 DEF NodeStreamObjectBegin, NodeReceive
  <2>2. PICK t \in Transfers : t = h.t BY <1>t, <2>1 DEF Named, Chain
  <2>3. "stream_object_begin" \in Chain BY DEF Chain
  <2>4. CASE disk[transfer[h.t].object][n] = None
    <3>1. PICK m \in ToServer : m = Msg("stream_missing", t) BY Frames
    <3>2. m.op = "stream_missing" /\ m.t = t BY <3>1 DEF Msg
    <3>3. Awaited["stream_object_begin"] \subseteq Awaited[m.op] BY <3>2 DEF Awaited
    <3>4. Replied(n, <<m>>) BY <1>6, <2>2, <2>4, <3>1 DEF NodeStreamObjectBegin
    <3> QED BY <2>1, <2>2, <2>3, <3>2, <3>3, <3>4, NodeAnswers
  <2>5. CASE disk[transfer[h.t].object][n] # None
    <3> DEFINE ms == <<Msg("stream", t), Msg("stream_object_end", t)>>
               ops == {"stream", "stream_object_end"}
    <3>1. Msg("stream", t) \in ToServer /\ Msg("stream_object_end", t) \in ToServer BY Frames
    <3>2. ms \in Seq(ToServer) BY <3>1
    <3>3. /\ Len(ms) = 2 /\ ms[1].op = "stream" /\ ms[1].t = t
          /\ ms[2].op = "stream_object_end" /\ ms[2].t = t
      BY DEF Msg
    <3>4. Replied(n, ms) BY <1>6, <2>2, <2>5 DEF NodeStreamObjectBegin
    <3>5. \A o \in ops : Awaited["stream_object_begin"] \subseteq Awaited[o] BY DEF Awaited
    <3>6. "stream" \in ops /\ "stream_object_end" \in ops OBVIOUS
    <3> HIDE DEF ms, ops
    <3>7. \A i \in 1 .. Len(ms) : i = 1 \/ i = 2 BY <3>3
    <3>8. \A i \in 1 .. Len(ms) : ms[i].op \in ops /\ ms[i].t = t BY <3>3, <3>6, <3>7
    <3>9. ASSUME NEW i \in 1 .. Len(ms), NEW k \in 1 .. Len(ms), i < k
          PROVE  ms[i].op = "stream" /\ ms[k].op = "stream_object_end"
      <4>1. i = 1 /\ k = 2 BY <3>7, <3>9
      <4> QED BY <3>3, <4>1
    <3>10. Head(toNode[n]).t = t BY <2>2
    <3>11. \A i, k \in 1 .. Len(ms) :
              i < k => ms[i].op = "stream" /\ ms[k].op = "stream_object_end"
      BY <3>9
    <3>12. Answers("stream_object_begin", t, ms, ops) BY <3>5, <3>8, <3>11 DEF Answers
    <3> HIDE DEF h
    <3> QED BY <2>1, <2>3, <3>2, <3>4, <3>10, <3>12, NodeHandsOn
  <2> QED BY <2>4, <2>5
<1>7. CASE NodeAuditSlice(n)
  <2> DEFINE w == IF disk[job[h.j].object][n] = None THEN "audit_missing" ELSE "audit_ok"
             a == [h EXCEPT !.op = w]
  <2>1. /\ NodeReceive(n, "audit_slice") /\ toNode[n] # <<>> /\ h.op = "audit_slice"
        /\ Replied(n, <<a>>)
    BY <1>7 DEF NodeAuditSlice, NodeReceive
  <2>2. h \in [op : {"audit_slice"}, j : Jobs, event : Transfers \X Nat]
    BY <1>h, <2>1 DEF ToNode
  <2>3. w \in {"audit_ok", "audit_missing"} OBVIOUS
  <2> HIDE DEF h, w
  <2>4. a = [op |-> w, j |-> h.j, event |-> h.event] BY <2>2
  <2>5. a \in ToServer /\ a.op = w BY <2>2, <2>3, <2>4 DEF ToServer
  <2> HIDE DEF a
  <2>6. PICK m \in ToServer : m = a BY <2>5
  <2>7. m.op \notin Named BY <2>3, <2>5, <2>6 DEF Chain, Named
  <2> QED BY <2>1, <2>6, <2>7, NodeReplies, ChainNamed
<1> QED BY <1>1, <1>2, <1>3, <1>4, <1>5, <1>6, <1>7 DEF NodeStep

(* The reply that drives a copy is taken up by its context. *)
LEMMA ReplyTaken ==
    ASSUME RepairInv, CopiesKept, NEW n \in Nodes, NEW op \in Chain, Receive(n, op),
           NEW j \in Jobs, ctx[j].phase # "none", ctx[j].transfer = Head(toServer[n]).t
    PROVE  \E t \in Transfers :
             /\ t = ctx[j].transfer /\ ~Unused(t)' /\ Live(ctx[j])
             /\ OneDriver(t) /\ Drives(Head(toServer[n]), t) /\ Free(toNode, t)
             /\ op # "stream" => Free(toServer', t)
             /\ \A m \in Nodes : \A i \in 1 .. Len(toServer'[m]) :
                   Drives(toServer'[m][i], t) => toServer'[m][i].op = "stream_object_end"
             /\ \A k \in Jobs \ {j} : ctx[k].transfer # t
             /\ ctx[j].phase \in Awaited[op]
<1>1. /\ Idle /\ toServer[n] # <<>> /\ Head(toServer[n]).op = op
      /\ toServer' = [toServer EXCEPT ![n] = Tail(@)]
  BY DEF Receive
<1>2. TypeOK /\ op \in Named BY DEF RepairInv, Named
<1>3. Head(toServer[n]).t \in Transfers BY <1>1, <1>2, ServerHeadTyped
<1>4. PICK t \in Transfers : t = Head(toServer[n]).t BY <1>3
<1>5. t = ctx[j].transfer /\ t # None BY <1>4, NoneAssumption
<1>6. ~Unused(t) /\ \A k \in Jobs \ {j} : ctx[k].transfer # t BY <1>5, CtxUsed
<1>7. ~Unused(t)' BY <1>6, UsedStays
<1>8. OneDriver(t) /\ Drives(Head(toServer[n]), t)
  BY <1>1, <1>4 DEF RepairInv, FrameInv, Drives
<1>9. /\ Free(toNode, t)
      /\ op # "stream" => Free(toServer', t)
      /\ \A m \in Nodes : \A i \in 1 .. Len(toServer'[m]) :
            Drives(toServer'[m][i], t) => toServer'[m][i].op = "stream_object_end"
  BY <1>1, <1>2, <1>8, AloneAtServer
<1>10. Live(ctx[j]) /\ ctx[j].phase \in Awaited[op]
  BY <1>1, <1>4, <1>5, SourceReplyInPhase
<1> WITNESS t \in Transfers
<1> QED BY <1>5, <1>6, <1>7, <1>8, <1>9, <1>10

(* The context of the copy waits for the frame that was sent. *)
LEMMA HandedFrames ==
    ASSUME RepairInv, CopiesKept, TypeOK', NEW j \in Jobs, NEW c, ctx' = [ctx EXCEPT ![j] = c],
           NEW t \in Transfers, NEW ops, Awaits(c, t, ops), Handed(t, ops),
           NodeCalm(t), ServerCalm(t), \A k \in Jobs \ {j} : ctx[k].transfer # t
    PROVE  FrameInv'
<1>1. ASSUME NEW k \in Jobs, Live(ctx'[k])
      PROVE  \/ t \in Transfers /\ Awaits(ctx'[k], t, ops)
             \/ ctx'[k].transfer # t /\ Live(ctx[k])
                /\ ctx'[k].transfer = ctx[k].transfer /\ ctx'[k].phase = ctx[k].phase
  <2>1. ctx'[k] = IF k = j THEN c ELSE ctx[k] BY DEF RepairInv, TypeOK
  <2>2. CASE k = j BY <2>1, <2>2
  <2>3. CASE k # j
    <3>1. ctx'[k] = ctx[k] BY <2>1, <2>3
    <3> QED BY <1>1, <2>3, <3>1
  <2> QED BY <2>2, <2>3
<1> QED BY <1>1, FramesStay

(* It sends the frame that comes next. *)
LEMMA ServerHandsOn ==
    ASSUME RepairInv, CopiesKept, TypeOK', NEW n \in Nodes, NEW op \in Chain \ {"stream"},
           Receive(n, op), NEW j \in Jobs, ctx[j].phase # "none",
           ctx[j].transfer = Head(toServer[n]).t,
           NEW r \in Nodes, NEW m \in ToNode, toNode' = Sent(r, <<m>>), m.t = ctx[j].transfer,
           NEW c, ctx' = [ctx EXCEPT ![j] = c], c.transfer = ctx[j].transfer,
           c.phase \in Awaited[m.op]
    PROVE  FrameInv'
<1>1. TypeOK BY DEF RepairInv
<1>2. PICK t \in Transfers :
        /\ t = ctx[j].transfer /\ ~Unused(t)' /\ Free(toNode, t) /\ Free(toServer', t)
        /\ \A k \in Jobs \ {j} : ctx[k].transfer # t
  BY ReplyTaken
<1>3. Handed(t, {m.op}) BY <1>1, <1>2, HandedToNode
<1>4. NodeCalm(t) BY <1>1, <1>2, NodeSent
<1>5. ServerCalm(t) BY <1>1, ServerPopped
<1> DEFINE ops == {m.op}
<1>6. Awaits(c, t, ops) BY <1>2 DEF Awaits
<1>7. Handed(t, ops) BY <1>3
<1> HIDE DEF ops
<1> QED BY <1>2, <1>4, <1>5, <1>6, <1>7, HandedFrames, ZenonT(60)

(* A context that ends or restarts has its copy aborted. *)
LEMMA AbortedFrames ==
    ASSUME RepairInv, CopiesKept, TypeOK', NEW j \in Jobs, toNode' = Aborted(ctx[j]),
           ServerCalm(None), NEW c, ctx' = [ctx EXCEPT ![j] = c], ~Live(c)
    PROVE  FrameInv'
<1>1. NodeCalm(None) BY NodeAborted
<1>2. ASSUME NEW k \in Jobs, Live(ctx'[k])
      PROVE  Live(ctx[k]) /\ ctx'[k].transfer = ctx[k].transfer /\ ctx'[k].phase = ctx[k].phase
  <2>1. ctx'[k] = IF k = j THEN c ELSE ctx[k] BY DEF RepairInv, TypeOK
  <2> QED BY <1>2, <2>1
<1> QED BY <1>1, <1>2, FramesCalm

LEMMA FailFrames ==
    ASSUME RepairInv, CopiesKept, TypeOK', NEW j \in Jobs, Fail(j), ServerCalm(None)
    PROVE  FrameInv'
<1>1. ~Live(NoCtx) BY DEF Live, NoCtx
<1> QED BY <1>1, AbortedFrames DEF Fail, Discarded

LEMMA RestartFrames ==
    ASSUME RepairInv, CopiesKept, TypeOK', NEW j \in Jobs, NextSource(j), ServerCalm(None)
    PROVE  FrameInv'
<1> DEFINE p == IF ctx[j].tried = ctx[j].sources THEN "failing" ELSE "starting"
           c == [ctx[j] EXCEPT !.source = None, !.phase = p]
<1>1. ctx' = [ctx EXCEPT ![j] = c] /\ toNode' = Aborted(ctx[j]) BY DEF NextSource
<1>2. p \in {"failing", "starting"} OBVIOUS
<1> HIDE DEF p
<1>3. c.phase = p
  <2> DEFINE d == ctx[j]
  <2>1. d \in CtxRow BY CtxFacts DEF RepairInv
  <2> HIDE DEF d
  <2>2. [d EXCEPT !.source = None, !.phase = p].phase = p BY <2>1, CtxSourcePhase
  <2> QED BY <2>2 DEF d
<1> HIDE DEF c
<1>4. ~Live(c) BY <1>2, <1>3 DEF Live
<1> QED BY <1>1, <1>4, AbortedFrames

LEMMA DroppedFrames ==
    ASSUME RepairInv, CopiesKept, TypeOK', UNCHANGED <<ctx, toNode>>, ServerCalm(None)
    PROVE  FrameInv'
<1>1. NodeCalm(None) BY NodeSame DEF RepairInv
<1> QED BY <1>1, FramesCalm

LEMMA AuditFrames ==
    ASSUME RepairInv, CopiesKept, TypeOK', NEW j \in Jobs, NEW decided,
           AuditApplied(j, decided), ServerCalm(None)
    PROVE  FrameInv'
<1>1. CASE UNCHANGED <<ctx, toNode>> BY <1>1, DroppedFrames
<1>2. CASE ctx' = Discarded(j) /\ UNCHANGED toNode
  <2>1. NodeCalm(None) BY <1>2, NodeSame DEF RepairInv
  <2>2. ASSUME NEW k \in Jobs, Live(ctx'[k]) PROVE ctx'[k] = ctx[k]
    <3>1. ctx'[k] = IF k = j THEN NoCtx ELSE ctx[k] BY <1>2 DEF Discarded, RepairInv, TypeOK
    <3> QED BY <2>2, <3>1 DEF Live, NoCtx
  <2> QED BY <2>1, <2>2, FramesCalm
<1>3. CASE ctx' = Discarded(j) /\ toNode' = Aborted(ctx[j])
  <2>1. ~Live(NoCtx) BY DEF Live, NoCtx
  <2> QED BY <1>3, <2>1, AbortedFrames DEF Discarded
<1> QED BY <1>1, <1>2, <1>3 DEF AuditApplied

(* What the context of a reply is. *)
LEMMA ReplyContext ==
    ASSUME NEW n, NEW t, NEW j
    PROVE  /\ j \in TargetCtx(n, t) => j \in Jobs /\ ctx[j].phase # "none" /\ ctx[j].transfer = t
                                       /\ ctx[j].target = n
           /\ j \in SourceCtx(n, t) => j \in Jobs /\ ctx[j].phase # "none" /\ ctx[j].transfer = t
                                       /\ ctx[j].source = n
BY DEF TargetCtx, SourceCtx

LEMMA LiveTarget ==
    ASSUME RepairInv, NEW j \in Jobs, ctx[j].phase # "none"
    PROVE  ctx[j].target \in Nodes
<1>1. CtxSound(j) BY DEF RepairInv, CtxInv
<1> QED BY <1>1, CtxFacts DEF CtxSound, CtxRows, RepairInv

LEMMA StoreReadyFrames ==
    ASSUME RepairInv, CopiesKept, TypeOK', NEW n \in Nodes, StoreObjectReady(n)
    PROVE  FrameInv'
<1> DEFINE t == Head(toServer[n]).t  cs == TargetCtx(n, t)
<1>0. TypeOK /\ Receive(n, "store_object_ready") BY DEF RepairInv, StoreObjectReady
<1>1. ServerCalm(None) BY <1>0, ServerPopped
<1>2. CASE cs = {}
  <2>1. Dropped BY <1>2 DEF StoreObjectReady
  <2> QED BY <1>1, <2>1, DroppedFrames DEF Dropped, memVars
<1>3. CASE cs # {}
  <2>1. PICK j \in cs : \E src \in ctx[j].sources \ ctx[j].tried : BeginNextSource(j, src)
    BY <1>3 DEF StoreObjectReady
  <2>2. j \in Jobs /\ ctx[j].phase # "none" /\ ctx[j].transfer = t BY ReplyContext
  <2>3. PICK src \in ctx[j].sources \ ctx[j].tried : BeginNextSource(j, src) BY <2>1
  <2>4. src \in Nodes BY <1>0, <2>2, CtxFacts
  <2>5. CASE job[j].status \in {"selecting_target", "copying"}
    <3> DEFINE S == ctx[j].tried \cup {src}  d == ctx[j]
               c == [d EXCEPT !.phase = "awaiting_source_ready", !.source = src, !.tried = S]
    <3>1. /\ ctx' = [ctx EXCEPT ![j] = c]
          /\ toNode' = Sent(src, <<Msg("stream_object_begin", t)>>)
      BY <2>2, <2>3, <2>5 DEF BeginNextSource
    <3>2. d \in CtxRow /\ d.transfer = t BY <1>0, <2>2, CtxFacts
    <3> HIDE DEF d, S
    <3>3. c = [phase |-> "awaiting_source_ready", target |-> d.target, transfer |-> d.transfer,
               source |-> src, sources |-> d.sources, tried |-> S]
      BY <3>2, CtxPhaseSourceTried
    <3>4. c.phase = "awaiting_source_ready" /\ c.transfer = t BY <3>2, <3>3
    <3> HIDE DEF c
    <3>5. t \in Transfers BY <1>0, <2>2, ServerHeadTyped DEF Receive, Named, Chain
    <3>6. PICK m \in ToNode : m = Msg("stream_object_begin", t) BY <3>5, Frames
    <3>7. m.t = t /\ m.op = "stream_object_begin" BY <3>6 DEF Msg
    <3>8. c.phase \in Awaited[m.op] BY <3>4, <3>7 DEF Awaited
    <3>9. "store_object_ready" \in Chain \ {"stream"} BY DEF Chain
    <3>10. toNode' = Sent(src, <<m>>) BY <3>1, <3>6
    <3> QED BY <1>0, <2>2, <2>4, <3>1, <3>4, <3>7, <3>8, <3>9, <3>10, ServerHandsOn
  <2>6. CASE job[j].status \notin {"selecting_target", "copying"}
    <3>1. toNode' = Aborted(ctx[j]) /\ ctx' = [ctx EXCEPT ![j] = NoCtx]
      BY <2>3, <2>6 DEF BeginNextSource, Discarded
    <3>2. ~Live(NoCtx) BY DEF Live, NoCtx
    <3> QED BY <1>1, <2>2, <3>1, <3>2, AbortedFrames
  <2> QED BY <2>5, <2>6
<1> QED BY <1>2, <1>3

LEMMA StreamFrames ==
    ASSUME RepairInv, CopiesKept, TypeOK', NEW n \in Nodes, SourceStream(n)
    PROVE  FrameInv'
<1> DEFINE h == Head(toServer[n]).t  cs == SourceCtx(n, h)
<1>0. TypeOK /\ Receive(n, "stream") BY DEF RepairInv, SourceStream
<1>1. \A u : ServerCalm(u) BY <1>0, ServerPopped
<1>2. CASE cs = {}
  <2>1. Dropped BY <1>2 DEF SourceStream
  <2> QED BY <1>1, <2>1, DroppedFrames DEF Dropped, memVars
<1>3. CASE cs # {}
  <2>1. PICK j \in cs : /\ toNode' = Sent(ctx[j].target, <<Msg("store", h)>>)
                        /\ ctx' = [ctx EXCEPT ![j].phase = "copying"]
    BY <1>3 DEF SourceStream
  <2>2. j \in Jobs /\ ctx[j].phase # "none" /\ ctx[j].transfer = h BY ReplyContext
  <2>3. "stream" \in Chain BY DEF Chain
  <2>4. PICK t \in Transfers :
             /\ t = ctx[j].transfer /\ ~Unused(t)' /\ OneDriver(t) /\ Free(toNode, t)
             /\ \A m \in Nodes : \A i \in 1 .. Len(toServer'[m]) :
                   Drives(toServer'[m][i], t) => toServer'[m][i].op = "stream_object_end"
             /\ \A k \in Jobs \ {j} : ctx[k].transfer # t
    BY <1>0, <2>2, <2>3, ReplyTaken
  <2>5. PICK r \in Nodes : r = ctx[j].target BY <2>2, LiveTarget
  <2>6. PICK m \in ToNode : m = Msg("store", t) BY Frames
  <2>7. m.op = "store" /\ m.t = t /\ toNode' = Sent(r, <<m>>) BY <2>1, <2>2, <2>4, <2>5, <2>6 DEF Msg
  <2> DEFINE d == ctx[j]  c == [d EXCEPT !.phase = "copying"]  ops == {"stream_object_end"}
  <2>8. ctx' = [ctx EXCEPT ![j] = c] BY <2>1
  <2>9. Awaits(c, t, ops)
    <3>1. d \in CtxRow /\ d.transfer = t BY <1>0, <2>2, <2>4, CtxFacts
    <3> HIDE DEF d
    <3>2. c.transfer = t /\ c.phase = "copying" BY <3>1 DEF CtxRow
    <3> HIDE DEF c
    <3> QED BY <3>2 DEF Awaits, Awaited
  <2> HIDE DEF c
  <2>10. NodeCalm(t)
    <3>1. m.op \in Named => \/ m.t = t
                            \/ m.op \notin Chain /\ ~Unused(m.t)'
      BY <2>7
    <3> QED BY <1>0, <2>7, <3>1, NodeSent
  <2>11. Handed(t, ops)
    <3>1. Carried(toNode', toNode, t, Chain)
      <4> DEFINE ms == <<m>>
      <4>1. ms \in Seq(ToNode) /\ \A i \in 1 .. Len(ms) : ms[i] = m BY OneFrame
      <4>2. toNode' = [toNode EXCEPT ![r] = @ \o ms] BY <2>7 DEF Sent
      <4> HIDE DEF ms
      <4>3. \A i \in 1 .. Len(ms) : ~(ms[i].op \in Chain /\ ms[i].t = t)
        BY <2>7, <4>1 DEF Chain
      <4> QED BY <1>0, <4>1, <4>2, <4>3, FrameTypes, CarriedPush
    <3>2. toServer' = [toServer EXCEPT ![n] = Tail(@)] /\ toServer[n] # <<>> BY <1>0 DEF Receive
    <3>3. Carried(toServer', toServer, t, Chain) BY <1>0, <3>2, FrameTypes, CarriedTail
    <3>4. OneDriver(t)'
      <4>1. toNode' \in [Nodes -> Seq(ToNode)] /\ toServer' \in [Nodes -> Seq(ToServer)]
        BY DEF TypeOK
      <4> QED BY <2>4, <3>1, <3>3, <4>1, DriverKept
    <3>5. ASSUME NEW k \in Nodes, NEW i \in 1 .. Len(toNode'[k]), Drives(toNode'[k][i], t)
          PROVE  FALSE
      <4>1. \E x \in 1 .. Len(toNode[k]) : toNode[k][x] = toNode'[k][i]
        BY <3>1, <3>5, CarriedFrom DEF Drives
      <4> QED BY <2>4, <3>5, <4>1 DEF Free
    <3> QED BY <2>4, <3>4, <3>5 DEF Handed
  <2>12. ServerCalm(t) /\ \A k \in Jobs \ {j} : ctx[k].transfer # t BY <1>1, <2>4
  <2>13. j \in Jobs BY <2>2
  <2> HIDE DEF ops, d, h, cs
  <2> QED BY <2>8, <2>9, <2>10, <2>11, <2>12, <2>13, HandedFrames
<1> QED BY <1>2, <1>3

LEMMA StreamEndFrames ==
    ASSUME RepairInv, CopiesKept, TypeOK', NEW n \in Nodes, StreamObjectEnd(n)
    PROVE  FrameInv'
<1> DEFINE t == Head(toServer[n]).t  cs == SourceCtx(n, t)
<1>0. TypeOK /\ Receive(n, "stream_object_end") BY DEF RepairInv, StreamObjectEnd
<1>1. ServerCalm(None) BY <1>0, ServerPopped
<1>2. CASE cs = {}
  <2>1. Dropped BY <1>2 DEF StreamObjectEnd
  <2> QED BY <1>1, <2>1, DroppedFrames DEF Dropped, memVars
<1>3. CASE cs # {}
  <2>1. PICK j \in cs :
          \/ /\ toNode' = Sent(ctx[j].target, <<Msg("store_object_end", t)>>)
             /\ ctx' = [ctx EXCEPT ![j].phase = "awaiting_target_commit"]
          \/ RestartFromNextSource(j, "missing")
    BY <1>3 DEF StreamObjectEnd
  <2>2. j \in Jobs /\ ctx[j].phase # "none" /\ ctx[j].transfer = t BY ReplyContext
  <2>3. CASE RestartFromNextSource(j, "missing")
    BY <1>1, <2>2, <2>3, RestartFrames DEF RestartFromNextSource
  <2>4. CASE /\ toNode' = Sent(ctx[j].target, <<Msg("store_object_end", t)>>)
             /\ ctx' = [ctx EXCEPT ![j].phase = "awaiting_target_commit"]
    <3> DEFINE d == ctx[j]  c == [d EXCEPT !.phase = "awaiting_target_commit"]
    <3>1. ctx' = [ctx EXCEPT ![j] = c] BY <2>4
    <3>2. c.transfer = t /\ c.phase = "awaiting_target_commit"
      <4>1. d \in CtxRow /\ d.transfer = t BY <1>0, <2>2, CtxFacts
      <4> HIDE DEF d
      <4> QED BY <4>1 DEF CtxRow
    <3> HIDE DEF c
    <3>3. PICK r \in Nodes : r = ctx[j].target BY <2>2, LiveTarget
    <3>4. t \in Transfers BY <1>0, <2>2, ServerHeadTyped DEF Receive, Named, Chain
    <3>5. PICK m \in ToNode : m = Msg("store_object_end", t) BY <3>4, Frames
    <3>6. m.t = t /\ m.op = "store_object_end" BY <3>5 DEF Msg
    <3>7. c.phase \in Awaited[m.op] BY <3>2, <3>6 DEF Awaited
    <3>8. "stream_object_end" \in Chain \ {"stream"} BY DEF Chain
    <3>9. toNode' = Sent(r, <<m>>) BY <2>4, <3>3, <3>5
    <3> QED BY <1>0, <2>2, <3>1, <3>2, <3>6, <3>7, <3>8, <3>9, ServerHandsOn
  <2> QED BY <2>1, <2>3, <2>4
<1> QED BY <1>2, <1>3

LEMMA StoreEndFrames ==
    ASSUME RepairInv, CopiesKept, TypeOK', NEW n \in Nodes, StoreObjectEndOk(n)
    PROVE  FrameInv'
<1> DEFINE h == Head(toServer[n]).t  cs == TargetCtx(n, h)
<1>0. TypeOK /\ Receive(n, "store_end_ok") BY DEF RepairInv, StoreObjectEndOk
<1>1. \A u : ServerCalm(u) BY <1>0, ServerPopped
<1>2. CASE cs = {}
  <2>1. Dropped BY <1>2 DEF StoreObjectEndOk
  <2> QED BY <1>1, <2>1, DroppedFrames DEF Dropped, memVars
<1>3. CASE cs # {}
  <2>1. PICK j \in cs :
          \/ /\ ctx' = [ctx EXCEPT ![j].phase = "verifying"]
             /\ UNCHANGED toNode
          \/ Fail(j)
    BY <1>3 DEF StoreObjectEndOk
  <2>2. j \in Jobs /\ ctx[j].phase # "none" /\ ctx[j].transfer = h BY ReplyContext
  <2>3. CASE Fail(j) BY <1>1, <2>2, <2>3, FailFrames
  <2>4. CASE ctx' = [ctx EXCEPT ![j].phase = "verifying"] /\ UNCHANGED toNode
    <3> DEFINE d == ctx[j]  c == [d EXCEPT !.phase = "verifying"]  ops == {}
    <3>1. ctx' = [ctx EXCEPT ![j] = c] BY <2>4
    <3>2. "store_end_ok" \in Chain /\ "store_end_ok" # "stream" BY DEF Chain
    <3>3. PICK t \in Transfers :
            /\ t = ctx[j].transfer /\ ~Unused(t)' /\ Free(toNode, t) /\ Free(toServer', t)
            /\ \A k \in Jobs \ {j} : ctx[k].transfer # t
      BY <1>0, <2>2, <3>2, ReplyTaken
    <3>4. c.transfer = t
      <4>1. d \in CtxRow /\ d.transfer = t BY <1>0, <2>2, <3>3, CtxFacts
      <4> HIDE DEF d
      <4> QED BY <4>1 DEF CtxRow
    <3>5. Awaits(c, t, ops) BY <3>4 DEF Awaits
    <3>6. Free(toNode', t) BY <2>4, <3>3 DEF Free
    <3>7. Handed(t, ops) BY <3>3, <3>6, HandedNothing
    <3> HIDE DEF c, ops
    <3>8. NodeCalm(t) BY <1>0, <2>4, NodeSame
    <3> QED BY <1>1, <2>2, <3>1, <3>3, <3>5, <3>7, <3>8, HandedFrames
  <2> QED BY <2>1, <2>3, <2>4
<1> QED BY <1>2, <1>3

LEMMA ReceiveFrames ==
    ASSUME RepairInv, CopiesKept, TypeOK', NEW n \in Nodes, ServerReceives(n)
    PROVE  FrameInv'
<1>0. TypeOK BY DEF RepairInv
<1>1. CASE StreamObjectMissing(n)
  <2>1. Receive(n, "stream_missing") BY <1>1 DEF StreamObjectMissing
  <2>2. ServerCalm(None) BY <1>0, <2>1, ServerPopped
  <2>3. CASE Dropped BY <2>2, <2>3, DroppedFrames DEF Dropped, memVars
  <2>4. CASE ~Dropped
    <3>1. PICK j \in SourceCtx(n, Head(toServer[n]).t) : RestartFromNextSource(j, "missing")
      BY <1>1, <2>4 DEF StreamObjectMissing
    <3>2. j \in Jobs BY ReplyContext
    <3> QED BY <2>2, <3>1, <3>2, RestartFrames DEF RestartFromNextSource
  <2> QED BY <2>3, <2>4
<1>2. CASE StoreObjectEndError(n)
  <2>1. Receive(n, "store_end_error") BY <1>2 DEF StoreObjectEndError
  <2>2. ServerCalm(None) BY <1>0, <2>1, ServerPopped
  <2>3. CASE Dropped BY <2>2, <2>3, DroppedFrames DEF Dropped, memVars
  <2>4. CASE ~Dropped
    <3>1. PICK j \in TargetCtx(n, Head(toServer[n]).t) : Fail(j)
      BY <1>2, <2>4 DEF StoreObjectEndError
    <3>2. j \in Jobs BY ReplyContext
    <3> QED BY <2>2, <3>1, <3>2, FailFrames
  <2> QED BY <2>3, <2>4
<1>3. ASSUME NEW op \in {"audit_ok", "audit_missing"}, AuditReply(n, op) PROVE FrameInv'
  <2>1. Receive(n, op) BY <1>3 DEF AuditReply
  <2>2. ServerCalm(None) BY <1>0, <2>1, ServerPopped
  <2>3. CASE UNCHANGED <<ctx, toNode>> BY <2>2, <2>3, DroppedFrames
  <2>4. CASE ~UNCHANGED <<ctx, toNode>>
    <3>1. PICK j : j = Head(toServer[n]).j OBVIOUS
    <3>2. \E decided \in BOOLEAN : AuditApplied(j, decided)
      <4>1. AuditApplied(j, IF op = "audit_ok" THEN AuditPassed(j) ELSE AuditFailed(j, "missing"))
        BY <1>3, <2>4, <3>1 DEF AuditReply
      <4>2. AuditApplied(j, TRUE) BY <4>1 DEF AuditApplied
      <4> QED BY <4>2
    <3>3. j \in Jobs
      <4>1. Head(toServer[n]) \in ToServer /\ Head(toServer[n]).op = op
        BY <1>0, <2>1, HeadFrame DEF TypeOK, Receive
      <4> QED BY <3>1, <4>1 DEF ToServer
    <3> QED BY <2>2, <3>2, <3>3, AuditFrames
  <2> QED BY <2>3, <2>4
<1>4. CASE RepairAbortReply(n) \/ DeleteObjectReply(n)
  <2>1. PICK op : Receive(n, op) BY <1>4 DEF RepairAbortReply, DeleteObjectReply
  <2>2. UNCHANGED <<ctx, toNode>>
    BY <1>4 DEF RepairAbortReply, DeleteObjectReply, Dropped, memVars
  <2>3. ServerCalm(None) BY <1>0, <2>1, ServerPopped
  <2> QED BY <2>2, <2>3, DroppedFrames
<1> QED BY <1>1, <1>2, <1>3, <1>4, StoreReadyFrames, StreamFrames, StreamEndFrames,
           StoreEndFrames DEF ServerReceives

LEMMA StartFrames ==
    ASSUME RepairInv, CopiesKept, TypeOK', NEW j \in Jobs, StartRepairTarget(j)
    PROVE  FrameInv'
<1>0. TypeOK /\ UNCHANGED toServer BY DEF RepairInv, StartRepairTarget
<1>1. \A u : ServerCalm(u) BY <1>0, ServerSame
<1>p. ctx[j].phase # "none" BY DEF StartRepairTarget
<1>2. CASE ctx' = Discarded(j) /\ UNCHANGED toNode
  <2>1. NodeCalm(None) BY <1>0, <1>2, NodeSame
  <2>2. ASSUME NEW k \in Jobs, Live(ctx'[k]) PROVE ctx'[k] = ctx[k]
    <3>1. ctx'[k] = IF k = j THEN NoCtx ELSE ctx[k] BY <1>0, <1>2 DEF Discarded, TypeOK
    <3> QED BY <2>2, <3>1 DEF Live, NoCtx
  <2> QED BY <1>1, <2>1, <2>2, FramesCalm
<1>3. ASSUME NEW t \in Transfers, TargetStartable(j, ctx[j].target), MarkRepairTargetStarted(j, t),
             toNode' = Sent(ctx[j].target, <<Msg("store_object_begin", t)>>),
             ctx' = [ctx EXCEPT ![j].phase = "awaiting_target_ready", ![j].transfer = t]
      PROVE  FrameInv'
  <2> DEFINE d == ctx[j]  c == [d EXCEPT !.phase = "awaiting_target_ready", !.transfer = t]
             ops == {"store_object_begin"}
  <2>1. PICK r \in Nodes : r = ctx[j].target BY <1>p, LiveTarget
  <2>2. Unused(t) /\ transfer'[t].node = job[j].target
    BY <1>0, <1>3 DEF MarkRepairTargetStarted, TypeOK, DbTypeOK
  <2>3. ~Unused(t)'
    <3>1. job[j].target = r BY <1>3, <2>1 DEF TargetStartable
    <3>2. r # None BY NoneAssumption
    <3> QED BY <2>2, <3>1, <3>2 DEF Unused
  <2>4. Free(toNode, t) /\ Free(toServer, t)
    <3>1. Fresh(t) BY DEF RepairInv, FrameInv
    <3> QED BY <2>2, <3>1 DEF Fresh, Free, Names, Drives, Named
  <2>5. Free(toServer', t) BY <1>0, <2>4 DEF Free
  <2>6. PICK m \in ToNode : m = Msg("store_object_begin", t) BY Frames
  <2>7. m.op = "store_object_begin" /\ m.t = t BY <2>6 DEF Msg
  <2>8. toNode' = Sent(r, <<m>>) BY <1>3, <2>1, <2>6
  <2>9. Handed(t, ops) BY <1>0, <2>3, <2>4, <2>5, <2>7, <2>8, HandedToNode
  <2>10. NodeCalm(t) BY <1>0, <2>7, <2>8, NodeSent
  <2>11. ctx' = [ctx EXCEPT ![j] = c] BY <1>3
  <2>12. Awaits(c, t, ops)
    <3>1. d \in CtxRow BY <1>0, CtxFacts
    <3> HIDE DEF d
    <3>2. c = [phase |-> "awaiting_target_ready", target |-> d.target, transfer |-> t,
               source |-> d.source, sources |-> d.sources, tried |-> d.tried]
      BY <3>1, CtxPhaseTransfer
    <3>3. c.phase = "awaiting_target_ready" /\ c.transfer = t BY <3>2
    <3> HIDE DEF c
    <3> QED BY <3>3 DEF Awaits, Awaited
  <2>13. \A k \in Jobs \ {j} : ctx[k].transfer # t
    <3>1. t # None BY NoneAssumption
    <3> QED BY <2>2, <3>1, CtxUsed
  <2>14. ServerCalm(t) BY <1>1
  <2> HIDE DEF d, c, ops
  <2> QED BY <2>9, <2>10, <2>11, <2>12, <2>13, <2>14, HandedFrames
<1> QED BY <1>2, <1>3 DEF StartRepairTarget

LEMMA PollFrames ==
    ASSUME RepairInv, CopiesKept, TypeOK', NEW j \in Jobs, ServerPolls(j)
    PROVE  FrameInv'
<1>0. TypeOK BY DEF RepairInv
<1>1. CASE EndContext(j)
  <2>1. toNode' = Aborted(ctx[j]) /\ ctx' = [ctx EXCEPT ![j] = NoCtx] /\ UNCHANGED toServer
    BY <1>1 DEF EndContext, Discarded
  <2>2. ServerCalm(None) /\ ~Live(NoCtx) BY <1>0, <2>1, ServerSame DEF Live, NoCtx
  <2> QED BY <2>1, <2>2, AbortedFrames
<1>2. CASE RecoverStale(j) \/ RecoverAudit(j)
  <2>1. UNCHANGED <<ctx, toNode, toServer>> BY <1>2 DEF RecoverStale, RecoverAudit, memVars
  <2>2. ServerCalm(None) BY <1>0, <2>1, ServerSame
  <2> QED BY <2>1, <2>2, DroppedFrames
<1>3. CASE FailLater(j)
  <2>1. Fail(j) /\ UNCHANGED toServer BY <1>3 DEF FailLater
  <2>2. ServerCalm(None) BY <1>0, <2>1, ServerSame
  <2> QED BY <2>1, <2>2, FailFrames
<1>4. CASE RepairTimeout(j)
  <2>1. UNCHANGED toServer /\ (NextSource(j) \/ Fail(j))
    BY <1>4 DEF RepairTimeout, RestartFromNextSource
  <2>2. ServerCalm(None) BY <1>0, <2>1, ServerSame
  <2> QED BY <2>1, <2>2, FailFrames, RestartFrames
<1>5. CASE SendAudit(j)
  <2> DEFINE event == <<job[j].transfer, audit[j].attempts + 1>>
             a == [op |-> "audit_slice", j |-> j, event |-> event]
  <2>1. toNode' = Sent(job[j].target, <<a>>) /\ UNCHANGED <<ctx, toServer>>
    BY <1>5 DEF SendAudit
  <2>2. event \in Transfers \X Nat
    <3>1. job[j].transfer \in Transfers BY <1>5, AuditedRow DEF SendAudit, ClaimAudit, AuditOpen
    <3>2. audit[j].attempts \in Nat BY <1>0 DEF TypeOK, DbTypeOK, AuditRow
    <3> QED BY <3>1, <3>2
  <2> HIDE DEF event
  <2>3. a \in ToNode BY <2>2 DEF ToNode
  <2>4. a.op \notin Named BY DEF Named, Chain
  <2> HIDE DEF a
  <2>5. PICK m \in ToNode : m = a BY <2>3
  <2>6. NodeCalm(None) BY <1>0, <2>1, <2>4, <2>5, NodeSent
  <2>7. ServerCalm(None) BY <1>0, <2>1, ServerSame
  <2> QED BY <2>1, <2>6, <2>7, FramesCalm
<1>6. CASE AuditTimeout(j)
  <2>1. UNCHANGED toServer BY <1>6 DEF AuditTimeout
  <2>2. ServerCalm(None) BY <1>0, <2>1, ServerSame
  <2>3. CASE UNCHANGED <<ctx, toNode>> BY <2>2, <2>3, DroppedFrames
  <2>4. CASE ~UNCHANGED <<ctx, toNode>>
    <3>1. AuditApplied(j, AuditFailed(j, "suspect")) BY <1>6, <2>4 DEF AuditTimeout
    <3>2. AuditApplied(j, TRUE) BY <3>1 DEF AuditApplied
    <3> QED BY <2>2, <3>2, AuditFrames
  <2> QED BY <2>3, <2>4
<1> QED BY <1>1, <1>2, <1>3, <1>4, <1>5, <1>6, StartFrames DEF ServerPolls

LEMMA ServerFrames ==
    ASSUME RepairInv, CopiesKept, TypeOK', Server
    PROVE  FrameInv'
<1>0. TypeOK BY DEF RepairInv
<1>1. ASSUME NEW j \in Jobs, NEW S \in SUBSET Nodes, NEW n \in Nodes, ClaimStart(j, S, n)
      PROVE  FrameInv'
  <2> DEFINE c == [NoCtx EXCEPT !.phase = "starting", !.target = n, !.sources = S]
  <2>1. ctx' = [ctx EXCEPT ![j] = c] /\ UNCHANGED <<toNode, toServer>> BY <1>1 DEF ClaimStart
  <2>2. c.phase = "starting"
    <3>1. c = [phase |-> "starting", target |-> n, transfer |-> None, source |-> None,
               sources |-> S, tried |-> {}]
      BY ClaimedCtx
    <3> QED BY <3>1
  <2> HIDE DEF c
  <2>3. NodeCalm(None) /\ ServerCalm(None) BY <1>0, <2>1, NodeSame, ServerSame
  <2>4. ASSUME NEW k \in Jobs, Live(ctx'[k]) PROVE ctx'[k] = ctx[k]
    <3>1. ctx'[k] = IF k = j THEN c ELSE ctx[k] BY <1>0, <2>1 DEF TypeOK
    <3> QED BY <2>2, <2>4, <3>1 DEF Live
  <2> QED BY <2>3, <2>4, FramesCalm
<1>2. ASSUME NEW j \in Jobs, ClaimSkip(j) PROVE FrameInv'
  <2>1. UNCHANGED <<ctx, toNode, toServer>> BY <1>2 DEF ClaimSkip, memVars
  <2>2. ServerCalm(None) BY <1>0, <2>1, ServerSame
  <2> QED BY <2>1, <2>2, DroppedFrames
<1>3. ASSUME NEW o \in Objects, NEW n \in Nodes, SendGcDelete(o, n) PROVE FrameInv'
  <2>1. /\ toNode' = Sent(n, <<[op |-> "delete_object", o |-> o]>>)
        /\ UNCHANGED <<ctx, toServer>>
    BY <1>3 DEF SendGcDelete, memVars
  <2>2. PICK m \in ToNode : m = [op |-> "delete_object", o |-> o] BY DEF ToNode
  <2>3. m.op \notin Named BY <2>2 DEF Named, Chain
  <2>4. NodeCalm(None) BY <1>0, <2>1, <2>2, <2>3, NodeSent
  <2>5. ServerCalm(None) BY <1>0, <2>1, ServerSame
  <2> QED BY <2>1, <2>4, <2>5, FramesCalm
<1>4. ASSUME NEW t \in Transfers, SendRepairCleanup(t) PROVE FrameInv'
  <2>1. /\ toNode' = Sent(transfer[t].node, <<Msg("repair_abort", t)>>)
        /\ UNCHANGED <<ctx, toServer>>
    BY <1>4 DEF SendRepairCleanup, memVars
  <2>2. ServerCalm(None) BY <1>0, <2>1, ServerSame
  <2>3. CASE Unused(t)
    <3>1. transfer[t].node \notin Nodes BY <2>3, NoneAssumption DEF Unused
    <3>2. toNode' = toNode BY <1>0, <2>1, <3>1 DEF Sent, TypeOK
    <3> QED BY <2>1, <2>2, <3>2, DroppedFrames
  <2>4. CASE ~Unused(t)
    <3>1. PICK m \in ToNode : m = Msg("repair_abort", t) BY Frames
    <3>2. m.op = "repair_abort" /\ m.t = t BY <3>1 DEF Msg
    <3>3. ~Unused(t)' BY <2>4, UsedStays
    <3>4. m.op \notin Chain /\ ~Unused(m.t)' BY <3>2, <3>3 DEF Chain
    <3>5. NodeCalm(None) BY <1>0, <2>1, <3>1, <3>4, NodeSent
    <3> QED BY <2>1, <2>2, <3>5, FramesCalm
  <2> QED BY <2>3, <2>4
<1> QED BY <1>1, <1>2, <1>3, <1>4, ReceiveFrames, PollFrames DEF Server

LEMMA OutsideFrames ==
    ASSUME RepairInv, CopiesKept, TypeOK', "source_failure" \notin DbErrors,
           Faults \/ ScanEnqueues \/ OtherProcesses \/ ObserveReplica
    PROVE  FrameInv'
<1>0. TypeOK BY DEF RepairInv
<1>1. CASE UNCHANGED <<ctx, toNode, toServer>>
  <2>1. ServerCalm(None) BY <1>0, <1>1, ServerSame
  <2> QED BY <1>1, <2>1, DroppedFrames
<1>2. CASE ServerRestart
  <2>1. UNCHANGED <<toNode, toServer>> /\ ctx' = [j \in Jobs |-> NoCtx] BY <1>2 DEF ServerRestart
  <2>2. ServerCalm(None) /\ NodeCalm(None) BY <1>0, <2>1, ServerSame, NodeSame
  <2>3. \A k \in Jobs : ~Live(ctx'[k]) BY <2>1 DEF Live, NoCtx
  <2> QED BY <2>2, <2>3, FramesCalm
<1>3. ASSUME NEW j \in Jobs, TransactionFails(j) PROVE FrameInv'
  <2>1. CASE UNCHANGED <<ctx, toNode, toServer>> BY <1>1, <2>1
  <2>2. CASE UNCHANGED <<toNode, toServer>> /\ ctx' = [ctx EXCEPT ![j].phase = "failing"]
    <3>1. ServerCalm(None) /\ NodeCalm(None) BY <1>0, <2>2, ServerSame, NodeSame
    <3> DEFINE d == ctx[j]  c == [d EXCEPT !.phase = "failing"]
    <3>2. ctx' = [ctx EXCEPT ![j] = c] BY <2>2
    <3>3. c.phase = "failing"
      <4>1. d \in CtxRow BY <1>0, CtxFacts
      <4> HIDE DEF d
      <4> QED BY <4>1 DEF CtxRow
    <3> HIDE DEF c
    <3>4. ASSUME NEW k \in Jobs, Live(ctx'[k]) PROVE ctx'[k] = ctx[k]
      <4>1. ctx'[k] = IF k = j THEN c ELSE ctx[k] BY <1>0, <3>2 DEF TypeOK
      <4> QED BY <3>3, <3>4, <4>1 DEF Live
    <3> QED BY <3>1, <3>4, FramesCalm
  <2> QED BY <1>3, <2>1, <2>2 DEF TransactionFails
<1>4. ASSUME NEW n \in Nodes, NEW r \in BOOLEAN, LoseConnection(n, r) PROVE FrameInv'
  <2>1. NodeCalm(None) /\ ServerCalm(None) BY <1>0, <1>4, LostFrames
  <2>2. UNCHANGED ctx BY <1>4 DEF LoseConnection, memVars
  <2> QED BY <2>1, <2>2, FramesCalm
<1>5. ASSUME NEW o \in Objects, NEW n \in Nodes, LoseBytes(o, n) PROVE FrameInv'
  BY <1>1, <1>5 DEF LoseBytes, memVars
<1>6. CASE ScanEnqueues \/ OtherProcesses \/ ObserveReplica
  BY <1>1, <1>6 DEF ScanEnqueues, OtherProcesses, ObserveReplica, memVars
<1> QED BY <1>2, <1>3, <1>4, <1>5, <1>6 DEF Faults

LEMMA FrameStep ==
    ASSUME RepairInv, CopiesKept, TypeOK', "source_failure" \notin DbErrors, [Next]_vars
    PROVE  FrameInv'
<1>1. CASE UNCHANGED vars
  <2>1. UNCHANGED <<ctx, toNode, toServer>> BY <1>1 DEF vars, memVars
  <2>2. ServerCalm(None) BY <2>1, ServerSame DEF RepairInv
  <2> QED BY <2>1, <2>2, DroppedFrames
<1> QED BY <1>1, ServerFrames, NodeFrames, OutsideFrames DEF Next

-----------------------------------------------------------------------------
(* The whole system. *)

LEMMA RepairInit == Init => RepairInv
<1> SUFFICES ASSUME Init PROVE RepairInv OBVIOUS
<1>0. DbInit /\ LiveInv /\ CopyInv BY LiveInit, CopyInvInit DEF Init
<1>1. /\ \A j \in Jobs : ctx[j] = NoCtx
      /\ \A n \in Nodes : toNode[n] = <<>> /\ toServer[n] = <<>>
  BY DEF Init
<1>2. TypeOK
  <2>1. DbTypeOK BY <1>0 DEF LiveInv, RowInv
  <2>2. NoCtx \in CtxRow BY DEF NoCtx, CtxRow, Phases
  <2>3. ctx \in [Jobs -> CtxRow] BY <2>2 DEF Init
  <2>4. auditPending \in [Jobs -> (Transfers \cup {None}) \X Nat]
    <3>1. NoEvent \in (Transfers \cup {None}) \X Nat BY DEF NoEvent
    <3> QED BY <3>1 DEF Init
  <2>5. toNode \in [Nodes -> Seq(ToNode)] /\ toServer \in [Nodes -> Seq(ToServer)] BY DEF Init
  <2>6. /\ session \in [Transfers -> {"none", "open", "full"}]
        /\ disk \in [Objects -> [Nodes -> Transfers \cup {Upload, None}]]
        /\ damaged \in [Objects -> SUBSET Nodes]
    BY DEF Init
  <2>7. disturbances \in 0 .. MaxDisturbances BY TransferAssumption DEF Init
  <2> QED BY <2>1, <2>3, <2>4, <2>5, <2>6, <2>7 DEF TypeOK, CtxRow
<1>3. \A j \in Jobs : job[j].status = "absent" BY <1>0 DEF DbInit, NoJob
<1>4. WaitingHasNone /\ VerifyingHasCopy BY <1>3 DEF WaitingHasNone, VerifyingHasCopy
<1>5. CtxInv
  <2> SUFFICES ASSUME NEW j \in Jobs PROVE CtxSound(j) BY DEF CtxInv
  <2>1. /\ ctx[j].phase = "none" /\ ctx[j].transfer = None /\ ctx[j].source = None
    BY <1>1 DEF NoCtx
  <2> QED BY <2>1 DEF CtxSound, CtxEmpty, CtxRows, CtxRuns, Live
<1>6. FrameInv
  <2>1. \A j \in Jobs : ~Live(ctx[j]) BY <1>1 DEF Live, NoCtx
  <2>2. \A n \in Nodes : Len(toNode[n]) = 0 /\ Len(toServer[n]) = 0 BY <1>1
  <2> QED BY <2>1, <2>2 DEF FrameInv, OneDriver, Fresh, InPhase
<1> QED BY <1>0, <1>2, <1>4, <1>5, <1>6 DEF RepairInv

LEMMA RepairStep ==
    ASSUME RepairInv, "source_failure" \notin DbErrors, [Next]_vars
    PROVE  RepairInv'
<1>1. [DbNext]_dbVars BY StepRefines
<1>2. RowInv /\ LiveInv /\ CopyInv /\ WaitingHasNone /\ VerifyingHasCopy
  BY DEF RepairInv, LiveInv
<1>3. TypeOK' BY TypeStays
<1>4. LiveInv' /\ CopyInv' BY <1>1, <1>2, LiveStep, CopyInvStep
<1>5. WaitingHasNone' /\ CopiesKept BY <1>1, <1>2, DbKeeps
<1>6. VerifyingHasCopy' BY <1>1, <1>2, VerifyingKeeps
<1>7. CtxInv' BY CtxStep
<1>8. FrameInv' BY <1>3, <1>5, FrameStep
<1> QED BY <1>3, <1>4, <1>5, <1>6, <1>7, <1>8 DEF RepairInv

(* The DataServer, the nodes, their messages and everything that disturbs   *)
(* them take only steps the transactions allow, a copy is pursued only      *)
(* while its transfer has not been given up, and no source failure is noted *)
(* under a copy that is stored: the guards of DbSpec, which the rows alone  *)
(* cannot enforce, are enforced by the contexts and the frames.             *)
THEOREM TransferImplementsJobs ==
    ASSUME "source_failure" \notin DbErrors
    PROVE  Spec => DbSpec
<1>1. Init => RepairInv /\ DbInit BY RepairInit DEF Init
<1>2. RepairInv /\ [Next]_vars => RepairInv' /\ [DbNext]_dbVars BY RepairStep, StepRefines
<1> QED BY <1>1, <1>2, PTL DEF Spec, DbSpec

(* Every row, context, frame, session and directory entry keeps its type. *)
THEOREM TransferTypeCorrect ==
    ASSUME "source_failure" \notin DbErrors
    PROVE  Spec => []TypeOK
<1>1. RepairInv => TypeOK BY DEF RepairInv
<1> QED BY <1>1, RepairInit, RepairStep, PTL DEF Spec

(* What the transactions guarantee holds of the whole system: capacity, the *)
(* cleanup queue, the deletion queue and the replicas of every object stay  *)
(* in order whatever is lost, late or restarted.                            *)
THEOREM TransferKeepsAccounts ==
    ASSUME "source_failure" \notin DbErrors
    PROVE  Spec => /\ []ReservationsExact /\ []CleanupExact
                   /\ []OneActiveRepair /\ []NoDeleteOfLiveCopy /\ []ReplicaBound
                   /\ RepairOnlyImproves /\ EndedStaysEnded
BY TransferImplementsJobs, CapacityAccountedFor, CopiesAccountedFor, AtMostOneActiveRepair,
   LiveCopiesNotDeleted, ReplicasBounded, RepairsOnlyImprove, EndedJobsStayEnded, PTL
=============================================================================
