----------------------------- MODULE RepairBytes -----------------------------
(***************************************************************************)
(* What the nodes' disks hold agrees with the rows of the database, for    *)
(* every number of objects, nodes, jobs and transfers.                     *)
(*                                                                         *)
(* RepairTransferProofs follows the frames that drive a copy; the frames   *)
(* that end one - repair_abort, delete_object - are followed here, with    *)
(* the receiving sessions and the disks they touch.                        *)
(***************************************************************************)
EXTENDS RepairTransferProofs

(* Frames for the node a transfer stores its copy on. *)
AtTarget == {"store_object_begin", "store", "store_object_end", "repair_abort"}

InQueue(q, m) == \E i \in 1 .. Len(q) : q[i] = m
ToNodeHas(m) == \E n \in Nodes : InQueue(toNode[n], m)
ToServerHas(m) == \E n \in Nodes : InQueue(toServer[n], m)

(* A directory that a repair wrote is where its transfer row says. *)
Placed ==
    \A o \in Objects, n \in Nodes : disk[o][n] \in Transfers =>
        transfer[disk[o][n]].object = o /\ transfer[disk[o][n]].node = n

(* A frame about a copy goes to the copy's node; it is told to abort only a *)
(* copy that was given up.                                                  *)
Routed ==
    \A n \in Nodes : \A i \in 1 .. Len(toNode[n]) : toNode[n][i].op \in AtTarget =>
        /\ transfer[toNode[n][i].t].node = n
        /\ toNode[n][i].op = "repair_abort" => transfer[toNode[n][i].t].cleanup # "none"

(* Of a and b in one queue, b comes first. *)
After(q, a, b) == \A i, k \in 1 .. Len(q) : q[i] = a /\ q[k] = b => k < i

(* The connection is ordered: nothing of a copy arrives after its abort     *)
(* that could open its session again.                                       *)
BegunFirst ==
    \A t \in Transfers, n \in Nodes :
        After(toNode[n], Msg("repair_abort", t), Msg("store_object_begin", t))

(* No bytes of the copy are left, and none can come. *)
Gone(t) ==
    /\ session[t] = "none" /\ ~ToNodeHas(Msg("store_object_begin", t))
    /\ \A o \in Objects, n \in Nodes : disk[o][n] # t

(* A copy leaves the cleanup queue only when its node has erased it. *)
ErasedIsGone ==
    \A t \in Transfers :
        transfer[t].cleanup = "done" \/ ToServerHas(Msg("repair_abort_reply", t)) => Gone(t)

EraseInv == Placed /\ Routed /\ BegunFirst /\ ErasedIsGone

-----------------------------------------------------------------------------
(* Queues *)

LEMMA SubIn ==
    ASSUME NEW q, NEW p, Sub(q, p)
    PROVE  /\ \A i \in 1 .. Len(q) : \E k \in 1 .. Len(p) : p[k] = q[i]
           /\ \A m : InQueue(q, m) => InQueue(p, m)
BY DEF Sub, InQueue

LEMMA SubAfter ==
    ASSUME NEW S, NEW q \in Seq(S), NEW p \in Seq(S), Sub(q, p), NEW a, NEW b, a # b,
           After(p, a, b)
    PROVE  After(q, a, b)
<1> PICK f \in [Nat -> Nat] : \A i \in 1 .. Len(q) :
        /\ f[i] \in 1 .. Len(p) /\ p[f[i]] = q[i]
        /\ \A k \in 1 .. Len(q) : i < k => f[i] < f[k]
  BY DEF Sub
<1> SUFFICES ASSUME NEW i \in 1 .. Len(q), NEW k \in 1 .. Len(q), q[i] = a, q[k] = b
             PROVE  k < i
  BY DEF After
<1>1. f[k] < f[i] BY DEF After
<1>2. i \in Nat /\ k \in Nat /\ f[i] \in Nat /\ f[k] \in Nat BY Len(q) \in Nat
<1>3. ~(i < k)
  <2> SUFFICES ASSUME i < k PROVE FALSE OBVIOUS
  <2>1. f[i] < f[k] OBVIOUS
  <2> QED BY <1>1, <1>2, <2>1
<1>4. i # k OBVIOUS
<1> QED BY <1>2, <1>3, <1>4

LEMMA PushIn ==
    ASSUME NEW S, NEW q \in Seq(S), NEW ms \in Seq(S)
    PROVE  /\ \A m : InQueue(q \o ms, m) <=> InQueue(q, m) \/ InQueue(ms, m)
           /\ \A i \in 1 .. Len(q \o ms) : \/ i \in 1 .. Len(q) /\ (q \o ms)[i] = q[i]
                                           \/ \E k \in 1 .. Len(ms) : (q \o ms)[i] = ms[k]
<1> DEFINE p == q \o ms
<1>1. /\ Len(q) \in Nat /\ Len(ms) \in Nat /\ Len(p) = Len(q) + Len(ms)
      /\ \A i \in 1 .. Len(p) : i <= Len(q) => p[i] = q[i]
      /\ \A i \in 1 .. Len(p) : ~(i <= Len(q)) => p[i] = ms[i - Len(q)]
  BY Joined
<1> HIDE DEF p
<1>2. ASSUME NEW i \in 1 .. Len(p)
      PROVE  \/ i \in 1 .. Len(q) /\ p[i] = q[i]
             \/ \E k \in 1 .. Len(ms) : p[i] = ms[k]
  <2>1. CASE i <= Len(q) BY <1>1, <2>1
  <2>2. CASE ~(i <= Len(q))
    <3>1. i - Len(q) \in 1 .. Len(ms) BY <1>1, <2>2
    <3> QED BY <1>1, <2>2, <3>1
  <2> QED BY <2>1, <2>2
<1>3. ASSUME NEW i \in 1 .. Len(q) PROVE i \in 1 .. Len(p) /\ p[i] = q[i] BY <1>1
<1>4. ASSUME NEW k \in 1 .. Len(ms) PROVE \E i \in 1 .. Len(p) : p[i] = ms[k]
  <2>1. k + Len(q) \in 1 .. Len(p) /\ ~(k + Len(q) <= Len(q)) /\ (k + Len(q)) - Len(q) = k
    BY <1>1
  <2> QED BY <1>1, <2>1
<1>5. \A m : InQueue(p, m) <=> InQueue(q, m) \/ InQueue(ms, m)
  BY <1>2, <1>3, <1>4 DEF InQueue
<1> QED BY <1>2, <1>5 DEF p

LEMMA PushAfter ==
    ASSUME NEW S, NEW q \in Seq(S), NEW m \in S, NEW a, NEW b, a # b, After(q, a, b),
           m = b => ~InQueue(q, a)
    PROVE  After(q \o <<m>>, a, b)
<1> DEFINE p == q \o <<m>>
<1>1. /\ Len(q) \in Nat /\ Len(p) = Len(q) + 1
      /\ \A i \in 1 .. Len(p) : i <= Len(q) => p[i] = q[i]
      /\ p[Len(q) + 1] = m
  OBVIOUS
<1> HIDE DEF p
<1> SUFFICES ASSUME NEW i \in 1 .. Len(p), NEW k \in 1 .. Len(p), p[i] = a, p[k] = b
             PROVE  k < i
  BY DEF After, p
<1>2. i \in Nat /\ k \in Nat BY <1>1
<1>3. CASE k = Len(q) + 1
  <2>1. m = b BY <1>1, <1>3
  <2>2. i # Len(q) + 1 BY <1>1, <2>1
  <2>3. i \in 1 .. Len(q) BY <1>1, <2>2
  <2>4. q[i] = a BY <1>1, <2>3
  <2> QED BY <2>1, <2>3, <2>4 DEF InQueue
<1>4. CASE k # Len(q) + 1
  <2>1. k \in 1 .. Len(q) /\ q[k] = b BY <1>1, <1>4
  <2>2. CASE i = Len(q) + 1 BY <1>1, <1>2, <2>1, <2>2
  <2>3. CASE i # Len(q) + 1
    <3>1. i \in 1 .. Len(q) /\ q[i] = a BY <1>1, <2>3
    <3> QED BY <2>1, <3>1 DEF After
  <2> QED BY <2>2, <2>3
<1> QED BY <1>3, <1>4

LEMMA TailIn ==
    ASSUME NEW S, NEW q \in Seq(S), q # <<>>
    PROVE  /\ Sub(Tail(q), q) /\ InQueue(q, Head(q)) /\ Head(q) \in S
           /\ \A m : InQueue(Tail(q), m) => InQueue(q, m)
<1>1. Sub(Tail(q), q) BY SubTail
<1> QED BY <1>1, SubIn, HeadFrame DEF InQueue

-----------------------------------------------------------------------------
(* What a step the nodes have no part in does to the frames: some are       *)
(* answered or lost, and at most one is sent.                               *)
NodeFewer == \A n \in Nodes : Sub(toNode'[n], toNode[n])
ServerFewer == \A n \in Nodes : Sub(toServer'[n], toServer[n])

DeleteReply(o) == [op |-> "delete_object_reply", o |-> o]

Proper(n, m) ==
    /\ m.op \in AtTarget => transfer'[m.t].node = n
    /\ m.op = "repair_abort" => transfer'[m.t].cleanup # "none"
    /\ m.op = "store_object_begin" => Unused(m.t) /\ transfer'[m.t].cleanup = "none"
    /\ m.op = "store_object_end" =>
          \E j \in Jobs : /\ ctx[j].phase = "copying" /\ ctx[j].transfer = m.t
                         /\ ctx'[j].phase = "awaiting_target_commit" /\ ctx'[j].transfer = m.t
    /\ m.op = "delete_object" =>
          /\ gcQueue'[m.o][n].status = "sent"
          /\ ~InQueue(toNode[n], m) /\ ~InQueue(toServer[n], DeleteReply(m.o))

OneSent ==
    NodeFewer \/ \E n \in Nodes, m \in ToNode : toNode' = Sent(n, <<m>>) /\ Proper(n, m)

LEMMA NothingSent ==
    ASSUME TypeOK, UNCHANGED toNode
    PROVE  NodeFewer /\ OneSent
BY SubSame DEF TypeOK, NodeFewer, OneSent

LEMMA NothingReceived ==
    ASSUME TypeOK, UNCHANGED toServer
    PROVE  ServerFewer
BY SubSame DEF TypeOK, ServerFewer

LEMMA OneReceived ==
    ASSUME TypeOK, NEW n \in Nodes, NEW op, Receive(n, op)
    PROVE  ServerFewer
<1> SUFFICES ASSUME NEW k \in Nodes PROVE Sub(toServer'[k], toServer[k])
  BY DEF ServerFewer
<1>1. /\ toServer[k] \in Seq(ToServer) /\ toServer[n] # <<>>
      /\ toServer'[k] = IF k = n THEN Tail(toServer[k]) ELSE toServer[k]
  BY DEF Receive, TypeOK
<1>2. CASE k = n BY <1>1, <1>2, SubTail
<1>3. CASE k # n BY <1>1, <1>3, SubSame
<1> QED BY <1>2, <1>3

(* A copy no job pursues any more is in the cleanup queue. *)
LEMMA GivenUp ==
    ASSUME RepairInv, CopyInv', CopiesKept, NEW j \in Jobs, ctx[j].transfer # None,
           \A k \in Jobs \ {j} : job'[k] = job[k],
           job'[j].transfer = ctx[j].transfer => job'[j].status \notin Running \cup {"completed"}
    PROVE  transfer'[ctx[j].transfer].cleanup # "none"
<1>1. CtxRows(j) /\ CtxEmpty(j) BY DEF RepairInv, CtxInv, CtxSound
<1>2. PICK t \in Transfers : t = ctx[j].transfer BY CtxFacts DEF RepairInv
<1>3. ~Unused(t)
  <2>1. transfer[t].node = ctx[j].target /\ ctx[j].target # None
    BY <1>1, <1>2 DEF CtxRows, CtxEmpty
  <2> QED BY <2>1 DEF Unused
<1>4. transfer'[t].node # None BY <1>2, <1>3 DEF CopiesKept, Unused
<1>5. \A k \in Jobs : job'[k].transfer = t => job'[k].status \notin Running \cup {"completed"}
  BY <1>1, <1>2 DEF CtxRows
<1>6. transfer'[t].cleanup = "none" =>
        \E k \in Jobs : job'[k].transfer = t /\ job'[k].status \in Running \cup {"completed"}
  BY <1>4 DEF CopyInv, CleanupExact, Unused
<1> QED BY <1>2, <1>5, <1>6

LEMMA AbortSent ==
    ASSUME RepairInv, CopiesKept, NEW j \in Jobs, toNode' = Aborted(ctx[j]),
           ctx[j].transfer # None => transfer'[ctx[j].transfer].cleanup # "none"
    PROVE  OneSent
<1>1. CASE ctx[j].transfer = None
  <2>1. UNCHANGED toNode BY <1>1 DEF Aborted
  <2> QED BY <2>1, NothingSent DEF RepairInv
<1>2. CASE ctx[j].transfer # None
  <2>1. CtxRows(j) /\ CtxEmpty(j) BY DEF RepairInv, CtxInv, CtxSound
  <2>2. PICK t \in Transfers : t = ctx[j].transfer BY <1>2, CtxFacts DEF RepairInv
  <2>3. PICK r \in Nodes : r = ctx[j].target BY <1>2, <2>1, LiveTarget DEF CtxEmpty
  <2>4. transfer[t].node = r /\ ~Unused(t)
    BY <1>2, <2>1, <2>2, <2>3, NoneAssumption DEF CtxRows, Unused
  <2>5. transfer'[t].node = r BY <2>4 DEF CopiesKept
  <2>6. PICK m \in ToNode : m = Msg("repair_abort", t) BY Frames
  <2>7. m.op = "repair_abort" /\ m.t = t BY <2>6 DEF Msg
  <2>8. toNode' = Sent(r, <<m>>) BY <1>2, <2>2, <2>3, <2>6 DEF Aborted
  <2>9. Proper(r, m) BY <1>2, <2>2, <2>5, <2>7 DEF Proper
  <2> QED BY <2>8, <2>9 DEF OneSent
<1> QED BY <1>1, <1>2

LEMMA RetryEnds ==
    ASSUME DbTypeOK, NEW j \in Jobs, ScheduleRepairRetry(j)
    PROVE  \/ job' = job /\ job[j].status \in Terminal
           \/ job'[j].transfer = None /\ job'[j].status \notin Running \cup {"completed"}
<1>1. CASE job[j].status \in Terminal
  BY <1>1 DEF ScheduleRepairRetry, RetryOf, DbTypeOK
<1>2. CASE job[j].status \notin Terminal
  <2> DEFINE s == IF job[j].attempts >= MaxAttempts THEN "failed" ELSE "retry_wait"
  <2>1. job'[j] = [job[j] EXCEPT !.status = s, !.target = None, !.transfer = None,
                                 !.reserved = FALSE]
    BY <1>2 DEF ScheduleRepairRetry, RetryOf, DbTypeOK
  <2>2. s \notin Running \cup {"completed"} BY DEF Running
  <2> HIDE DEF s
  <2>3. job[j] \in JobRow BY DEF DbTypeOK
  <2>4. job'[j].transfer = None /\ job'[j].status = s BY <2>1, <2>3 DEF JobRow
  <2> QED BY <2>2, <2>4
<1> QED BY <1>1, <1>2

LEMMA FailSent ==
    ASSUME RepairInv, CopyInv', CopiesKept, NEW j \in Jobs, Fail(j)
    PROVE  OneSent
<1>1. ScheduleRepairRetry(j) /\ toNode' = Aborted(ctx[j]) BY DEF Fail
<1>2. \A k \in Jobs \ {j} : job'[k] = job[k]
  BY <1>1, EndEffect DEF RepairInv, LiveInv, Effect, JobKeeps
<1>3. ASSUME ctx[j].transfer # None PROVE transfer'[ctx[j].transfer].cleanup # "none"
  <2>1. CtxRows(j) /\ CtxEmpty(j) BY DEF RepairInv, CtxInv, CtxSound
  <2>2. job[j].status # "completed" BY <1>3, <2>1 DEF CtxRows, CtxEmpty
  <2>3. \/ job' = job /\ job[j].status \in Terminal
        \/ job'[j].transfer = None
    BY <1>1, RetryEnds DEF RepairInv, TypeOK
  <2>4. job'[j].transfer = ctx[j].transfer => job'[j].status \notin Running \cup {"completed"}
    BY <1>3, <2>2, <2>3 DEF Terminal, Running
  <2> QED BY <1>2, <1>3, <2>4, GivenUp
<1> QED BY <1>1, <1>3, AbortSent

LEMMA RestartSent ==
    ASSUME RepairInv, CopiesKept, NEW j \in Jobs, NEW s, RestartFromNextSource(j, s)
    PROVE  OneSent
<1>1. toNode' = Aborted(ctx[j]) /\ transfer' = CleanupQueued(ctx[j].transfer)
  BY DEF RestartFromNextSource, NextSource, NoteSourceFailure
<1>2. ctx[j].transfer # None => transfer'[ctx[j].transfer].cleanup # "none"
  BY <1>1, CtxFacts DEF RepairInv, TypeOK, DbTypeOK, CleanupQueued
<1> QED BY <1>1, <1>2, AbortSent

(* A verdict ends the verification, if it changes the job at all. *)
LEMMA VerdictEnds ==
    ASSUME RowInv, NEW j \in Jobs,
           AuditPassed(j) \/ \E s \in FailureKinds : AuditFailed(j, s)
    PROVE  job'[j].status \notin {"selecting_target", "copying"}
<1>0. DbTypeOK /\ job[j] \in JobRow /\ job[j].status = "verifying"
  BY RowFacts DEF AuditPassed, AuditFailed, RowInv, AuditOnlyWhileVerifying, AuditOpen
<1>1. ASSUME NEW h, DiscardTarget(j, h) PROVE job'[j].status = "canceled"
  <2>1. job'[j] = [job[j] EXCEPT !.status = "canceled", !.reserved = FALSE]
    BY <1>0, <1>1 DEF DiscardTarget, DbTypeOK
  <2> QED BY <1>0, <2>1 DEF JobRow
<1>2. ASSUME NEW h, NEW R, Publish(j, h, R) PROVE job'[j].status = "completed"
  <2>1. job'[j] = [job[j] EXCEPT !.status = "completed"]
    BY <1>0, <1>2 DEF Publish, DbTypeOK
  <2> QED BY <1>0, <2>1 DEF JobRow
<1>3. ASSUME NEW au, NEW h, RetryOf(j, job[j], au, h)
      PROVE  job'[j].status \in {"failed", "retry_wait"}
  <2> DEFINE s == IF job[j].attempts >= MaxAttempts THEN "failed" ELSE "retry_wait"
  <2>1. job[j].status \notin Terminal BY <1>0 DEF Terminal
  <2>2. job'[j] = [job[j] EXCEPT !.status = s, !.target = None, !.transfer = None,
                                 !.reserved = FALSE]
    BY <1>0, <1>3, <2>1 DEF RetryOf, DbTypeOK
  <2>3. s \in {"failed", "retry_wait"} OBVIOUS
  <2> HIDE DEF s
  <2>4. job'[j].status = s BY <1>0, <2>2 DEF JobRow
  <2> QED BY <2>3, <2>4
<1>4. CASE AuditPassed(j) BY <1>1, <1>2, <1>4 DEF AuditPassed
<1>5. ASSUME NEW s \in FailureKinds, AuditFailed(j, s)
      PROVE  job'[j].status \notin {"selecting_target", "copying"}
  BY <1>0, <1>3, <1>5 DEF AuditFailed
<1> QED BY <1>4, <1>5

LEMMA VerdictSent ==
    ASSUME RepairInv, CopyInv', CopiesKept, NEW j \in Jobs, NEW decided,
           decided => AuditPassed(j) \/ \E s \in FailureKinds : AuditFailed(j, s),
           AuditApplied(j, decided)
    PROVE  OneSent
<1>1. AuditPassed(j) \/ \E s \in FailureKinds : AuditFailed(j, s) BY DEF AuditApplied
<1>2. CASE UNCHANGED toNode BY <1>2, NothingSent DEF RepairInv
<1>3. CASE ~UNCHANGED toNode
  <2>1. /\ toNode' = Aborted(ctx[j])
        /\ job'[j].status \notin {"verifying", "completed"}
    BY <1>3 DEF AuditApplied
  <2>2. job'[j].status \notin Running \cup {"completed"}
    BY <1>1, <2>1, VerdictEnds DEF Running, RepairInv, LiveInv
  <2>3. \A k \in Jobs \ {j} : job'[k] = job[k]
    BY <1>1, AuditEffect DEF RepairInv, LiveInv, Effect, JobKeeps
  <2>4. ctx[j].transfer # None => transfer'[ctx[j].transfer].cleanup # "none"
    BY <2>2, <2>3, GivenUp
  <2> QED BY <2>1, <2>4, AbortSent
<1> QED BY <1>2, <1>3

LEMMA StartSent ==
    ASSUME RepairInv, NEW j \in Jobs, StartRepairTarget(j)
    PROVE  OneSent
<1>0. TypeOK BY DEF RepairInv
<1>1. CASE UNCHANGED toNode BY <1>0, <1>1, NothingSent
<1>2. ASSUME NEW t \in Transfers, TargetStartable(j, ctx[j].target), MarkRepairTargetStarted(j, t),
             toNode' = Sent(ctx[j].target, <<Msg("store_object_begin", t)>>)
      PROVE  OneSent
  <2>1. ctx[j].phase # "none" BY DEF StartRepairTarget
  <2>2. PICK r \in Nodes : r = ctx[j].target BY <2>1, LiveTarget
  <2>3. Unused(t) /\ transfer'[t].node = r /\ transfer'[t].cleanup = "none"
    BY <1>0, <1>2, <2>2 DEF MarkRepairTargetStarted, TargetStartable, TypeOK, DbTypeOK
  <2>4. PICK m \in ToNode : m = Msg("store_object_begin", t) BY Frames
  <2>5. m.op = "store_object_begin" /\ m.t = t BY <2>4 DEF Msg
  <2>6. toNode' = Sent(r, <<m>>) BY <1>2, <2>2, <2>4
  <2>7. Proper(r, m) BY <2>3, <2>5 DEF Proper
  <2> QED BY <2>6, <2>7 DEF OneSent
<1> QED BY <1>1, <1>2 DEF StartRepairTarget

LEMMA PollSent ==
    ASSUME RepairInv, CopyInv', CopiesKept, NEW j \in Jobs, ServerPolls(j)
    PROVE  ServerFewer /\ OneSent
<1>0. TypeOK BY DEF RepairInv
<1>1. UNCHANGED toServer
  BY DEF ServerPolls, EndContext, RecoverStale, StartRepairTarget, FailLater, RepairTimeout,
         SendAudit, AuditTimeout, RecoverAudit
<1>2. ServerFewer BY <1>0, <1>1, NothingReceived
<1> SUFFICES OneSent BY <1>2
<1>3. CASE EndContext(j)
  <2>1. /\ toNode' = Aborted(ctx[j]) /\ UNCHANGED job /\ job[j].status \notin Running
        /\ ctx[j].phase # "none"
    BY <1>3 DEF EndContext, dbVars
  <2>2. job[j].status # "completed"
    BY <2>1 DEF RepairInv, CtxInv, CtxSound, CtxRows
  <2>3. ctx[j].transfer # None => transfer'[ctx[j].transfer].cleanup # "none"
    BY <2>1, <2>2, GivenUp
  <2> QED BY <2>1, <2>3, AbortSent
<1>4. CASE RecoverStale(j) \/ RecoverAudit(j)
  <2>1. UNCHANGED toNode BY <1>4 DEF RecoverStale, RecoverAudit
  <2> QED BY <1>0, <2>1, NothingSent
<1>5. CASE FailLater(j) BY <1>5, FailSent DEF FailLater
<1>6. CASE RepairTimeout(j) BY <1>6, FailSent, RestartSent DEF RepairTimeout
<1>7. CASE SendAudit(j)
  <2> DEFINE event == <<job[j].transfer, audit[j].attempts + 1>>
             a == [op |-> "audit_slice", j |-> j, event |-> event]
  <2>1. toNode' = Sent(job[j].target, <<a>>) BY <1>7 DEF SendAudit
  <2>2. event \in Transfers \X Nat /\ job[j].target \in Nodes
    <3>1. job[j].transfer \in Transfers BY <1>7, AuditedRow DEF SendAudit, ClaimAudit, AuditOpen
    <3>2. audit[j].attempts \in Nat BY <1>0 DEF TypeOK, DbTypeOK, AuditRow
    <3>3. job[j].status = "verifying"
      BY <1>7 DEF SendAudit, ClaimAudit, AuditOpen, RepairInv, LiveInv, RowInv, AuditOnlyWhileVerifying
    <3>4. job[j].target \in Nodes
      BY <1>0, <3>3, RowFacts DEF RepairInv, LiveInv, RowInv, RunningHasTarget, Running, TypeOK
    <3> QED BY <3>1, <3>2, <3>4
  <2> HIDE DEF event
  <2>3. a \in ToNode BY <2>2 DEF ToNode
  <2>4. a.op = "audit_slice" OBVIOUS
  <2> HIDE DEF a
  <2>5. PICK m \in ToNode : m = a BY <2>3
  <2>6. PICK r \in Nodes : r = job[j].target BY <2>2
  <2>7. toNode' = Sent(r, <<m>>) BY <2>1, <2>5, <2>6
  <2>8. Proper(r, m) BY <2>4, <2>5 DEF Proper, AtTarget
  <2> QED BY <2>7, <2>8 DEF OneSent
<1>8. CASE AuditTimeout(j)
  <2>1. CASE UNCHANGED toNode BY <1>0, <2>1, NothingSent
  <2>2. CASE ~UNCHANGED toNode
    <3>1. AuditApplied(j, AuditFailed(j, "suspect")) BY <1>8, <2>2 DEF AuditTimeout
    <3>2. "suspect" \in FailureKinds BY TransferAssumption
    <3>3. AuditApplied(j, TRUE) /\ AuditFailed(j, "suspect") BY <3>1 DEF AuditApplied
    <3> QED BY <3>2, <3>3, VerdictSent
  <2> QED BY <2>1, <2>2
<1> QED BY <1>2, <1>3, <1>4, <1>5, <1>6, <1>7, <1>8, StartSent DEF ServerPolls

LEMMA StoreReadySent ==
    ASSUME RepairInv, CopyInv', CopiesKept, NEW n \in Nodes, StoreObjectReady(n)
    PROVE  OneSent
<1> DEFINE t == Head(toServer[n]).t  cs == TargetCtx(n, t)
<1>0. TypeOK /\ Receive(n, "store_object_ready") BY DEF RepairInv, StoreObjectReady
<1>1. CASE UNCHANGED toNode BY <1>0, <1>1, NothingSent
<1>2. CASE cs # {}
  <2>1. PICK j \in cs : \E src \in ctx[j].sources \ ctx[j].tried : BeginNextSource(j, src)
    BY <1>2 DEF StoreObjectReady
  <2>2. j \in Jobs /\ ctx[j].phase # "none" /\ ctx[j].transfer = t BY ReplyContext
  <2>3. PICK src \in ctx[j].sources \ ctx[j].tried : BeginNextSource(j, src) BY <2>1
  <2>4. src \in Nodes BY <1>0, <2>2, CtxFacts
  <2>5. CASE job[j].status \in {"selecting_target", "copying"}
    <3>1. toNode' = Sent(src, <<Msg("stream_object_begin", t)>>)
      BY <2>2, <2>3, <2>5 DEF BeginNextSource
    <3>2. t \in Transfers BY <1>0, <2>2, ServerHeadTyped DEF Receive, Named, Chain
    <3>3. PICK m \in ToNode : m = Msg("stream_object_begin", t) BY <3>2, Frames
    <3>4. m.op = "stream_object_begin" BY <3>3 DEF Msg
    <3>5. toNode' = Sent(src, <<m>>) /\ Proper(src, m) BY <3>1, <3>3, <3>4 DEF Proper, AtTarget
    <3> QED BY <2>4, <3>5 DEF OneSent
  <2>6. CASE job[j].status \notin {"selecting_target", "copying"}
    <3>1. toNode' = Aborted(ctx[j]) /\ UNCHANGED <<job, transfer>>
      BY <2>3, <2>6 DEF BeginNextSource, dbVars
    <3>2. job[j].status # "verifying"
      <4>1. "store_object_ready" \in Chain BY DEF Chain
      <4>2. ctx[j].phase \in Awaited["store_object_ready"]
        BY <1>0, <2>2, <4>1, SourceReplyInPhase DEF Receive
      <4>3. ctx[j].phase # "verifying" BY <4>2 DEF Awaited
      <4> QED BY <2>2, <4>3 DEF RepairInv, CtxInv, CtxSound, CtxRuns, Running
    <3>3. job[j].status # "completed" BY <2>2 DEF RepairInv, CtxInv, CtxSound, CtxRows
    <3>4. ctx[j].transfer # None => transfer'[ctx[j].transfer].cleanup # "none"
      BY <2>2, <2>6, <3>1, <3>2, <3>3, GivenUp DEF Running
    <3> QED BY <2>2, <3>1, <3>4, AbortSent
  <2> QED BY <2>5, <2>6
<1>3. CASE cs = {}
  <2>1. Dropped BY <1>3 DEF StoreObjectReady
  <2> QED BY <1>1, <2>1 DEF Dropped
<1> QED BY <1>2, <1>3

(* A frame for the target of a context that is waiting. *)
LEMMA TargetSent ==
    ASSUME RepairInv, CopiesKept, NEW j \in Jobs, NEW op \in {"store", "store_object_end"},
           ctx[j].phase # "none", ctx[j].transfer # None,
           op = "store_object_end" =>
               ctx[j].phase = "copying"
               /\ ctx' = [ctx EXCEPT ![j].phase = "awaiting_target_commit"],
           toNode' = Sent(ctx[j].target, <<Msg(op, ctx[j].transfer)>>)
    PROVE  OneSent
<1>1. CtxRows(j) BY DEF RepairInv, CtxInv, CtxSound
<1>2. PICK t \in Transfers : t = ctx[j].transfer BY CtxFacts DEF RepairInv
<1>3. PICK r \in Nodes : r = ctx[j].target BY LiveTarget
<1>4. transfer[t].node = r /\ ~Unused(t) BY <1>1, <1>2, <1>3, NoneAssumption DEF CtxRows, Unused
<1>5. transfer'[t].node = r BY <1>4 DEF CopiesKept
<1>6. PICK m \in ToNode : m = Msg(op, t) BY Frames DEF ToNode, Msg
<1>7. m.op = op /\ m.t = t BY <1>6 DEF Msg
<1>8. toNode' = Sent(r, <<m>>) BY <1>2, <1>3, <1>6
<1>a. op = "store_object_end" =>
         /\ ctx[j].phase = "copying" /\ ctx[j].transfer = t
         /\ ctx'[j].phase = "awaiting_target_commit" /\ ctx'[j].transfer = t
  BY <1>2 DEF RepairInv, TypeOK
<1>9. Proper(r, m) BY <1>5, <1>7, <1>a DEF Proper
<1> QED BY <1>8, <1>9 DEF OneSent

LEMMA ReceiveSent ==
    ASSUME RepairInv, CopyInv', CopiesKept, NEW n \in Nodes, ServerReceives(n)
    PROVE  ServerFewer /\ OneSent
<1> DEFINE t == Head(toServer[n]).t
<1>0. TypeOK BY DEF RepairInv
<1>1. PICK op : Receive(n, op)
  BY DEF ServerReceives, StoreObjectReady, SourceStream, StreamObjectEnd, StreamObjectMissing,
         StoreObjectEndOk, StoreObjectEndError, AuditReply, RepairAbortReply, DeleteObjectReply
<1>2. ServerFewer BY <1>0, <1>1, OneReceived
<1> SUFFICES OneSent BY <1>2
<1>3. CASE UNCHANGED toNode BY <1>0, <1>3, NothingSent
<1>4. ASSUME NEW x, NEW j, j \in TargetCtx(n, x) \cup SourceCtx(n, x), Fail(j) PROVE OneSent
  BY <1>4, ReplyContext, FailSent
<1>5. ASSUME NEW x, NEW j, j \in SourceCtx(n, x), RestartFromNextSource(j, "missing")
      PROVE  OneSent
  BY <1>5, ReplyContext, RestartSent
<1>7. CASE SourceStream(n)
  <2>1. CASE SourceCtx(n, t) = {} BY <1>3, <1>7, <2>1 DEF SourceStream, Dropped
  <2>2. CASE SourceCtx(n, t) # {}
    <3>1. PICK j \in SourceCtx(n, t) : toNode' = Sent(ctx[j].target, <<Msg("store", t)>>)
      BY <1>7, <2>2 DEF SourceStream
    <3>2. t \in Transfers BY <1>0, <1>7, ServerHeadTyped DEF SourceStream, Receive, Named, Chain
    <3>3. j \in Jobs /\ ctx[j].phase # "none" /\ ctx[j].transfer = t BY ReplyContext
    <3>4. t # None BY <3>2, NoneAssumption
    <3> QED BY <3>1, <3>3, <3>4, TargetSent
  <2> QED BY <2>1, <2>2
<1>8. CASE StreamObjectEnd(n)
  <2>1. CASE SourceCtx(n, t) = {} BY <1>3, <1>8, <2>1 DEF StreamObjectEnd, Dropped
  <2>2. CASE SourceCtx(n, t) # {}
    <3>1. PICK j \in SourceCtx(n, t) :
            \/ /\ ctx[j].phase = "copying"
               /\ toNode' = Sent(ctx[j].target, <<Msg("store_object_end", t)>>)
               /\ ctx' = [ctx EXCEPT ![j].phase = "awaiting_target_commit"]
            \/ RestartFromNextSource(j, "missing")
      BY <1>8, <2>2 DEF StreamObjectEnd
    <3>2. t \in Transfers BY <1>0, <1>8, ServerHeadTyped DEF StreamObjectEnd, Receive, Named, Chain
    <3>3. j \in Jobs /\ ctx[j].phase # "none" /\ ctx[j].transfer = t BY ReplyContext
    <3>4. t # None BY <3>2, NoneAssumption
    <3>5. CASE RestartFromNextSource(j, "missing") BY <1>5, <3>5
    <3> QED BY <3>1, <3>3, <3>4, <3>5, TargetSent
  <2> QED BY <2>1, <2>2
<1>9. CASE StreamObjectMissing(n) BY <1>3, <1>5, <1>9 DEF StreamObjectMissing, Dropped
<1>10. CASE StoreObjectEndOk(n) BY <1>3, <1>4, <1>10 DEF StoreObjectEndOk, Dropped
<1>11. CASE StoreObjectEndError(n) BY <1>3, <1>4, <1>11 DEF StoreObjectEndError, Dropped
<1>12. ASSUME NEW a \in {"audit_ok", "audit_missing"}, AuditReply(n, a) PROVE OneSent
  <2>1. CASE ~UNCHANGED toNode
    <3>1. PICK j : j = Head(toServer[n]).j OBVIOUS
    <3>2. AuditApplied(j, IF a = "audit_ok" THEN AuditPassed(j) ELSE AuditFailed(j, "missing"))
      BY <1>12, <2>1, <3>1 DEF AuditReply
    <3>3. j \in Jobs
      <4>1. Head(toServer[n]) \in ToServer /\ Head(toServer[n]).op = a
        BY <1>0, <1>12, HeadFrame DEF TypeOK, AuditReply, Receive
      <4> QED BY <3>1, <4>1 DEF ToServer
    <3>4. "missing" \in FailureKinds BY TransferAssumption
    <3>5. AuditApplied(j, TRUE) /\ (AuditPassed(j) \/ \E s \in FailureKinds : AuditFailed(j, s))
      BY <3>2, <3>4 DEF AuditApplied
    <3> QED BY <3>3, <3>5, VerdictSent
  <2> QED BY <1>3, <2>1
<1>13. CASE RepairAbortReply(n) \/ DeleteObjectReply(n)
  <2>1. UNCHANGED toNode BY <1>13 DEF RepairAbortReply, DeleteObjectReply, Dropped
  <2> QED BY <1>3, <2>1
<1> QED BY <1>2, <1>7, <1>8, <1>9, <1>10, <1>11, <1>12, <1>13, StoreReadySent DEF ServerReceives

LEMMA ServerSent ==
    ASSUME RepairInv, CopyInv', CopiesKept, Server
    PROVE  ServerFewer /\ OneSent
<1>0. TypeOK BY DEF RepairInv
<1>1. ASSUME NEW j \in Jobs, NEW S \in SUBSET Nodes, NEW n \in Nodes, ClaimStart(j, S, n)
      PROVE  ServerFewer /\ OneSent
  BY <1>0, <1>1, NothingSent, NothingReceived DEF ClaimStart
<1>2. ASSUME NEW j \in Jobs, ClaimSkip(j) PROVE ServerFewer /\ OneSent
  BY <1>0, <1>2, NothingSent, NothingReceived DEF ClaimSkip
<1>3. ASSUME NEW o \in Objects, NEW n \in Nodes, SendGcDelete(o, n)
      PROVE  ServerFewer /\ OneSent
  <2>1. PICK m \in ToNode : m = [op |-> "delete_object", o |-> o] BY DEF ToNode
  <2>2. m.op = "delete_object" /\ m.o = o BY <2>1
  <2>3. gcQueue'[o][n].status = "sent"
    BY <1>0, <1>3 DEF SendGcDelete, SendObjectDelete, TypeOK, DbTypeOK
  <2>4. ~InQueue(toNode[n], m) /\ ~InQueue(toServer[n], DeleteReply(o))
    BY <1>3, <2>1 DEF SendGcDelete, InFlight, InQueue, DeleteReply
  <2>5. toNode' = Sent(n, <<m>>) /\ UNCHANGED toServer BY <1>3, <2>1 DEF SendGcDelete
  <2>6. Proper(n, m) BY <2>2, <2>3, <2>4 DEF Proper, AtTarget
  <2> QED BY <1>0, <2>5, <2>6, NothingReceived DEF OneSent
<1>4. ASSUME NEW t \in Transfers, SendRepairCleanup(t) PROVE ServerFewer /\ OneSent
  <2>1. /\ toNode' = Sent(transfer[t].node, <<Msg("repair_abort", t)>>) /\ UNCHANGED toServer
        /\ transfer'[t].cleanup = "sent" /\ transfer'[t].node = transfer[t].node
    BY <1>0, <1>4 DEF SendRepairCleanup, ClaimRepairCleanup, TypeOK, DbTypeOK, TransferRow
  <2>2. CASE transfer[t].node \notin Nodes
    <3>1. UNCHANGED toNode BY <1>0, <2>1, <2>2 DEF Sent, TypeOK
    <3> QED BY <1>0, <2>1, <3>1, NothingSent, NothingReceived
  <2>3. CASE transfer[t].node \in Nodes
    <3>1. PICK r \in Nodes : r = transfer[t].node BY <2>3
    <3>2. PICK m \in ToNode : m = Msg("repair_abort", t) BY Frames
    <3>3. m.op = "repair_abort" /\ m.t = t BY <3>2 DEF Msg
    <3>4. toNode' = Sent(r, <<m>>) BY <2>1, <3>1, <3>2
    <3>5. Proper(r, m) BY <2>1, <3>1, <3>3 DEF Proper
    <3> QED BY <1>0, <2>1, <3>4, <3>5, NothingReceived DEF OneSent
  <2> QED BY <2>2, <2>3
<1> QED BY <1>1, <1>2, <1>3, <1>4, ReceiveSent, PollSent DEF Server


-----------------------------------------------------------------------------
(* A step the nodes have no part in leaves sessions and disks alone, unless *)
(* it is a restart or a loss.                                               *)
BytesKept ==
    /\ \A t \in Transfers : session'[t] \in {session[t], "none"}
    /\ \A o \in Objects, n \in Nodes :
         \/ disk'[o][n] = disk[o][n]
         \/ disk'[o][n] = None /\ n \in damaged'[o]
    /\ \A o \in Objects : damaged[o] \subseteq damaged'[o]

Outside == ServerFewer /\ OneSent /\ BytesKept

LEMMA SameBytes ==
    ASSUME UNCHANGED nodeVars
    PROVE  BytesKept
BY DEF nodeVars, BytesKept

LEMMA ServerBytes ==
    ASSUME Server
    PROVE  UNCHANGED nodeVars
<1>1. ASSUME NEW n \in Nodes, ServerReceives(n) PROVE UNCHANGED nodeVars
  BY <1>1
  DEF ServerReceives, StoreObjectReady, SourceStream, StreamObjectEnd, StreamObjectMissing,
      StoreObjectEndOk, StoreObjectEndError, AuditReply, RepairAbortReply, DeleteObjectReply,
      Dropped, Fail, RestartFromNextSource, NextSource
<1>2. ASSUME NEW j \in Jobs, ServerPolls(j) PROVE UNCHANGED nodeVars
  BY <1>2
  DEF ServerPolls, EndContext, RecoverStale, StartRepairTarget, FailLater, RepairTimeout,
      SendAudit, AuditTimeout, RecoverAudit, Fail, RestartFromNextSource, NextSource
<1> QED BY <1>1, <1>2 DEF Server, ClaimStart, ClaimSkip, SendGcDelete, SendRepairCleanup

LEMMA ConnectionLost ==
    ASSUME TypeOK, NEW n \in Nodes, NEW restart, LoseConnection(n, restart)
    PROVE  Outside
<1>1. toNode[n] \in Seq(ToNode) /\ toServer[n] \in Seq(ToServer) BY DEF TypeOK
<1>2. NodeFewer
  <2>1. PICK k \in 0 .. Len(toNode[n]) : toNode' = [toNode EXCEPT ![n] = SubSeq(@, 1, k)]
    BY DEF LoseConnection
  <2> DEFINE q == SubSeq(toNode[n], 1, k)
  <2>2. toNode' = [toNode EXCEPT ![n] = q] BY <2>1
  <2>3. Sub(q, toNode[n]) BY <1>1, SubPrefix
  <2> HIDE DEF q
  <2> SUFFICES ASSUME NEW r \in Nodes PROVE Sub(toNode'[r], toNode[r]) BY DEF NodeFewer
  <2>4. toNode'[r] = IF r = n THEN q ELSE toNode[r] BY <2>2 DEF TypeOK
  <2>5. CASE r = n BY <2>3, <2>4, <2>5
  <2>6. CASE r # n BY <2>4, <2>6, SubSame DEF TypeOK
  <2> QED BY <2>5, <2>6
<1>3. ServerFewer
  <2>1. PICK i \in 0 .. Len(toServer[n]) : \E k \in i .. Len(toServer[n]) :
          toServer' = [toServer EXCEPT ![n] = SubSeq(@, 1, i) \o SubSeq(@, k + 1, Len(@))]
    BY DEF LoseConnection
  <2>2. PICK k \in i .. Len(toServer[n]) :
          toServer' = [toServer EXCEPT ![n] = SubSeq(@, 1, i) \o SubSeq(@, k + 1, Len(@))]
    BY <2>1
  <2> DEFINE q == SubSeq(toServer[n], 1, i) \o SubSeq(toServer[n], k + 1, Len(toServer[n]))
  <2>3. toServer' = [toServer EXCEPT ![n] = q] BY <2>2
  <2>4. Sub(q, toServer[n]) BY <1>1, SubCut
  <2> HIDE DEF q
  <2> SUFFICES ASSUME NEW r \in Nodes PROVE Sub(toServer'[r], toServer[r]) BY DEF ServerFewer
  <2>5. toServer'[r] = IF r = n THEN q ELSE toServer[r] BY <2>3 DEF TypeOK
  <2>6. CASE r = n BY <2>4, <2>5, <2>6
  <2>7. CASE r # n BY <2>5, <2>7, SubSame DEF TypeOK
  <2> QED BY <2>6, <2>7
<1>4. BytesKept BY DEF LoseConnection, BytesKept
<1> QED BY <1>2, <1>3, <1>4 DEF Outside, OneSent

LEMMA QuietOutside ==
    ASSUME TypeOK, UNCHANGED <<toNode, toServer>>, BytesKept
    PROVE  Outside
BY NothingSent, NothingReceived DEF Outside

LEMMA StepOutside ==
    ASSUME RepairInv, CopyInv', CopiesKept, "source_failure" \notin DbErrors, [Next]_vars
    PROVE  \/ Outside
           \/ (\E n \in Nodes : NodeStep(n)) /\ UNCHANGED <<dbVars, ctx>>
<1>0. TypeOK BY DEF RepairInv
<1>1. ASSUME Server PROVE Outside BY <1>1, ServerSent, ServerBytes, SameBytes DEF Outside
<1>2. ASSUME ScanEnqueues \/ OtherProcesses \/ ObserveReplica \/ ServerRestart \/ UNCHANGED vars
      PROVE  Outside
  <2>1. UNCHANGED <<toNode, toServer>> /\ UNCHANGED nodeVars
    BY <1>2 DEF ScanEnqueues, OtherProcesses, ObserveReplica, ServerRestart, vars
  <2> QED BY <1>0, <2>1, SameBytes, QuietOutside
<1>3. ASSUME NEW j \in Jobs, TransactionFails(j) PROVE Outside
  <2>1. UNCHANGED <<toNode, toServer>> /\ UNCHANGED nodeVars BY <1>3 DEF TransactionFails
  <2> QED BY <1>0, <2>1, SameBytes, QuietOutside
<1>4. ASSUME NEW n \in Nodes, NEW r \in BOOLEAN, LoseConnection(n, r) PROVE Outside
  BY <1>0, <1>4, ConnectionLost
<1>5. ASSUME NEW o \in Objects, NEW n \in Nodes, LoseBytes(o, n) PROVE Outside
  <2>1. UNCHANGED <<toNode, toServer, session>> BY <1>5 DEF LoseBytes
  <2>2. /\ disk' = [disk EXCEPT ![o][n] = None]
        /\ damaged' = [damaged EXCEPT ![o] = @ \cup {n}]
    BY <1>5 DEF LoseBytes
  <2>3. BytesKept BY <1>0, <2>1, <2>2 DEF BytesKept, TypeOK
  <2> QED BY <1>0, <2>1, <2>3, QuietOutside
<1>6. ASSUME NEW n \in Nodes, NodeStep(n) PROVE UNCHANGED <<dbVars, ctx>>
  BY <1>6 DEF NodeStep, NodeReceive, NodeStoreObjectBegin, NodeStore, NodeStoreObjectEnd, memVars,
              NodeRepairAbort, NodeDeleteObject, NodeStreamObjectBegin, NodeAuditSlice
<1> QED BY <1>1, <1>2, <1>3, <1>4, <1>5, <1>6 DEF Next, Faults

(* Only the node's reply takes a copy out of the cleanup queue. *)
LEMMA DoneByReply ==
    ASSUME RepairInv, [Next]_vars, NEW t \in Transfers,
           transfer'[t].cleanup = "done", transfer[t].cleanup # "done"
    PROVE  \E n \in Nodes : CopyErased(n, t)
<1>0. DbTypeOK /\ \A u \in Transfers : transfer[u] \in TransferRow
  BY DEF RepairInv, TypeOK, DbTypeOK
<1>1. ASSUME UNCHANGED transfer \/ \E u : transfer' = CleanupQueued(u) PROVE FALSE
  BY <1>0, <1>1 DEF CleanupQueued, DbTypeOK, TransferRow
<1>2. ASSUME OtherRows PROVE FALSE
  <2>1. ASSUME NEW j \in Jobs, AttemptRows(j) PROVE FALSE
    <3>1. ASSUME NEW u \in Transfers, MarkRepairTargetStarted(j, u) PROVE FALSE
      BY <1>0, <3>1 DEF MarkRepairTargetStarted, DbTypeOK, TransferRow
    <3> QED BY <1>1, <2>1, <3>1
        DEF AttemptRows, ClaimWithTarget, ClaimBlocked, ClaimWithoutTarget, RetryOf,
            MarkRepairCopying, ScheduleRepairRetry, ClaimAudit, AuditPassed, DiscardTarget,
            Publish, AuditFailed, RecoverStaleAudit
  <2>2. CASE Operators
    BY <1>1, <2>2 DEF Operators, EnqueueRepairJob, CancelRepairJob, RequeueRepairJob,
                      GcUnreferencedObject
  <2>3. ASSUME NEW u \in Transfers, ClaimRepairCleanup(u) PROVE FALSE
    BY <1>0, <2>3 DEF ClaimRepairCleanup, DbTypeOK, TransferRow
  <2> QED BY <1>1, <1>2, <2>1, <2>2, <2>3
      DEF OtherRows, ReplicaObserved, ScheduledAuditResult, SendObjectDelete, dbVars
<1>3. ASSUME NEW j \in Jobs, SourceGivenUp(j) PROVE FALSE
  BY <1>1, <1>3 DEF SourceGivenUp, NoteSourceFailure
<1>4. ASSUME NEW n \in Nodes, NEW o \in Objects, ObjectErased(n, o) PROVE FALSE
  BY <1>1, <1>4 DEF ObjectErased, ObjectDeleted
<1>7. ASSUME NEW n \in Nodes, NEW j \in Jobs, CopyStored(n, j) PROVE FALSE
  BY <1>1, <1>7 DEF CopyStored, StoreVerifying
<1>5. PICK n \in Nodes, u \in Transfers : CopyErased(n, u)
  BY <1>2, <1>3, <1>4, <1>7, StepTransacts DEF Transacts
<1>6. u = t
  BY <1>0, <1>5 DEF CopyErased, MarkRepairCleanupResult, DbTypeOK, TransferRow
<1> QED BY <1>5, <1>6

-----------------------------------------------------------------------------
(* An erased copy does not come back. *)

LEMMA OneFrameIn ==
    ASSUME NEW S, NEW x \in S
    PROVE  \A m : InQueue(<<x>>, m) <=> m = x
<1> DEFINE ms == <<x>>
<1>1. ms \in Seq(S) /\ Len(ms) = 1 /\ ms[1] = x OBVIOUS
<1> HIDE DEF ms
<1>2. \A m : InQueue(ms, m) <=> m = x BY <1>1 DEF InQueue
<1> QED BY <1>2 DEF ms

(* The frames of a step the nodes have no part in: old ones, or the one it  *)
(* sends.                                                                   *)
LEMMA OutsideIn ==
    ASSUME TypeOK, OneSent, NEW n \in Nodes
    PROVE  \A m : InQueue(toNode'[n], m) =>
              \/ InQueue(toNode[n], m)
              \/ m \in ToNode /\ Proper(n, m)
<1> SUFFICES ASSUME NEW m, InQueue(toNode'[n], m), ~InQueue(toNode[n], m)
             PROVE  m \in ToNode /\ Proper(n, m)
  OBVIOUS
<1>1. ~NodeFewer
  <2> SUFFICES ASSUME NodeFewer PROVE FALSE OBVIOUS
  <2>1. Sub(toNode'[n], toNode[n]) BY DEF NodeFewer
  <2> QED BY <2>1, SubIn
<1>2. PICK r \in Nodes, x \in ToNode : toNode' = Sent(r, <<x>>) /\ Proper(r, x)
  BY <1>1 DEF OneSent
<1>3. n = r
  <2> SUFFICES ASSUME n # r PROVE FALSE OBVIOUS
  <2>1. toNode'[n] = toNode[n] BY <1>2 DEF Sent, TypeOK
  <2> QED BY <2>1
<1> DEFINE ms == <<x>>
<1>4. ms \in Seq(ToNode) BY OneFrame
<1>5. \A y : InQueue(ms, y) <=> y = x BY OneFrameIn
<1>6. toNode'[n] = toNode[n] \o ms /\ toNode[n] \in Seq(ToNode) BY <1>2, <1>3 DEF Sent, TypeOK
<1> HIDE DEF ms
<1>7. InQueue(ms, m) BY <1>4, <1>6, PushIn
<1> QED BY <1>2, <1>3, <1>5, <1>7

LEMMA OutsideErase ==
    ASSUME RepairInv, EraseInv, TypeOK', CopiesKept, Outside,
           \A t \in Transfers : transfer'[t].cleanup = "done" /\ transfer[t].cleanup # "done" =>
               \E n \in Nodes : CopyErased(n, t)
    PROVE  EraseInv'
<1>0. TypeOK BY DEF RepairInv
<1>1. OneSent /\ ServerFewer /\ BytesKept BY DEF Outside
<1>2. \A o \in Objects, n \in Nodes : disk'[o][n] # None => disk'[o][n] = disk[o][n]
  BY <1>1 DEF BytesKept
<1>3. Placed'
  <2> SUFFICES ASSUME NEW o \in Objects, NEW n \in Nodes, disk'[o][n] \in Transfers
               PROVE  transfer'[disk'[o][n]].object = o /\ transfer'[disk'[o][n]].node = n
    BY DEF Placed
  <2>1. PICK t \in Transfers : t = disk'[o][n] OBVIOUS
  <2>2. disk[o][n] = t BY <1>2, <2>1, NoneAssumption
  <2>3. transfer[t].object = o /\ transfer[t].node = n BY <2>2 DEF EraseInv, Placed
  <2>4. ~Unused(t) BY <2>3, NoneAssumption DEF Unused
  <2> QED BY <2>1, <2>3, <2>4 DEF CopiesKept
<1>4. Routed'
  <2> SUFFICES ASSUME NEW n \in Nodes, NEW i \in 1 .. Len(toNode'[n]),
                      toNode'[n][i].op \in AtTarget
               PROVE  /\ transfer'[toNode'[n][i].t].node = n
                      /\ toNode'[n][i].op = "repair_abort" =>
                            transfer'[toNode'[n][i].t].cleanup # "none"
    BY DEF Routed
  <2>1. PICK m : m = toNode'[n][i] OBVIOUS
  <2>2. CASE Proper(n, m) BY <2>1, <2>2 DEF Proper
  <2>3. CASE ~Proper(n, m)
    <3>0. InQueue(toNode'[n], m) BY <2>1 DEF InQueue
    <3>1. PICK k \in 1 .. Len(toNode[n]) : m = toNode[n][k]
      BY <1>0, <1>1, <2>3, <3>0, OutsideIn DEF InQueue
    <3>2. /\ transfer[m.t].node = n
          /\ m.op = "repair_abort" => transfer[m.t].cleanup # "none"
      BY <2>1, <3>1 DEF EraseInv, Routed
    <3>3. m.t \in Transfers
      <4>1. m \in ToNode BY <1>0, <3>1 DEF TypeOK
      <4> QED BY <2>1, <4>1 DEF ToNode, AtTarget
    <3>4. ~Unused(m.t) BY <3>2, NoneAssumption DEF Unused
    <3> QED BY <2>1, <3>2, <3>3, <3>4 DEF CopiesKept
  <2> QED BY <2>2, <2>3
<1>5. BegunFirst'
  <2> SUFFICES ASSUME NEW t \in Transfers, NEW n \in Nodes
               PROVE  After(toNode'[n], Msg("repair_abort", t), Msg("store_object_begin", t))
    BY DEF BegunFirst
  <2>1. PICK a \in ToNode : a = Msg("repair_abort", t) BY Frames
  <2>2. PICK b \in ToNode : b = Msg("store_object_begin", t) BY Frames
  <2>3. a.op = "repair_abort" /\ a.t = t /\ b.op = "store_object_begin" /\ b.t = t
    BY <2>1, <2>2 DEF Msg
  <2>4. a # b BY <2>3
  <2>5. After(toNode[n], a, b) BY <2>1, <2>2 DEF EraseInv, BegunFirst
  <2>6. toNode[n] \in Seq(ToNode) BY <1>0 DEF TypeOK
  <2>7. CASE NodeFewer
    <3>1. Sub(toNode'[n], toNode[n]) BY <2>7 DEF NodeFewer
    <3>2. toNode'[n] \in Seq(ToNode) BY DEF TypeOK
    <3>3. After(toNode'[n], a, b) BY <2>4, <2>5, <2>6, <3>1, <3>2, SubAfter
    <3> QED BY <2>1, <2>2, <3>3
  <2>8. CASE ~NodeFewer
    <3>1. PICK r \in Nodes, x \in ToNode : toNode' = Sent(r, <<x>>) /\ Proper(r, x)
      BY <1>1, <2>8 DEF OneSent
    <3>2. CASE n # r
      <4>1. toNode'[n] = toNode[n] BY <1>0, <3>1, <3>2 DEF Sent, TypeOK
      <4> QED BY <2>1, <2>2, <2>5, <4>1
    <3>3. CASE n = r
      <4>1. toNode'[n] = toNode[n] \o <<x>> BY <1>0, <3>1, <3>3 DEF Sent, TypeOK
      <4>2. ASSUME x = b PROVE ~InQueue(toNode[n], a)
        <5>1. Unused(t) BY <2>3, <3>1, <4>2 DEF Proper
        <5>2. \A i \in 1 .. Len(toNode[n]) : ~Names(toNode[n][i], t)
          BY <5>1 DEF RepairInv, FrameInv, Fresh
        <5> QED BY <2>3, <5>2 DEF InQueue, Names, Named
      <4>3. After(toNode[n] \o <<x>>, a, b) BY <2>4, <2>5, <2>6, <4>2, PushAfter
      <4> QED BY <2>1, <2>2, <4>1, <4>3
    <3> QED BY <3>2, <3>3
  <2> QED BY <2>7, <2>8
<1>6. ErasedIsGone'
  <2> SUFFICES ASSUME NEW t \in Transfers,
                      transfer'[t].cleanup = "done" \/ ToServerHas(Msg("repair_abort_reply", t))'
               PROVE  Gone(t)'
    BY DEF ErasedIsGone
  <2>1. PICK r \in ToServer : r = Msg("repair_abort_reply", t) BY Frames
  <2>2. PICK b \in ToNode : b = Msg("store_object_begin", t) BY Frames
  <2>3. r.op = "repair_abort_reply" /\ r.t = t /\ b.op = "store_object_begin" /\ b.t = t
    BY <2>1, <2>2 DEF Msg
  <2>4. ASSUME NEW n \in Nodes, InQueue(toServer'[n], r) PROVE InQueue(toServer[n], r)
    <3>1. Sub(toServer'[n], toServer[n]) BY <1>1 DEF ServerFewer
    <3> QED BY <2>4, <3>1, SubIn
  <2>5. transfer[t].cleanup = "done" \/ \E n \in Nodes : InQueue(toServer[n], r)
    <3>1. CASE \E n \in Nodes : InQueue(toServer'[n], r) BY <2>4, <3>1
    <3>2. CASE transfer'[t].cleanup = "done" /\ transfer[t].cleanup # "done"
      <4>1. PICK n \in Nodes : CopyErased(n, t) BY <3>2
      <4>2. toServer[n] # <<>> /\ Head(toServer[n]) = r /\ toServer[n] \in Seq(ToServer)
        BY <1>0, <2>1, <4>1 DEF CopyErased, TypeOK
      <4>3. InQueue(toServer[n], r) BY <4>2, TailIn
      <4> QED BY <4>3
    <3>3. (\E n \in Nodes : InQueue(toServer'[n], r)) \/ transfer'[t].cleanup = "done"
      BY <2>1 DEF ToServerHas
    <3> QED BY <3>1, <3>2, <3>3
  <2>6. Gone(t) BY <2>1, <2>5 DEF EraseInv, ErasedIsGone, ToServerHas
  <2>7. session'[t] = "none" BY <1>1, <2>6 DEF BytesKept, Gone
  <2>8. \A o \in Objects, n \in Nodes : disk'[o][n] # t BY <1>2, <2>6, NoneAssumption DEF Gone
  <2>9. ASSUME NEW n \in Nodes, InQueue(toNode'[n], b) PROVE FALSE
    <3>1. ~InQueue(toNode[n], b) BY <2>2, <2>6 DEF Gone, ToNodeHas
    <3>2. Proper(n, b) BY <1>0, <1>1, <2>9, <3>1, OutsideIn
    <3>3. Unused(t) /\ transfer'[t].cleanup = "none" BY <2>3, <3>2 DEF Proper
    <3>4. ASSUME NEW k \in Nodes, InQueue(toServer[k], r) PROVE FALSE
      <4>1. \A i \in 1 .. Len(toServer[k]) : ~Names(toServer[k][i], t)
        BY <3>3 DEF RepairInv, FrameInv, Fresh
      <4> QED BY <2>3, <3>4, <4>1 DEF InQueue, Names, Named
    <3>5. \A k \in Nodes : ~InQueue(toServer'[k], r) BY <2>4, <3>4
    <3> QED BY <2>1, <3>3, <3>5 DEF ToServerHas
  <2> QED BY <2>2, <2>7, <2>8, <2>9 DEF Gone, ToNodeHas
<1> QED BY <1>3, <1>4, <1>5, <1>6 DEF EraseInv

(* What a node may do to sessions and disks: it opens the session its       *)
(* oldest frame begins, stores the copy of a full session where the copy    *)
(* belongs, and removes directories.                                        *)
NodeBytes ==
    /\ \A t \in Transfers : session'[t] # "none" =>
          session[t] # "none" \/ ToNodeHas(Msg("store_object_begin", t))
    /\ \A o \in Objects, n \in Nodes :
          \/ disk'[o][n] \in {disk[o][n], None}
          \/ \E t \in Transfers : /\ disk'[o][n] = t /\ session[t] # "none"
                                  /\ transfer[t].object = o /\ transfer[t].node = n

LEMMA NodeErase ==
    ASSUME TypeOK, EraseInv, NEW n \in Nodes, NEW op, NodeReceive(n, op), NodeBytes,
           \A t \in Transfers : ToServerHas(Msg("repair_abort_reply", t))' =>
               \/ ToServerHas(Msg("repair_abort_reply", t))
               \/ Gone(t)'
    PROVE  EraseInv'
<1>1. /\ toNode[n] # <<>> /\ toNode' = [toNode EXCEPT ![n] = Tail(@)] /\ UNCHANGED transfer
  BY DEF NodeReceive, dbVars
<1>2. NodeFewer
  <2> SUFFICES ASSUME NEW k \in Nodes PROVE Sub(toNode'[k], toNode[k]) BY DEF NodeFewer
  <2>1. toNode'[k] = IF k = n THEN Tail(toNode[n]) ELSE toNode[k] BY <1>1 DEF TypeOK
  <2>2. CASE k = n BY <1>1, <2>1, <2>2, SubTail DEF TypeOK
  <2>3. CASE k # n BY <2>1, <2>3, SubSame DEF TypeOK
  <2> QED BY <2>2, <2>3
<1>3. ASSUME NEW m, ToNodeHas(m)' PROVE ToNodeHas(m)
  BY <1>2, <1>3, SubIn DEF NodeFewer, ToNodeHas
<1>4. Placed'
  <2> SUFFICES ASSUME NEW o \in Objects, NEW k \in Nodes, disk'[o][k] \in Transfers
               PROVE  transfer[disk'[o][k]].object = o /\ transfer[disk'[o][k]].node = k
    BY <1>1 DEF Placed
  <2> QED BY NoneAssumption DEF NodeBytes, EraseInv, Placed
<1>5. Routed'
  <2> SUFFICES ASSUME NEW k \in Nodes, NEW i \in 1 .. Len(toNode'[k]),
                      toNode'[k][i].op \in AtTarget
               PROVE  /\ transfer[toNode'[k][i].t].node = k
                      /\ toNode'[k][i].op = "repair_abort" =>
                            transfer[toNode'[k][i].t].cleanup # "none"
    BY <1>1 DEF Routed
  <2>1. Sub(toNode'[k], toNode[k]) BY <1>2 DEF NodeFewer
  <2>2. PICK l \in 1 .. Len(toNode[k]) : toNode[k][l] = toNode'[k][i] BY <2>1, SubIn
  <2> QED BY <2>2 DEF EraseInv, Routed
<1>6. BegunFirst'
  <2> SUFFICES ASSUME NEW t \in Transfers, NEW k \in Nodes
               PROVE  After(toNode'[k], Msg("repair_abort", t), Msg("store_object_begin", t))
    BY DEF BegunFirst
  <2>1. After(toNode[k], Msg("repair_abort", t), Msg("store_object_begin", t))
    BY DEF EraseInv, BegunFirst
  <2>2. toNode[k] \in Seq(ToNode) /\ toNode'[k] \in Seq(ToNode)
    <3>1. toNode[k] \in Seq(ToNode) BY DEF TypeOK
    <3>2. toNode'[k] = IF k = n THEN Tail(toNode[n]) ELSE toNode[k] BY <1>1 DEF TypeOK
    <3> QED BY <1>1, <3>1, <3>2, HeadFrame
  <2>3. Sub(toNode'[k], toNode[k]) BY <1>2 DEF NodeFewer
  <2>4. Msg("repair_abort", t) # Msg("store_object_begin", t) BY DEF Msg
  <2> QED BY <2>1, <2>2, <2>3, <2>4, SubAfter
<1>7. ErasedIsGone'
  <2> SUFFICES ASSUME NEW t \in Transfers, Gone(t) PROVE Gone(t)'
    BY <1>1 DEF EraseInv, ErasedIsGone
  <2>1. session'[t] = "none" BY DEF NodeBytes, Gone
  <2>2. ~ToNodeHas(Msg("store_object_begin", t))' BY <1>3 DEF Gone
  <2>3. \A o \in Objects, k \in Nodes : disk'[o][k] # t
    BY NoneAssumption DEF NodeBytes, Gone
  <2> QED BY <2>1, <2>2, <2>3 DEF Gone
<1> QED BY <1>4, <1>5, <1>6, <1>7 DEF EraseInv

(* A node's replies are added to those on their way. *)
LEMMA RepliesIn ==
    ASSUME TypeOK, NEW n \in Nodes, NEW ms \in Seq(ToServer), Replied(n, ms), NEW r,
           ToServerHas(r)'
    PROVE  ToServerHas(r) \/ InQueue(ms, r)
<1>1. PICK k \in Nodes : InQueue(toServer'[k], r) BY DEF ToServerHas
<1>2. toServer'[k] = IF k = n THEN toServer[n] \o ms ELSE toServer[k] BY DEF Replied, TypeOK
<1>3. CASE k = n
  <2>1. InQueue(toServer[n], r) \/ InQueue(ms, r) BY <1>1, <1>2, <1>3, PushIn DEF TypeOK
  <2> QED BY <2>1 DEF ToServerHas
<1>4. CASE k # n BY <1>1, <1>2, <1>4 DEF ToServerHas
<1> QED BY <1>3, <1>4

LEMMA OneReplyIn ==
    ASSUME TypeOK, NEW n \in Nodes, NEW x \in ToServer, Replied(n, <<x>>), NEW r,
           ToServerHas(r)'
    PROVE  ToServerHas(r) \/ r = x
<1> DEFINE ms == <<x>>
<1>1. ms \in Seq(ToServer) BY OneFrame
<1>2. \A y : InQueue(ms, y) <=> y = x BY OneFrameIn
<1>3. Replied(n, ms) OBVIOUS
<1> HIDE DEF ms
<1> QED BY <1>1, <1>2, <1>3, RepliesIn

LEMMA HeadIn ==
    ASSUME TypeOK, NEW n \in Nodes, toNode[n] # <<>>
    PROVE  /\ ToNodeHas(Head(toNode[n])) /\ Head(toNode[n]) \in ToNode
           /\ Head(toNode[n]) = toNode[n][1] /\ 1 \in 1 .. Len(toNode[n])
<1>1. toNode[n] \in Seq(ToNode) BY DEF TypeOK
<1> QED BY <1>1, TailIn, HeadFrame DEF ToNodeHas

(* A frame that reaches its target: whose it is. *)
LEMMA TargetFrame ==
    ASSUME TypeOK, EraseInv, NEW n \in Nodes, toNode[n] # <<>>,
           Head(toNode[n]).op \in AtTarget
    PROVE  /\ Head(toNode[n]).t \in Transfers
           /\ transfer[Head(toNode[n]).t].node = n
           /\ Head(toNode[n]) = Msg(Head(toNode[n]).op, Head(toNode[n]).t)
<1> DEFINE h == Head(toNode[n])
<1>1. h \in ToNode /\ h = toNode[n][1] /\ 1 \in 1 .. Len(toNode[n]) BY HeadIn
<1> HIDE DEF h
<1>2. h.op \in AtTarget BY DEF h
<1>3. h.t \in Transfers /\ h = Msg(h.op, h.t) BY <1>1, <1>2 DEF ToNode, AtTarget, Msg
<1>4. transfer[h.t].node = n BY <1>1, <1>2 DEF EraseInv, Routed
<1> QED BY <1>3, <1>4 DEF h

(* After its abort a copy is gone. *)
LEMMA AbortGone ==
    ASSUME TypeOK, EraseInv, NEW n \in Nodes, NodeRepairAbort(n), NEW t, t = Head(toNode[n]).t
    PROVE  Gone(t)'
<1>1. /\ NodeReceive(n, "repair_abort") /\ toNode[n] # <<>> /\ Head(toNode[n]).op = "repair_abort"
      /\ toNode' = [toNode EXCEPT ![n] = Tail(@)]
  BY DEF NodeRepairAbort, NodeReceive
<1>3. t \in Transfers /\ transfer[t].node = n /\ Head(toNode[n]) = Msg("repair_abort", t)
  BY <1>1, TargetFrame DEF AtTarget
<1>4. session' = [session EXCEPT ![t] = "none"]
      /\ disk' = IF disk[transfer[t].object][n] = t
                 THEN [disk EXCEPT ![transfer[t].object][n] = None] ELSE disk
  BY DEF NodeRepairAbort
<1>5. session'[t] = "none" BY <1>3, <1>4 DEF TypeOK
<1>6. ASSUME NEW o \in Objects, NEW k \in Nodes, disk'[o][k] = t PROVE FALSE
  <2>1. disk[o][k] = t BY <1>3, <1>4, <1>6, NoneAssumption DEF TypeOK
  <2>2. transfer[t].object = o /\ k = n BY <1>3, <2>1 DEF EraseInv, Placed
  <2>3. disk'[o][k] = None BY <1>4, <2>1, <2>2 DEF TypeOK
  <2> QED BY <1>3, <1>6, <2>3, NoneAssumption
<1>7. ASSUME NEW k \in Nodes, InQueue(toNode'[k], Msg("store_object_begin", t)) PROVE FALSE
  <2>1. PICK b : b = Msg("store_object_begin", t) OBVIOUS
  <2>2. b.op \in AtTarget /\ b.t = t BY <2>1 DEF Msg, AtTarget
  <2>3. toNode'[k] = IF k = n THEN Tail(toNode[n]) ELSE toNode[k] BY <1>1 DEF TypeOK
  <2>4. toNode[n] \in Seq(ToNode) BY DEF TypeOK
  <2>5. CASE k = n
    <3>1. PICK i \in 1 .. Len(Tail(toNode[n])) : Tail(toNode[n])[i] = b
      BY <1>7, <2>1, <2>3, <2>5 DEF InQueue
    <3>2. /\ i + 1 \in 1 .. Len(toNode[n]) /\ toNode[n][i + 1] = b
          /\ 1 \in 1 .. Len(toNode[n]) /\ toNode[n][1] = Head(toNode[n])
      BY <1>1, <2>4, <3>1, HeadFrame
    <3>3. i + 1 < 1 BY <1>3, <2>1, <3>2 DEF EraseInv, BegunFirst, After
    <3> QED BY <3>1, <3>3
  <2>6. CASE k # n
    <3>1. PICK i \in 1 .. Len(toNode[k]) : toNode[k][i] = b
      BY <1>7, <2>1, <2>3, <2>6 DEF InQueue
    <3>2. transfer[t].node = k BY <2>2, <3>1 DEF EraseInv, Routed
    <3> QED BY <1>3, <2>6, <3>2
  <2> QED BY <2>5, <2>6
<1>8. ~ToNodeHas(Msg("store_object_begin", t))' BY <1>7 DEF ToNodeHas
<1> QED BY <1>5, <1>6, <1>8 DEF Gone

LEMMA NodeErases ==
    ASSUME RepairInv, EraseInv, NEW n \in Nodes, NodeStep(n)
    PROVE  EraseInv'
<1>0. TypeOK BY DEF RepairInv
<1> DEFINE h == Head(toNode[n])
<1>1. PICK op : NodeReceive(n, op) /\ toNode[n] # <<>> /\ h.op = op
  BY DEF NodeStep, NodeReceive, NodeStoreObjectBegin, NodeStore, NodeStoreObjectEnd,
         NodeRepairAbort, NodeDeleteObject, NodeStreamObjectBegin, NodeAuditSlice
<1>h. h \in ToNode /\ ToNodeHas(h) BY <1>0, <1>1, HeadIn
<1>2. ASSUME UNCHANGED <<session, disk>>, NEW ms \in Seq(ToServer), Replied(n, ms),
             \A i \in 1 .. Len(ms) : ms[i].op # "repair_abort_reply"
      PROVE  EraseInv'
  <2>1. NodeBytes BY <1>2 DEF NodeBytes
  <2>2. ASSUME NEW t \in Transfers, ToServerHas(Msg("repair_abort_reply", t))'
        PROVE  ToServerHas(Msg("repair_abort_reply", t))
    <3>1. PICK r : r = Msg("repair_abort_reply", t) OBVIOUS
    <3>2. ~InQueue(ms, r) BY <1>2, <3>1 DEF InQueue, Msg
    <3> QED BY <1>0, <1>2, <2>2, <3>1, <3>2, RepliesIn
  <2> QED BY <1>0, <1>1, <2>1, <2>2, NodeErase
<1>3. ASSUME NEW x \in ToServer, Replied(n, <<x>>), x.op # "repair_abort_reply", NodeBytes
      PROVE  EraseInv'
  <2>1. ASSUME NEW t \in Transfers, ToServerHas(Msg("repair_abort_reply", t))'
        PROVE  ToServerHas(Msg("repair_abort_reply", t))
    <3>1. PICK r : r = Msg("repair_abort_reply", t) OBVIOUS
    <3>2. r # x BY <1>3, <3>1 DEF Msg
    <3> QED BY <1>0, <1>3, <2>1, <3>1, <3>2, OneReplyIn
  <2> QED BY <1>0, <1>1, <1>3, <2>1, NodeErase
<1>4. CASE NodeStoreObjectBegin(n)
  <2>1. PICK t \in Transfers : t = h.t /\ h = Msg("store_object_begin", t)
    <3>1. h.op = "store_object_begin" BY <1>4 DEF NodeStoreObjectBegin, NodeReceive
    <3> QED BY <1>0, <1>1, <3>1, TargetFrame DEF AtTarget
  <2>2. /\ session' = [session EXCEPT ![t] = "open"] /\ UNCHANGED disk
        /\ Replied(n, <<Msg("store_object_ready", t)>>)
    BY <1>4, <2>1 DEF NodeStoreObjectBegin
  <2>3. NodeBytes BY <1>0, <1>h, <2>1, <2>2 DEF NodeBytes, TypeOK
  <2>4. PICK x \in ToServer : x = Msg("store_object_ready", t) BY Frames
  <2> QED BY <1>3, <2>2, <2>3, <2>4 DEF Msg
<1>5. CASE NodeStore(n)
  <2>1. NodeBytes BY <1>0, <1>5 DEF NodeStore, NodeBytes, TypeOK
  <2>2. UNCHANGED toServer BY <1>5 DEF NodeStore
  <2>3. \A r : ToServerHas(r)' => ToServerHas(r) BY <2>2 DEF ToServerHas
  <2> QED BY <1>0, <1>1, <2>1, <2>3, NodeErase
<1>6. CASE NodeStoreObjectEnd(n)
  <2>1. PICK t \in Transfers : t = h.t /\ transfer[t].node = n
    <3>1. h.op = "store_object_end" BY <1>6 DEF NodeStoreObjectEnd, NodeReceive
    <3> QED BY <1>0, <1>1, <3>1, TargetFrame DEF AtTarget
  <2>2. PICK w \in {"store_end_ok", "store_end_error"} : Replied(n, <<Msg(w, t)>>)
    BY <1>6, <2>1 DEF NodeStoreObjectEnd
  <2>3. /\ session' = [session EXCEPT ![t] = "none"]
        /\ \/ UNCHANGED disk
           \/ session[t] = "full" /\ disk' = [disk EXCEPT ![transfer[t].object][n] = t]
    BY <1>6, <2>1 DEF NodeStoreObjectEnd
  <2>4. NodeBytes
    <3>1. \A u \in Transfers : session'[u] # "none" => session[u] # "none"
      BY <1>0, <2>3 DEF TypeOK
    <3>2. ASSUME NEW o \in Objects, NEW k \in Nodes, disk'[o][k] # disk[o][k]
          PROVE  disk'[o][k] = t /\ o = transfer[t].object /\ k = n /\ session[t] # "none"
      BY <1>0, <2>3, <3>2 DEF TypeOK
    <3> QED BY <2>1, <3>1, <3>2 DEF NodeBytes
  <2>5. PICK x \in ToServer : x = Msg(w, t) BY Frames
  <2>6. x.op # "repair_abort_reply" BY <2>5 DEF Msg
  <2> QED BY <1>3, <2>2, <2>4, <2>5, <2>6
<1>7. CASE NodeRepairAbort(n)
  <2>1. PICK t \in Transfers : t = h.t
    <3>1. h.op = "repair_abort" BY <1>7 DEF NodeRepairAbort, NodeReceive
    <3> QED BY <1>0, <1>1, <3>1, TargetFrame DEF AtTarget
  <2>2. Gone(t)' BY <1>0, <1>7, <2>1, AbortGone
  <2>3. /\ session' = [session EXCEPT ![t] = "none"]
        /\ \/ UNCHANGED disk
           \/ disk' = [disk EXCEPT ![transfer[t].object][n] = None]
        /\ Replied(n, <<Msg("repair_abort_reply", t)>>)
    BY <1>7, <2>1 DEF NodeRepairAbort
  <2>4. NodeBytes
    <3>1. \A u \in Transfers : session'[u] # "none" => session[u] # "none"
      BY <1>0, <2>3 DEF TypeOK
    <3>2. ASSUME NEW o \in Objects, NEW k \in Nodes, disk'[o][k] # disk[o][k]
          PROVE  disk'[o][k] = None
      <4>1. PICK a : a = transfer[t].object OBVIOUS
      <4>2. disk' = [disk EXCEPT ![a][n] = None] BY <2>3, <3>2, <4>1
      <4>3. disk'[o] = IF o = a THEN [disk[o] EXCEPT ![n] = None] ELSE disk[o]
        BY <1>0, <4>2 DEF TypeOK
      <4> QED BY <1>0, <3>2, <4>3 DEF TypeOK
    <3> QED BY <3>1, <3>2 DEF NodeBytes
  <2>5. PICK x \in ToServer : x = Msg("repair_abort_reply", t) BY Frames
  <2>6. ASSUME NEW u \in Transfers, ToServerHas(Msg("repair_abort_reply", u))'
        PROVE  ToServerHas(Msg("repair_abort_reply", u)) \/ Gone(u)'
    <3>1. PICK r : r = Msg("repair_abort_reply", u) OBVIOUS
    <3>2. ToServerHas(r) \/ r = x BY <1>0, <2>3, <2>5, <2>6, <3>1, OneReplyIn
    <3>3. r = x => u = t BY <2>5, <3>1 DEF Msg
    <3> QED BY <2>2, <3>1, <3>2, <3>3
  <2> QED BY <1>0, <1>1, <2>4, <2>6, NodeErase
<1>8. CASE NodeDeleteObject(n)
  <2>1. PICK o \in Objects : o = h.o
    <3>1. h.op = "delete_object" BY <1>8 DEF NodeDeleteObject, NodeReceive
    <3> QED BY <1>h, <3>1 DEF ToNode
  <2>2. /\ disk' = [disk EXCEPT ![o][n] = None] /\ UNCHANGED session
        /\ Replied(n, <<DeleteReply(o)>>)
    BY <1>8, <2>1 DEF NodeDeleteObject, DeleteReply
  <2>3. NodeBytes BY <1>0, <2>2 DEF NodeBytes, TypeOK
  <2>4. PICK x \in ToServer : x = DeleteReply(o) BY DEF ToServer, DeleteReply
  <2>5. x.op # "repair_abort_reply" BY <2>4 DEF DeleteReply
  <2> QED BY <1>3, <2>2, <2>3, <2>4, <2>5
<1>9. CASE NodeStreamObjectBegin(n)
  <2>1. PICK t \in Transfers : t = h.t
    <3>1. h.op = "stream_object_begin" BY <1>9 DEF NodeStreamObjectBegin, NodeReceive
    <3> QED BY <1>h, <3>1 DEF ToNode
  <2>2. UNCHANGED <<session, disk>> BY <1>9 DEF NodeStreamObjectBegin
  <2>3. Msg("stream", t) \in ToServer /\ Msg("stream_object_end", t) \in ToServer
        /\ Msg("stream_missing", t) \in ToServer
    BY Frames
  <2>4. CASE Replied(n, <<Msg("stream_missing", t)>>)
    <3>1. PICK x \in ToServer : x = Msg("stream_missing", t) BY <2>3
    <3>2. x.op # "repair_abort_reply" BY <3>1 DEF Msg
    <3>3. NodeBytes BY <2>2 DEF NodeBytes
    <3> QED BY <1>3, <2>4, <3>1, <3>2, <3>3
  <2>5. CASE Replied(n, <<Msg("stream", t), Msg("stream_object_end", t)>>)
    <3> DEFINE ms == <<Msg("stream", t), Msg("stream_object_end", t)>>
    <3>1. ms \in Seq(ToServer) BY <2>3
    <3>2. Len(ms) = 2 /\ ms[1].op = "stream" /\ ms[2].op = "stream_object_end" BY DEF Msg
    <3>3. Replied(n, ms) BY <2>5
    <3> HIDE DEF ms
    <3>4. \A i \in 1 .. Len(ms) : i = 1 \/ i = 2 BY <3>2
    <3>5. \A i \in 1 .. Len(ms) : ms[i].op # "repair_abort_reply" BY <3>2, <3>4
    <3> QED BY <1>2, <2>2, <3>1, <3>3, <3>5
  <2> QED BY <1>9, <2>1, <2>4, <2>5 DEF NodeStreamObjectBegin
<1>10. CASE NodeAuditSlice(n)
  <2>1. PICK w \in {"audit_missing", "audit_ok"} : Replied(n, <<[h EXCEPT !.op = w]>>)
    BY <1>10 DEF NodeAuditSlice
  <2>2. UNCHANGED <<session, disk>> /\ h.op = "audit_slice"
    BY <1>10 DEF NodeAuditSlice, NodeReceive
  <2>3. h \in [op : {"audit_slice"}, j : Jobs, event : Transfers \X Nat] BY <1>h, <2>2 DEF ToNode
  <2>4. PICK x : x = [h EXCEPT !.op = w] OBVIOUS
  <2> HIDE DEF h
  <2>5. x = [op |-> w, j |-> h.j, event |-> h.event] BY <2>3, <2>4
  <2>6. x \in ToServer /\ x.op # "repair_abort_reply" BY <2>3, <2>5 DEF ToServer
  <2>7. NodeBytes BY <2>2 DEF NodeBytes
  <2> QED BY <1>3, <2>1, <2>4, <2>6, <2>7
<1> QED BY <1>4, <1>5, <1>6, <1>7, <1>8, <1>9, <1>10 DEF NodeStep

LEMMA EraseInit == Init => EraseInv
<1> SUFFICES ASSUME Init PROVE EraseInv OBVIOUS
<1>1. \A n \in Nodes : Len(toNode[n]) = 0 /\ Len(toServer[n]) = 0 BY DEF Init
<1>2. \A o \in Objects, n \in Nodes : disk[o][n] \notin Transfers
  BY UploadAssumption, NoneAssumption DEF Init
<1>3. \A t \in Transfers : transfer[t].cleanup = "none" BY DEF Init, DbInit, NoTransfer
<1>4. Placed BY <1>2 DEF Placed
<1>5. Routed /\ BegunFirst BY <1>1 DEF Routed, BegunFirst, After
<1>6. ErasedIsGone BY <1>1, <1>3 DEF ErasedIsGone, ToServerHas, InQueue
<1> QED BY <1>4, <1>5, <1>6 DEF EraseInv

LEMMA EraseStep ==
    ASSUME RepairInv, RepairInv', EraseInv, "source_failure" \notin DbErrors, [Next]_vars
    PROVE  EraseInv'
<1>1. CopiesKept BY StepRefines, DbKeeps DEF RepairInv, LiveInv
<1>2. TypeOK' /\ CopyInv' BY DEF RepairInv
<1>3. Outside \/ \E n \in Nodes : NodeStep(n) BY <1>1, <1>2, StepOutside
<1>4. \A t \in Transfers : transfer'[t].cleanup = "done" /\ transfer[t].cleanup # "done" =>
         \E n \in Nodes : CopyErased(n, t)
  BY DoneByReply
<1> QED BY <1>1, <1>2, <1>3, <1>4, OutsideErase, NodeErases

(* Bytes of a copy that was not published are wanted by the job that runs,  *)
(* or a cleanup row still names them: the row is taken out of the queue     *)
(* only by the node's reply, which follows every frame that could store     *)
(* them.                                                                    *)
THEOREM AbandonedCopiesQueued ==
    ASSUME "source_failure" \notin DbErrors
    PROVE  Spec => []AbandonedCopyQueued
<1>1. Init => RepairInv /\ EraseInv BY RepairInit, EraseInit
<1>2. RepairInv /\ EraseInv /\ [Next]_vars => RepairInv' /\ EraseInv' BY RepairStep, EraseStep
<1>3. RepairInv /\ EraseInv => AbandonedCopyQueued
  <2> SUFFICES ASSUME RepairInv, EraseInv, NEW o \in Objects, NEW n \in Nodes,
                      NEW t \in Transfers, disk[o][n] = t
               PROVE  \/ transfer[t].cleanup \in QueueOpen
                      \/ \E j \in Jobs : /\ job[j].transfer = t
                                         /\ job[j].status \in Running \cup {"completed"}
    BY DEF AbandonedCopyQueued
  <2>1. transfer[t].node = n BY DEF EraseInv, Placed
  <2>2. ~Unused(t) BY <2>1, NoneAssumption DEF Unused
  <2>3. transfer[t].cleanup \in QueueOpen \cup {"none", "done"}
    BY DEF RepairInv, TypeOK, DbTypeOK, TransferRow
  <2>4. transfer[t].cleanup # "done" BY DEF EraseInv, ErasedIsGone, Gone
  <2>5. CASE transfer[t].cleanup = "none"
    <3>1. CleanupExact BY DEF RepairInv, CopyInv
    <3>2. PICK j \in Jobs : job[j].transfer = t /\ job[j].status \in Running \cup {"completed"}
      BY <2>2, <2>5, <3>1 DEF CleanupExact
    <3> QED BY <3>2
  <2> QED BY <2>3, <2>4, <2>5
<1> QED BY <1>1, <1>2, <1>3, PTL DEF Spec

-----------------------------------------------------------------------------
(* What a step may do to the rows a copy depends on: one job moves with its *)
(* copy, gives it up, is given a target, begins a copy or has it stored; or *)
(* no job changes.                                                          *)
CopiesSame == \A t \in Transfers :
    /\ transfer'[t].object = transfer[t].object /\ transfer'[t].node = transfer[t].node
    /\ transfer[t].cleanup = "none" => transfer'[t].cleanup = "none"

MovesOn(j) ==
    /\ job'[j].object = job[j].object /\ job'[j].target = job[j].target
    /\ job'[j].transfer = job[j].transfer /\ CopiesSame
    /\ job'[j].status \in Running => job[j].status \in Running
    /\ job'[j].status \in Kept => job[j].status = "verifying"

GivesUp(j) ==
    /\ job'[j].status \notin Pursued
    /\ \A t \in Transfers :
          /\ transfer'[t].object = transfer[t].object /\ transfer'[t].node = transfer[t].node
          /\ transfer[t].cleanup = "none" /\ transfer'[t].cleanup # "none"
                => t = job[j].transfer

ChosenFor(j) ==
    /\ job[j].status \in {"queued", "retry_wait"} /\ job'[j].status = "selecting_target"
    /\ job'[j].object = job[j].object /\ job'[j].transfer = None /\ CopiesSame
    /\ \A t \in Transfers :
          transfer[t].object = job[j].object /\ transfer[t].node = job'[j].target
             => transfer[t].cleanup \notin QueueOpen

Begun(j, t) ==
    /\ Unused(t) /\ ~CopyCurrent(j) /\ job[j].status \in Running \ {"verifying"}
    /\ job'[j].status = job[j].status
    /\ job'[j].object = job[j].object /\ job'[j].target = job[j].target
    /\ job'[j].transfer = t
    /\ transfer' = [transfer EXCEPT ![t] =
          [object |-> job[j].object, node |-> job[j].target, cleanup |-> "none"]]
    /\ UNCHANGED <<replicas, gcQueue>>

JobActs(j) ==
    /\ \A k \in Jobs \ {j} : job'[k] = job[k]
    /\ \/ MovesOn(j) \/ GivesUp(j) \/ ChosenFor(j)
       \/ \E t \in Transfers : Begun(j, t)
       \/ \E n \in Nodes : CopyStored(n, j)

JobsRest == UNCHANGED job /\ CopiesSame

CopyActs == JobsRest \/ (\E j \in Jobs : JobActs(j)) \/ \E j \in Jobs : SourceGivenUp(j)

LEMMA SameCopies == UNCHANGED transfer => CopiesSame
BY DEF CopiesSame

(* schedule_repair_retry, by whatever row it is called with. *)
LEMMA RetryActs ==
    ASSUME DbTypeOK, NEW j \in Jobs, NEW jb \in JobRow, NEW au, NEW h,
           RetryOf(j, jb, au, h), jb.transfer = job[j].transfer, jb.status \notin Terminal
    PROVE  JobActs(j)
<1> DEFINE s == IF jb.attempts >= MaxAttempts THEN "failed" ELSE "retry_wait"
           row == [jb EXCEPT !.status = s, !.target = None, !.transfer = None, !.reserved = FALSE]
<1>1. job' = [job EXCEPT ![j] = row] /\ transfer' = CleanupQueued(job[j].transfer)
  BY DEF RetryOf
<1>2. row.status = s BY DEF JobRow
<1>3. s \notin Pursued BY DEF Pursued, Running
<1> HIDE DEF s, row
<1>4. job'[j] = row /\ \A k \in Jobs \ {j} : job'[k] = job[k] BY <1>1 DEF DbTypeOK
<1>5. GivesUp(j)
  <2>1. \A t \in Transfers : transfer'[t].object = transfer[t].object
                             /\ transfer'[t].node = transfer[t].node
                             /\ (transfer'[t].cleanup # transfer[t].cleanup => t = job[j].transfer)
    BY <1>1 DEF CleanupQueued, DbTypeOK, TransferRow
  <2> QED BY <1>2, <1>3, <1>4, <2>1 DEF GivesUp
<1> QED BY <1>4, <1>5 DEF JobActs

LEMMA ClaimActs ==
    ASSUME RowInv, WaitingHasNone, NEW j \in Jobs,
           \/ \E S \in SUBSET Nodes, n \in Nodes : ClaimWithTarget(j, S, n)
           \/ ClaimBlocked(j) \/ ClaimWithoutTarget(j)
    PROVE  JobActs(j)
<1>0. DbTypeOK /\ Claimed(j) \in JobRow BY JobColumns, RowFacts DEF RowInv, Claimed
<1>1. /\ Claimed(j).transfer = job[j].transfer /\ Claimed(j).object = job[j].object
      /\ Claimed(j).status = job[j].status
  BY <1>0, RowFacts DEF Claimed, JobRow
<1>2. job[j].transfer = None /\ job[j].status \in {"queued", "retry_wait"}
  BY DEF ClaimWithTarget, ClaimBlocked, ClaimWithoutTarget, Claimable, WaitingHasNone
<1>3. ASSUME NEW S \in SUBSET Nodes, NEW n \in Nodes, ClaimWithTarget(j, S, n)
      PROVE  JobActs(j)
  <2> DEFINE row == [Claimed(j) EXCEPT !.status = "selecting_target", !.target = n,
                                       !.reserved = TRUE]
  <2>1. /\ job' = [job EXCEPT ![j] = row] /\ UNCHANGED transfer
        /\ EligibleTarget(job[j].object, n, S)
    BY <1>3 DEF ClaimWithTarget
  <2>2. /\ row.transfer = None /\ row.object = job[j].object /\ row.status = "selecting_target"
        /\ row.target = n
    BY <1>0, <1>1, <1>2 DEF JobRow
  <2> HIDE DEF row
  <2>3. job'[j] = row /\ \A k \in Jobs \ {j} : job'[k] = job[k] BY <1>0, <2>1 DEF DbTypeOK
  <2>4. ChosenFor(j) BY <1>2, <2>1, <2>2, <2>3, SameCopies DEF ChosenFor, EligibleTarget
  <2> QED BY <2>3, <2>4 DEF JobActs
<1>4. CASE ClaimBlocked(j)
  <2> DEFINE row == [Claimed(j) EXCEPT !.status = "canceled"]
  <2>1. job' = [job EXCEPT ![j] = row] /\ UNCHANGED transfer BY <1>4 DEF ClaimBlocked
  <2>2. row.status = "canceled" BY <1>0 DEF JobRow
  <2> HIDE DEF row
  <2>3. job'[j] = row /\ \A k \in Jobs \ {j} : job'[k] = job[k] BY <1>0, <2>1 DEF DbTypeOK
  <2>4. GivesUp(j) BY <2>1, <2>2, <2>3 DEF GivesUp, Pursued, Running
  <2> QED BY <2>3, <2>4 DEF JobActs
<1>5. CASE ClaimWithoutTarget(j)
  <2>1. Claimed(j).status \notin Terminal BY <1>1, <1>2 DEF Terminal
  <2> QED BY <1>0, <1>1, <1>5, <2>1, RetryActs DEF ClaimWithoutTarget
<1> QED BY <1>3, <1>4, <1>5

LEMMA PursueActs ==
    ASSUME RowInv, NEW j \in Jobs,
           \/ ~CopyCurrent(j) /\ \E t \in Transfers : MarkRepairTargetStarted(j, t)
           \/ MarkRepairCopying(j)
    PROVE  JobActs(j)
<1>0. DbTypeOK /\ job[j] \in JobRow BY RowFacts DEF RowInv
<1>1. ASSUME NEW t \in Transfers, MarkRepairTargetStarted(j, t), ~CopyCurrent(j)
      PROVE  JobActs(j)
  <2>1. job' = [job EXCEPT ![j] = [job[j] EXCEPT !.transfer = t]]
    BY <1>0, <1>1 DEF MarkRepairTargetStarted, DbTypeOK
  <2>2. job'[j] = [job[j] EXCEPT !.transfer = t] /\ \A k \in Jobs \ {j} : job'[k] = job[k]
    BY <1>0, <2>1 DEF DbTypeOK
  <2>3. /\ job'[j].transfer = t /\ job'[j].object = job[j].object
        /\ job'[j].target = job[j].target /\ job'[j].status = job[j].status
    BY <1>0, <2>2 DEF JobRow
  <2>4. job[j].status \in Running \ {"verifying"}
    BY <1>1 DEF MarkRepairTargetStarted, TargetStartable, Running
  <2>5. Begun(j, t) BY <1>1, <2>3, <2>4 DEF Begun, MarkRepairTargetStarted
  <2> QED BY <2>2, <2>5 DEF JobActs
<1>2. CASE MarkRepairCopying(j)
  <2>1. job'[j] = [job[j] EXCEPT !.status = "copying"] /\ \A k \in Jobs \ {j} : job'[k] = job[k]
    BY <1>0, <1>2 DEF MarkRepairCopying, DbTypeOK
  <2>2. /\ job'[j].transfer = job[j].transfer /\ job'[j].object = job[j].object
        /\ job'[j].target = job[j].target /\ job'[j].status = "copying"
    BY <1>0, <2>1 DEF JobRow
  <2>3. MovesOn(j)
    BY <1>2, <2>2, SameCopies DEF MovesOn, MarkRepairCopying, Running, Kept
  <2> QED BY <2>1, <2>3 DEF JobActs
<1> QED BY <1>1, <1>2

LEMMA AuditActs ==
    ASSUME RowInv, NEW j \in Jobs,
           \/ ClaimAudit(j) \/ AuditPassed(j) \/ RecoverStaleAudit(j)
           \/ \E s \in FailureKinds : AuditFailed(j, s)
    PROVE  JobsRest \/ JobActs(j)
<1>0. DbTypeOK /\ job[j] \in JobRow BY RowFacts DEF RowInv
<1>1. CASE ClaimAudit(j) \/ RecoverStaleAudit(j)
  BY <1>1, SameCopies DEF ClaimAudit, RecoverStaleAudit, JobsRest
<1>2. ASSUME NEW s \in FailureKinds, AuditFailed(j, s) PROVE JobsRest \/ JobActs(j)
  <2>1. job[j].status = "verifying"
    BY <1>2 DEF AuditFailed, RowInv, AuditOnlyWhileVerifying, AuditOpen
  <2>2. CASE UNCHANGED <<job, transfer>> BY <2>2, SameCopies DEF JobsRest
  <2>3. ASSUME NEW au, NEW h, RetryOf(j, job[j], au, h) PROVE JobActs(j)
    BY <1>0, <2>1, <2>3, RetryActs DEF Terminal
  <2> QED BY <1>2, <2>2, <2>3 DEF AuditFailed
<1>3. CASE AuditPassed(j)
  <2>1. job[j].status = "verifying"
    BY <1>3 DEF AuditPassed, RowInv, AuditOnlyWhileVerifying, AuditOpen
  <2>2. ASSUME NEW h, DiscardTarget(j, h) PROVE JobActs(j)
    <3>1. /\ job'[j] = [job[j] EXCEPT !.status = "canceled", !.reserved = FALSE]
          /\ \A k \in Jobs \ {j} : job'[k] = job[k]
      BY <1>0, <2>2 DEF DiscardTarget, DbTypeOK
    <3>2. job'[j].status = "canceled" BY <1>0, <3>1 DEF JobRow
    <3>3. \/ UNCHANGED transfer
          \/ transfer' = CleanupQueued(job[j].transfer)
      BY <2>2 DEF DiscardTarget
    <3>4. GivesUp(j)
      BY <1>0, <3>2, <3>3 DEF GivesUp, Pursued, Running, CleanupQueued, DbTypeOK, TransferRow
    <3> QED BY <3>1, <3>4 DEF JobActs
  <2>3. ASSUME NEW h, NEW R, Publish(j, h, R) PROVE JobActs(j)
    <3>1. job'[j] = [job[j] EXCEPT !.status = "completed"] /\ \A k \in Jobs \ {j} : job'[k] = job[k]
      BY <1>0, <2>3 DEF Publish, DbTypeOK
    <3>2. /\ job'[j].transfer = job[j].transfer /\ job'[j].object = job[j].object
          /\ job'[j].target = job[j].target /\ job'[j].status = "completed"
      BY <1>0, <3>1 DEF JobRow
    <3>3. UNCHANGED transfer BY <2>3 DEF Publish
    <3>4. MovesOn(j) BY <2>1, <3>2, <3>3, SameCopies DEF MovesOn, Running
    <3> QED BY <3>1, <3>4 DEF JobActs
  <2> QED BY <1>3, <2>2, <2>3 DEF AuditPassed
<1> QED BY <1>1, <1>2, <1>3

LEMMA RequestActs ==
    ASSUME RowInv, Operators
    PROVE  CopyActs
<1>0. DbTypeOK BY DEF RowInv
<1>1. ASSUME NEW j \in Jobs, NEW o, job' = Inserted(j, o), UNCHANGED transfer PROVE JobActs(j)
  <2>1. job'[j].status = "queued" /\ \A k \in Jobs \ {j} : job'[k] = job[k]
    BY <1>0, <1>1 DEF Inserted, NoJob, DbTypeOK
  <2> QED BY <1>1, <2>1 DEF JobActs, GivesUp, Pursued, Running
<1>2. ASSUME NEW j \in Jobs, CancelRepairJob(j) PROVE JobActs(j)
  <2>0. job[j] \in JobRow BY <1>0, RowFacts
  <2>1. /\ job'[j] = [job[j] EXCEPT !.status = "canceled", !.reserved = FALSE]
        /\ \A k \in Jobs \ {j} : job'[k] = job[k]
    BY <1>0, <1>2 DEF CancelRepairJob, DbTypeOK
  <2>2. job'[j].status = "canceled" BY <2>0, <2>1 DEF JobRow
  <2>3. transfer' = CleanupQueued(job[j].transfer) BY <1>2 DEF CancelRepairJob
  <2>4. GivesUp(j)
    BY <1>0, <2>2, <2>3 DEF GivesUp, Pursued, Running, CleanupQueued, DbTypeOK, TransferRow
  <2> QED BY <2>1, <2>4 DEF JobActs
<1>3. ASSUME NEW j \in Jobs, NEW r \in BOOLEAN, RequeueRepairJob(j, r) PROVE JobActs(j)
  <2> DEFINE row == [NoJob EXCEPT !.status = "queued", !.object = job[j].object,
                                  !.attempts = IF r THEN 0 ELSE job[j].attempts]
  <2>1. job' = [job EXCEPT ![j] = row] /\ UNCHANGED transfer BY <1>3 DEF RequeueRepairJob
  <2>2. row.status = "queued" BY DEF NoJob
  <2> HIDE DEF row
  <2>3. job'[j] = row /\ \A k \in Jobs \ {j} : job'[k] = job[k] BY <1>0, <2>1 DEF DbTypeOK
  <2> QED BY <2>1, <2>2, <2>3 DEF JobActs, GivesUp, Pursued, Running
<1>4. ASSUME NEW o \in Objects, GcUnreferencedObject(o) PROVE JobsRest
  BY <1>4, SameCopies DEF GcUnreferencedObject, JobsRest
<1>5. ASSUME NEW j \in Jobs, NEW o \in Objects, EnqueueRepairJob(j, o) PROVE JobActs(j)
  BY <1>1, <1>5 DEF EnqueueRepairJob
<1> QED BY <1>2, <1>3, <1>4, <1>5 DEF Operators, CopyActs

LEMMA StepActs ==
    ASSUME RepairInv, [Next]_vars
    PROVE  CopyActs
<1>0. RowInv /\ DbTypeOK /\ WaitingHasNone BY DEF RepairInv, LiveInv, RowInv
<1>1. ASSUME NEW j \in Jobs, AttemptRows(j) PROVE CopyActs
  <2>1. CASE ScheduleRepairRetry(j) /\ job[j].status \in Active
    <3>1. job[j].status \notin Terminal /\ job[j] \in JobRow
      BY <1>0, <2>1, RowFacts DEF Active, Running, Terminal
    <3> QED BY <1>0, <2>1, <3>1, RetryActs DEF ScheduleRepairRetry, CopyActs
  <2> QED BY <1>0, <1>1, <2>1, ClaimActs, PursueActs, AuditActs DEF AttemptRows, CopyActs
<1>2. CASE Operators BY <1>0, <1>2, RequestActs
<1>3. ASSUME NEW o \in Objects, NEW n \in Nodes, NEW s,
             ReplicaObserved(o, n, s) \/ ScheduledAuditResult(o, n, s) \/ SendObjectDelete(o, n)
      PROVE  CopyActs
  <2>1. UNCHANGED transfer
    BY <1>3 DEF ReplicaObserved, ScheduledAuditResult, SendObjectDelete
  <2>2. CASE UNCHANGED job BY <2>1, <2>2, SameCopies DEF CopyActs, JobsRest
  <2>3. CASE ~UNCHANGED job
    <3>1. PICK j \in Jobs : job' = Inserted(j, o)
      BY <1>3, <2>3 DEF ReplicaObserved, ScheduledAuditResult, SendObjectDelete
    <3>2. job'[j].status = "queued" /\ \A k \in Jobs \ {j} : job'[k] = job[k]
      BY <1>0, <3>1 DEF Inserted, NoJob, DbTypeOK
    <3> QED BY <2>1, <3>2 DEF CopyActs, JobActs, GivesUp, Pursued, Running
  <2> QED BY <2>2, <2>3
<1>4. ASSUME NEW t \in Transfers,
             ClaimRepairCleanup(t) \/ MarkRepairCleanupResult(t, TRUE)
      PROVE  CopyActs
  <2>1. UNCHANGED job /\ transfer[t].cleanup # "none"
    BY <1>4 DEF ClaimRepairCleanup, MarkRepairCleanupResult, QueueOpen
  <2>2. PICK c : transfer' = [transfer EXCEPT ![t].cleanup = c]
    BY <1>4 DEF ClaimRepairCleanup, MarkRepairCleanupResult
  <2>3. CopiesSame BY <1>0, <2>1, <2>2 DEF CopiesSame, DbTypeOK, TransferRow
  <2> QED BY <2>1, <2>3 DEF CopyActs, JobsRest
<1>5. CASE UNCHANGED dbVars BY <1>5, SameCopies DEF dbVars, CopyActs, JobsRest
<1>6. CASE OtherRows BY <1>1, <1>2, <1>3, <1>4, <1>5, <1>6 DEF OtherRows
<1>7. ASSUME NEW n \in Nodes, NEW j \in Jobs, CopyStored(n, j) PROVE JobActs(j)
  <2>1. \A k \in Jobs \ {j} : job'[k] = job[k]
    BY <1>0, <1>7 DEF CopyStored, StoreVerifying, DbTypeOK
  <2> QED BY <1>7, <2>1 DEF JobActs
<1>8. ASSUME NEW n \in Nodes, NEW t \in Transfers, CopyErased(n, t) PROVE CopyActs
  BY <1>4, <1>8 DEF CopyErased
<1>9. ASSUME NEW n \in Nodes, NEW o \in Objects, ObjectErased(n, o) PROVE CopyActs
  BY <1>9, SameCopies DEF ObjectErased, ObjectDeleted, CopyActs, JobsRest
<1> QED BY <1>6, <1>7, <1>8, <1>9, StepTransacts DEF Transacts, CopyActs

-----------------------------------------------------------------------------
(* A context becomes live with a copy that is just begun. *)
CtxFollows ==
    \A j \in Jobs : Live(ctx'[j]) =>
        \/ Live(ctx[j]) /\ ctx'[j].transfer = ctx[j].transfer
        \/ Unused(ctx'[j].transfer)

LEMMA OneCtxFollows ==
    ASSUME TypeOK, NEW j \in Jobs, NEW c, ctx' = [ctx EXCEPT ![j] = c],
           Live(c) => \/ Live(ctx[j]) /\ c.transfer = ctx[j].transfer
                      \/ Unused(c.transfer)
    PROVE  CtxFollows
<1>1. ctx'[j] = c /\ \A k \in Jobs \ {j} : ctx'[k] = ctx[k] BY DEF TypeOK
<1> QED BY <1>1 DEF CtxFollows

LEMMA DiscardedFollows ==
    ASSUME TypeOK, NEW j \in Jobs, ctx' = Discarded(j)
    PROVE  CtxFollows
BY OneCtxFollows DEF Discarded, NoCtx, Live

LEMMA PhaseFollows ==
    ASSUME TypeOK, NEW j \in Jobs, NEW p, ctx' = [ctx EXCEPT ![j].phase = p],
           Live(ctx[j]) \/ p \in {"starting", "failing"}
    PROVE  CtxFollows
<1> DEFINE c == [ctx[j] EXCEPT !.phase = p]
<1>1. ctx' = [ctx EXCEPT ![j] = c] OBVIOUS
<1>2. c.transfer = ctx[j].transfer /\ c.phase = p BY DEF TypeOK
<1> HIDE DEF c
<1> QED BY <1>1, <1>2, OneCtxFollows DEF Live

LEMMA NextSourceFollows ==
    ASSUME TypeOK, NEW j \in Jobs, NextSource(j)
    PROVE  CtxFollows
<1> DEFINE p == IF ctx[j].tried = ctx[j].sources THEN "failing" ELSE "starting"
           d == ctx[j]
           c == [d EXCEPT !.source = None, !.phase = p]
<1>1. ctx' = [ctx EXCEPT ![j] = c] BY DEF NextSource
<1>2. d \in CtxRow BY CtxFacts
<1>3. p \in {"starting", "failing"} OBVIOUS
<1> HIDE DEF d, p
<1>4. c.phase = p BY <1>2, CtxSourcePhase
<1> HIDE DEF c
<1> QED BY <1>1, <1>3, <1>4, OneCtxFollows DEF Live

LEMMA SameCtxFollows == UNCHANGED ctx => CtxFollows
BY DEF CtxFollows

LEMMA AuditFollows ==
    ASSUME TypeOK, NEW j \in Jobs, NEW decided, AuditApplied(j, decided)
    PROVE  CtxFollows
BY DiscardedFollows, SameCtxFollows DEF AuditApplied

LEMMA StoreReadyFollows ==
    ASSUME TypeOK, NEW n \in Nodes, StoreObjectReady(n)
    PROVE  CtxFollows
<1>1. CASE UNCHANGED ctx BY <1>1, SameCtxFollows
<1>2. CASE ~UNCHANGED ctx
  <2>1. PICK j \in TargetCtx(n, Head(toServer[n]).t) :
           \E src \in ctx[j].sources \ ctx[j].tried : BeginNextSource(j, src)
    BY <1>2 DEF StoreObjectReady, Dropped, memVars
  <2>2. PICK src : BeginNextSource(j, src) BY <2>1
  <2>3. j \in Jobs /\ ctx[j].phase # "none" BY ReplyContext
  <2>4. Live(ctx[j]) BY <2>3 DEF StoreObjectReady, Receive, Idle, Live
  <2>5. CASE ctx' = Discarded(j) BY <2>3, <2>5, DiscardedFollows
  <2>6. CASE ctx' = [ctx EXCEPT ![j].phase = "awaiting_source_ready", ![j].source = src,
                                ![j].tried = @ \cup {src}]
    <3> DEFINE d == ctx[j]  S == d.tried \cup {src}
               c == [d EXCEPT !.phase = "awaiting_source_ready", !.source = src, !.tried = S]
    <3>1. ctx' = [ctx EXCEPT ![j] = c] BY <2>6
    <3>2. d \in CtxRow BY <2>3, CtxFacts
    <3> HIDE DEF d, S
    <3>3. c.transfer = d.transfer BY <3>2, CtxPhaseSourceTried
    <3> HIDE DEF c
    <3> QED BY <2>3, <2>4, <3>1, <3>3, OneCtxFollows DEF d
  <2> QED BY <2>2, <2>5, <2>6 DEF BeginNextSource
<1> QED BY <1>1, <1>2

LEMMA ReceiveFollows ==
    ASSUME TypeOK, NEW n \in Nodes, ServerReceives(n)
    PROVE  CtxFollows
<1> DEFINE t == Head(toServer[n]).t
<1>1. CASE UNCHANGED ctx BY <1>1, SameCtxFollows
<1>2. CASE ~UNCHANGED ctx
  <2>1. ASSUME NEW j, j \in TargetCtx(n, t) \cup SourceCtx(n, t)
        PROVE  j \in Jobs /\ ctx[j].phase # "none"
    BY <2>1, ReplyContext
  <2>2. Idle
    BY DEF ServerReceives, StoreObjectReady, SourceStream, StreamObjectEnd, StreamObjectMissing,
         StoreObjectEndOk, StoreObjectEndError, AuditReply, RepairAbortReply, DeleteObjectReply,
         Receive
  <2>3. ASSUME NEW j, j \in TargetCtx(n, t) \cup SourceCtx(n, t), NEW p,
               ctx' = [ctx EXCEPT ![j].phase = p]
        PROVE  CtxFollows
    <3>1. j \in Jobs /\ Live(ctx[j]) BY <2>1, <2>2, <2>3 DEF Idle, Live
    <3> QED BY <2>3, <3>1, PhaseFollows
  <2>4. ASSUME NEW j, j \in TargetCtx(n, t) \cup SourceCtx(n, t), Fail(j) PROVE CtxFollows
    BY <2>1, <2>4, DiscardedFollows DEF Fail
  <2>5. ASSUME NEW j, j \in SourceCtx(n, t), RestartFromNextSource(j, "missing")
        PROVE  CtxFollows
    BY <2>1, <2>5, NextSourceFollows DEF RestartFromNextSource
  <2>6. CASE SourceStream(n)
    BY <1>2, <2>3, <2>6 DEF SourceStream, Dropped, memVars
  <2>7. CASE StreamObjectEnd(n)
    BY <1>2, <2>3, <2>5, <2>7 DEF StreamObjectEnd, Dropped, memVars
  <2>8. CASE StreamObjectMissing(n)
    BY <1>2, <2>5, <2>8 DEF StreamObjectMissing, Dropped, memVars
  <2>9. CASE StoreObjectEndOk(n)
    BY <1>2, <2>3, <2>4, <2>9 DEF StoreObjectEndOk, Dropped, memVars
  <2>10. CASE StoreObjectEndError(n)
    BY <1>2, <2>4, <2>10 DEF StoreObjectEndError, Dropped, memVars
  <2>11. ASSUME NEW a \in {"audit_ok", "audit_missing"}, AuditReply(n, a) PROVE CtxFollows
    <3>1. PICK j : j = Head(toServer[n]).j OBVIOUS
    <3>2. AuditApplied(j, IF a = "audit_ok" THEN AuditPassed(j) ELSE AuditFailed(j, "missing"))
      BY <1>2, <2>11, <3>1 DEF AuditReply
    <3>3. j \in Jobs
      <4>1. Head(toServer[n]) \in ToServer /\ Head(toServer[n]).op = a
        BY <2>11, HeadFrame DEF TypeOK, AuditReply, Receive
      <4> QED BY <3>1, <4>1 DEF ToServer
    <3> QED BY <3>2, <3>3, AuditFollows
  <2>12. CASE RepairAbortReply(n) \/ DeleteObjectReply(n)
    BY <1>2, <2>12 DEF RepairAbortReply, DeleteObjectReply, Dropped, memVars
  <2> QED BY <2>6, <2>7, <2>8, <2>9, <2>10, <2>11, <2>12, StoreReadyFollows DEF ServerReceives
<1> QED BY <1>1, <1>2

LEMMA PollFollows ==
    ASSUME TypeOK, NEW j \in Jobs, ServerPolls(j)
    PROVE  CtxFollows
<1>1. CASE EndContext(j) BY <1>1, DiscardedFollows DEF EndContext
<1>2. CASE RecoverStale(j) \/ RecoverAudit(j) \/ SendAudit(j)
  BY <1>2, SameCtxFollows DEF RecoverStale, RecoverAudit, SendAudit, memVars
<1>3. CASE StartRepairTarget(j)
  <2>1. CASE ctx' = Discarded(j) BY <2>1, DiscardedFollows
  <2>2. CASE ctx' # Discarded(j)
    <3>1. PICK t \in Transfers :
             /\ MarkRepairTargetStarted(j, t)
             /\ ctx' = [ctx EXCEPT ![j].phase = "awaiting_target_ready", ![j].transfer = t]
      BY <1>3, <2>2 DEF StartRepairTarget
    <3> DEFINE d == ctx[j]
               c == [d EXCEPT !.phase = "awaiting_target_ready", !.transfer = t]
    <3>2. ctx' = [ctx EXCEPT ![j] = c] BY <3>1
    <3>3. d \in CtxRow BY CtxFacts
    <3> HIDE DEF d
    <3>4. c.transfer = t BY <3>3, CtxPhaseTransfer
    <3>5. Unused(t) BY <3>1 DEF MarkRepairTargetStarted
    <3> HIDE DEF c
    <3> QED BY <3>2, <3>4, <3>5, OneCtxFollows
  <2> QED BY <2>1, <2>2
<1>4. CASE FailLater(j) BY <1>4, DiscardedFollows DEF FailLater, Fail
<1>5. CASE RepairTimeout(j)
  BY <1>5, DiscardedFollows, NextSourceFollows DEF RepairTimeout, Fail, RestartFromNextSource
<1>6. CASE AuditTimeout(j)
  BY <1>6, AuditFollows, SameCtxFollows DEF AuditTimeout
<1> QED BY <1>1, <1>2, <1>3, <1>4, <1>5, <1>6 DEF ServerPolls

LEMMA ContextsFollow ==
    ASSUME TypeOK, [Next]_vars
    PROVE  CtxFollows
<1>1. ASSUME NEW j \in Jobs, NEW S \in SUBSET Nodes, NEW n \in Nodes, ClaimStart(j, S, n)
      PROVE  CtxFollows
  <2> DEFINE c == [NoCtx EXCEPT !.phase = "starting", !.target = n, !.sources = S]
  <2>1. ctx' = [ctx EXCEPT ![j] = c] BY <1>1 DEF ClaimStart
  <2>2. c.phase = "starting" BY ClaimedCtx
  <2> HIDE DEF c
  <2> QED BY <2>1, <2>2, OneCtxFollows DEF Live
<1>2. CASE Server
  BY <1>1, <1>2, ReceiveFollows, PollFollows, SameCtxFollows
  DEF Server, ClaimSkip, SendGcDelete, SendRepairCleanup, memVars
<1>3. CASE ServerRestart BY <1>3 DEF ServerRestart, CtxFollows, NoCtx, Live
<1>4. ASSUME NEW j \in Jobs, TransactionFails(j) PROVE CtxFollows
  <2>1. CASE UNCHANGED ctx BY <2>1, SameCtxFollows
  <2>2. CASE NextSource(j) BY <2>2, NextSourceFollows
  <2>3. CASE ctx' = [ctx EXCEPT ![j].phase = "failing"] BY <2>3, PhaseFollows
  <2> QED BY <1>4, <2>1, <2>2, <2>3 DEF TransactionFails
<1>5. ASSUME UNCHANGED ctx PROVE CtxFollows BY <1>5, SameCtxFollows
<1>6. CASE Faults
  BY <1>3, <1>4, <1>5, <1>6 DEF Faults, LoseConnection, LoseBytes, memVars
<1>7. ASSUME NEW n \in Nodes, NodeStep(n) PROVE UNCHANGED ctx
  BY <1>7 DEF NodeStep, NodeReceive, NodeStoreObjectBegin, NodeStore, NodeStoreObjectEnd, memVars,
              NodeRepairAbort, NodeDeleteObject, NodeStreamObjectBegin, NodeAuditSlice
<1>8. CASE ScanEnqueues \/ OtherProcesses \/ ObserveReplica \/ UNCHANGED vars
  BY <1>5, <1>8 DEF ScanEnqueues, OtherProcesses, ObserveReplica, vars, memVars
<1> QED BY <1>2, <1>5, <1>6, <1>7, <1>8 DEF Next

-----------------------------------------------------------------------------
(* What a node's step may do to its disk: the finalized copy of a session   *)
(* replaces what was there, an abort removes the copy it names, a deletion  *)
(* removes the directory.                                                   *)
DiskMoves(o, k) ==
    \/ disk'[o][k] = disk[o][k] /\ (k \in damaged[o] => k \in damaged'[o])
    \/ \E t \in Transfers :
          /\ disk'[o][k] = t /\ session[t] # "none" /\ ToNodeHas(Msg("store_object_end", t))
          /\ transfer[t].object = o /\ transfer[t].node = k
    \/ \E t \in Transfers :
          /\ disk[o][k] = t /\ transfer[t].cleanup # "none" /\ UNCHANGED damaged
    \/ InQueue(toNode[k], [op |-> "delete_object", o |-> o])

NodeMoves ==
    /\ NodeFewer /\ NodeBytes /\ UNCHANGED <<dbVars, ctx>>
    /\ \A o \in Objects, k \in Nodes : DiskMoves(o, k)

LEMMA PoppedFewer ==
    ASSUME TypeOK, NEW n \in Nodes, NEW op, NodeReceive(n, op)
    PROVE  NodeFewer /\ UNCHANGED <<dbVars, ctx>>
<1>1. toNode[n] # <<>> /\ toNode' = [toNode EXCEPT ![n] = Tail(@)] BY DEF NodeReceive
<1>2. ASSUME NEW k \in Nodes PROVE Sub(toNode'[k], toNode[k])
  <2>1. toNode'[k] = IF k = n THEN Tail(toNode[n]) ELSE toNode[k] BY <1>1 DEF TypeOK
  <2>2. CASE k = n BY <1>1, <2>1, <2>2, SubTail DEF TypeOK
  <2>3. CASE k # n BY <2>1, <2>3, SubSame DEF TypeOK
  <2> QED BY <2>2, <2>3
<1> QED BY <1>2 DEF NodeFewer, NodeReceive, memVars

LEMMA SameDisk ==
    ASSUME UNCHANGED <<disk, damaged>>, NEW o \in Objects, NEW k \in Nodes
    PROVE  DiskMoves(o, k)
BY DEF DiskMoves

LEMMA NodeStepMoves ==
    ASSUME RepairInv, EraseInv, NEW n \in Nodes, NodeStep(n)
    PROVE  NodeMoves
<1>0. TypeOK BY DEF RepairInv
<1> DEFINE h == Head(toNode[n])
<1>1. PICK op : NodeReceive(n, op) /\ toNode[n] # <<>> /\ h.op = op
  BY DEF NodeStep, NodeReceive, NodeStoreObjectBegin, NodeStore, NodeStoreObjectEnd,
         NodeRepairAbort, NodeDeleteObject, NodeStreamObjectBegin, NodeAuditSlice
<1>2. NodeFewer /\ UNCHANGED <<dbVars, ctx>> BY <1>0, <1>1, PoppedFewer
<1>h. h \in ToNode /\ ToNodeHas(h) BY <1>0, <1>1, HeadIn
<1>3. CASE UNCHANGED <<session, disk, damaged>>
  <2>1. NodeBytes BY <1>3 DEF NodeBytes
  <2> QED BY <1>2, <1>3, <2>1, SameDisk DEF NodeMoves
<1>4. CASE NodeStoreObjectBegin(n)
  <2>1. PICK t \in Transfers : t = h.t /\ h = Msg("store_object_begin", t)
    <3>1. h.op = "store_object_begin" BY <1>4 DEF NodeStoreObjectBegin, NodeReceive
    <3> QED BY <1>0, <1>1, <3>1, TargetFrame DEF AtTarget
  <2>2. session' = [session EXCEPT ![t] = "open"] /\ UNCHANGED <<disk, damaged>>
    BY <1>4, <2>1 DEF NodeStoreObjectBegin
  <2>3. NodeBytes BY <1>0, <1>h, <2>1, <2>2 DEF NodeBytes, TypeOK
  <2> QED BY <1>2, <2>2, <2>3, SameDisk DEF NodeMoves
<1>5. CASE NodeStore(n)
  <2>1. NodeBytes /\ UNCHANGED <<disk, damaged>>
    BY <1>0, <1>5 DEF NodeStore, NodeBytes, TypeOK
  <2> QED BY <1>2, <2>1, SameDisk DEF NodeMoves
<1>6. CASE NodeStoreObjectEnd(n)
  <2>1. PICK t \in Transfers : t = h.t /\ transfer[t].node = n /\ h = Msg("store_object_end", t)
    <3>1. h.op = "store_object_end" BY <1>6 DEF NodeStoreObjectEnd, NodeReceive
    <3> QED BY <1>0, <1>1, <3>1, TargetFrame DEF AtTarget
  <2>2. PICK a : a = transfer[t].object OBVIOUS
  <2>3. /\ session' = [session EXCEPT ![t] = "none"]
        /\ \/ UNCHANGED <<disk, damaged>>
           \/ /\ session[t] = "full" /\ disk' = [disk EXCEPT ![a][n] = t]
              /\ damaged' = [damaged EXCEPT ![a] = @ \ {n}]
    BY <1>6, <2>1, <2>2 DEF NodeStoreObjectEnd
  <2>4. \A u \in Transfers : session'[u] # "none" => session[u] # "none"
    BY <1>0, <2>3 DEF TypeOK
  <2>5. ASSUME NEW o \in Objects, NEW k \in Nodes,
               disk'[o][k] # disk[o][k] \/ damaged'[o] # damaged[o]
        PROVE  /\ session[t] # "none" /\ o = a
               /\ k = n => disk'[o][k] = t
               /\ k # n => disk'[o][k] = disk[o][k] /\ (k \in damaged[o] => k \in damaged'[o])
    <3>1. session[t] = "full" /\ disk' = [disk EXCEPT ![a][n] = t]
          /\ damaged' = [damaged EXCEPT ![a] = @ \ {n}]
      BY <2>3, <2>5
    <3>2. disk'[o] = IF o = a THEN [disk[o] EXCEPT ![n] = t] ELSE disk[o]
      BY <1>0, <3>1 DEF TypeOK
    <3>3. damaged'[o] = IF o = a THEN damaged[o] \ {n} ELSE damaged[o]
      BY <1>0, <3>1 DEF TypeOK
    <3>4. o = a BY <2>5, <3>2, <3>3
    <3> QED BY <1>0, <3>1, <3>2, <3>3, <3>4 DEF TypeOK
  <2>6. NodeBytes BY <2>1, <2>2, <2>4, <2>5 DEF NodeBytes
  <2>7. ASSUME NEW o \in Objects, NEW k \in Nodes PROVE DiskMoves(o, k)
    <3>1. CASE disk'[o][k] # disk[o][k] \/ damaged'[o] # damaged[o]
      BY <1>h, <2>1, <2>2, <2>5, <3>1 DEF DiskMoves
    <3>2. CASE ~(disk'[o][k] # disk[o][k] \/ damaged'[o] # damaged[o]) BY <3>2 DEF DiskMoves
    <3> QED BY <3>1, <3>2
  <2> QED BY <1>2, <2>6, <2>7 DEF NodeMoves
<1>7. CASE NodeRepairAbort(n)
  <2>1. PICK t \in Transfers : t = h.t /\ transfer[t].node = n /\ h.op = "repair_abort"
    <3>1. h.op = "repair_abort" BY <1>7 DEF NodeRepairAbort, NodeReceive
    <3> QED BY <1>0, <1>1, <3>1, TargetFrame DEF AtTarget
  <2>2. transfer[t].cleanup # "none"
    BY <1>0, <1>1, <2>1, HeadIn DEF EraseInv, Routed, AtTarget
  <2>3. PICK a : a = transfer[t].object OBVIOUS
  <2>4. /\ session' = [session EXCEPT ![t] = "none"] /\ UNCHANGED damaged
        /\ \/ UNCHANGED disk
           \/ disk[a][n] = t /\ disk' = [disk EXCEPT ![a][n] = None]
    BY <1>7, <2>1, <2>3 DEF NodeRepairAbort
  <2>5. \A u \in Transfers : session'[u] # "none" => session[u] # "none"
    BY <1>0, <2>4 DEF TypeOK
  <2>6. ASSUME NEW o \in Objects, NEW k \in Nodes, disk'[o][k] # disk[o][k]
        PROVE  disk'[o][k] = None /\ disk[o][k] = t
    <3>1. disk[a][n] = t /\ disk' = [disk EXCEPT ![a][n] = None] BY <2>4, <2>6
    <3>2. disk'[o] = IF o = a THEN [disk[o] EXCEPT ![n] = None] ELSE disk[o]
      BY <1>0, <3>1 DEF TypeOK
    <3> QED BY <1>0, <2>6, <3>1, <3>2 DEF TypeOK
  <2>7. NodeBytes BY <2>5, <2>6 DEF NodeBytes
  <2>8. \A o \in Objects, k \in Nodes : DiskMoves(o, k) BY <2>2, <2>4, <2>6 DEF DiskMoves
  <2> QED BY <1>2, <2>7, <2>8 DEF NodeMoves
<1>8. CASE NodeDeleteObject(n)
  <2>1. PICK o \in Objects : o = h.o /\ h = [op |-> "delete_object", o |-> o]
    <3>1. h.op = "delete_object" BY <1>8 DEF NodeDeleteObject, NodeReceive
    <3> QED BY <1>h, <3>1 DEF ToNode
  <2>2. disk' = [disk EXCEPT ![o][n] = None] /\ UNCHANGED <<session, damaged>>
    BY <1>8, <2>1 DEF NodeDeleteObject
  <2>3. NodeBytes BY <1>0, <2>2 DEF NodeBytes, TypeOK
  <2>4. InQueue(toNode[n], h) BY <1>0, <1>1, HeadIn DEF InQueue
  <2>5. ASSUME NEW p \in Objects, NEW k \in Nodes PROVE DiskMoves(p, k)
    <3>1. disk'[p][k] = disk[p][k] \/ (p = o /\ k = n) BY <1>0, <2>2 DEF TypeOK
    <3> QED BY <2>1, <2>2, <2>4, <3>1 DEF DiskMoves
  <2> QED BY <1>2, <2>3, <2>5 DEF NodeMoves
<1>9. NodeStreamObjectBegin(n) \/ NodeAuditSlice(n) => UNCHANGED <<session, disk, damaged>>
  BY DEF NodeStreamObjectBegin, NodeAuditSlice
<1> QED BY <1>3, <1>4, <1>5, <1>6, <1>7, <1>8, <1>9 DEF NodeStep

(* The replies a node sends that matter below. *)
AnswersFor(n, m) ==
    /\ m.op = "store_end_ok" => NodeStoreObjectEnd(n) /\ m.t = Head(toNode[n]).t
    /\ m.op = "delete_object_reply" => NodeDeleteObject(n) /\ m.o = Head(toNode[n]).o

LEMMA NewReplies ==
    ASSUME TypeOK, NEW n \in Nodes, NodeStep(n), NEW k \in Nodes, NEW r,
           InQueue(toServer'[k], r)
    PROVE  InQueue(toServer[k], r) \/ (k = n /\ AnswersFor(n, r))
<1> DEFINE h == Head(toNode[n])
<1>1. toNode[n] # <<>>
  BY DEF NodeStep, NodeReceive, NodeStoreObjectBegin, NodeStore, NodeStoreObjectEnd,
         NodeRepairAbort, NodeDeleteObject, NodeStreamObjectBegin, NodeAuditSlice
<1>h. h \in ToNode BY <1>1, HeadIn
<1>2. ASSUME NEW ms \in Seq(ToServer), Replied(n, ms),
             \A i \in 1 .. Len(ms) : AnswersFor(n, ms[i])
      PROVE  InQueue(toServer[k], r) \/ (k = n /\ AnswersFor(n, r))
  <2>1. toServer'[k] = IF k = n THEN toServer[n] \o ms ELSE toServer[k]
    BY <1>2 DEF Replied, TypeOK
  <2>2. CASE k = n
    <3>1. InQueue(toServer[n], r) \/ InQueue(ms, r) BY <2>1, <2>2, PushIn DEF TypeOK
    <3> QED BY <1>2, <2>2, <3>1 DEF InQueue
  <2> QED BY <2>1, <2>2
<1>3. ASSUME NEW x \in ToServer, Replied(n, <<x>>), AnswersFor(n, x)
      PROVE  InQueue(toServer[k], r) \/ (k = n /\ AnswersFor(n, r))
  <2> DEFINE ms == <<x>>
  <2>1. ms \in Seq(ToServer) /\ \A i \in 1 .. Len(ms) : ms[i] = x BY OneFrame
  <2>2. Replied(n, ms) BY <1>3
  <2> HIDE DEF ms
  <2> QED BY <1>2, <1>3, <2>1, <2>2
<1>4. CASE NodeStoreObjectBegin(n)
  <2>1. PICK t \in Transfers : t = h.t
    <3>1. h.op = "store_object_begin" BY <1>4 DEF NodeStoreObjectBegin, NodeReceive
    <3> QED BY <1>h, <3>1 DEF ToNode
  <2>2. PICK x \in ToServer : x = Msg("store_object_ready", t) BY Frames
  <2>3. Replied(n, <<x>>) BY <1>4, <2>1, <2>2 DEF NodeStoreObjectBegin
  <2>4. AnswersFor(n, x) BY <2>2 DEF AnswersFor, Msg
  <2> QED BY <1>3, <2>3, <2>4
<1>5. CASE NodeStore(n) BY <1>5 DEF NodeStore
<1>6. CASE NodeStoreObjectEnd(n)
  <2>1. PICK t \in Transfers : t = h.t
    <3>1. h.op = "store_object_end" BY <1>6 DEF NodeStoreObjectEnd, NodeReceive
    <3> QED BY <1>h, <3>1 DEF ToNode
  <2>2. PICK w \in {"store_end_ok", "store_end_error"} : Replied(n, <<Msg(w, t)>>)
    BY <1>6, <2>1 DEF NodeStoreObjectEnd
  <2>3. PICK x \in ToServer : x = Msg(w, t) BY Frames
  <2>4. AnswersFor(n, x) BY <1>6, <2>1, <2>3 DEF AnswersFor, Msg
  <2> QED BY <1>3, <2>2, <2>3, <2>4
<1>7. CASE NodeRepairAbort(n)
  <2>1. PICK t \in Transfers : t = h.t
    <3>1. h.op = "repair_abort" BY <1>7 DEF NodeRepairAbort, NodeReceive
    <3> QED BY <1>h, <3>1 DEF ToNode
  <2>2. PICK x \in ToServer : x = Msg("repair_abort_reply", t) BY Frames
  <2>3. Replied(n, <<x>>) BY <1>7, <2>1, <2>2 DEF NodeRepairAbort
  <2>4. AnswersFor(n, x) BY <2>2 DEF AnswersFor, Msg
  <2> QED BY <1>3, <2>3, <2>4
<1>8. CASE NodeDeleteObject(n)
  <2>1. PICK o \in Objects : o = h.o
    <3>1. h.op = "delete_object" BY <1>8 DEF NodeDeleteObject, NodeReceive
    <3> QED BY <1>h, <3>1 DEF ToNode
  <2>2. PICK x \in ToServer : x = DeleteReply(o) BY DEF ToServer, DeleteReply
  <2>3. Replied(n, <<x>>) BY <1>8, <2>1, <2>2 DEF NodeDeleteObject, DeleteReply
  <2>4. AnswersFor(n, x) BY <1>8, <2>1, <2>2 DEF AnswersFor, DeleteReply
  <2> QED BY <1>3, <2>3, <2>4
<1>9. CASE NodeStreamObjectBegin(n)
  <2>1. PICK t \in Transfers : t = h.t
    <3>1. h.op = "stream_object_begin" BY <1>9 DEF NodeStreamObjectBegin, NodeReceive
    <3> QED BY <1>h, <3>1 DEF ToNode
  <2>2. PICK x \in ToServer, y \in ToServer, z \in ToServer :
           x = Msg("stream", t) /\ y = Msg("stream_object_end", t) /\ z = Msg("stream_missing", t)
    BY Frames
  <2>3. Replied(n, <<z>>) \/ Replied(n, <<x, y>>)
    BY <1>9, <2>1, <2>2 DEF NodeStreamObjectBegin
  <2>4. AnswersFor(n, x) /\ AnswersFor(n, y) /\ AnswersFor(n, z)
    BY <2>2 DEF AnswersFor, Msg
  <2>5. CASE Replied(n, <<x, y>>)
    <3> DEFINE ms == <<x, y>>
    <3>1. ms \in Seq(ToServer) /\ Len(ms) = 2 /\ ms[1] = x /\ ms[2] = y OBVIOUS
    <3>2. Replied(n, ms) BY <2>5
    <3> HIDE DEF ms
    <3>3. \A i \in 1 .. Len(ms) : i = 1 \/ i = 2 BY <3>1
    <3>4. \A i \in 1 .. Len(ms) : AnswersFor(n, ms[i]) BY <2>4, <3>1, <3>3
    <3> QED BY <1>2, <3>1, <3>2, <3>4
  <2> QED BY <1>3, <2>3, <2>4, <2>5
<1>10. CASE NodeAuditSlice(n)
  <2>1. PICK w \in {"audit_missing", "audit_ok"} : Replied(n, <<[h EXCEPT !.op = w]>>)
    BY <1>10 DEF NodeAuditSlice
  <2>2. h.op = "audit_slice" BY <1>10 DEF NodeAuditSlice, NodeReceive
  <2>3. h \in [op : {"audit_slice"}, j : Jobs, event : Transfers \X Nat] BY <1>h, <2>2 DEF ToNode
  <2>4. PICK x : x = [h EXCEPT !.op = w] OBVIOUS
  <2> HIDE DEF h
  <2>5. x = [op |-> w, j |-> h.j, event |-> h.event] BY <2>3, <2>4
  <2>6. x \in ToServer BY <2>3, <2>5 DEF ToServer
  <2>7. AnswersFor(n, x) BY <2>5 DEF AnswersFor
  <2> QED BY <1>3, <2>1, <2>4, <2>6, <2>7
<1> QED BY <1>4, <1>5, <1>6, <1>7, <1>8, <1>9, <1>10 DEF NodeStep

-----------------------------------------------------------------------------
(* A copy that can store nothing any more: its session is closed and will   *)
(* not be opened, or nobody will have it finalized.                         *)
Settled(t) == session[t] = "none" /\ ~ToNodeHas(Msg("store_object_begin", t))
Finished(t) ==
    /\ ~ToNodeHas(Msg("store_object_end", t))
    /\ \A j \in Jobs : ctx[j].transfer = t => ~Live(ctx[j])
Harmless(t) == Settled(t) \/ Finished(t)

(* A step is one of the server or of the outside, or one of a node.         *)
Steps == Outside \/ NodeMoves

LEMMA StepKinds ==
    ASSUME RepairInv, RepairInv', EraseInv, "source_failure" \notin DbErrors, [Next]_vars
    PROVE  /\ CopiesKept /\ Steps
           /\ Outside \/ \E n \in Nodes : NodeStep(n) /\ NodeMoves
<1>1. CopiesKept BY StepRefines, DbKeeps DEF RepairInv, LiveInv
<1>2. TypeOK' /\ CopyInv' BY DEF RepairInv
<1>3. Outside \/ \E n \in Nodes : NodeStep(n) BY <1>1, <1>2, StepOutside
<1> QED BY <1>1, <1>3, NodeStepMoves DEF Steps

LEMMA FewerIn ==
    ASSUME NodeFewer, NEW m, ToNodeHas(m)'
    PROVE  ToNodeHas(m)
BY SubIn DEF NodeFewer, ToNodeHas

(* A frame for a node that was not on its way before was properly sent.     *)
LEMMA SentIn ==
    ASSUME TypeOK, Steps, NEW m, ToNodeHas(m)'
    PROVE  ToNodeHas(m) \/ \E n \in Nodes : Proper(n, m)
<1>1. PICK n \in Nodes : InQueue(toNode'[n], m) BY DEF ToNodeHas
<1>2. CASE OneSent BY <1>1, <1>2, OutsideIn DEF ToNodeHas
<1> QED BY <1>2, FewerIn DEF Steps, Outside, NodeMoves

LEMMA SettledStays ==
    ASSUME TypeOK, Steps, NEW t \in Transfers, ~Unused(t), Settled(t)
    PROVE  Settled(t)'
<1>1. PICK m : m = Msg("store_object_begin", t) OBVIOUS
<1>2. m.op = "store_object_begin" /\ m.t = t BY <1>1 DEF Msg
<1>3. ~ToNodeHas(m)
  BY <1>1 DEF Settled
<1>4. ~ToNodeHas(m)' BY <1>2, <1>3, SentIn DEF Proper
<1>5. session'[t] = "none"
  BY <1>1, <1>3 DEF Steps, Outside, BytesKept, NodeMoves, NodeBytes, Settled
<1> QED BY <1>1, <1>4, <1>5 DEF Settled

LEMMA FinishedStays ==
    ASSUME TypeOK, Steps, CtxFollows, NEW t \in Transfers, ~Unused(t), Finished(t)
    PROVE  Finished(t)'
<1>1. PICK m : m = Msg("store_object_end", t) OBVIOUS
<1>2. m.op = "store_object_end" /\ m.t = t BY <1>1 DEF Msg
<1>3. ~ToNodeHas(m) /\ \A j \in Jobs : ctx[j].transfer = t => ~Live(ctx[j])
  BY <1>1 DEF Finished
<1>4. ~ToNodeHas(m)' BY <1>2, <1>3, SentIn DEF Proper, Live
<1>5. \A j \in Jobs : ctx'[j].transfer = t => ~Live(ctx'[j]) BY <1>3 DEF CtxFollows
<1> QED BY <1>1, <1>4, <1>5 DEF Finished

LEMMA HarmlessStays ==
    ASSUME TypeOK, Steps, CtxFollows, NEW t \in Transfers, ~Unused(t), Harmless(t)
    PROVE  Harmless(t)'
BY SettledStays, FinishedStays DEF Harmless

(* A copy that was reported as stored, or that its job keeps, stays as it   *)
(* is; and a job's copy is the one its row asks for.                        *)
JobCopy ==
    \A j \in Jobs :
        /\ job[j].status \in Kept => job[j].transfer # None
        /\ job[j].status \in Pursued /\ job[j].transfer # None =>
              /\ transfer[job[j].transfer].object = job[j].object
              /\ transfer[job[j].transfer].node = job[j].target
KeptIsSettled ==
    /\ \A t \in Transfers : ToServerHas(Msg("store_end_ok", t)) => Settled(t)
    /\ \A j \in Jobs, t \in Transfers :
          job[j].status \in Kept /\ job[j].transfer = t => Settled(t)
SettledInv == JobCopy /\ KeptIsSettled

LEMMA JobCopyStep ==
    ASSUME RepairInv, JobCopy, CopiesKept, CopyActs
    PROVE  JobCopy'
<1>0. DbTypeOK BY DEF RepairInv, LiveInv, RowInv
<1>1. \A j \in Jobs : job[j].transfer # None =>
         job[j].transfer \in Transfers /\ ~Unused(job[j].transfer)
  BY <1>0, RowFacts DEF RepairInv, CopyInv, OwnTransfer
<1> DEFINE Right(j) == /\ job[j].status \in Kept => job[j].transfer # None
                       /\ job[j].status \in Pursued /\ job[j].transfer # None =>
                             /\ transfer[job[j].transfer].object = job[j].object
                             /\ transfer[job[j].transfer].node = job[j].target
<1>2. ASSUME NEW j \in Jobs, job'[j].transfer = job[j].transfer,
             job'[j].object = job[j].object, job'[j].target = job[j].target,
             job'[j].status \in Pursued => job[j].status \in Pursued,
             job'[j].status \in Kept => job[j].status \in Kept \/ job[j].transfer # None
      PROVE  Right(j)'
  <2>1. Right(j) BY DEF JobCopy
  <2> QED BY <1>1, <1>2, <2>1 DEF CopiesKept
<1>3. ASSUME NEW j \in Jobs, job'[j] = job[j] PROVE Right(j)'
  BY <1>2, <1>3
<1>4. ASSUME NEW j \in Jobs, JobActs(j) PROVE Right(j)'
  <2>1. CASE MovesOn(j) BY <1>2, <2>1 DEF MovesOn, Pursued, Kept, Running
  <2>2. CASE GivesUp(j) BY <2>2 DEF GivesUp, Pursued, Kept, Running
  <2>3. CASE ChosenFor(j) BY <2>3 DEF ChosenFor, Kept
  <2>4. ASSUME NEW t \in Transfers, Begun(j, t) PROVE Right(j)'
    <3>1. /\ job'[j].transfer = t /\ job'[j].object = job[j].object
          /\ job'[j].target = job[j].target
          /\ transfer'[t].object = job[j].object /\ transfer'[t].node = job[j].target
      BY <1>0, <2>4 DEF Begun, DbTypeOK
    <3>2. t # None BY NoneAssumption
    <3> QED BY <3>1, <3>2
  <2>5. ASSUME NEW n \in Nodes, CopyStored(n, j) PROVE Right(j)'
    <3>1. /\ job'[j] = [job[j] EXCEPT !.status = "verifying"] /\ job[j] \in JobRow
          /\ job[j].status = "copying" /\ job[j].transfer # None
      BY <1>0, <2>5 DEF CopyStored, StoreVerifying, CopyCurrent, DbTypeOK
    <3>2. /\ job'[j].transfer = job[j].transfer /\ job'[j].object = job[j].object
          /\ job'[j].target = job[j].target /\ job'[j].status = "verifying"
      BY <3>1 DEF JobRow
    <3> QED BY <1>2, <3>1, <3>2 DEF Pursued, Running
  <2> QED BY <1>4, <2>1, <2>2, <2>3, <2>4, <2>5 DEF JobActs
<1>5. \A j \in Jobs : Right(j)'
  BY <1>3, <1>4 DEF CopyActs, JobsRest, JobActs, SourceGivenUp, NoteSourceFailure
<1> QED BY <1>5 DEF JobCopy

LEMMA EndSettled ==
    ASSUME RepairInv, EraseInv, NEW n \in Nodes, NodeStoreObjectEnd(n),
           NEW t \in Transfers, t = Head(toNode[n]).t
    PROVE  Settled(t)'
<1>0. TypeOK BY DEF RepairInv
<1>1. /\ toNode[n] # <<>> /\ toNode' = [toNode EXCEPT ![n] = Tail(@)]
      /\ Head(toNode[n]).op = "store_object_end"
      /\ session' = [session EXCEPT ![t] = "none"]
  BY DEF NodeStoreObjectEnd, NodeReceive
<1>2. OneDriver(t) BY DEF RepairInv, FrameInv
<1>3. Drives(Head(toNode[n]), t) BY <1>1 DEF Drives, Chain
<1>4. Free(toNode', t) BY <1>0, <1>1, <1>2, <1>3, AloneAtNode
<1>5. PICK m : m = Msg("store_object_begin", t) OBVIOUS
<1>6. Drives(m, t) BY <1>5 DEF Msg, Drives, Chain
<1>7. ~ToNodeHas(m)' BY <1>4, <1>6 DEF Free, ToNodeHas, InQueue
<1> QED BY <1>0, <1>1, <1>5, <1>7 DEF Settled, TypeOK

LEMMA ReplyUsed ==
    ASSUME RepairInv, NEW op \in Named, NEW t \in Transfers,
           ToServerHas(Msg(op, t)) \/ ToNodeHas(Msg(op, t))
    PROVE  ~Unused(t)
<1>1. PICK m : m = Msg(op, t) OBVIOUS
<1>2. Names(m, t) BY <1>1 DEF Msg, Names
<1> QED BY <1>1, <1>2 DEF RepairInv, FrameInv, Fresh, ToServerHas, ToNodeHas, InQueue

(* A target's report that was not there before is its answer to this step.  *)
LEMMA NewReport ==
    ASSUME RepairInv, EraseInv, Outside \/ \E n \in Nodes : NodeStep(n),
           NEW t \in Transfers, ToServerHas(Msg("store_end_ok", t))'
    PROVE  \/ ToServerHas(Msg("store_end_ok", t))
           \/ \E n \in Nodes : NodeStoreObjectEnd(n) /\ t = Head(toNode[n]).t
<1>0. TypeOK BY DEF RepairInv
<1>1. PICK r : r = Msg("store_end_ok", t) OBVIOUS
<1>2. r.op = "store_end_ok" /\ r.t = t BY <1>1 DEF Msg
<1>3. PICK k \in Nodes : InQueue(toServer'[k], r) BY <1>1 DEF ToServerHas
<1>4. CASE Outside BY <1>1, <1>3, <1>4, SubIn DEF Outside, ServerFewer, ToServerHas
<1>5. ASSUME NEW n \in Nodes, NodeStep(n)
      PROVE  ToServerHas(r) \/ (NodeStoreObjectEnd(n) /\ t = Head(toNode[n]).t)
  <2>1. InQueue(toServer[k], r) \/ AnswersFor(n, r) BY <1>0, <1>3, <1>5, NewReplies
  <2> QED BY <1>2, <2>1 DEF AnswersFor, ToServerHas
<1> QED BY <1>1, <1>4, <1>5

LEMMA KeptStep ==
    ASSUME RepairInv, EraseInv, SettledInv, Steps, CopyActs,
           Outside \/ \E n \in Nodes : NodeStep(n)
    PROVE  KeptIsSettled'
<1>0. TypeOK /\ DbTypeOK BY DEF RepairInv, TypeOK
<1>1. ASSUME NEW t \in Transfers, ToServerHas(Msg("store_end_ok", t))' PROVE Settled(t)'
  <2>1. CASE ToServerHas(Msg("store_end_ok", t))
    <3>1. Settled(t) BY <2>1 DEF SettledInv, KeptIsSettled
    <3>2. ~Unused(t) BY <2>1, ReplyUsed DEF Named, Chain
    <3> QED BY <1>0, <3>1, <3>2, SettledStays
  <2> QED BY <1>1, <2>1, NewReport, EndSettled
<1>2. ASSUME NEW j \in Jobs, NEW t \in Transfers, job'[j].status \in Kept, job'[j].transfer = t
      PROVE  Settled(t)'
  <2>0. t # None BY NoneAssumption
  <2>1. ASSUME job[j].transfer = t, Settled(t) PROVE Settled(t)'
    <3>1. ~Unused(t) BY <2>0, <2>1 DEF RepairInv, CopyInv, OwnTransfer
    <3> QED BY <1>0, <2>1, <3>1, SettledStays
  <2>2. ASSUME job[j].transfer = t, job[j].status \in Kept PROVE Settled(t)'
    BY <2>1, <2>2 DEF SettledInv, KeptIsSettled
  <2>3. CASE job'[j] = job[j] BY <1>2, <2>2, <2>3
  <2>4. ASSUME JobActs(j) PROVE Settled(t)'
    <3>1. CASE MovesOn(j) BY <1>2, <2>2, <3>1 DEF MovesOn, Kept
    <3>2. ~GivesUp(j) BY <1>2 DEF GivesUp, Pursued, Kept, Running
    <3>3. ~ChosenFor(j) BY <1>2 DEF ChosenFor, Kept
    <3>4. \A u \in Transfers : ~Begun(j, u) BY <1>2 DEF Begun, Kept, Running
    <3>5. ASSUME NEW n \in Nodes, CopyStored(n, j) PROVE Settled(t)'
      <4>1. /\ job'[j] = [job[j] EXCEPT !.status = "verifying"] /\ job[j] \in JobRow
            /\ toServer[n] # <<>> /\ Head(toServer[n]) = Msg("store_end_ok", job[j].transfer)
        BY <1>0, <3>5 DEF CopyStored, StoreVerifying, DbTypeOK
      <4>2. job[j].transfer = t BY <1>2, <4>1 DEF JobRow
      <4>3. toServer[n] \in Seq(ToServer) BY <1>0 DEF TypeOK
      <4>4. ToServerHas(Msg("store_end_ok", t)) BY <4>1, <4>2, <4>3, TailIn DEF ToServerHas
      <4> QED BY <2>1, <4>2, <4>4 DEF SettledInv, KeptIsSettled
    <3> QED BY <2>4, <3>1, <3>2, <3>3, <3>4, <3>5 DEF JobActs
  <2> QED BY <2>3, <2>4 DEF CopyActs, JobsRest, JobActs, SourceGivenUp, NoteSourceFailure
<1> QED BY <1>1, <1>2 DEF KeptIsSettled

-----------------------------------------------------------------------------
(* Nothing but the running job's own copy can still be stored where it is   *)
(* wanted, and nothing at all where a replica is published.                 *)
At(t, o, n) == transfer[t].object = o /\ transfer[t].node = n

OnlyOwn(j) ==
    job[j].status \in Running => \A t \in Transfers : At(t, job[j].object, job[j].target) =>
        Harmless(t) \/ (t = job[j].transfer /\ transfer[t].cleanup = "none")
NoneElse(o, n) == \A t \in Transfers : At(t, o, n) => Harmless(t)

ClearInv ==
    /\ \A j \in Jobs : OnlyOwn(j)
    /\ \A o \in Objects, n \in Nodes : n \in replicas[o] => NoneElse(o, n)

LEMMA QueuedRows ==
    ASSUME DbTypeOK, NEW u, transfer' = CleanupQueued(u)
    PROVE  \A t \in Transfers :
              /\ transfer'[t].object = transfer[t].object /\ transfer'[t].node = transfer[t].node
              /\ transfer'[t].cleanup # transfer[t].cleanup => t = u
BY DEF CleanupQueued, DbTypeOK, TransferRow

(* A transfer row names the same place, or its copy has just begun.         *)
LEMMA PlacesStay ==
    ASSUME DbTypeOK, CopyActs, NEW t \in Transfers
    PROVE  \/ transfer'[t].object = transfer[t].object /\ transfer'[t].node = transfer[t].node
           \/ Unused(t) /\ \E j \in Jobs : Begun(j, t)
<1> DEFINE Same == transfer'[t].object = transfer[t].object /\ transfer'[t].node = transfer[t].node
<1>1. ASSUME NEW j \in Jobs, JobActs(j) PROVE Same \/ (Unused(t) /\ Begun(j, t))
  <2>1. MovesOn(j) \/ ChosenFor(j) => Same BY DEF MovesOn, ChosenFor, CopiesSame
  <2>2. GivesUp(j) => Same BY DEF GivesUp
  <2>3. ASSUME NEW u \in Transfers, Begun(j, u) PROVE Same \/ (Unused(t) /\ Begun(j, t))
    BY <2>3 DEF Begun, DbTypeOK
  <2>4. ASSUME NEW n \in Nodes, CopyStored(n, j) PROVE Same
    BY <2>4 DEF CopyStored, StoreVerifying
  <2> QED BY <1>1, <2>1, <2>2, <2>3, <2>4 DEF JobActs
<1>2. ASSUME NEW j \in Jobs, SourceGivenUp(j) PROVE Same
  BY <1>2, QueuedRows DEF SourceGivenUp, NoteSourceFailure
<1>3. JobsRest => Same BY DEF JobsRest, CopiesSame
<1> QED BY <1>1, <1>2, <1>3 DEF CopyActs

(* A copy that is given up with its source was not finalized.               *)
LEMMA GivenUpFinished ==
    ASSUME RepairInv, RepairInv', Steps, NEW j \in Jobs, SourceGivenUp(j),
           job'[j].status \in Running, NEW t \in Transfers, job'[j].transfer = t,
           transfer'[t].cleanup # "none", ctx[j].transfer = t
    PROVE  Finished(t)'
<1>0. TypeOK BY DEF RepairInv
<1>1. ASSUME NEW k \in Jobs, ctx'[k].transfer = t PROVE ~Live(ctx'[k])
  <2>1. CtxRows(k)' /\ CtxRuns(k)' BY DEF RepairInv, CtxInv, CtxSound
  <2>2. t # None BY NoneAssumption
  <2>3. k = j BY <1>1, <2>1, <2>2 DEF CtxRows
  <2> QED BY <1>1, <2>1, <2>3 DEF CtxRuns, Live
<1>2. PICK m : m = Msg("store_object_end", t) OBVIOUS
<1>3. m.op = "store_object_end" /\ m.t = t /\ Drives(m, t)
  BY <1>2 DEF Msg, Drives, Chain
<1>4. ~ToNodeHas(m)
  <2> SUFFICES ASSUME NEW n \in Nodes, NEW i \in 1 .. Len(toNode[n]), toNode[n][i] = m
               PROVE  FALSE
    BY DEF ToNodeHas, InQueue
  <2>1. Live(ctx[j]) /\ ctx[j].phase # "awaiting_target_commit"
    BY DEF SourceGivenUp, Live
  <2>2. InPhase(j) BY DEF RepairInv, FrameInv
  <2>3. ctx[j].phase \in Awaited[m.op] BY <1>3, <2>1, <2>2 DEF InPhase
  <2> QED BY <1>3, <2>1, <2>3 DEF Awaited
<1>5. ~ToNodeHas(m)' BY <1>0, <1>1, <1>3, <1>4, SentIn DEF Proper, Live
<1> QED BY <1>1, <1>2, <1>5 DEF Finished

(* Where a new target is chosen nothing is left to be stored.               *)
LEMMA TargetClear ==
    ASSUME RepairInv, EraseInv, SettledInv, NEW j \in Jobs, ChosenFor(j),
           NEW t \in Transfers, ~Unused(t), At(t, job[j].object, job'[j].target)
    PROVE  Settled(t)
<1>0. DbTypeOK /\ SoleActive /\ CleanupExact BY DEF RepairInv, LiveInv, RowInv, CopyInv
<1>1. transfer[t].cleanup \in {"none", "done"}
  BY <1>0 DEF ChosenFor, At, DbTypeOK, TransferRow
<1>2. CASE transfer[t].cleanup = "done"
  BY <1>2 DEF EraseInv, ErasedIsGone, Gone, Settled
<1>3. CASE transfer[t].cleanup = "none"
  <2>1. PICK k \in Jobs : job[k].transfer = t /\ job[k].status \in Pursued
    BY <1>0, <1>3 DEF CleanupExact, Pursued
  <2>2. CASE job[k].status = "completed"
    BY <2>1, <2>2 DEF SettledInv, KeptIsSettled, Kept
  <2>3. CASE job[k].status \in Running
    <3>0. t # None BY NoneAssumption
    <3>1. job[k].object = job[j].object BY <2>1, <3>0 DEF SettledInv, JobCopy, At
    <3>2. k = j BY <1>0, <2>3, <3>1 DEF SoleActive, Active, ChosenFor
    <3> QED BY <2>3, <3>2 DEF ChosenFor, Running
  <2> QED BY <2>1, <2>2, <2>3 DEF Pursued
<1> QED BY <1>1, <1>2, <1>3

LEMMA OwnStep ==
    ASSUME RepairInv, RepairInv', EraseInv, SettledInv, ClearInv, CopiesKept, Steps,
           CtxFollows, CopyActs, NEW j \in Jobs
    PROVE  OnlyOwn(j)'
<1>0. TypeOK /\ DbTypeOK /\ SoleActive' /\ RunningHasTarget'
  BY DEF RepairInv, TypeOK, LiveInv, RowInv
<1> SUFFICES ASSUME job'[j].status \in Running, NEW t \in Transfers,
                    transfer'[t].object = job'[j].object, transfer'[t].node = job'[j].target
             PROVE  Harmless(t)' \/ (t = job'[j].transfer /\ transfer'[t].cleanup = "none")
  BY DEF OnlyOwn, At
<1> DEFINE Own == t = job'[j].transfer /\ transfer'[t].cleanup = "none"
           OwnNow == t = job[j].transfer /\ transfer[t].cleanup = "none"
<1>1. ASSUME NEW k \in Jobs, Begun(k, t) PROVE Own
  <2>1. /\ transfer'[t].object = job'[k].object /\ transfer'[t].cleanup = "none"
        /\ job'[k].status \in Running /\ job'[k].transfer = t
    BY <1>0, <1>1 DEF Begun, DbTypeOK
  <2>2. k = j BY <1>0, <2>1 DEF SoleActive, Active
  <2> QED BY <2>1, <2>2
<1>2. CASE transfer'[t].object = transfer[t].object /\ transfer'[t].node = transfer[t].node
  <2>1. ~Unused(t) /\ ~Unused(t)'
    <3>1. job'[j].target # None BY <1>0 DEF RunningHasTarget
    <3> QED BY <1>2, <3>1 DEF Unused
  <2>2. Harmless(t) => Harmless(t)' BY <1>0, <2>1, HarmlessStays
  <2>3. ASSUME job[j].status \in Running, job'[j].object = job[j].object,
               job'[j].target = job[j].target
        PROVE  Harmless(t) \/ OwnNow
    BY <1>2, <2>3 DEF ClearInv, OnlyOwn, At
  <2>4. ASSUME job[j].status \in Running, job'[j].object = job[j].object,
               job'[j].target = job[j].target, job'[j].transfer = job[j].transfer,
               transfer[t].cleanup = "none" => transfer'[t].cleanup = "none"
        PROVE  Harmless(t)' \/ Own
    BY <2>2, <2>3, <2>4
  <2>5. CASE job'[j] = job[j]
    <3>1. CASE transfer[t].cleanup = "none" => transfer'[t].cleanup = "none"
      BY <2>4, <2>5, <3>1
    <3>2. CASE transfer[t].cleanup = "none" /\ transfer'[t].cleanup # "none"
      <4>1. CASE t # job[j].transfer BY <2>2, <2>3, <2>5, <4>1
      <4>2. CASE t = job[j].transfer
        <5>0. t # None BY NoneAssumption
        <5>1. ASSUME NEW k \in Jobs, GivesUp(k), JobActs(k) PROVE job[k].transfer = t
          BY <3>2, <5>1 DEF GivesUp
        <5>2. ASSUME NEW k \in Jobs, JobActs(k) PROVE k = j
          <6>1. ~MovesOn(k) /\ ~ChosenFor(k) BY <3>2 DEF MovesOn, ChosenFor, CopiesSame
          <6>2. \A u \in Transfers : ~Begun(k, u) BY <1>0, <3>2 DEF Begun, DbTypeOK
          <6>3. \A n \in Nodes : ~CopyStored(n, k) BY <3>2 DEF CopyStored, StoreVerifying
          <6>4. job[k].transfer = t BY <5>1, <5>2, <6>1, <6>2, <6>3 DEF JobActs
          <6> QED BY <4>2, <5>0, <6>4 DEF RepairInv, CopyInv, OwnTransfer
        <5>3. ~GivesUp(j) BY DEF GivesUp, Pursued
        <5>4. \A k \in Jobs : ~JobActs(k)
          <6> SUFFICES ASSUME JobActs(j) PROVE FALSE BY <5>2
          <6>1. ~MovesOn(j) /\ ~ChosenFor(j) BY <3>2 DEF MovesOn, ChosenFor, CopiesSame
          <6>2. \A u \in Transfers : ~Begun(j, u) BY <1>0, <3>2 DEF Begun, DbTypeOK
          <6>3. \A n \in Nodes : ~CopyStored(n, j) BY <3>2 DEF CopyStored, StoreVerifying
          <6> QED BY <5>3, <6>1, <6>2, <6>3 DEF JobActs
        <5>5. ~JobsRest BY <3>2 DEF JobsRest, CopiesSame
        <5>6. PICK k \in Jobs : SourceGivenUp(k) BY <5>4, <5>5 DEF CopyActs
        <5>7. ctx[k].transfer = t
          <6>1. transfer' = CleanupQueued(ctx[k].transfer)
            BY <5>6 DEF SourceGivenUp, NoteSourceFailure
          <6> QED BY <1>0, <3>2, <6>1, QueuedRows
        <5>8. k = j
          <6>1. CtxRows(k) BY DEF RepairInv, CtxInv, CtxSound
          <6> QED BY <4>2, <5>0, <5>7, <6>1 DEF CtxRows
        <5>9. Finished(t)' BY <2>5, <3>2, <4>2, <5>6, <5>7, <5>8, GivenUpFinished
        <5> QED BY <5>9 DEF Harmless
      <4> QED BY <4>1, <4>2
    <3> QED BY <3>1, <3>2
  <2>6. ASSUME JobActs(j) PROVE Harmless(t)' \/ Own
    <3>1. CASE MovesOn(j) BY <2>4, <3>1 DEF MovesOn, CopiesSame
    <3>2. ~GivesUp(j) BY DEF GivesUp, Pursued
    <3>3. CASE ChosenFor(j)
      <4>1. At(t, job[j].object, job'[j].target) BY <1>2, <3>3 DEF ChosenFor, At
      <4> QED BY <2>1, <2>2, <3>3, <4>1, TargetClear DEF Harmless
    <3>4. ASSUME NEW u \in Transfers, Begun(j, u) PROVE Harmless(t)' \/ Own
      <4>0. t # None BY NoneAssumption
      <4>1. Harmless(t) \/ OwnNow BY <2>3, <3>4 DEF Begun
      <4>2. ~OwnNow BY <3>4, <4>0 DEF Begun, CopyCurrent
      <4> QED BY <2>2, <4>1, <4>2
    <3>5. ASSUME NEW n \in Nodes, CopyStored(n, j) PROVE Harmless(t)' \/ Own
      <4>1. /\ job'[j] = [job[j] EXCEPT !.status = "verifying"] /\ job[j] \in JobRow
            /\ job[j].status = "copying" /\ UNCHANGED transfer
        BY <1>0, <3>5 DEF CopyStored, StoreVerifying, DbTypeOK
      <4>2. /\ job'[j].transfer = job[j].transfer /\ job'[j].object = job[j].object
            /\ job'[j].target = job[j].target
        BY <4>1 DEF JobRow
      <4> QED BY <2>4, <4>1, <4>2 DEF Running
    <3> QED BY <2>6, <3>1, <3>2, <3>3, <3>4, <3>5 DEF JobActs
  <2> QED BY <2>5, <2>6 DEF CopyActs, JobsRest, JobActs, SourceGivenUp, NoteSourceFailure
<1> QED BY <1>0, <1>1, <1>2, PlacesStay

LEMMA ReplicaClearStep ==
    ASSUME RepairInv, RepairInv', SettledInv, ClearInv, CopiesKept, Steps, CtxFollows, CopyActs,
           [DbNext]_dbVars, NEW o \in Objects, NEW n \in Nodes, n \in replicas'[o]
    PROVE  NoneElse(o, n)'
<1>0. TypeOK /\ DbTypeOK /\ RowInv /\ TargetIsNew /\ LiveInv
  BY DEF RepairInv, TypeOK, LiveInv, RowInv
<1> SUFFICES ASSUME NEW t \in Transfers, transfer'[t].object = o, transfer'[t].node = n
             PROVE  Harmless(t)'
  BY DEF NoneElse, At
<1>1. n # None BY NoneAssumption
<1>2. ASSUME NEW k \in Jobs, Begun(k, t) PROVE FALSE
  <2>1. /\ job[k].object = o /\ job[k].target = n /\ job[k].status \in Active
        /\ UNCHANGED replicas
    BY <1>0, <1>2 DEF Begun, DbTypeOK, Active
  <2> QED BY <1>0, <1>1, <2>1 DEF TargetIsNew
<1>3. transfer[t].object = o /\ transfer[t].node = n BY <1>0, <1>2, PlacesStay
<1>4. ~Unused(t) BY <1>1, <1>3 DEF Unused
<1>5. Harmless(t) => Harmless(t)' BY <1>0, <1>4, HarmlessStays
<1>6. CASE n \in replicas[o] BY <1>3, <1>5, <1>6 DEF ClearInv, NoneElse, At
<1>7. CASE n \notin replicas[o]
  <2>1. ASSUME NEW j \in Jobs, Published(j) PROVE Harmless(t)
    <3>1. PICK p \in Objects : p = job[j].object BY <1>0, <2>1, PublishFacts
    <3>2. PICK k \in Nodes : k = job[j].target BY <1>0, <2>1, PublishFacts
    <3>3. PICK S \in SUBSET Nodes : replicas' = [replicas EXCEPT ![p] = (@ \cup {k}) \ S]
      <4>0. \E S \in SUBSET Retirable(job[j].object, health) :
               replicas' = [replicas EXCEPT ![job[j].object] = (@ \cup {job[j].target}) \ S]
        BY <1>0, <2>1, PublishFacts, ZenonT(60)
      <4>1. \E S \in SUBSET Retirable(p, health) :
               replicas' = [replicas EXCEPT ![p] = (@ \cup {k}) \ S]
        BY <3>1, <3>2, <4>0
      <4>2. Retirable(p, health) \subseteq Nodes BY <1>0 DEF Retirable, DbTypeOK
      <4> QED BY <4>1, <4>2
    <3>4. o = p /\ n = k BY <1>0, <1>7, <3>3 DEF DbTypeOK
    <3>5. job[j].status = "verifying" BY <2>1 DEF Published
    <3>6. Harmless(t) \/ t = job[j].transfer
      BY <1>3, <3>1, <3>2, <3>4, <3>5 DEF ClearInv, OnlyOwn, At, Running
    <3> QED BY <3>5, <3>6 DEF SettledInv, KeptIsSettled, Kept, Harmless
  <2>2. \A p \in Objects : ~GcUnreferencedObject(p)
    BY <1>0, <1>7 DEF GcUnreferencedObject, DbTypeOK
  <2>3. CopyStep BY <1>0, CopySteps
  <2> QED BY <1>5, <1>7, <2>1, <2>2, <2>3 DEF CopyStep, QueueRowMoved
<1> QED BY <1>6, <1>7

LEMMA ClearStep ==
    ASSUME RepairInv, RepairInv', EraseInv, SettledInv, ClearInv, CopiesKept, Steps,
           CtxFollows, CopyActs, [DbNext]_dbVars
    PROVE  ClearInv'
BY OwnStep, ReplicaClearStep DEF ClearInv

-----------------------------------------------------------------------------
(* Deletions of whole objects: a delete_object on its way is one the queue  *)
(* waits for, and there is one at a time.                                   *)
Delete(o) == [op |-> "delete_object", o |-> o]
Once(q, m) == \A i, k \in 1 .. Len(q) : q[i] = m /\ q[k] = m => i = k

DeleteOnce(o, n) ==
    /\ InQueue(toNode[n], Delete(o)) =>
          /\ gcQueue[o][n].status \in QueueOpen
          /\ ~InQueue(toServer[n], DeleteReply(o))
    /\ Once(toNode[n], Delete(o))
DeleteInv == \A o \in Objects, n \in Nodes : DeleteOnce(o, n)

LEMMA SubOnce ==
    ASSUME NEW S, NEW q \in Seq(S), NEW p \in Seq(S), Sub(q, p), NEW m, Once(p, m)
    PROVE  Once(q, m)
<1> PICK f \in [Nat -> Nat] : \A i \in 1 .. Len(q) :
        /\ f[i] \in 1 .. Len(p) /\ p[f[i]] = q[i]
        /\ \A k \in 1 .. Len(q) : i < k => f[i] < f[k]
  BY DEF Sub
<1> SUFFICES ASSUME NEW i \in 1 .. Len(q), NEW k \in 1 .. Len(q), q[i] = m, q[k] = m
             PROVE  i = k
  BY DEF Once
<1>1. f[i] = f[k] BY DEF Once
<1>2. i \in Nat /\ k \in Nat /\ f[i] \in Nat BY Len(q) \in Nat
<1>3. ~(i < k) BY <1>1, <1>2
<1>4. ~(k < i) BY <1>1, <1>2
<1> QED BY <1>2, <1>3, <1>4

LEMMA PushOnce ==
    ASSUME NEW S, NEW q \in Seq(S), NEW x \in S, NEW m, Once(q, m), x = m => ~InQueue(q, m)
    PROVE  Once(q \o <<x>>, m)
<1> DEFINE p == q \o <<x>>
<1>1. /\ Len(q) \in Nat /\ Len(p) = Len(q) + 1
      /\ \A i \in 1 .. Len(p) : i <= Len(q) => p[i] = q[i]
      /\ p[Len(q) + 1] = x
  OBVIOUS
<1> HIDE DEF p
<1>2. ASSUME NEW i \in 1 .. Len(p), p[i] = m, i # Len(q) + 1
      PROVE  i \in 1 .. Len(q) /\ q[i] = m
  BY <1>1, <1>2
<1> SUFFICES ASSUME NEW i \in 1 .. Len(p), NEW k \in 1 .. Len(p), p[i] = m, p[k] = m
             PROVE  i = k
  BY DEF Once, p
<1>3. ASSUME i = Len(q) + 1, k # Len(q) + 1 PROVE FALSE
  BY <1>1, <1>2, <1>3 DEF InQueue
<1>4. ASSUME k = Len(q) + 1, i # Len(q) + 1 PROVE FALSE
  BY <1>1, <1>2, <1>4 DEF InQueue
<1>5. ASSUME i # Len(q) + 1, k # Len(q) + 1 PROVE i = k
  BY <1>2, <1>5 DEF Once
<1> QED BY <1>3, <1>4, <1>5

(* A deletion is no longer waited for only when its node has answered.      *)
LEMMA GcClosed ==
    ASSUME RepairInv, [Next]_vars, NEW o \in Objects, NEW n \in Nodes,
           gcQueue[o][n].status \in QueueOpen, gcQueue'[o][n].status \notin QueueOpen
    PROVE  InQueue(toServer[n], DeleteReply(o))
<1>0. TypeOK /\ DbTypeOK /\ RowInv BY DEF RepairInv, TypeOK, LiveInv
<1>1. ~UNCHANGED gcQueue OBVIOUS
<1>2. ASSUME NEW j \in Jobs, AttemptRows(j) PROVE FALSE
  <2>1. ASSUME AuditPassed(j) PROVE FALSE
    <3>1. UNCHANGED gcQueue \/ \E h, R : Publish(j, h, R)
      BY <2>1 DEF AuditPassed, DiscardTarget
    <3>2. PICK h, R : Publish(j, h, R) BY <1>1, <3>1
    <3>3. PICK p : p = job[j].object OBVIOUS
    <3>4. gcQueue' = [gcQueue EXCEPT ![p] = [m \in Nodes |->
                         IF m \in R THEN [status |-> "pending", attempts |-> 0] ELSE @[m]]]
      BY <3>2, <3>3 DEF Publish
    <3>5. gcQueue'[o] = gcQueue[o] \/ gcQueue'[o] = [m \in Nodes |->
             IF m \in R THEN [status |-> "pending", attempts |-> 0] ELSE gcQueue[o][m]]
      BY <1>0, <3>4 DEF DbTypeOK
    <3> QED BY <3>5 DEF QueueOpen
  <2>2. CASE ~AuditPassed(j)
    BY <1>1, <1>2, <2>2
    DEF AttemptRows, ClaimWithTarget, ClaimBlocked, ClaimWithoutTarget, MarkRepairTargetStarted,
        MarkRepairCopying, ScheduleRepairRetry, ClaimAudit, AuditFailed, RecoverStaleAudit
  <2> QED BY <2>1, <2>2
<1>3. ASSUME NEW p \in Objects, GcUnreferencedObject(p) PROVE FALSE
  <2>1. gcQueue'[o] = gcQueue[o] \/ gcQueue'[o] = [m \in Nodes |->
           IF m \in replicas[o] /\ gcQueue[o][m].status = "none"
           THEN [status |-> "pending", attempts |-> 0] ELSE gcQueue[o][m]]
    BY <1>0, <1>3 DEF GcUnreferencedObject, DbTypeOK
  <2> QED BY <2>1 DEF QueueOpen
<1>4. ASSUME Operators PROVE FALSE
  BY <1>1, <1>3, <1>4 DEF Operators, EnqueueRepairJob, CancelRepairJob, RequeueRepairJob
<1>5. ASSUME NEW p \in Objects, NEW m \in Nodes, SendObjectDelete(p, m) PROVE FALSE
  <2>1. gcQueue'[o][n] = gcQueue[o][n] \/ gcQueue'[o][n].status = "sent"
    BY <1>0, <1>5 DEF SendObjectDelete, DbTypeOK
  <2> QED BY <2>1 DEF QueueOpen
<1>6. ASSUME NEW p \in Objects, NEW m \in Nodes, NEW s,
             ReplicaObserved(p, m, s) \/ ScheduledAuditResult(p, m, s)
      PROVE  FALSE
  BY <1>1, <1>6 DEF ReplicaObserved, ScheduledAuditResult
<1>7. ASSUME NEW t \in Transfers, ClaimRepairCleanup(t) PROVE FALSE
  BY <1>1, <1>7 DEF ClaimRepairCleanup
<1>8. ~OtherRows
  <2>1. ~UNCHANGED dbVars BY <1>1 DEF dbVars
  <2>2. ~(\E j \in Jobs : AttemptRows(j)) /\ ~Operators BY <1>2, <1>4
  <2> QED BY <1>5, <1>6, <1>7, <2>1, <2>2, ZenonT(60) DEF OtherRows
<1>9. ASSUME NEW k \in Nodes, NEW j \in Jobs, CopyStored(k, j) PROVE FALSE
  BY <1>1, <1>9 DEF CopyStored, StoreVerifying
<1>10. ASSUME NEW j \in Jobs, SourceGivenUp(j) PROVE FALSE
  BY <1>1, <1>10 DEF SourceGivenUp, NoteSourceFailure
<1>11. ASSUME NEW k \in Nodes, NEW t \in Transfers, CopyErased(k, t) PROVE FALSE
  BY <1>1, <1>11 DEF CopyErased, MarkRepairCleanupResult
<1>12. PICK k \in Nodes, p \in Objects : ObjectErased(k, p)
  BY <1>8, <1>9, <1>10, <1>11, StepTransacts DEF Transacts
<1>13. k = n /\ p = o
  <2>1. gcQueue' = [gcQueue EXCEPT ![p][k].status = "done"] BY <1>12 DEF ObjectErased, ObjectDeleted
  <2> QED BY <1>0, <2>1 DEF DbTypeOK
<1>14. toServer[n] # <<>> /\ Head(toServer[n]) = DeleteReply(o)
  BY <1>12, <1>13 DEF ObjectErased, DeleteReply
<1>15. toServer[n] \in Seq(ToServer) BY <1>0 DEF TypeOK
<1> QED BY <1>14, <1>15, TailIn

LEMMA OnceOutside ==
    ASSUME TypeOK, TypeOK', OneSent, NEW n \in Nodes, NEW o \in Objects, Once(toNode[n], Delete(o))
    PROVE  Once(toNode'[n], Delete(o))
<1>0. toNode[n] \in Seq(ToNode) /\ toNode'[n] \in Seq(ToNode) BY DEF TypeOK
<1>1. CASE NodeFewer BY <1>0, <1>1, SubOnce DEF NodeFewer
<1>2. ASSUME NEW k \in Nodes, NEW m \in ToNode, toNode' = Sent(k, <<m>>), Proper(k, m)
      PROVE  Once(toNode'[n], Delete(o))
  <2>1. CASE k = n
    <3>1. toNode'[n] = toNode[n] \o <<m>> BY <1>2, <2>1 DEF Sent, TypeOK
    <3>2. m = Delete(o) => ~InQueue(toNode[n], m) BY <1>2, <2>1 DEF Proper, Delete
    <3>3. Once(toNode[n] \o <<m>>, Delete(o)) BY <1>0, <3>2, PushOnce
    <3> QED BY <3>1, <3>3
  <2>2. CASE k # n
    <3>1. toNode'[n] = toNode[n] BY <1>2, <2>2 DEF Sent, TypeOK
    <3> QED BY <3>1
  <2> QED BY <2>1, <2>2
<1> QED BY <1>1, <1>2 DEF OneSent

LEMMA DeleteOutside ==
    ASSUME RepairInv, TypeOK', DeleteInv, Outside, [Next]_vars, NEW o \in Objects, NEW n \in Nodes
    PROVE  DeleteOnce(o, n)'
<1>0. TypeOK /\ DeleteOnce(o, n) BY DEF RepairInv, DeleteInv
<1> PICK d : d = Delete(o) OBVIOUS
<1> PICK r : r = DeleteReply(o) OBVIOUS
<1>1. InQueue(toServer'[n], r) => InQueue(toServer[n], r) BY SubIn DEF Outside, ServerFewer
<1>2. ASSUME InQueue(toNode'[n], d)
      PROVE  gcQueue'[o][n].status \in QueueOpen /\ ~InQueue(toServer'[n], r)
  <2>1. CASE InQueue(toNode[n], d)
    <3>1. gcQueue[o][n].status \in QueueOpen /\ ~InQueue(toServer[n], r)
      BY <1>0, <2>1 DEF DeleteOnce
    <3> QED BY <1>1, <3>1, GcClosed
  <2>2. CASE ~InQueue(toNode[n], d)
    <3>1. Proper(n, d) BY <1>0, <1>2, <2>2, OutsideIn DEF Outside
    <3>2. d.op = "delete_object" /\ d.o = o BY DEF Delete
    <3> QED BY <1>1, <3>1, <3>2 DEF Proper, QueueOpen
  <2> QED BY <2>1, <2>2
<1>3. Once(toNode'[n], d) BY <1>0, OnceOutside DEF Outside, DeleteOnce
<1> QED BY <1>2, <1>3 DEF DeleteOnce

LEMMA DeleteAtNode ==
    ASSUME RepairInv, TypeOK', DeleteInv, NEW k \in Nodes, NodeStep(k), NodeMoves,
           NEW o \in Objects, NEW n \in Nodes
    PROVE  DeleteOnce(o, n)'
<1>0. TypeOK /\ DeleteOnce(o, n) BY DEF RepairInv, DeleteInv
<1> PICK d : d = Delete(o) OBVIOUS
<1> PICK r : r = DeleteReply(o) OBVIOUS
<1>1. Sub(toNode'[n], toNode[n]) /\ toNode[n] \in Seq(ToNode) /\ toNode'[n] \in Seq(ToNode)
  BY <1>0 DEF NodeMoves, NodeFewer, TypeOK
<1>2. Once(toNode'[n], d) BY <1>0, <1>1, SubOnce DEF DeleteOnce
<1>3. ASSUME InQueue(toNode'[n], d)
      PROVE  gcQueue'[o][n].status \in QueueOpen /\ ~InQueue(toServer'[n], r)
  <2>1. InQueue(toNode[n], d) BY <1>1, <1>3, SubIn
  <2>2. gcQueue[o][n].status \in QueueOpen /\ ~InQueue(toServer[n], r)
    BY <1>0, <2>1 DEF DeleteOnce
  <2>3. gcQueue' = gcQueue BY DEF NodeMoves, dbVars
  <2>4. ASSUME InQueue(toServer'[n], r) PROVE FALSE
    <3>1. n = k /\ AnswersFor(n, r) BY <1>0, <2>2, <2>4, NewReplies
    <3>2. NodeDeleteObject(n) /\ Head(toNode[n]).o = o
      BY <3>1 DEF AnswersFor, DeleteReply
    <3>3. /\ toNode[n] # <<>> /\ toNode' = [toNode EXCEPT ![n] = Tail(@)]
          /\ Head(toNode[n]).op = "delete_object"
      BY <3>2 DEF NodeDeleteObject, NodeReceive
    <3>4. Head(toNode[n]) = d
      <4>1. PICK h \in ToNode : h = Head(toNode[n]) BY <1>0, <3>3, HeadIn
      <4>2. h = [op |-> "delete_object", o |-> o] BY <3>2, <3>3, <4>1 DEF ToNode
      <4> QED BY <4>1, <4>2 DEF Delete
    <3>5. toNode'[n] = Tail(toNode[n]) BY <1>0, <3>3 DEF TypeOK
    <3>6. PICK i \in 1 .. Len(Tail(toNode[n])) : Tail(toNode[n])[i] = d
      BY <1>3, <3>5 DEF InQueue
    <3>7. /\ i + 1 \in 1 .. Len(toNode[n]) /\ toNode[n][i + 1] = d
          /\ 1 \in 1 .. Len(toNode[n]) /\ toNode[n][1] = d
      BY <1>1, <3>3, <3>4, <3>6, HeadFrame
    <3>8. i + 1 = 1 BY <1>0, <3>7 DEF DeleteOnce, Once
    <3> QED BY <3>6, <3>8
  <2> QED BY <2>2, <2>3, <2>4
<1> QED BY <1>2, <1>3 DEF DeleteOnce

-----------------------------------------------------------------------------
(* What a step does to the bytes b that are wanted at o, n: nothing, when   *)
(* no deletion is on its way and only b itself may still be stored there.   *)
Present(o, n, b) == disk[o][n] = b \/ n \in damaged[o]

Quiet(o, n, b) ==
    /\ ~InQueue(toNode[n], Delete(o))
    /\ b \in Transfers => transfer[b].cleanup = "none"
    /\ \A t \in Transfers : At(t, o, n) => Harmless(t) \/ t = b

LEMMA PresentStays ==
    ASSUME Steps, NEW o \in Objects, NEW n \in Nodes, NEW b, Quiet(o, n, b), Present(o, n, b),
           b # None
    PROVE  Present(o, n, b)'
<1>1. CASE Outside BY <1>1 DEF Outside, BytesKept, Present
<1>2. CASE NodeMoves
  <2>1. DiskMoves(o, n) BY <1>2 DEF NodeMoves
  <2>2. CASE disk'[o][n] = disk[o][n] /\ (n \in damaged[o] => n \in damaged'[o])
    BY <2>2 DEF Present
  <2>3. ASSUME NEW t \in Transfers, disk'[o][n] = t, session[t] # "none",
               ToNodeHas(Msg("store_object_end", t)), At(t, o, n)
        PROVE  Present(o, n, b)'
    <3>1. ~Harmless(t) BY <2>3 DEF Harmless, Settled, Finished
    <3> QED BY <2>3, <3>1 DEF Quiet, Present
  <2>4. ASSUME NEW t \in Transfers, disk[o][n] = t, transfer[t].cleanup # "none",
               UNCHANGED damaged
        PROVE  Present(o, n, b)'
    BY <2>4 DEF Quiet, Present
  <2>5. ~InQueue(toNode[n], [op |-> "delete_object", o |-> o]) BY DEF Quiet, Delete
  <2> QED BY <2>1, <2>2, <2>3, <2>4, <2>5 DEF DiskMoves, At
<1> QED BY <1>1, <1>2 DEF Steps

BytesBase == RepairInv /\ EraseInv /\ SettledInv /\ ClearInv /\ DeleteInv

LEMMA QuietCopy ==
    ASSUME BytesBase, NEW j \in Jobs, job[j].status \in Running, NEW t \in Transfers,
           job[j].transfer = t, transfer[t].cleanup = "none"
    PROVE  /\ job[j].object \in Objects /\ job[j].target \in Nodes
           /\ Quiet(job[j].object, job[j].target, t)
<1>0. RepairInv /\ DbTypeOK /\ HasObject /\ RunningHasTarget /\ NoDeleteOfLiveCopy
  BY DEF BytesBase, RepairInv, LiveInv, RowInv
<1>1. PICK o \in Objects : o = job[j].object BY <1>0 DEF HasObject, Running
<1>2. PICK n \in Nodes : n = job[j].target BY <1>0, RowFacts DEF RunningHasTarget
<1>3. j \in ActiveJobs(o) BY <1>1 DEF ActiveJobs, Active
<1>4. gcQueue[o][n].status \notin QueueOpen BY <1>0, <1>2, <1>3 DEF NoDeleteOfLiveCopy
<1>5. ~InQueue(toNode[n], Delete(o)) BY <1>4 DEF BytesBase, DeleteInv, DeleteOnce
<1>6. OnlyOwn(j) BY DEF BytesBase, ClearInv
<1>7. \A u \in Transfers : At(u, o, n) => Harmless(u) \/ u = t BY <1>1, <1>2, <1>6 DEF OnlyOwn
<1> QED BY <1>1, <1>2, <1>5, <1>7 DEF Quiet

LEMMA QuietReplica ==
    ASSUME BytesBase, NEW o \in Objects, NEW n \in Nodes, n \in replicas[o], NEW b,
           b \in Transfers => transfer[b].cleanup = "none"
    PROVE  Quiet(o, n, b)
<1>1. NoDeleteOfLiveCopy BY DEF BytesBase, RepairInv, LiveInv
<1>2. gcQueue[o][n].status \notin QueueOpen BY <1>1 DEF NoDeleteOfLiveCopy
<1>3. ~InQueue(toNode[n], Delete(o)) BY <1>2 DEF BytesBase, DeleteInv, DeleteOnce
<1>4. NoneElse(o, n) BY DEF BytesBase, ClearInv
<1> QED BY <1>3, <1>4 DEF NoneElse, Quiet

(* The bytes of a running job are there once its target reported them; a    *)
(* published replica is what an upload or a completed repair stored.        *)
Reported(j) ==
    \A t \in Transfers :
        /\ job[j].status \in Running /\ job[j].transfer = t
        /\ transfer[t].cleanup = "none" /\ ToServerHas(Msg("store_end_ok", t))
        => Present(job[j].object, job[j].target, t)
Verified(j) ==
    job[j].status = "verifying" => Present(job[j].object, job[j].target, job[j].transfer)
Provided(o, n) ==
    \/ Present(o, n, Upload)
    \/ \E j \in Jobs : /\ job[j].status = "completed"
                      /\ job[j].object = o /\ job[j].target = n
                      /\ Present(o, n, job[j].transfer)
BytesInv ==
    /\ \A j \in Jobs : Reported(j) /\ Verified(j)
    /\ \A o \in Objects, n \in Nodes : n \in replicas[o] => Provided(o, n)

LEMMA EndStores ==
    ASSUME TypeOK, EraseInv, NEW n \in Nodes, NodeStoreObjectEnd(n),
           NEW t \in Transfers, t = Head(toNode[n]).t,
           ToServerHas(Msg("store_end_ok", t))', ~ToServerHas(Msg("store_end_ok", t)),
           NEW o \in Objects, transfer[t].object = o
    PROVE  transfer[t].node = n /\ disk'[o][n] = t /\ UNCHANGED dbVars
<1>1. toNode[n] # <<>> /\ Head(toNode[n]).op = "store_object_end" /\ UNCHANGED dbVars
  BY DEF NodeStoreObjectEnd, NodeReceive
<1>2. transfer[t].node = n BY <1>1, TargetFrame DEF AtTarget
<1> DEFINE stored == session[t] = "full" /\ disk[o][n] # Upload
           found  == session[t] = "none" /\ disk[o][n] = t
<1>3. /\ disk' = IF stored THEN [disk EXCEPT ![o][n] = t] ELSE disk
      /\ Replied(n, <<Msg(IF stored \/ found THEN "store_end_ok" ELSE "store_end_error", t)>>)
  BY DEF NodeStoreObjectEnd
<1>4. stored \/ found
  <2> SUFFICES ASSUME ~(stored \/ found) PROVE FALSE OBVIOUS
  <2>1. PICK x \in ToServer : x = Msg("store_end_error", t) BY Frames
  <2>2. Replied(n, <<x>>) BY <1>3, <2>1
  <2>3. PICK r : r = Msg("store_end_ok", t) OBVIOUS
  <2>4. r # x BY <2>1, <2>3 DEF Msg
  <2> QED BY <2>2, <2>3, <2>4, OneReplyIn
<1>5. disk'[o][n] = t BY <1>3, <1>4 DEF TypeOK
<1> QED BY <1>1, <1>2, <1>5

(* A running job that names a copy begun earlier was running on it before.  *)
LEMMA RunsOn ==
    ASSUME DbTypeOK, CopyActs, NEW j \in Jobs, job'[j].status \in Running,
           NEW t \in Transfers, ~Unused(t), job'[j].transfer = t
    PROVE  /\ job[j].status \in Running /\ job[j].transfer = t
           /\ job'[j].object = job[j].object /\ job'[j].target = job[j].target
           /\ \/ job'[j].status = "verifying" => job[j].status = "verifying"
              \/ \E n \in Nodes : CopyStored(n, j)
<1>1. CASE job'[j] = job[j] BY <1>1
<1>2. ASSUME JobActs(j)
      PROVE  /\ job[j].status \in Running /\ job[j].transfer = t
             /\ job'[j].object = job[j].object /\ job'[j].target = job[j].target
             /\ \/ job'[j].status = "verifying" => job[j].status = "verifying"
                \/ \E n \in Nodes : CopyStored(n, j)
  <2>0. t # None BY NoneAssumption
  <2>1. CASE MovesOn(j) BY <2>1 DEF MovesOn, Kept
  <2>2. ~GivesUp(j) BY DEF GivesUp, Pursued
  <2>3. ~ChosenFor(j) BY <2>0 DEF ChosenFor
  <2>4. \A u \in Transfers : ~Begun(j, u) BY DEF Begun
  <2>5. ASSUME NEW n \in Nodes, CopyStored(n, j)
        PROVE  /\ job[j].status \in Running /\ job[j].transfer = t
               /\ job'[j].object = job[j].object /\ job'[j].target = job[j].target
    <3>1. /\ job'[j] = [job[j] EXCEPT !.status = "verifying"] /\ job[j] \in JobRow
          /\ job[j].status = "copying"
      BY <2>5 DEF CopyStored, StoreVerifying, DbTypeOK
    <3> QED BY <3>1 DEF JobRow, Running
  <2> QED BY <1>2, <2>1, <2>2, <2>3, <2>4, <2>5 DEF JobActs
<1> QED BY <1>1, <1>2 DEF CopyActs, JobsRest, JobActs, SourceGivenUp, NoteSourceFailure

LEMMA ReportedStep ==
    ASSUME BytesBase, BytesBase', BytesInv, CopiesKept, Steps, CopyActs,
           Outside \/ \E n \in Nodes : NodeStep(n), NEW j \in Jobs
    PROVE  Reported(j)'
<1>0. /\ RepairInv /\ EraseInv /\ TypeOK /\ DbTypeOK
      /\ JobCopy' /\ HasObject' /\ RunningHasTarget' /\ DbTypeOK'
  BY DEF BytesBase, RepairInv, TypeOK, SettledInv, LiveInv, RowInv
<1> SUFFICES ASSUME NEW t \in Transfers, job'[j].status \in Running, job'[j].transfer = t,
                    transfer'[t].cleanup = "none", ToServerHas(Msg("store_end_ok", t))'
             PROVE  disk'[job'[j].object][job'[j].target] = t
                    \/ job'[j].target \in damaged'[job'[j].object]
  BY DEF Reported, Present
<1>1. CASE ToServerHas(Msg("store_end_ok", t))
  <2>1. ~Unused(t) BY <1>0, <1>1, ReplyUsed DEF Named, Chain
  <2>2. /\ job[j].status \in Running /\ job[j].transfer = t
        /\ job'[j].object = job[j].object /\ job'[j].target = job[j].target
    BY <1>0, <2>1, RunsOn
  <2>3. transfer[t].cleanup = "none" BY <2>1 DEF CopiesKept
  <2>4. /\ job[j].object \in Objects /\ job[j].target \in Nodes
        /\ Quiet(job[j].object, job[j].target, t)
    BY <2>2, <2>3, QuietCopy
  <2>5. PICK o \in Objects, n \in Nodes : o = job[j].object /\ n = job[j].target BY <2>4
  <2>6. Present(o, n, t) BY <1>1, <2>2, <2>3, <2>5 DEF BytesInv, Reported
  <2>7. t # None BY NoneAssumption
  <2>8. Present(o, n, t)' BY <2>4, <2>5, <2>6, <2>7, PresentStays
  <2> QED BY <2>2, <2>5, <2>8 DEF Present
<1>2. CASE ~ToServerHas(Msg("store_end_ok", t))
  <2>1. PICK n \in Nodes : NodeStoreObjectEnd(n) /\ t = Head(toNode[n]).t
    BY <1>0, <1>2, NewReport
  <2>2. t # None BY NoneAssumption
  <2>3. PICK o \in Objects : o = job'[j].object BY <1>0 DEF HasObject, Running
  <2>4. transfer'[t].object = o /\ transfer'[t].node = job'[j].target
    BY <1>0, <2>2, <2>3 DEF JobCopy, Pursued
  <2>5. UNCHANGED dbVars BY <2>1 DEF NodeStoreObjectEnd, NodeReceive
  <2>6. transfer[t].object = o /\ transfer[t].node = job'[j].target BY <2>4, <2>5 DEF dbVars
  <2>7. transfer[t].node = n /\ disk'[o][n] = t BY <1>0, <1>2, <2>1, <2>6, EndStores
  <2> QED BY <2>3, <2>6, <2>7
<1> QED BY <1>1, <1>2

LEMMA VerifiedStep ==
    ASSUME BytesBase, BytesBase', BytesInv, CopiesKept, Steps, CopyActs, NEW j \in Jobs
    PROVE  Verified(j)'
<1>0. /\ RepairInv /\ TypeOK /\ DbTypeOK /\ CleanupExact /\ OwnTransfer
      /\ JobCopy' /\ DbTypeOK'
  BY DEF BytesBase, RepairInv, TypeOK, SettledInv, CopyInv
<1> SUFFICES ASSUME job'[j].status = "verifying"
             PROVE  disk'[job'[j].object][job'[j].target] = job'[j].transfer
                    \/ job'[j].target \in damaged'[job'[j].object]
  BY DEF Verified, Present
<1>1. PICK t \in Transfers : t = job'[j].transfer
  BY <1>0 DEF JobCopy, Kept, DbTypeOK, JobRow
<1>2. ASSUME ~Unused(t), job[j].status \in Running, job[j].transfer = t,
             job'[j].object = job[j].object, job'[j].target = job[j].target,
             transfer[t].cleanup = "none", Present(job[j].object, job[j].target, t)
      PROVE  disk'[job'[j].object][job'[j].target] = t \/ job'[j].target \in damaged'[job'[j].object]
  <2>1. /\ job[j].object \in Objects /\ job[j].target \in Nodes
        /\ Quiet(job[j].object, job[j].target, t)
    BY <1>2, QuietCopy
  <2>2. PICK o \in Objects, n \in Nodes : o = job[j].object /\ n = job[j].target BY <2>1
  <2>3. t # None BY NoneAssumption
  <2>4. Present(o, n, t)' BY <1>2, <2>1, <2>2, <2>3, PresentStays
  <2> QED BY <1>2, <2>2, <2>4 DEF Present
<1>3. ~Unused(t)
  <2> SUFFICES ASSUME Unused(t) PROVE FALSE OBVIOUS
  <2>0. t # None BY NoneAssumption
  <2>1. job[j].transfer # t BY <1>0, <2>0 DEF OwnTransfer
  <2>2. JobActs(j)
    BY <1>1, <2>1 DEF CopyActs, JobsRest, JobActs, SourceGivenUp, NoteSourceFailure
  <2>3. \A n \in Nodes : ~CopyStored(n, j)
    <3> SUFFICES ASSUME NEW n \in Nodes, CopyStored(n, j) PROVE FALSE OBVIOUS
    <3>1. job'[j] = [job[j] EXCEPT !.status = "verifying"] /\ job[j] \in JobRow
      BY <1>0 DEF CopyStored, StoreVerifying, DbTypeOK
    <3> QED BY <1>1, <2>1, <3>1 DEF JobRow
  <2>4. ~MovesOn(j) BY <1>1, <2>1 DEF MovesOn
  <2>5. ~GivesUp(j) /\ ~ChosenFor(j) BY DEF GivesUp, ChosenFor, Pursued, Running
  <2>6. \A u \in Transfers : ~Begun(j, u) BY DEF Begun
  <2> QED BY <2>2, <2>3, <2>4, <2>5, <2>6 DEF JobActs
<1>4. /\ job[j].status \in Running /\ job[j].transfer = t
      /\ job'[j].object = job[j].object /\ job'[j].target = job[j].target
      /\ \/ job[j].status = "verifying"
         \/ \E n \in Nodes : CopyStored(n, j)
  BY <1>0, <1>1, <1>3, RunsOn DEF Running
<1>5. CASE job[j].status = "verifying"
  <2>1. transfer[t].cleanup = "none" BY <1>0, <1>3, <1>4, <1>5 DEF CleanupExact
  <2>2. Present(job[j].object, job[j].target, t) BY <1>4, <1>5 DEF BytesInv, Verified
  <2> QED BY <1>1, <1>2, <1>3, <1>4, <2>1, <2>2
<1>6. ASSUME NEW n \in Nodes, CopyStored(n, j)
      PROVE  disk'[job'[j].object][job'[j].target] = t \/ job'[j].target \in damaged'[job'[j].object]
  <2>1. /\ toServer[n] # <<>> /\ Head(toServer[n]) = Msg("store_end_ok", t)
        /\ transfer[t].cleanup = "none"
    BY <1>4, <1>6 DEF CopyStored, CopyCurrent
  <2>2. toServer[n] \in Seq(ToServer) BY <1>0 DEF TypeOK
  <2>3. ToServerHas(Msg("store_end_ok", t)) BY <2>1, <2>2, TailIn DEF ToServerHas
  <2>4. Present(job[j].object, job[j].target, t) BY <1>4, <2>1, <2>3 DEF BytesInv, Reported
  <2> QED BY <1>2, <1>3, <1>4, <2>1, <2>4
<1> QED BY <1>1, <1>4, <1>5, <1>6

LEMMA ProvidedStep ==
    ASSUME BytesBase, BytesInv, Steps, [DbNext]_dbVars,
           NEW o \in Objects, NEW n \in Nodes, n \in replicas'[o]
    PROVE  Provided(o, n)'
<1>0. RepairInv /\ TypeOK /\ DbTypeOK /\ RowInv /\ LiveInv /\ CleanupExact /\ OwnTransfer /\ JobCopy
  BY DEF BytesBase, RepairInv, TypeOK, LiveInv, RowInv, CopyInv, SettledInv
<1>1. ASSUME NEW j \in Jobs, job[j].status \in Kept
      PROVE  /\ job[j].transfer \in Transfers /\ transfer[job[j].transfer].cleanup = "none"
             /\ job[j].transfer # None
  <2>1. job[j].transfer \in Transfers /\ job[j].transfer # None
    BY <1>0, <1>1, RowFacts DEF JobCopy
  <2>2. ~Unused(job[j].transfer) BY <1>0, <2>1 DEF OwnTransfer
  <2> QED BY <1>0, <1>1, <2>1, <2>2 DEF CleanupExact, Kept
<1>2. CASE n \in replicas[o]
  <2>1. CASE Present(o, n, Upload)
    <3>1. Upload \notin Transfers /\ Upload # None BY UploadAssumption
    <3>2. PICK b : b = Upload OBVIOUS
    <3>3. Quiet(o, n, b) BY <1>2, <3>1, <3>2, QuietReplica
    <3>4. Present(o, n, b)' BY <2>1, <3>1, <3>2, <3>3, PresentStays
    <3> QED BY <3>2, <3>4 DEF Provided
  <2>2. ASSUME NEW j \in Jobs, job[j].status = "completed", job[j].object = o,
               job[j].target = n, Present(o, n, job[j].transfer)
        PROVE  Provided(o, n)'
    <3>1. PICK t \in Transfers : t = job[j].transfer /\ transfer[t].cleanup = "none" /\ t # None
      BY <1>1, <2>2 DEF Kept
    <3>2. Quiet(o, n, t) BY <1>2, <3>1, QuietReplica
    <3>3. Present(o, n, t)' BY <2>2, <3>1, <3>2, PresentStays
    <3>4. job'[j] = job[j]
      BY <1>0, <2>2, JobSteps DEF JobStep, JobKept, JobQueued, JobMoved, Active, Running
    <3> QED BY <2>2, <3>1, <3>3, <3>4 DEF Provided
  <2>3. Provided(o, n) BY <1>2 DEF BytesInv
  <2> QED BY <2>1, <2>2, <2>3 DEF Provided
<1>3. CASE n \notin replicas[o]
  <2>1. ASSUME NEW j \in Jobs, Published(j) PROVE Provided(o, n)'
    <3>1. job[j].status = "verifying" BY <2>1 DEF Published
    <3>2. PICK t \in Transfers : t = job[j].transfer /\ transfer[t].cleanup = "none" /\ t # None
      BY <1>1, <3>1 DEF Kept
    <3>3. /\ job[j].object \in Objects /\ job[j].target \in Nodes
          /\ Quiet(job[j].object, job[j].target, t)
      BY <3>1, <3>2, QuietCopy DEF Running
    <3>4. PICK p \in Objects, k \in Nodes : p = job[j].object /\ k = job[j].target BY <3>3
    <3>5. \E S \in SUBSET Retirable(job[j].object, health) :
             replicas' = [replicas EXCEPT ![job[j].object] = (@ \cup {job[j].target}) \ S]
      BY <1>0, <2>1, PublishFacts, ZenonT(60)
    <3>6. PICK S : replicas' = [replicas EXCEPT ![p] = (@ \cup {k}) \ S] BY <3>4, <3>5
    <3>7. o = p /\ n = k BY <1>0, <1>3, <3>6 DEF DbTypeOK
    <3>8. Present(o, n, t) BY <3>1, <3>2, <3>4, <3>7 DEF BytesInv, Verified
    <3>9. Present(o, n, t)' BY <3>2, <3>3, <3>4, <3>7, <3>8, PresentStays
    <3>10. job' = [job EXCEPT ![j].status = "completed"] BY <2>1 DEF Published, Publish
    <3>11. /\ job'[j].status = "completed" /\ job'[j].object = job[j].object
           /\ job'[j].target = job[j].target /\ job'[j].transfer = job[j].transfer
      BY <1>0, <3>10 DEF DbTypeOK, JobRow
    <3> QED BY <3>2, <3>4, <3>7, <3>9, <3>11 DEF Provided
  <2>2. \A p \in Objects : ~GcUnreferencedObject(p)
    BY <1>0, <1>3 DEF GcUnreferencedObject, DbTypeOK
  <2>3. CopyStep BY <1>0, CopySteps
  <2> QED BY <1>3, <2>1, <2>2, <2>3 DEF CopyStep, QueueRowMoved
<1> QED BY <1>2, <1>3

LEMMA BytesStep ==
    ASSUME BytesBase, RepairInv', BytesInv, "source_failure" \notin DbErrors, [Next]_vars
    PROVE  BytesBase' /\ BytesInv'
<1>0. RepairInv /\ EraseInv /\ SettledInv /\ ClearInv /\ DeleteInv /\ TypeOK /\ TypeOK'
  BY DEF BytesBase, RepairInv
<1>1. /\ CopiesKept /\ Steps
      /\ Outside \/ \E n \in Nodes : NodeStep(n) /\ NodeMoves
  BY <1>0, StepKinds
<1>2. CopyActs /\ CtxFollows BY <1>0, StepActs, ContextsFollow
<1>3. [DbNext]_dbVars BY <1>0, StepRefines
<1>4. EraseInv' BY <1>0, EraseStep
<1>5. JobCopy' BY <1>0, <1>1, <1>2, JobCopyStep DEF SettledInv
<1>6. KeptIsSettled' BY <1>0, <1>1, <1>2, KeptStep
<1>7. ClearInv' BY <1>0, <1>1, <1>2, <1>3, ClearStep
<1>8. DeleteInv' BY <1>0, <1>1, DeleteOutside, DeleteAtNode DEF DeleteInv
<1>9. BytesBase' BY <1>4, <1>5, <1>6, <1>7, <1>8 DEF BytesBase, SettledInv
<1>10. \A j \in Jobs : Reported(j)' BY <1>1, <1>2, <1>9, ReportedStep
<1>11. \A j \in Jobs : Verified(j)' BY <1>1, <1>2, <1>9, VerifiedStep
<1>12. \A o \in Objects, n \in Nodes : n \in replicas'[o] => Provided(o, n)'
  BY <1>1, <1>3, ProvidedStep
<1> QED BY <1>9, <1>10, <1>11, <1>12 DEF BytesInv

LEMMA BytesInit == Init => BytesBase /\ BytesInv
<1> SUFFICES ASSUME Init PROVE BytesBase /\ BytesInv OBVIOUS
<1>1. RepairInv /\ EraseInv BY RepairInit, EraseInit
<1>2. \A n \in Nodes : Len(toNode[n]) = 0 /\ Len(toServer[n]) = 0 BY DEF Init
<1>3. \A m : ~ToNodeHas(m) /\ ~ToServerHas(m) BY <1>2 DEF ToNodeHas, ToServerHas, InQueue
<1>4. \A j \in Jobs : job[j].status = "absent" BY DEF Init, DbInit, NoJob
<1>5. SettledInv
  BY <1>3, <1>4 DEF SettledInv, JobCopy, KeptIsSettled, Kept, Pursued, Running
<1>6. \A t \in Transfers : Harmless(t) BY <1>3 DEF Init, Harmless, Settled
<1>7. ClearInv BY <1>6 DEF ClearInv, OnlyOwn, NoneElse
<1>8. DeleteInv BY <1>2 DEF DeleteInv, DeleteOnce, Once, InQueue
<1>9. \A o \in Objects, n \in Nodes : n \in replicas[o] => disk[o][n] = Upload BY DEF Init
<1>10. BytesInv
  BY <1>4, <1>9 DEF BytesInv, Reported, Verified, Provided, Present, Running
<1> QED BY <1>1, <1>5, <1>7, <1>8, <1>10 DEF BytesBase

(* Whatever frames of earlier attempts are still on their way, a repair is  *)
(* verified against the bytes its own transfer stored, and a published      *)
(* replica is what an upload or a completed repair stored.                  *)
THEOREM VerifiedAgainstOwnCopy ==
    ASSUME "source_failure" \notin DbErrors
    PROVE  Spec => []VerifiesOwnCopy
<1>1. Init => RepairInv /\ BytesBase /\ BytesInv BY RepairInit, BytesInit
<1>2. RepairInv /\ BytesBase /\ BytesInv /\ [Next]_vars => RepairInv' /\ BytesBase' /\ BytesInv'
  BY RepairStep, BytesStep
<1>3. RepairInv /\ BytesBase /\ BytesInv => VerifiesOwnCopy
  <2> SUFFICES ASSUME RepairInv, BytesBase, BytesInv PROVE VerifiesOwnCopy OBVIOUS
  <2>1. \A o \in objects : o \in Objects /\ replicas[o] \subseteq Nodes
    BY DEF RepairInv, TypeOK, DbTypeOK
  <2>2. ASSUME NEW o \in objects, NEW n \in replicas[o], Provided(o, n)
        PROVE  \/ disk[o][n] = Upload \/ n \in damaged[o]
               \/ \E j \in Jobs : /\ job[j].status = "completed"
                                 /\ job[j].object = o /\ job[j].target = n
                                 /\ disk[o][n] = job[j].transfer
    BY <2>2 DEF Provided, Present
  <2>3. \A j \in Jobs : job[j].status = "verifying" =>
           \/ disk[job[j].object][job[j].target] = job[j].transfer
           \/ job[j].target \in damaged[job[j].object]
    BY DEF BytesInv, Verified, Present
  <2> QED BY <2>1, <2>2, <2>3 DEF BytesInv, VerifiesOwnCopy
<1> QED BY <1>1, <1>2, <1>3, PTL DEF Spec

(* What the database publishes is on the node's disk, unless the provider   *)
(* lost it: no abort, cleanup, deletion or overwrite reaches it.            *)
THEOREM PublishedIsStored ==
    ASSUME "source_failure" \notin DbErrors
    PROVE  Spec => []StoredUnlessDamaged
<1>1. Init => RepairInv /\ BytesBase /\ BytesInv BY RepairInit, BytesInit
<1>2. RepairInv /\ BytesBase /\ BytesInv /\ [Next]_vars => RepairInv' /\ BytesBase' /\ BytesInv'
  BY RepairStep, BytesStep
<1>3. RepairInv /\ BytesBase /\ BytesInv => StoredUnlessDamaged
  <2> SUFFICES ASSUME RepairInv, BytesBase, BytesInv,
                      NEW o \in objects, NEW n \in replicas[o], n \notin damaged[o]
               PROVE  disk[o][n] # None
    BY DEF StoredUnlessDamaged
  <2>1. o \in Objects /\ n \in Nodes BY DEF RepairInv, TypeOK, DbTypeOK
  <2>2. Provided(o, n) BY <2>1 DEF BytesInv
  <2>3. CASE disk[o][n] = Upload BY <2>3, UploadAssumption
  <2>4. ASSUME NEW j \in Jobs, job[j].status = "completed", disk[o][n] = job[j].transfer
        PROVE  disk[o][n] # None
    BY <2>4 DEF BytesBase, SettledInv, JobCopy, Kept
  <2> QED BY <2>2, <2>3, <2>4 DEF Provided, Present
<1> QED BY <1>1, <1>2, <1>3, PTL DEF Spec
=============================================================================
