---------------------------- MODULE DownloadProofs ----------------------------
(***************************************************************************)
(* What Download ensures for every number of transfers, nodes, chunks and  *)
(* attempts and every limit, whatever is lost, damaged or restarted:       *)
(*                                                                         *)
(*   - it keeps the promise made to the clients, which is broken for a     *)
(*     chunk only when a database call fails between the note of the chunk *)
(*     and its forwarding.  Nothing is assumed of the frames: a DataServer *)
(*     that guards its state with the set of chunks seen keeps its promise *)
(*     whatever the nodes send;                                            *)
(*   - what was forwarded is recorded once, and the daily limit is overrun *)
(*     by no more than what waits to be recorded;                          *)
(*   - a replica is called healthy only for what it sent itself.  This one *)
(*     is about the frames: each says of its attempt what a node did.      *)
(***************************************************************************)
EXTENDS Download, CounterTheorems, SequenceTheorems

(* The types of what the promise depends on. *)
Replicas == Seq(Nodes)

CtxType == [open : BOOLEAN, candidates : Replicas, attempt : Nat, indexed : BOOLEAN,
            got : SUBSET Chunks, attemptGot : SUBSET Chunks, unflushed : Nat]

Typed ==
    /\ ctx \in [Transfers -> CtxType]
    /\ answer \in [Transfers -> {"none", "done", "failed", "cap_reached"}]
    /\ sent \in [Transfers -> [Chunks -> Nat]]
    /\ dropped \in [Transfers -> SUBSET Chunks]
    /\ client \in [Transfers -> {"idle", "waiting", "complete", "failed",
                                 "resend_refused"}]

(* received_chunk_ids of an open transfer are what its client was sent, and *)
(* what was dropped on the way to it.                                       *)
GotIsSent(d) ==
    ctx[d].open => /\ answer[d] = "none" /\ client[d] # "idle"
                   /\ dropped[d] \subseteq ctx[d].got
                   /\ \A k \in Chunks :
                        sent[d][k] = IF k \in ctx[d].got \ dropped[d] THEN 1 ELSE 0

(* Nothing is known of a transfer nobody asked for. *)
NotBegun(d) ==
    client[d] = "idle" => /\ ~ctx[d].open /\ answer[d] = "none" /\ dropped[d] = {}
                          /\ \A k \in Chunks : sent[d][k] = 0

PromiseInv == Typed /\ \A d \in Transfers : GotIsSent(d) /\ NotBegun(d)

(* Every transfer takes a step of its promise, or none; a chunk is dropped  *)
(* by a failure.                                                            *)
StepKept ==
    \A d \in Transfers :
        /\ [Promise(d)!Next]_<<sent[d], dropped[d], answer[d]>>
        /\ dropped'[d] # dropped[d] => /\ DbErrors \cap {"check", "flush"} # {}
                                       /\ disturbances' = disturbances + 1

promiseVars == <<ctx, answer, sent, dropped, client>>

-----------------------------------------------------------------------------
(* The five ways in which the handlers change what the promise is about.    *)

(* A step that touches none of it *)
LEMMA Untouched ==
    ASSUME PromiseInv, UNCHANGED promiseVars
    PROVE  PromiseInv' /\ StepKept
<1> QED BY DEF PromiseInv, Typed, GotIsSent, NotBegun, StepKept, promiseVars

(* A context that keeps its chunks: a new attempt, a repeated chunk, a flush *)
LEMMA Rewritten ==
    ASSUME PromiseInv, NEW d \in Transfers, NEW c \in CtxType,
           ctx[d].open, c.got = ctx[d].got,
           ctx' = [ctx EXCEPT ![d] = c], UNCHANGED <<answer, sent, dropped, client>>
    PROVE  PromiseInv' /\ StepKept
<1>1. Typed' BY DEF PromiseInv, Typed
<1>2. ASSUME NEW e \in Transfers PROVE GotIsSent(e)' /\ NotBegun(e)'
  BY DEF PromiseInv, Typed, GotIsSent, NotBegun
<1> QED BY <1>1, <1>2 DEF PromiseInv, StepKept

(* The final answer *)
LEMMA Finished ==
    ASSUME PromiseInv, NEW d \in Transfers, NEW c, NEW final,
           final \in {"failed", "cap_reached"} \/ (final = "done" /\ ctx[d].got = Chunks),
           ctx[d].open, Finish(d, c, final), UNCHANGED <<sent, dropped, client>>
    PROVE  PromiseInv' /\ StepKept
<1>0. NoCtx \in CtxType BY DEF NoCtx, CtxType, Replicas
<1>1. Typed' BY <1>0 DEF PromiseInv, Typed, Finish
<1>2. ASSUME NEW e \in Transfers PROVE GotIsSent(e)' /\ NotBegun(e)'
  BY DEF PromiseInv, Typed, GotIsSent, NotBegun, Finish, NoCtx
<1>3. ASSUME NEW e \in Transfers
      PROVE  [Promise(e)!Next]_<<sent[e], dropped[e], answer[e]>>
  <2>1. CASE e # d BY <2>1 DEF PromiseInv, Typed, Finish
  <2>2. CASE e = d /\ final = "done"
    BY <2>2 DEF PromiseInv, Typed, GotIsSent, Finish, Promise!Next, Promise!Complete
  <2>3. CASE e = d /\ final # "done"
    BY <2>3 DEF PromiseInv, Typed, GotIsSent, Finish, Promise!Next, Promise!Refuse
  <2> QED BY <2>1, <2>2, <2>3
<1> QED BY <1>1, <1>2, <1>3 DEF PromiseInv, StepKept

(* A chunk is forwarded *)
LEMMA Sent ==
    ASSUME PromiseInv, NEW d \in Transfers, NEW c \in CtxType, NEW k \in Chunks,
           ctx[d].open, k \notin ctx[d].got, c.got = ctx[d].got \cup {k},
           ctx' = [ctx EXCEPT ![d] = c], sent' = [sent EXCEPT ![d][k] = @ + 1],
           UNCHANGED <<answer, dropped, client>>
    PROVE  PromiseInv' /\ StepKept
<1>1. Typed' BY DEF PromiseInv, Typed
<1>2. ASSUME NEW e \in Transfers PROVE GotIsSent(e)' /\ NotBegun(e)'
  BY DEF PromiseInv, Typed, GotIsSent, NotBegun
<1>3. ASSUME NEW e \in Transfers
      PROVE  [Promise(e)!Next]_<<sent[e], dropped[e], answer[e]>>
  <2>1. CASE e # d BY <2>1 DEF PromiseInv, Typed
  <2>2. CASE e = d
    <3>1. /\ answer[d] = "none" /\ sent[d][k] = 0 /\ k \notin dropped[d]
          /\ sent[d] \in [Chunks -> Nat]
      BY DEF PromiseInv, Typed, GotIsSent
    <3>2. sent'[d] = [sent[d] EXCEPT ![k] = 1] /\ UNCHANGED <<dropped, answer>>
      BY <3>1 DEF PromiseInv, Typed
    <3>3. Promise(d)!Forward(k) BY <3>1, <3>2 DEF Promise!Forward
    <3> QED BY <2>2, <3>3 DEF Promise!Next
  <2> QED BY <2>1, <2>2
<1> QED BY <1>1, <1>2, <1>3 DEF PromiseInv, StepKept

(* A chunk is dropped *)
LEMMA ChunkDropped ==
    ASSUME PromiseInv, NEW d \in Transfers, NEW c \in CtxType, NEW k \in Chunks,
           ctx[d].open, k \notin ctx[d].got, c.got = ctx[d].got \cup {k},
           ctx' = [ctx EXCEPT ![d] = c], dropped' = [dropped EXCEPT ![d] = @ \cup {k}],
           DbErrors \cap {"check", "flush"} # {}, disturbances' = disturbances + 1,
           UNCHANGED <<answer, sent, client>>
    PROVE  PromiseInv' /\ StepKept
<1>1. Typed' BY DEF PromiseInv, Typed
<1>2. ASSUME NEW e \in Transfers PROVE GotIsSent(e)' /\ NotBegun(e)'
  BY DEF PromiseInv, Typed, GotIsSent, NotBegun
<1>3. ASSUME NEW e \in Transfers
      PROVE  [Promise(e)!Next]_<<sent[e], dropped[e], answer[e]>>
  <2>1. CASE e # d BY <2>1 DEF PromiseInv, Typed
  <2>2. CASE e = d
    <3>1. answer[d] = "none" /\ sent[d][k] = 0 /\ k \notin dropped[d]
      BY DEF PromiseInv, Typed, GotIsSent
    <3>2. dropped'[d] = dropped[d] \cup {k} /\ UNCHANGED <<sent, answer>>
      BY DEF PromiseInv, Typed
    <3>3. Promise(d)!Drop(k) BY <3>1, <3>2 DEF Promise!Drop
    <3> QED BY <2>2, <3>3 DEF Promise!Next
  <2> QED BY <2>1, <2>2
<1> QED BY <1>1, <1>2, <1>3 DEF PromiseInv, StepKept

-----------------------------------------------------------------------------
(* The steps of the handlers *)

(* begin_next_attempt *)
LEMMA NextAttemptType ==
    ASSUME NEW c \in CtxType
    PROVE  LET next == [c EXCEPT !.attempt = @ + 1, !.attemptGot = {}, !.indexed = TRUE]
           IN  next \in CtxType /\ next.got = c.got /\ next.open = c.open
<1> DEFINE next == [c EXCEPT !.attempt = @ + 1, !.attemptGot = {}, !.indexed = TRUE]
<1>1. next = [[[c EXCEPT !.attempt = @ + 1] EXCEPT !.attemptGot = {}] EXCEPT !.indexed = TRUE]
  OBVIOUS
<1>2. ASSUME NEW x \in CtxType PROVE [x EXCEPT !.attempt = @ + 1] \in CtxType
  <2>1. x.attempt + 1 \in Nat BY DEF CtxType
  <2> QED BY <2>1 DEF CtxType
<1>3. ASSUME NEW x \in CtxType PROVE [x EXCEPT !.attemptGot = {}] \in CtxType
  BY DEF CtxType
<1>4. ASSUME NEW x \in CtxType PROVE [x EXCEPT !.indexed = TRUE] \in CtxType
  BY DEF CtxType
<1>5. next.got = c.got /\ next.open = c.open BY DEF CtxType
<1> QED BY <1>1, <1>2, <1>3, <1>4, <1>5

(* Failing over, or giving up after the last replica *)
LEMMA FailAttemptKeeps ==
    ASSUME PromiseInv, NEW d \in Transfers, NEW s, NEW err,
           ctx[d].open, FailAttempt(d, ctx[d], s, err)
    PROVE  PromiseInv' /\ StepKept
<1>0. ctx[d] \in CtxType BY DEF PromiseInv, Typed
<1>1. CASE Asked(d, ctx[d]) /\ UNCHANGED answer
  <2> DEFINE c == [ctx[d] EXCEPT !.attempt = @ + 1, !.attemptGot = {}, !.indexed = TRUE]
  <2>1. c \in CtxType /\ c.got = ctx[d].got BY <1>0, NextAttemptType
  <2> QED BY <1>1, <2>1, Rewritten DEF Asked, FailAttempt
<1>2. CASE ctx' = [ctx EXCEPT ![d] = [ctx[d] EXCEPT !.indexed = FALSE]] /\ UNCHANGED answer
  <2> DEFINE c == [ctx[d] EXCEPT !.indexed = FALSE]
  <2>1. c \in CtxType /\ c.got = ctx[d].got BY <1>0 DEF CtxType
  <2> QED BY <1>2, <2>1, Rewritten DEF FailAttempt
<1>3. CASE Finish(d, ctx[d], "failed")
  BY <1>3, Finished DEF FailAttempt
<1> QED BY <1>1, <1>2, <1>3 DEF FailAttempt

(* observe_chunk *)
LEMMA ObservedType ==
    ASSUME NEW c \in CtxType, NEW k \in Chunks
    PROVE  /\ Observed(c, k) \in CtxType
           /\ Observed(c, k).got = c.got \cup {k}
           /\ Observed(c, k).unflushed = c.unflushed
<1> QED BY DEF CtxType, Observed

(* Forwarding a chunk, or finding the limit reached *)
LEMMA ForwardNewKeeps ==
    ASSUME PromiseInv, NEW d \in Transfers, NEW k \in Chunks, NEW err \in Errors,
           ctx[d].open, k \notin ctx[d].got,
           ForwardNew(d, Observed(ctx[d], k), k, err)
    PROVE  PromiseInv' /\ StepKept
<1> DEFINE c == Observed(ctx[d], k)
           more == [c EXCEPT !.unflushed = @ + 1]
           flushed == [more EXCEPT !.unflushed = 0]
<1>0. ctx[d] \in CtxType BY DEF PromiseInv, Typed
<1>1. c \in CtxType /\ c.got = ctx[d].got \cup {k} BY <1>0, ObservedType
<1>2. more \in CtxType /\ more.got = c.got BY <1>1 DEF CtxType
<1>3. flushed \in CtxType /\ flushed.got = c.got BY <1>1 DEF CtxType
<1> HIDE DEF c
<1>4. CASE /\ err \in {"check", "flush"} /\ ctx' = [ctx EXCEPT ![d] = c]
           /\ dropped' = [dropped EXCEPT ![d] = @ \cup {k}] /\ UNCHANGED <<sent, answer>>
  <2>1. UNCHANGED client /\ Calls({"check", "flush"}, err) BY DEF ForwardNew
  <2>2. DbErrors \cap {"check", "flush"} # {} /\ disturbances' = disturbances + 1
    BY <1>4, <2>1 DEF Calls, Disturbed
  <2> QED BY <1>1, <1>4, <2>1, <2>2, ChunkDropped
<1>5. CASE Finish(d, c, "cap_reached") /\ UNCHANGED <<sent, dropped>>
  BY <1>5, Finished DEF ForwardNew, c
<1>6. CASE /\ sent' = [sent EXCEPT ![d][k] = @ + 1] /\ UNCHANGED <<answer, dropped>>
           /\ ctx' = [ctx EXCEPT ![d] = flushed]
  <2>1. UNCHANGED client BY DEF ForwardNew
  <2> HIDE DEF flushed
  <2> QED BY <1>6, <1>1, <1>3, <2>1, Sent
<1>7. CASE /\ sent' = [sent EXCEPT ![d][k] = @ + 1] /\ UNCHANGED <<answer, dropped>>
           /\ ctx' = [ctx EXCEPT ![d] = more]
  <2>1. UNCHANGED client BY DEF ForwardNew
  <2> HIDE DEF more
  <2> QED BY <1>7, <1>1, <1>2, <2>1, Sent
<1> QED BY <1>4, <1>5, <1>6, <1>7 DEF ForwardNew, c

(* The end of a stream, complete over all attempts *)
LEMMA EndOfStreamKeeps ==
    ASSUME PromiseInv, NEW d \in Transfers, NEW err, ctx[d].open,
           ctx[d].got = Chunks, EndOfStream(d, ctx[d], err)
    PROVE  PromiseInv' /\ StepKept
<1>1. CASE UNCHANGED <<ctx, answer>>
  BY <1>1, Untouched DEF EndOfStream, promiseVars
<1>2. CASE Finish(d, ctx[d], "done")
  BY <1>2, Finished DEF EndOfStream
<1> QED BY <1>1, <1>2 DEF EndOfStream

(* A frame that names no transfer of this run finds nothing to change. *)
LEMMA UnknownTransfer ==
    ASSUME PromiseInv, NEW d, d \notin Transfers
    PROVE  /\ \A x : [ctx EXCEPT ![d] = x] = ctx
           /\ \A x : [answer EXCEPT ![d] = x] = answer
           /\ \A x : [sent EXCEPT ![d] = x] = sent
           /\ \A x : [dropped EXCEPT ![d] = x] = dropped
<1>1. /\ ctx = [e \in Transfers |-> ctx[e]] /\ answer = [e \in Transfers |-> answer[e]]
      /\ sent = [e \in Transfers |-> sent[e]] /\ dropped = [e \in Transfers |-> dropped[e]]
  BY DEF PromiseInv, Typed
<1>2. ASSUME NEW x PROVE [ctx EXCEPT ![d] = x] = ctx BY <1>1
<1>3. ASSUME NEW x PROVE [answer EXCEPT ![d] = x] = answer BY <1>1
<1>4. ASSUME NEW x PROVE [sent EXCEPT ![d] = x] = sent BY <1>1
<1>5. ASSUME NEW x PROVE [dropped EXCEPT ![d] = x] = dropped BY <1>1
<1> QED BY <1>2, <1>3, <1>4, <1>5

LEMMA UnknownFails ==
    ASSUME PromiseInv, NEW d, d \notin Transfers, NEW s, NEW err,
           FailAttempt(d, ctx[d], s, err)
    PROVE  UNCHANGED promiseVars
<1>1. UNCHANGED <<sent, dropped, client>> BY DEF FailAttempt
<1>2. CASE Asked(d, ctx[d]) /\ UNCHANGED answer
  BY <1>1, <1>2, UnknownTransfer DEF Asked, promiseVars
<1>3. CASE ctx' = [ctx EXCEPT ![d] = [ctx[d] EXCEPT !.indexed = FALSE]] /\ UNCHANGED answer
  BY <1>1, <1>3, UnknownTransfer DEF promiseVars
<1>4. CASE Finish(d, ctx[d], "failed")
  BY <1>1, <1>4, UnknownTransfer DEF Finish, promiseVars
<1> QED BY <1>2, <1>3, <1>4 DEF FailAttempt

LEMMA UnknownForwards ==
    ASSUME PromiseInv, NEW d, d \notin Transfers, NEW c, NEW k, NEW err,
           ForwardNew(d, c, k, err)
    PROVE  UNCHANGED promiseVars
<1>1. UNCHANGED client BY DEF ForwardNew
<1>2. UNCHANGED ctx BY UnknownTransfer DEF ForwardNew, Finish
<1>3. UNCHANGED answer BY UnknownTransfer DEF ForwardNew, Finish
<1>4. UNCHANGED sent BY UnknownTransfer DEF ForwardNew
<1>5. UNCHANGED dropped BY UnknownTransfer DEF ForwardNew
<1> QED BY <1>1, <1>2, <1>3, <1>4, <1>5 DEF promiseVars

-----------------------------------------------------------------------------
(* download_begin *)
LEMMA DownloadBeginKeeps ==
    ASSUME PromiseInv, NEW d \in Transfers, DownloadBegin(d)
    PROVE  PromiseInv' /\ StepKept
<1> USE DownloadAssumption
<1>0. PICK online \in SUBSET Nodes : \E q \in CandidateLists(online) :
        IF q = <<>> THEN /\ client' = [client EXCEPT ![d] = "failed"]
                         /\ UNCHANGED <<ctx, toNode>>
        ELSE /\ client' = [client EXCEPT ![d] = "waiting"]
             /\ Asked(d, [NoCtx EXCEPT !.open = TRUE, !.candidates = q])
  BY DEF DownloadBegin
<1>1. PICK q \in CandidateLists(online) :
        IF q = <<>> THEN /\ client' = [client EXCEPT ![d] = "failed"]
                         /\ UNCHANGED <<ctx, toNode>>
        ELSE /\ client' = [client EXCEPT ![d] = "waiting"]
             /\ Asked(d, [NoCtx EXCEPT !.open = TRUE, !.candidates = q])
  BY <1>0
<1>2. q \in Seq(Nodes)
  <2> DEFINE U == {n \in online : health[n] \in Usable}
             m == IF Cardinality(U) < MaxAttempts THEN Cardinality(U) ELSE MaxAttempts
  <2>1. IsFiniteSet(U) BY FS_Subset
  <2>2. m \in Nat BY <2>1, FS_CardinalityType
  <2>3. q \in [1 .. m -> U] BY DEF CandidateLists
  <2> HIDE DEF m
  <2> QED BY <2>2, <2>3
<1>3. client[d] = "idle" /\ ~ctx[d].open /\ answer[d] = "none" /\ UNCHANGED <<answer, sent, dropped>>
  BY DEF DownloadBegin, PromiseInv, NotBegun
<1>4. StepKept BY <1>3 DEF StepKept
<1>5. CASE q = <<>>
  <2>1. Typed' BY <1>1, <1>3, <1>5 DEF PromiseInv, Typed
  <2>2. ASSUME NEW e \in Transfers PROVE GotIsSent(e)' /\ NotBegun(e)'
    BY <1>1, <1>3, <1>5 DEF PromiseInv, Typed, GotIsSent, NotBegun
  <2> QED BY <1>4, <2>1, <2>2 DEF PromiseInv
<1>6. CASE q # <<>>
  <2> DEFINE b == [NoCtx EXCEPT !.open = TRUE, !.candidates = q]
             c == [b EXCEPT !.attempt = @ + 1, !.attemptGot = {}, !.indexed = TRUE]
  <2>0. b \in CtxType /\ b.got = {} BY <1>2 DEF CtxType, NoCtx, Replicas
  <2>1. c \in CtxType /\ c.got = {} BY <2>0, NextAttemptType
  <2>2. ctx' = [ctx EXCEPT ![d] = c] /\ client' = [client EXCEPT ![d] = "waiting"]
    BY <1>1, <1>6 DEF Asked
  <2> HIDE DEF c
  <2>3. Typed' BY <1>3, <2>1, <2>2 DEF PromiseInv, Typed
  <2>4. ASSUME NEW e \in Transfers PROVE GotIsSent(e)' /\ NotBegun(e)'
    BY <1>3, <2>1, <2>2 DEF PromiseInv, Typed, GotIsSent, NotBegun
  <2> QED BY <1>4, <2>3, <2>4 DEF PromiseInv
<1> QED BY <1>5, <1>6

(* stream_object_ready *)
LEMMA StreamObjectReadyKeeps ==
    ASSUME PromiseInv, NEW n \in Nodes, NEW err, StreamObjectReady(n, err)
    PROVE  PromiseInv' /\ StepKept
<1> DEFINE f == Head(toServer[n])
<1>1. CASE UNCHANGED promiseVars BY <1>1, Untouched
<1>2. ASSUME NEW s, Current(f.d, f.a), FailAttempt(f.d, ctx[f.d], s, err)
      PROVE  PromiseInv' /\ StepKept
  <2>1. CASE f.d \in Transfers BY <1>2, <2>1, FailAttemptKeeps DEF Current
  <2>2. CASE f.d \notin Transfers BY <1>2, <2>2, UnknownFails, Untouched
  <2> QED BY <2>1, <2>2
<1> QED BY <1>1, <1>2 DEF StreamObjectReady, Ignored, serverVars, promiseVars

(* A chunk from a node *)
LEMMA NodeStreamKeeps ==
    ASSUME PromiseInv, NEW n \in Nodes, NEW err \in Errors, NodeStream(n, err)
    PROVE  PromiseInv' /\ StepKept
<1> DEFINE f == Head(toServer[n])
<1>1. CASE Ignored(f)
  BY <1>1, Untouched DEF Ignored, serverVars, promiseVars
<1>2. ASSUME NEW s, Current(f.d, f.a), FailAttempt(f.d, ctx[f.d], s, err)
      PROVE  PromiseInv' /\ StepKept
  <2>1. CASE f.d \in Transfers BY <1>2, <2>1, FailAttemptKeeps DEF Current
  <2>2. CASE f.d \notin Transfers BY <1>2, <2>2, UnknownFails, Untouched
  <2> QED BY <2>1, <2>2
<1>3. ASSUME Current(f.d, f.a), f.chunk \in ctx[f.d].got,
             ctx' = [ctx EXCEPT ![f.d] = Observed(ctx[f.d], f.chunk)],
             UNCHANGED <<answer, sent, dropped, client>>
      PROVE  PromiseInv' /\ StepKept
  <2>1. CASE f.d \in Transfers
    <3>0. ctx[f.d] \in CtxType BY <2>1 DEF PromiseInv, Typed
    <3>1. f.chunk \in Chunks BY <1>3, <3>0 DEF CtxType
    <3>2. /\ Observed(ctx[f.d], f.chunk) \in CtxType
          /\ Observed(ctx[f.d], f.chunk).got = ctx[f.d].got
      <4> HIDE DEF f
      <4>1. /\ Observed(ctx[f.d], f.chunk) \in CtxType
            /\ Observed(ctx[f.d], f.chunk).got = ctx[f.d].got \cup {f.chunk}
        BY <3>0, <3>1, ObservedType
      <4>2. ctx[f.d].got \cup {f.chunk} = ctx[f.d].got BY <1>3
      <4> QED BY <4>1, <4>2
    <3> HIDE DEF f
    <3> QED BY <1>3, <2>1, <3>2, Rewritten DEF Current
  <2>2. CASE f.d \notin Transfers
    BY <1>3, <2>2, UnknownTransfer, Untouched DEF promiseVars
  <2> QED BY <2>1, <2>2
<1>4. ASSUME Current(f.d, f.a), f.chunk \in Chunks \ ctx[f.d].got,
             ForwardNew(f.d, Observed(ctx[f.d], f.chunk), f.chunk, err)
      PROVE  PromiseInv' /\ StepKept
  <2>1. CASE f.d \in Transfers BY <1>4, <2>1, ForwardNewKeeps DEF Current
  <2>2. CASE f.d \notin Transfers BY <1>4, <2>2, UnknownForwards, Untouched
  <2> QED BY <2>1, <2>2
<1>5. CASE Current(f.d, f.a)
  BY <1>2, <1>3, <1>4, <1>5 DEF NodeStream, Ignored
<1> QED BY <1>1, <1>5 DEF NodeStream, Ignored

(* stream_object_end *)
LEMMA StreamObjectEndKeeps ==
    ASSUME PromiseInv, NEW n \in Nodes, NEW err, StreamObjectEnd(n, err)
    PROVE  PromiseInv' /\ StepKept
<1> DEFINE f == Head(toServer[n])
<1>1. CASE Ignored(f)
  BY <1>1, Untouched DEF Ignored, serverVars, promiseVars
<1>2. ASSUME NEW s, Current(f.d, f.a), FailAttempt(f.d, ctx[f.d], s, err)
      PROVE  PromiseInv' /\ StepKept
  <2>1. CASE f.d \in Transfers BY <1>2, <2>1, FailAttemptKeeps DEF Current
  <2>2. CASE f.d \notin Transfers BY <1>2, <2>2, UnknownFails, Untouched
  <2> QED BY <2>1, <2>2
<1>3. ASSUME Current(f.d, f.a), ctx[f.d].got = Chunks, EndOfStream(f.d, ctx[f.d], err)
      PROVE  PromiseInv' /\ StepKept
  <2>1. CASE f.d \in Transfers BY <1>3, <2>1, EndOfStreamKeeps DEF Current
  <2>2. CASE f.d \notin Transfers
    <3>1. UNCHANGED promiseVars
      BY <1>3, <2>2, UnknownTransfer
         DEF EndOfStream, Finish, promiseVars
    <3> QED BY <3>1, Untouched
  <2> QED BY <2>1, <2>2
<1> QED BY <1>1, <1>2, <1>3 DEF StreamObjectEnd

(* The client's last step, and its time limit *)
LEMMA ClientKeeps ==
    ASSUME PromiseInv, NEW d \in Transfers, ClientFinishes(d) \/ ClientTimeout(d)
    PROVE  PromiseInv' /\ StepKept
<1>1. UNCHANGED <<ctx, answer, sent, dropped>>
  BY DEF ClientFinishes, ClientTimeout, serverVars
<1>2. PICK s \in {"failed", "complete", "resend_refused"} :
        client' = [client EXCEPT ![d] = s]
  BY DEF ClientFinishes, ClientTimeout
<1>3. client[d] # "idle" BY DEF ClientFinishes, ClientTimeout
<1>4. Typed' BY <1>1, <1>2 DEF PromiseInv, Typed
<1>5. ASSUME NEW e \in Transfers PROVE GotIsSent(e)' /\ NotBegun(e)'
  BY <1>1, <1>2, <1>3 DEF PromiseInv, Typed, GotIsSent, NotBegun
<1> QED BY <1>1, <1>4, <1>5 DEF PromiseInv, StepKept

(* The DataServer forgets. *)
LEMMA ServerRestartKeeps ==
    ASSUME PromiseInv, ServerRestart
    PROVE  PromiseInv' /\ StepKept
<1>1. UNCHANGED <<answer, sent, dropped, client>> BY DEF ServerRestart
<1>2. ctx' = [d \in Transfers |-> NoCtx] /\ NoCtx \in CtxType /\ ~NoCtx.open
  BY DEF ServerRestart, NoCtx, CtxType, Replicas
<1>3. Typed' BY <1>1, <1>2 DEF PromiseInv, Typed
<1>4. ASSUME NEW e \in Transfers PROVE GotIsSent(e)' /\ NotBegun(e)'
  BY <1>1, <1>2 DEF PromiseInv, Typed, GotIsSent, NotBegun
<1> QED BY <1>1, <1>3, <1>4 DEF PromiseInv, StepKept

-----------------------------------------------------------------------------
LEMMA InitKeeps ==
    ASSUME Init
    PROVE  PromiseInv /\ \A d \in Transfers : Promise(d)!Init
<1>1. NoCtx \in CtxType /\ ~NoCtx.open BY DEF NoCtx, CtxType, Replicas
<1>2. Typed BY <1>1 DEF Init, Typed
<1>3. ASSUME NEW d \in Transfers PROVE GotIsSent(d) /\ NotBegun(d)
  BY <1>1 DEF Init, GotIsSent, NotBegun
<1>4. ASSUME NEW d \in Transfers PROVE Promise(d)!Init BY DEF Init, Promise!Init
<1> QED BY <1>2, <1>3, <1>4 DEF PromiseInv

LEMMA NextKeeps ==
    ASSUME PromiseInv, [Next]_vars
    PROVE  PromiseInv' /\ StepKept
<1>1. ASSUME NEW d \in Transfers, DownloadBegin(d) PROVE PromiseInv' /\ StepKept
  BY <1>1, DownloadBeginKeeps
<1>2. ASSUME NEW n \in Nodes, NEW err \in Errors, StreamObjectReady(n, err)
      PROVE  PromiseInv' /\ StepKept
  BY <1>2, StreamObjectReadyKeeps
<1>3. ASSUME NEW n \in Nodes, NEW err \in Errors, NodeStream(n, err)
      PROVE  PromiseInv' /\ StepKept
  BY <1>3, NodeStreamKeeps
<1>4. ASSUME NEW n \in Nodes, NEW err \in Errors, StreamObjectEnd(n, err)
      PROVE  PromiseInv' /\ StepKept
  BY <1>4, StreamObjectEndKeeps
<1>5. ASSUME NEW d \in Transfers, NEW err \in Errors, DownloadTimeout(d, err)
      PROVE  PromiseInv' /\ StepKept
  BY <1>5, FailAttemptKeeps DEF DownloadTimeout
<1>6. ASSUME NEW d \in Transfers, ClientFinishes(d) \/ ClientTimeout(d)
      PROVE  PromiseInv' /\ StepKept
  BY <1>6, ClientKeeps
<1>7. CASE ServerRestart BY <1>7, ServerRestartKeeps
<1>8. ASSUME NEW n \in Nodes,
             NodeStreamObjectBegin(n) \/ LoseFrames(n) \/ GarbleFrame(n) \/ DamageDisk(n)
      PROVE  PromiseInv' /\ StepKept
  <2>1. UNCHANGED promiseVars
    BY <1>8 DEF NodeStreamObjectBegin, LoseFrames, GarbleFrame, DamageDisk,
                serverVars, promiseVars
  <2> QED BY <2>1, Untouched
<1>9. CASE UNCHANGED vars BY <1>9, Untouched DEF vars, serverVars, promiseVars
<1> QED
  BY <1>1, <1>2, <1>3, <1>4, <1>5, <1>6, <1>7, <1>8, <1>9 DEF Next, Server

(* Whatever replicas fail, whichever frames are lost, late or damaged and   *)
(* whenever the DataServer restarts: every chunk is forwarded to a client   *)
(* at most once, nothing after its final answer, and "done" is answered     *)
(* only when all were but the dropped ones.  A chunk is dropped only in a   *)
(* step with a database failure, and is then never forwarded.               *)
THEOREM DownloadsKeepPromise == Spec => KeepsPromise
<1>1. Init => PromiseInv /\ \A d \in Transfers : Promise(d)!Init
  BY InitKeeps
<1>2. PromiseInv /\ [Next]_vars => PromiseInv' /\ StepKept
  BY NextKeeps
<1>3. Spec => []PromiseInv
  BY <1>1, <1>2, PTL DEF Spec
<1>4. Spec => [][StepKept]_vars
  BY <1>2, <1>3, PTL DEF Spec
<1> QED BY <1>1, <1>4, PTL DEF Spec, KeepsPromise, StepKept

-----------------------------------------------------------------------------
(* An open attempt is one of the candidates, which are no more than allowed. *)
Fits(d) ==
    ctx[d].open => /\ ctx[d].attempt \in 1 .. Len(ctx[d].candidates)
                   /\ Len(ctx[d].candidates) <= MaxAttempts
TypeInv == TypeOK /\ \A d \in Transfers : Fits(d)

-----------------------------------------------------------------------------
(* Metering: what was forwarded and not recorded yet is in the context.     *)
Unasked(d) ==
    client[d] = "idle" => /\ ~ctx[d].open /\ answer[d] = "none" /\ metered[d] = 0
                          /\ \A k \in Chunks : sent[d][k] = 0
Metered(d) ==
    /\ metered[d] <= Forwarded(d)
    /\ ctx[d].open => /\ client[d] # "idle" /\ answer[d] = "none"
                      /\ Forwarded(d) = metered[d] + ctx[d].unflushed
    /\ answer[d] # "none" => Forwarded(d) = metered[d]

(* Chunks of one transfer that wait for longer than a flush unit: each such *)
(* chunk is due to a flush that failed.                                     *)
Waiting(d) == Forwarded(d) - metered[d]
Late(d) == IF Waiting(d) < FlushChunks THEN 0 ELSE Waiting(d) - (FlushChunks - 1)

MeterInv ==
    /\ TypeInv
    /\ \A d \in Transfers : Unasked(d) /\ Metered(d)
    /\ TotalOf([d \in Transfers |-> Late(d)]) <= disturbances
    /\ CapOverrunBounded

-----------------------------------------------------------------------------
(* Attempts: a node is asked once for each, and its frames say what it did. *)
Requested(d, a) == \E n \in Nodes : \E i \in 1 .. Len(toNode[n]) : toNode[n][i] = <<d, a>>
Past(d, a) == client[d] # "idle" /\ (ctx[d].open => a <= ctx[d].attempt)
Unheard(d, a) ==
    \A n \in Nodes : \A i \in 1 .. Len(toServer[n]) :
        ~(toServer[n][i].d = d /\ toServer[n][i].a = a)

AskedOnce ==
    \A n \in Nodes, m \in Nodes : \A i \in 1 .. Len(toNode[n]), k \in 1 .. Len(toNode[m]) :
        toNode[n][i] = toNode[m][k] => n = m /\ i = k
NothingBefore ==
    \A d \in Transfers, a \in Attempts : Requested(d, a) =>
        /\ Past(d, a) /\ Unheard(d, a)
        /\ ctx[d].open /\ ctx[d].attempt = a => ctx[d].attemptGot = {}
True(f) ==
    Past(f.d, f.a) /\ (f.kind = "stream" /\ f.chunk \in Chunks => f.chunk \in streamed[f.d][f.a])
FramesTrue == \A n \in Nodes : \A i \in 1 .. Len(toServer[n]) : True(toServer[n][i])
GotWasSent == \A d \in Transfers : ctx[d].open => ctx[d].attemptGot \subseteq streamed[d][ctx[d].attempt]

StreamInv ==
    /\ TypeInv /\ \A d \in Transfers : client[d] = "idle" => ~ctx[d].open
    /\ AskedOnce /\ NothingBefore /\ FramesTrue /\ GotWasSent

-----------------------------------------------------------------------------
(* What a step of the DataServer does to the bytes of a transfer            *)
Moves(d) ==
    /\ ctx[d].open /\ UNCHANGED <<answer, sent, metered, client>>
    /\ \E c \in Ctx : /\ ctx' = [ctx EXCEPT ![d] = c] /\ c.open
                      /\ c.unflushed = ctx[d].unflushed
Begins(d) ==
    /\ client[d] = "idle" /\ UNCHANGED <<answer, sent, metered>>
    /\ \E c \in Ctx : /\ ctx' = [ctx EXCEPT ![d] = c] /\ c.open /\ c.unflushed = 0
    /\ client' = [client EXCEPT ![d] = "waiting"]
Sends(d) ==
    /\ ctx[d].open /\ Used < DailyLimit /\ UNCHANGED <<answer, client>>
    /\ \E k \in Chunks : sent' = [sent EXCEPT ![d][k] = @ + 1]
    /\ \E c \in Ctx :
         /\ ctx' = [ctx EXCEPT ![d] = c] /\ c.open
         /\ \/ /\ c.unflushed = 0
               /\ metered' = [metered EXCEPT ![d] = @ + (ctx[d].unflushed + 1)]
            \/ /\ c.unflushed = ctx[d].unflushed + 1 /\ UNCHANGED metered
               /\ c.unflushed < FlushChunks \/ disturbances' = disturbances + 1
Closes(d) ==
    /\ ctx[d].open /\ UNCHANGED <<sent, client>>
    /\ metered' = [metered EXCEPT ![d] = @ + ctx[d].unflushed]
    /\ ctx' = [ctx EXCEPT ![d] = NoCtx]
    /\ \E final \in {"done", "failed", "cap_reached"} : answer' = [answer EXCEPT ![d] = final]
Idles ==
    /\ UNCHANGED <<answer, sent, metered>>
    /\ \/ UNCHANGED ctx
       \/ ctx' = [d \in Transfers |-> NoCtx]
    /\ \A d \in Transfers : /\ client[d] # "idle" => client'[d] # "idle"
                            /\ client'[d] = "idle" => client[d] = "idle"

MeterStep ==
    /\ disturbances' \in {disturbances, disturbances + 1}
    /\ Idles \/ \E d \in Transfers : Moves(d) \/ Begins(d) \/ Sends(d) \/ Closes(d)

(* What it does to the attempts                                             *)
Heard(d) ==
    {k \in Chunks : \E n \in Nodes :
        /\ toServer[n] # <<>> /\ Head(toServer[n]).kind = "stream"
        /\ Head(toServer[n]).d = d /\ Head(toServer[n]).a = ctx[d].attempt
        /\ Head(toServer[n]).chunk = k}
Stays ==
    /\ UNCHANGED toNode
    /\ \A d \in Transfers : ctx'[d].open =>
          /\ ctx[d].open /\ ctx'[d].attempt = ctx[d].attempt
          /\ ctx'[d].attemptGot \subseteq ctx[d].attemptGot \cup Heard(d)
NewAttempt(d) ==
    \E n \in Nodes, a \in Attempts, c \in Ctx :
        /\ toNode' = [toNode EXCEPT ![n] = Append(@, <<d, a>>)]
        /\ ctx' = [ctx EXCEPT ![d] = c] /\ c.attempt = a /\ c.attemptGot = {}
        /\ \/ client[d] = "idle" /\ client'[d] # "idle"
           \/ ctx[d].open /\ a = ctx[d].attempt + 1
FramesTaken ==
    \A n \in Nodes : \/ toServer'[n] = toServer[n]
                     \/ toServer[n] # <<>> /\ toServer'[n] = Tail(toServer[n])
ClientsStay == \A d \in Transfers : client[d] # "idle" => client'[d] # "idle"
ServerStep ==
    /\ UNCHANGED streamed /\ FramesTaken /\ ClientsStay
    /\ Stays \/ \E d \in Transfers : NewAttempt(d)

(* and to what is known of the replicas                                     *)
HealthStep ==
    \A n \in Nodes : health'[n] = "healthy" /\ health[n] # "healthy" =>
        \E d \in Transfers : /\ ctx[d].open /\ CurrentNode(d) = n
                             /\ ctx[d].attemptGot = Chunks

Does == TypeInv' /\ MeterStep /\ ServerStep /\ HealthStep

-----------------------------------------------------------------------------
LEMMA NoCtxType == NoCtx \in Ctx /\ ~NoCtx.open /\ NoCtx.unflushed = 0 /\ NoCtx.attempt = 0
<1>1. <<>> \in Seq(Nodes) /\ 0 \in 0 .. MaxAttempts BY DownloadAssumption
<1> QED BY <1>1 DEF NoCtx, Ctx

LEMMA ErrorNames == \A err \in Errors : err \in {"none", "record", "flush", "check"}
BY DownloadAssumption DEF Errors

LEMMA CallsType ==
    ASSUME TypeOK, NEW errs, NEW err, Calls(errs, err)
    PROVE  /\ disturbances' \in 0 .. MaxDisturbances
           /\ disturbances' \in {disturbances, disturbances + 1}
           /\ err # "none" => disturbances' = disturbances + 1
BY DownloadAssumption DEF TypeOK, Calls, Disturbed

LEMMA Taking ==
    ASSUME TypeOK, (\E n \in Nodes : Receive(n)) \/ UNCHANGED toServer
    PROVE  FramesTaken /\ toServer' \in [Nodes -> Seq(Frame)]
<1>1. CASE UNCHANGED toServer BY <1>1 DEF TypeOK, FramesTaken
<1>2. ASSUME NEW n \in Nodes, Receive(n)
      PROVE  FramesTaken /\ toServer' \in [Nodes -> Seq(Frame)]
  <2>1. toServer \in [Nodes -> Seq(Frame)] /\ toServer[n] # <<>> BY <1>2 DEF TypeOK, Receive
  <2>2. Tail(toServer[n]) \in Seq(Frame) BY <2>1
  <2>3. toServer' = [toServer EXCEPT ![n] = Tail(toServer[n])] BY <1>2 DEF Receive
  <2> HIDE DEF Frame
  <2> QED BY <2>1, <2>2, <2>3 DEF FramesTaken
<1> QED BY <1>1, <1>2

LEMMA HeadFrame ==
    ASSUME TypeOK, NEW n \in Nodes, toServer[n] # <<>>
    PROVE  Head(toServer[n]) \in Frame
BY DEF TypeOK

(* begin_next_attempt, its context and its frame *)
NextAttempt(d, c) ==
    \E n \in Nodes, x \in Ctx :
        /\ toNode' = [toNode EXCEPT ![n] = Append(@, <<d, c.attempt + 1>>)]
        /\ ctx' = [ctx EXCEPT ![d] = x] /\ x.open /\ x.unflushed = c.unflushed
        /\ x.attempt = c.attempt + 1 /\ x.attemptGot = {} /\ x.candidates = c.candidates

LEMMA AskedDoes ==
    ASSUME TypeInv, NEW d \in Transfers, NEW c \in Ctx, Asked(d, c), c.open,
           c.attempt < Len(c.candidates), Len(c.candidates) <= MaxAttempts
    PROVE  /\ toNode' \in [Nodes -> Seq(Transfers \X Attempts)]
           /\ NextAttempt(d, c)
<1> DEFINE a == c.attempt + 1
           x == [c EXCEPT !.attempt = @ + 1, !.attemptGot = {}, !.indexed = TRUE]
           n == c.candidates[a]
<1>1. c.candidates \in Seq(Nodes) /\ c.attempt \in 0 .. MaxAttempts BY DEF Ctx
<1>2. Len(c.candidates) \in Nat /\ a \in Attempts /\ a \in 1 .. Len(c.candidates)
  BY <1>1, DownloadAssumption DEF Attempts
<1>3. n \in Nodes BY <1>1, <1>2
<1>4. a \in 0 .. MaxAttempts BY <1>2, DownloadAssumption DEF Attempts
<1>5. /\ x \in Ctx /\ x.open = c.open /\ x.unflushed = c.unflushed /\ x.attempt = a
      /\ x.attemptGot = {} /\ x.candidates = c.candidates
  BY <1>4 DEF Ctx
<1>6. ctx' = [ctx EXCEPT ![d] = x] /\ toNode' = [toNode EXCEPT ![n] = Append(@, <<d, a>>)]
  BY DEF Asked
<1> HIDE DEF x, n, a
<1>7. Append(toNode[n], <<d, a>>) \in Seq(Transfers \X Attempts)
  BY <1>2, <1>3 DEF TypeInv, TypeOK
<1>8. toNode' \in [Nodes -> Seq(Transfers \X Attempts)]
  BY <1>3, <1>6, <1>7 DEF TypeInv, TypeOK
<1>9. NextAttempt(d, c) BY <1>3, <1>5, <1>6 DEF NextAttempt, a
<1> QED BY <1>8, <1>9

(* What is left of the types is the same in every handler. *)
LEMMA TypedAgain ==
    ASSUME TypeInv, NEW d \in Transfers, NEW c \in Ctx, ctx' = [ctx EXCEPT ![d] = c],
           c.open => c.attempt \in 1 .. Len(c.candidates) /\ Len(c.candidates) <= MaxAttempts
    PROVE  ctx' \in [Transfers -> Ctx] /\ \A e \in Transfers : Fits(e)'
<1>1. ctx \in [Transfers -> Ctx] BY DEF TypeInv, TypeOK
<1>2. ctx' \in [Transfers -> Ctx] BY <1>1
<1>3. ASSUME NEW e \in Transfers PROVE Fits(e)'
  <2>1. CASE e = d BY <1>1, <2>1 DEF Fits
  <2>2. CASE e # d
    <3>1. ctx'[e] = ctx[e] BY <1>1, <2>2
    <3> QED BY <3>1 DEF Fits, TypeInv
  <2> QED BY <2>1, <2>2
<1> QED BY <1>2, <1>3

LEMMA FinishDoes ==
    ASSUME TypeInv, NEW d \in Transfers, ctx[d].open, NEW c, c.unflushed = ctx[d].unflushed,
           NEW final \in {"done", "failed", "cap_reached"}, Finish(d, c, final),
           UNCHANGED <<sent, client, toNode>>
    PROVE  /\ Closes(d) /\ Stays
           /\ ctx' \in [Transfers -> Ctx] /\ \A e \in Transfers : Fits(e)'
           /\ answer' \in [Transfers -> {"none", "done", "failed", "cap_reached"}]
           /\ metered' \in [Transfers -> Nat]
<1>1. ctx' = [ctx EXCEPT ![d] = NoCtx] BY DEF Finish
<1>2. ctx' \in [Transfers -> Ctx] /\ \A e \in Transfers : Fits(e)'
  BY <1>1, NoCtxType, TypedAgain
<1>3. metered' = [metered EXCEPT ![d] = @ + ctx[d].unflushed] BY DEF Finish, Flushed
<1>4. ctx \in [Transfers -> Ctx] BY DEF TypeInv, TypeOK
<1>5. ctx[d].unflushed \in Nat BY <1>4 DEF Ctx
<1>6. metered' \in [Transfers -> Nat] BY <1>3, <1>5 DEF TypeInv, TypeOK
<1>7. answer' \in [Transfers -> {"none", "done", "failed", "cap_reached"}]
  BY DEF Finish, TypeInv, TypeOK
<1>8. Stays
  <2>1. ASSUME NEW e \in Transfers, ctx'[e].open PROVE ctx'[e] = ctx[e]
    BY <1>1, <1>4, <2>1, NoCtxType
  <2> QED BY <2>1 DEF Stays
<1>9. Closes(d) BY <1>1, <1>3 DEF Closes, Finish
<1> QED BY <1>2, <1>6, <1>7, <1>8, <1>9

-----------------------------------------------------------------------------
(* The handlers *)
LEMMA FailAttemptDoes ==
    ASSUME TypeInv, NEW d \in Transfers, ctx[d].open, NEW s \in Health \ {"healthy"},
           NEW err, FailAttempt(d, ctx[d], s, err),
           (\E n \in Nodes : Receive(n)) \/ UNCHANGED toServer
    PROVE  Does
<1> DEFINE c == ctx[d]
<1>1. c \in Ctx /\ TypeOK /\ Fits(d) BY DEF TypeInv, TypeOK
<1>2. Len(c.candidates) <= MaxAttempts /\ c.attempt \in 1 .. Len(c.candidates)
  BY <1>1 DEF Fits
<1>3. Calls({"record", "flush"}, err) /\ Recorded(d, s, err)
      /\ UNCHANGED <<sent, dropped, nodeVars, client>>
  BY DEF FailAttempt
<1>4. /\ disturbances' \in 0 .. MaxDisturbances
      /\ disturbances' \in {disturbances, disturbances + 1}
  BY <1>1, <1>3, CallsType
<1>5. health' \in [Nodes -> Health] /\ HealthStep
  BY <1>1, <1>3 DEF TypeOK, Recorded, HealthStep
<1>6. FramesTaken /\ toServer' \in [Nodes -> Seq(Frame)] BY <1>1, Taking
<1>7. UNCHANGED streamed /\ ClientsStay BY <1>3 DEF nodeVars, ClientsStay
<1>8. ASSUME ctx' \in [Transfers -> Ctx], \A e \in Transfers : Fits(e)',
             answer' \in [Transfers -> {"none", "done", "failed", "cap_reached"}],
             metered' \in [Transfers -> Nat], toNode' \in [Nodes -> Seq(Transfers \X Attempts)]
      PROVE  TypeInv'
  BY <1>1, <1>3, <1>4, <1>5, <1>6, <1>8 DEF TypeInv, TypeOK, nodeVars
<1>9. CASE c.attempt < Len(c.candidates)
  <2>1. Asked(d, c) /\ UNCHANGED <<answer, metered>> BY <1>9 DEF FailAttempt
  <2>2. toNode' \in [Nodes -> Seq(Transfers \X Attempts)] /\ NextAttempt(d, c)
    BY <1>1, <1>2, <1>9, <2>1, AskedDoes
  <2>3. PICK n \in Nodes, x \in Ctx :
          /\ toNode' = [toNode EXCEPT ![n] = Append(@, <<d, c.attempt + 1>>)]
          /\ ctx' = [ctx EXCEPT ![d] = x] /\ x.open /\ x.unflushed = c.unflushed
          /\ x.attempt = c.attempt + 1 /\ x.attemptGot = {} /\ x.candidates = c.candidates
    BY <2>2 DEF NextAttempt
  <2>4. x.attempt \in 1 .. Len(x.candidates) /\ Len(x.candidates) <= MaxAttempts
        /\ x.attempt \in Attempts
    BY <1>1, <1>2, <1>9, <2>3, DownloadAssumption DEF Ctx, Attempts
  <2>5. ctx' \in [Transfers -> Ctx] /\ \A e \in Transfers : Fits(e)'
    BY <2>3, <2>4, TypedAgain
  <2>6. TypeInv' BY <1>1, <1>8, <2>1, <2>2, <2>5 DEF TypeOK
  <2>7. Moves(d) BY <1>3, <2>1, <2>3 DEF Moves
  <2>8. NewAttempt(d) BY <2>3, <2>4 DEF NewAttempt
  <2> QED BY <1>4, <1>5, <1>6, <1>7, <2>6, <2>7, <2>8 DEF Does, MeterStep, ServerStep
<1>10. CASE /\ ctx' = [ctx EXCEPT ![d] = [c EXCEPT !.indexed = FALSE]]
            /\ UNCHANGED <<answer, metered, toNode>>
  <2> DEFINE x == [c EXCEPT !.indexed = FALSE]
  <2>1. /\ x \in Ctx /\ x.open /\ x.unflushed = c.unflushed /\ x.attempt = c.attempt
        /\ x.attemptGot = c.attemptGot /\ x.candidates = c.candidates
    BY <1>1 DEF Ctx
  <2>2. ctx' = [ctx EXCEPT ![d] = x] BY <1>10
  <2> HIDE DEF x
  <2>3. ctx' \in [Transfers -> Ctx] /\ \A e \in Transfers : Fits(e)'
    BY <1>2, <2>1, <2>2, TypedAgain
  <2>4. TypeInv' BY <1>1, <1>8, <1>10, <2>3 DEF TypeOK
  <2>5. Moves(d) BY <1>3, <1>10, <2>1, <2>2 DEF Moves
  <2>6. ASSUME NEW e \in Transfers, ctx'[e].open
        PROVE  /\ ctx[e].open /\ ctx'[e].attempt = ctx[e].attempt
               /\ ctx'[e].attemptGot = ctx[e].attemptGot
    BY <1>1, <2>1, <2>2, <2>6 DEF TypeOK
  <2>7. Stays BY <1>10, <2>6 DEF Stays
  <2> QED BY <1>4, <1>5, <1>6, <1>7, <2>4, <2>5, <2>7 DEF Does, MeterStep, ServerStep
<1>11. CASE Finish(d, c, "failed") /\ UNCHANGED toNode
  <2>1. /\ Closes(d) /\ Stays /\ ctx' \in [Transfers -> Ctx] /\ \A e \in Transfers : Fits(e)'
        /\ answer' \in [Transfers -> {"none", "done", "failed", "cap_reached"}]
        /\ metered' \in [Transfers -> Nat]
    BY <1>3, <1>11, FinishDoes
  <2>2. TypeInv' BY <1>1, <1>8, <1>11, <2>1 DEF TypeOK
  <2> QED BY <1>4, <1>5, <1>6, <1>7, <2>1, <2>2 DEF Does, MeterStep, ServerStep
<1> QED BY <1>9, <1>10, <1>11 DEF FailAttempt

(* Frames of other attempts change nothing. *)
LEMMA IgnoredDoes ==
    ASSUME TypeInv, UNCHANGED <<serverVars, client, toNode, nodeVars, disturbances>>,
           \E n \in Nodes : Receive(n)
    PROVE  Does
<1>1. TypeOK BY DEF TypeInv
<1>2. FramesTaken /\ toServer' \in [Nodes -> Seq(Frame)] BY <1>1, Taking
<1>3. /\ UNCHANGED <<ctx, answer, sent, dropped, metered, health, client, toNode>>
      /\ UNCHANGED <<disk, streamed, disturbances>>
  BY DEF serverVars, nodeVars
<1>4. TypeInv' BY <1>2, <1>3 DEF TypeInv, TypeOK, Fits
<1>5. MeterStep BY <1>3 DEF MeterStep, Idles
<1>6. ServerStep BY <1>2, <1>3 DEF ServerStep, Stays, ClientsStay
<1>7. HealthStep BY <1>3 DEF HealthStep
<1> QED BY <1>4, <1>5, <1>6, <1>7 DEF Does

LEMMA StreamObjectReadyDoes ==
    ASSUME TypeInv, NEW n \in Nodes, NEW err, StreamObjectReady(n, err)
    PROVE  Does
<1> DEFINE f == Head(toServer[n])
<1>1. Receive(n) /\ f \in Frame
  BY HeadFrame DEF StreamObjectReady, Receive, TypeInv
<1>2. f.d \in Transfers BY <1>1 DEF Frame
<1>3. CASE UNCHANGED <<serverVars, client, toNode, nodeVars, disturbances>>
  BY <1>1, <1>3, IgnoredDoes
<1>4. ASSUME NEW s \in {"missing", "corrupt"}, Current(f.d, f.a),
             FailAttempt(f.d, ctx[f.d], s, err)
      PROVE  Does
  <2>1. s \in Health \ {"healthy"} BY DEF Health
  <2>2. ctx[f.d].open BY <1>4 DEF Current
  <2> QED BY <1>1, <1>2, <1>4, <2>1, <2>2, FailAttemptDoes
<1> QED BY <1>3, <1>4 DEF StreamObjectReady, Ignored

LEMMA DownloadTimeoutDoes ==
    ASSUME TypeInv, NEW d \in Transfers, NEW err, DownloadTimeout(d, err)
    PROVE  Does
<1>1. "suspect" \in Health \ {"healthy"} BY DEF Health, Usable
<1> QED BY <1>1, FailAttemptDoes DEF DownloadTimeout

(* observe_chunk of the current attempt *)
LEMMA ObservedDoes ==
    ASSUME TypeInv, NEW d \in Transfers, ctx[d].open, NEW k \in Chunks, k \in Heard(d)
    PROVE  LET c == Observed(ctx[d], k) IN
           /\ c \in Ctx /\ c.open /\ c.unflushed = ctx[d].unflushed
           /\ c.attempt = ctx[d].attempt /\ c.candidates = ctx[d].candidates
           /\ c.attemptGot \subseteq ctx[d].attemptGot \cup Heard(d)
BY DEF TypeInv, TypeOK, Ctx, Observed

LEMMA Listening ==
    ASSUME TypeInv, UNCHANGED toNode, NEW d \in Transfers, ctx[d].open, NEW c \in Ctx,
           ctx' = [ctx EXCEPT ![d] = c], c.attempt = ctx[d].attempt,
           c.attemptGot \subseteq ctx[d].attemptGot \cup Heard(d)
    PROVE  Stays
<1>1. ctx \in [Transfers -> Ctx] BY DEF TypeInv, TypeOK
<1>2. ASSUME NEW e \in Transfers, ctx'[e].open
      PROVE  /\ ctx[e].open /\ ctx'[e].attempt = ctx[e].attempt
             /\ ctx'[e].attemptGot \subseteq ctx[e].attemptGot \cup Heard(e)
  <2>1. CASE e = d BY <1>1, <2>1
  <2>2. CASE e # d
    <3>1. ctx'[e] = ctx[e] BY <1>1, <2>2
    <3> QED BY <1>2, <3>1
  <2> QED BY <2>1, <2>2
<1> QED BY <1>2 DEF Stays

LEMMA ForwardNewDoes ==
    ASSUME TypeInv, NEW d \in Transfers, ctx[d].open, NEW k \in Chunks, k \in Heard(d),
           NEW err \in Errors, ForwardNew(d, Observed(ctx[d], k), k, err),
           (\E n \in Nodes : Receive(n)) \/ UNCHANGED toServer, UNCHANGED nodeVars
    PROVE  Does
<1> DEFINE c == Observed(ctx[d], k)
           more == [c EXCEPT !.unflushed = @ + 1]
           flushed == [more EXCEPT !.unflushed = 0]
<1>1. TypeOK /\ Fits(d) /\ ctx \in [Transfers -> Ctx] BY DEF TypeInv, TypeOK
<1>2. /\ c \in Ctx /\ c.open /\ c.unflushed = ctx[d].unflushed
      /\ c.attempt = ctx[d].attempt /\ c.candidates = ctx[d].candidates
      /\ c.attemptGot \subseteq ctx[d].attemptGot \cup Heard(d)
  BY ObservedDoes
<1>3. Calls({"check", "flush"}, err) /\ UNCHANGED <<health, toNode, nodeVars, client>>
  BY DEF ForwardNew
<1>4. /\ disturbances' \in 0 .. MaxDisturbances
      /\ disturbances' \in {disturbances, disturbances + 1}
      /\ err # "none" => disturbances' = disturbances + 1
  BY <1>1, <1>3, CallsType
<1>5. HealthStep BY <1>3 DEF HealthStep
<1>6. FramesTaken /\ toServer' \in [Nodes -> Seq(Frame)] BY <1>1, Taking
<1>7. UNCHANGED streamed /\ ClientsStay BY <1>3 DEF nodeVars, ClientsStay
<1>8. ASSUME ctx' \in [Transfers -> Ctx], \A e \in Transfers : Fits(e)',
             answer' \in [Transfers -> {"none", "done", "failed", "cap_reached"}],
             metered' \in [Transfers -> Nat], sent' \in [Transfers -> [Chunks -> Nat]],
             dropped' \in [Transfers -> SUBSET Chunks]
      PROVE  TypeInv'
  BY <1>1, <1>3, <1>4, <1>6, <1>8 DEF TypeInv, TypeOK, nodeVars
<1> HIDE DEF c
<1>9. /\ more \in Ctx /\ more.open /\ more.unflushed = ctx[d].unflushed + 1
      /\ more.attempt = ctx[d].attempt /\ more.candidates = ctx[d].candidates
      /\ more.attemptGot = c.attemptGot
  <2>1. c.unflushed + 1 \in Nat BY <1>2 DEF Ctx
  <2> QED BY <1>2, <2>1 DEF Ctx
<1>10. /\ flushed \in Ctx /\ flushed.open /\ flushed.unflushed = 0
       /\ flushed.attempt = ctx[d].attempt /\ flushed.candidates = ctx[d].candidates
       /\ flushed.attemptGot = c.attemptGot
  <2> HIDE DEF more
  <2> QED BY <1>9 DEF Ctx
<1>11. ctx[d].attempt \in 1 .. Len(ctx[d].candidates) /\ Len(ctx[d].candidates) <= MaxAttempts
  BY <1>1 DEF Fits
<1>12. ASSUME NEW x \in Ctx, ctx' = [ctx EXCEPT ![d] = x], x.open,
              x.attempt = ctx[d].attempt, x.candidates = ctx[d].candidates,
              x.attemptGot = c.attemptGot
       PROVE  ctx' \in [Transfers -> Ctx] /\ (\A e \in Transfers : Fits(e)') /\ Stays
  BY <1>2, <1>3, <1>11, <1>12, TypedAgain, Listening
<1>13. CASE /\ ctx' = [ctx EXCEPT ![d] = c] /\ dropped' = [dropped EXCEPT ![d] = @ \cup {k}]
            /\ UNCHANGED <<sent, metered, answer>>
  <2>1. ctx' \in [Transfers -> Ctx] /\ (\A e \in Transfers : Fits(e)') /\ Stays
    BY <1>2, <1>12, <1>13
  <2>2. dropped' \in [Transfers -> SUBSET Chunks] BY <1>1, <1>13 DEF TypeOK
  <2>3. TypeInv' BY <1>1, <1>8, <1>13, <2>1, <2>2 DEF TypeOK
  <2>4. Moves(d) BY <1>2, <1>3, <1>13 DEF Moves
  <2> QED BY <1>4, <1>5, <1>6, <1>7, <2>1, <2>3, <2>4 DEF Does, MeterStep, ServerStep
<1>14. CASE Finish(d, c, "cap_reached") /\ UNCHANGED <<sent, dropped>>
  <2>1. /\ Closes(d) /\ Stays /\ ctx' \in [Transfers -> Ctx] /\ \A e \in Transfers : Fits(e)'
        /\ answer' \in [Transfers -> {"none", "done", "failed", "cap_reached"}]
        /\ metered' \in [Transfers -> Nat]
    BY <1>2, <1>3, <1>14, FinishDoes
  <2>2. TypeInv' BY <1>1, <1>8, <1>14, <2>1 DEF TypeOK
  <2> QED BY <1>4, <1>5, <1>6, <1>7, <2>1, <2>2 DEF Does, MeterStep, ServerStep
<1>15. CASE /\ err # "check" /\ Used < DailyLimit
            /\ sent' = [sent EXCEPT ![d][k] = @ + 1] /\ UNCHANGED <<answer, dropped>>
            /\ IF more.unflushed >= FlushChunks /\ err = "none"
               THEN /\ Flushed(d, more) /\ ctx' = [ctx EXCEPT ![d] = flushed]
               ELSE /\ err = "flush" => more.unflushed >= FlushChunks
                    /\ ctx' = [ctx EXCEPT ![d] = more]
                    /\ UNCHANGED metered
  <2> HIDE DEF more, flushed
  <2>1. /\ sent' \in [Transfers -> [Chunks -> Nat]]
        /\ dropped' \in [Transfers -> SUBSET Chunks]
    BY <1>1, <1>15 DEF TypeOK
  <2>2. ctx[d].unflushed \in Nat BY <1>1 DEF Ctx
  <2>3. CASE more.unflushed >= FlushChunks /\ err = "none"
    <3>1. ctx' = [ctx EXCEPT ![d] = flushed]
          /\ metered' = [metered EXCEPT ![d] = @ + (ctx[d].unflushed + 1)]
      BY <1>9, <1>15, <2>3 DEF Flushed
    <3>2. metered' \in [Transfers -> Nat] BY <1>1, <2>2, <3>1 DEF TypeOK
    <3>3. ctx' \in [Transfers -> Ctx] /\ (\A e \in Transfers : Fits(e)') /\ Stays
      BY <1>10, <1>12, <3>1
    <3>4. answer' \in [Transfers -> {"none", "done", "failed", "cap_reached"}]
      BY <1>1, <1>15 DEF TypeOK
    <3>5. TypeInv' BY <1>8, <2>1, <3>2, <3>3, <3>4
    <3>6. Sends(d) BY <1>3, <1>10, <1>15, <3>1 DEF Sends
    <3> QED BY <1>4, <1>5, <1>6, <1>7, <3>3, <3>5, <3>6 DEF Does, MeterStep, ServerStep
  <2>4. CASE ~(more.unflushed >= FlushChunks /\ err = "none")
    <3>1. ctx' = [ctx EXCEPT ![d] = more] /\ UNCHANGED metered BY <1>15, <2>4
    <3>2. metered' \in [Transfers -> Nat]
          /\ answer' \in [Transfers -> {"none", "done", "failed", "cap_reached"}]
      BY <1>1, <1>15, <3>1 DEF TypeOK
    <3>3. ctx' \in [Transfers -> Ctx] /\ (\A e \in Transfers : Fits(e)') /\ Stays
      BY <1>9, <1>12, <3>1
    <3>4. TypeInv' BY <1>8, <2>1, <3>2, <3>3
    <3>5. more.unflushed < FlushChunks \/ disturbances' = disturbances + 1
      BY <1>4, <1>9, <2>2, <2>4, DownloadAssumption
    <3>6. Sends(d) BY <1>3, <1>9, <1>15, <3>1, <3>5 DEF Sends
    <3> QED BY <1>4, <1>5, <1>6, <1>7, <3>3, <3>4, <3>6 DEF Does, MeterStep, ServerStep
  <2> QED BY <2>3, <2>4
<1> QED BY <1>13, <1>14, <1>15 DEF ForwardNew, c

LEMMA NodeStreamDoes ==
    ASSUME TypeInv, NEW n \in Nodes, NEW err \in Errors, NodeStream(n, err)
    PROVE  Does
<1> DEFINE f == Head(toServer[n])
           d == f.d
<1>1. Receive(n) /\ f \in Frame /\ toServer[n] # <<>> /\ f.kind = "stream"
  BY HeadFrame DEF NodeStream, Receive, TypeInv
<1>2. d \in Transfers /\ f.chunk \in Nat BY <1>1 DEF Frame
<1>3. CASE Ignored(f) BY <1>1, <1>3, IgnoredDoes DEF Ignored
<1>4. ASSUME NEW s \in {"corrupt", "suspect"}, Current(d, f.a),
             FailAttempt(d, ctx[d], s, err)
      PROVE  Does
  <2>1. s \in Health \ {"healthy"} BY DEF Health, Usable
  <2>2. ctx[d].open BY <1>4 DEF Current
  <2> QED BY <1>1, <1>2, <1>4, <2>1, <2>2, FailAttemptDoes
<1>5. ASSUME Current(d, f.a), f.chunk \in ctx[d].got,
             ctx' = [ctx EXCEPT ![d] = Observed(ctx[d], f.chunk)],
             UNCHANGED <<answer, sent, dropped, metered, health, client, toNode>>,
             UNCHANGED <<nodeVars, disturbances>>
      PROVE  Does
  <2>0. TypeOK /\ Fits(d) /\ ctx[d] \in Ctx BY <1>2 DEF TypeInv, TypeOK
  <2>1. PICK k \in Chunks : k = f.chunk BY <1>5, <2>0 DEF Ctx
  <2>2. ctx[d].open /\ k \in Heard(d) BY <1>1, <1>5, <2>1 DEF Current, Heard
  <2>3. PICK c : c = Observed(ctx[d], k) OBVIOUS
  <2>4. /\ c \in Ctx /\ c.open /\ c.unflushed = ctx[d].unflushed
        /\ c.attempt = ctx[d].attempt /\ c.candidates = ctx[d].candidates
        /\ c.attemptGot \subseteq ctx[d].attemptGot \cup Heard(d)
    BY <1>2, <2>2, <2>3, ObservedDoes
  <2>5. ctx' = [ctx EXCEPT ![d] = c] BY <1>5, <2>1, <2>3
  <2> HIDE DEF f
  <2>6. ctx' \in [Transfers -> Ctx] /\ \A e \in Transfers : Fits(e)'
    <3>1. c.attempt \in 1 .. Len(c.candidates) /\ Len(c.candidates) <= MaxAttempts
      BY <2>0, <2>2, <2>4 DEF Fits
    <3> QED BY <1>2, <2>4, <2>5, <3>1, TypedAgain
  <2>7. Stays BY <1>2, <1>5, <2>2, <2>4, <2>5, Listening
  <2>8. FramesTaken /\ toServer' \in [Nodes -> Seq(Frame)] BY <1>1, <2>0, Taking
  <2>9. TypeInv' BY <1>5, <2>0, <2>6, <2>8 DEF TypeInv, TypeOK, nodeVars
  <2>10. Moves(d) BY <1>5, <2>2, <2>4, <2>5 DEF Moves
  <2>11. UNCHANGED streamed /\ ClientsStay BY <1>5 DEF nodeVars, ClientsStay
  <2>12. HealthStep BY <1>5 DEF HealthStep
  <2> QED BY <1>2, <1>5, <2>7, <2>8, <2>9, <2>10, <2>11, <2>12 DEF Does, MeterStep, ServerStep
<1>6. ASSUME Current(d, f.a), f.chunk \in Chunks \ ctx[d].got,
             ForwardNew(d, Observed(ctx[d], f.chunk), f.chunk, err)
      PROVE  Does
  <2>1. PICK k \in Chunks : k = f.chunk BY <1>6
  <2>2. ctx[d].open /\ k \in Heard(d) BY <1>1, <1>6, <2>1 DEF Current, Heard
  <2>3. UNCHANGED nodeVars BY <1>6 DEF ForwardNew
  <2> QED BY <1>1, <1>2, <1>6, <2>1, <2>2, <2>3, ForwardNewDoes
<1>7. CASE Current(d, f.a)
  BY <1>4, <1>5, <1>6, <1>7 DEF NodeStream, Ignored
<1> QED BY <1>3, <1>7 DEF NodeStream, Ignored

LEMMA StreamObjectEndDoes ==
    ASSUME TypeInv, NEW n \in Nodes, NEW err, StreamObjectEnd(n, err)
    PROVE  Does
<1> DEFINE f == Head(toServer[n])
           d == f.d
<1>1. Receive(n) /\ f \in Frame BY HeadFrame DEF StreamObjectEnd, Receive, TypeInv
<1>2. d \in Transfers BY <1>1 DEF Frame
<1>3. CASE Ignored(f) BY <1>1, <1>3, IgnoredDoes DEF Ignored
<1>4. ASSUME Current(d, f.a), FailAttempt(d, ctx[d], "missing", err) PROVE Does
  <2>1. "missing" \in Health \ {"healthy"} BY DEF Health
  <2>2. ctx[d].open BY <1>4 DEF Current
  <2> QED BY <1>1, <1>2, <1>4, <2>1, <2>2, FailAttemptDoes
<1>5. ASSUME Current(d, f.a), EndOfStream(d, ctx[d], err) PROVE Does
  <2>1. TypeOK /\ ctx[d].open BY <1>5 DEF TypeInv, Current
  <2>2. /\ Calls({"record", "flush"}, err) /\ UNCHANGED <<sent, dropped, client, toNode, nodeVars>>
        /\ Recorded(d, IF ctx[d].attemptGot = Chunks THEN "healthy" ELSE "missing", err)
    BY <1>5 DEF EndOfStream
  <2>3. /\ disturbances' \in 0 .. MaxDisturbances
        /\ disturbances' \in {disturbances, disturbances + 1}
    BY <2>1, <2>2, CallsType
  <2>4. FramesTaken /\ toServer' \in [Nodes -> Seq(Frame)] BY <1>1, <2>1, Taking
  <2>5. UNCHANGED streamed /\ ClientsStay BY <2>2 DEF nodeVars, ClientsStay
  <2>6. PICK s : s = IF ctx[d].attemptGot = Chunks THEN "healthy" ELSE "missing" OBVIOUS
  <2>7. s \in Health BY <2>6 DEF Health, Usable
  <2>8. health' = IF err = "record" THEN health ELSE [health EXCEPT ![CurrentNode(d)] = s]
    BY <2>2, <2>6 DEF Recorded
  <2>9. health' \in [Nodes -> Health] BY <2>1, <2>7, <2>8 DEF TypeOK
  <2>10. HealthStep
    <3>1. ASSUME NEW m \in Nodes, health'[m] = "healthy", health[m] # "healthy"
          PROVE  CurrentNode(d) = m /\ s = "healthy"
      BY <2>1, <2>8, <3>1 DEF TypeOK
    <3> QED BY <1>2, <2>1, <2>6, <3>1 DEF HealthStep
  <2>11. CASE UNCHANGED <<ctx, answer, metered>>
    <3>1. TypeInv' BY <2>1, <2>2, <2>3, <2>4, <2>9, <2>11 DEF TypeInv, TypeOK, nodeVars, Fits
    <3>2. Idles /\ Stays BY <2>2, <2>11 DEF Idles, Stays
    <3> QED BY <2>3, <2>4, <2>5, <2>10, <3>1, <3>2 DEF Does, MeterStep, ServerStep
  <2>12. CASE Finish(d, ctx[d], "done")
    <3>1. /\ Closes(d) /\ Stays /\ ctx' \in [Transfers -> Ctx] /\ \A e \in Transfers : Fits(e)'
          /\ answer' \in [Transfers -> {"none", "done", "failed", "cap_reached"}]
          /\ metered' \in [Transfers -> Nat]
      BY <1>2, <2>1, <2>2, <2>12, FinishDoes
    <3>2. TypeInv' BY <2>1, <2>2, <2>3, <2>4, <2>9, <3>1 DEF TypeInv, TypeOK, nodeVars
    <3> QED BY <1>2, <2>3, <2>4, <2>5, <2>10, <3>1, <3>2 DEF Does, MeterStep, ServerStep
  <2> QED BY <1>5, <2>11, <2>12 DEF EndOfStream
<1> QED BY <1>3, <1>4, <1>5 DEF StreamObjectEnd

LEMMA DownloadBeginDoes ==
    ASSUME TypeInv, NEW d \in Transfers, DownloadBegin(d)
    PROVE  Does
<1> USE DownloadAssumption
<1>0. TypeOK BY DEF TypeInv
<1>1. PICK online \in SUBSET Nodes : \E q \in CandidateLists(online) :
        IF q = <<>> THEN /\ client' = [client EXCEPT ![d] = "failed"]
                         /\ UNCHANGED <<ctx, toNode>>
        ELSE /\ client' = [client EXCEPT ![d] = "waiting"]
             /\ Asked(d, [NoCtx EXCEPT !.open = TRUE, !.candidates = q])
  BY DEF DownloadBegin
<1>2. PICK q \in CandidateLists(online) :
        IF q = <<>> THEN /\ client' = [client EXCEPT ![d] = "failed"]
                         /\ UNCHANGED <<ctx, toNode>>
        ELSE /\ client' = [client EXCEPT ![d] = "waiting"]
             /\ Asked(d, [NoCtx EXCEPT !.open = TRUE, !.candidates = q])
  BY <1>1
<1>3. q \in Seq(Nodes) /\ Len(q) \in Nat /\ Len(q) <= MaxAttempts /\ (q # <<>> => Len(q) > 0)
  <2> DEFINE U == {n \in online : health[n] \in Usable}
             m == IF Cardinality(U) < MaxAttempts THEN Cardinality(U) ELSE MaxAttempts
  <2>1. IsFiniteSet(U) BY FS_Subset
  <2>2. m \in Nat /\ m <= MaxAttempts BY <2>1, FS_CardinalityType
  <2>3. q \in [1 .. m -> U] BY DEF CandidateLists
  <2> HIDE DEF m
  <2>4. q \in Seq(Nodes) /\ Len(q) = m BY <2>2, <2>3
  <2> QED BY <2>2, <2>4
<1>4. /\ client[d] = "idle"
      /\ UNCHANGED <<answer, sent, dropped, metered, health, toServer, nodeVars, disturbances>>
  BY DEF DownloadBegin
<1>5. FramesTaken /\ UNCHANGED streamed /\ HealthStep
  BY <1>4 DEF FramesTaken, HealthStep, nodeVars
<1>6. client' \in [Transfers -> {"idle", "waiting", "complete", "failed", "resend_refused"}]
      /\ ClientsStay /\ client'[d] # "idle"
  BY <1>0, <1>2 DEF TypeOK, ClientsStay
<1>7. CASE q = <<>>
  <2>1. TypeInv' BY <1>0, <1>2, <1>4, <1>6, <1>7 DEF TypeInv, TypeOK, nodeVars, Fits
  <2>2. Stays BY <1>2, <1>7 DEF Stays
  <2> QED BY <1>2, <1>4, <1>5, <1>6, <1>7, <2>1, <2>2 DEF Does, MeterStep, ServerStep, Idles
<1>8. CASE q # <<>>
  <2> DEFINE b == [NoCtx EXCEPT !.open = TRUE, !.candidates = q]
  <2>1. /\ b \in Ctx /\ b.open /\ b.attempt = 0 /\ b.unflushed = 0 /\ b.candidates = q
    <3>1. NoCtx \in Ctx /\ NoCtx.attempt = 0 /\ NoCtx.unflushed = 0 BY NoCtxType
    <3> QED BY <1>3, <3>1 DEF Ctx
  <2>2. Asked(d, b) /\ client' = [client EXCEPT ![d] = "waiting"] BY <1>2, <1>8
  <2> HIDE DEF b
  <2>3. b.attempt < Len(b.candidates) /\ Len(b.candidates) <= MaxAttempts
    BY <1>3, <1>8, <2>1
  <2>4. toNode' \in [Nodes -> Seq(Transfers \X Attempts)] /\ NextAttempt(d, b)
    BY <2>1, <2>2, <2>3, AskedDoes
  <2>5. PICK n \in Nodes, x \in Ctx :
          /\ toNode' = [toNode EXCEPT ![n] = Append(@, <<d, b.attempt + 1>>)]
          /\ ctx' = [ctx EXCEPT ![d] = x] /\ x.open /\ x.unflushed = b.unflushed
          /\ x.attempt = b.attempt + 1 /\ x.attemptGot = {} /\ x.candidates = b.candidates
    BY <2>4 DEF NextAttempt
  <2>6. x.attempt \in 1 .. Len(x.candidates) /\ Len(x.candidates) <= MaxAttempts
        /\ x.attempt \in Attempts
    BY <1>3, <1>8, <2>1, <2>5 DEF Attempts
  <2>7. ctx' \in [Transfers -> Ctx] /\ \A e \in Transfers : Fits(e)'
    BY <2>5, <2>6, TypedAgain
  <2>8. TypeInv' BY <1>0, <1>4, <1>6, <2>4, <2>7 DEF TypeInv, TypeOK, nodeVars
  <2>9. Begins(d) BY <1>4, <2>1, <2>2, <2>5 DEF Begins
  <2>10. NewAttempt(d) BY <1>4, <1>6, <2>5, <2>6 DEF NewAttempt
  <2> QED BY <1>4, <1>5, <1>6, <2>8, <2>9, <2>10 DEF Does, MeterStep, ServerStep
<1> QED BY <1>7, <1>8

(* The client's steps and a restart of the DataServer *)
LEMMA ClientDoes ==
    ASSUME TypeInv, NEW d \in Transfers, ClientFinishes(d) \/ ClientTimeout(d)
    PROVE  Does
<1>1. /\ UNCHANGED <<ctx, answer, sent, dropped, metered, health, toNode>>
      /\ UNCHANGED <<toServer, disk, streamed>>
      /\ disturbances' \in 0 .. MaxDisturbances
      /\ disturbances' \in {disturbances, disturbances + 1}
  BY DownloadAssumption
     DEF ClientFinishes, ClientTimeout, serverVars, nodeVars, Disturbed, TypeInv, TypeOK
<1>2. PICK s \in {"failed", "complete", "resend_refused"} :
        client' = [client EXCEPT ![d] = s]
  BY DEF ClientFinishes, ClientTimeout
<1>3. client[d] # "idle" BY DEF ClientFinishes, ClientTimeout
<1>4. client \in [Transfers -> {"idle", "waiting", "complete", "failed", "resend_refused"}]
  BY DEF TypeInv, TypeOK
<1>5. TypeInv' BY <1>1, <1>2 DEF TypeInv, TypeOK, Fits
<1>6. \A e \in Transfers : /\ client[e] # "idle" => client'[e] # "idle"
                           /\ client'[e] = "idle" => client[e] = "idle"
  BY <1>2, <1>3, <1>4
<1>7. MeterStep BY <1>1, <1>6 DEF MeterStep, Idles
<1>8. ServerStep BY <1>1, <1>6 DEF ServerStep, Stays, FramesTaken, ClientsStay
<1>9. HealthStep BY <1>1 DEF HealthStep
<1> QED BY <1>5, <1>7, <1>8, <1>9 DEF Does

LEMMA ServerRestartDoes ==
    ASSUME TypeInv, ServerRestart
    PROVE  Does
<1>1. /\ ctx' = [d \in Transfers |-> NoCtx]
      /\ UNCHANGED <<answer, client, sent, dropped, metered, health, toNode>>
      /\ UNCHANGED <<toServer, disk, streamed>>
      /\ disturbances' \in 0 .. MaxDisturbances
      /\ disturbances' \in {disturbances, disturbances + 1}
  BY DownloadAssumption DEF ServerRestart, nodeVars, Disturbed, TypeInv, TypeOK
<1>2. TypeInv' BY <1>1, NoCtxType DEF TypeInv, TypeOK, Fits
<1>3. MeterStep BY <1>1 DEF MeterStep, Idles
<1>4. ServerStep BY <1>1, NoCtxType DEF ServerStep, Stays, FramesTaken, ClientsStay
<1>5. HealthStep BY <1>1 DEF HealthStep
<1> QED BY <1>2, <1>3, <1>4, <1>5 DEF Does

-----------------------------------------------------------------------------
(* Nodes, connections and disks: the DataServer does nothing. *)

(* The frames of q are frames of p, at other places *)
Embeds(q, p) ==
    \E g \in [1 .. Len(q) -> 1 .. Len(p)] :
        /\ \A i \in 1 .. Len(q) : q[i] = p[g[i]]
        /\ \A i \in 1 .. Len(q), k \in 1 .. Len(q) : g[i] = g[k] => i = k

LEMMA RunLost ==
    ASSUME NEW S, NEW p \in Seq(S), NEW q \in WithoutRun(p)
    PROVE  q \in Seq(S) /\ Embeds(q, p)
<1>1. PICK a \in 1 .. Len(p), b \in 1 .. Len(p) :
        a <= b /\ q = SubSeq(p, 1, a - 1) \o SubSeq(p, b + 1, Len(p))
  BY DEF WithoutRun
<1> DEFINE u == SubSeq(p, 1, a - 1)
           v == SubSeq(p, b + 1, Len(p))
<1>2. Len(p) \in Nat OBVIOUS
<1>3. u \in Seq(S) /\ Len(u) = a - 1 /\ \A i \in 1 .. a - 1 : u[i] = p[i]
  BY <1>1, <1>2, SubSeqProperties
<1>4. v \in Seq(S) /\ Len(v) = Len(p) - b /\ \A i \in 1 .. Len(p) - b : v[i] = p[b + i]
  BY <1>1, <1>2, SubSeqProperties
<1> HIDE DEF u, v
<1>5. q = u \o v BY <1>1 DEF u, v
<1>6. /\ q \in Seq(S) /\ Len(q) = a - 1 + (Len(p) - b)
      /\ \A i \in 1 .. Len(q) : q[i] = IF i <= a - 1 THEN u[i] ELSE v[i - (a - 1)]
  <2>1. /\ q \in Seq(S) /\ Len(q) = Len(u) + Len(v)
        /\ \A i \in 1 .. Len(q) : q[i] = IF i <= Len(u) THEN u[i] ELSE v[i - Len(u)]
    <3>1. /\ u \o v \in Seq(S) /\ Len(u \o v) = Len(u) + Len(v)
          /\ \A i \in 1 .. Len(u) + Len(v) : (u \o v)[i] =
                IF i <= Len(u) THEN u[i] ELSE v[i - Len(u)]
      BY <1>3, <1>4, ConcatProperties
    <3> QED BY <1>5, <3>1
  <2> QED BY <1>3, <1>4, <2>1
<1>10. a \in Int /\ b \in Int /\ 1 <= a /\ a <= b /\ b <= Len(p) BY <1>1, <1>2
<1> DEFINE g == [i \in 1 .. Len(q) |-> IF i <= a - 1 THEN i ELSE b + (i - (a - 1))]
<1>7. g \in [1 .. Len(q) -> 1 .. Len(p)]
  <2>1. ASSUME NEW i \in 1 .. Len(q) PROVE g[i] \in 1 .. Len(p)
    BY <1>2, <1>6, <1>10
  <2> QED BY <2>1
<1>8. \A i \in 1 .. Len(q) : q[i] = p[g[i]]
  <2> SUFFICES ASSUME NEW i \in 1 .. Len(q) PROVE q[i] = p[g[i]] OBVIOUS
  <2>1. CASE i <= a - 1
    <3>1. i \in 1 .. a - 1 BY <1>1, <1>2, <1>6, <2>1
    <3> QED BY <1>3, <1>6, <2>1, <3>1
  <2>2. CASE ~(i <= a - 1)
    <3>1. i - (a - 1) \in 1 .. Len(p) - b BY <1>2, <1>6, <1>10, <2>2
    <3> QED BY <1>4, <1>6, <2>2, <3>1
  <2> QED BY <2>1, <2>2
<1>9. \A i \in 1 .. Len(q), k \in 1 .. Len(q) : g[i] = g[k] => i = k
  BY <1>1, <1>2, <1>6
<1> HIDE DEF g
<1> QED BY <1>6, <1>7, <1>8, <1>9 DEF Embeds

(* The frames of a node's answer *)
Answers(q, n, d, a) ==
    \A i \in 1 .. Len(q) :
        /\ q[i].d = d /\ q[i].a = a
        /\ q[i].kind = "stream" /\ q[i].chunk \in Chunks => q[i].chunk \in disk[n].chunks

LEMMA NodeAnswers ==
    ASSUME TypeOK, NEW n \in Nodes, NodeStreamObjectBegin(n)
    PROVE  \E d \in Transfers, a \in Attempts, q \in Seq(Frame) :
             /\ toNode[n] # <<>> /\ Head(toNode[n]) = <<d, a>>
             /\ toServer' = [toServer EXCEPT ![n] = @ \o q] /\ Answers(q, n, d, a)
             /\ \/ streamed' = [streamed EXCEPT ![d][a] = disk[n].chunks]
                \/ UNCHANGED streamed /\ \A i \in 1 .. Len(q) : q[i].kind # "stream"
<1>1. toNode[n] # <<>> /\ toNode[n] \in Seq(Transfers \X Attempts)
  BY DEF NodeStreamObjectBegin, TypeOK
<1>2. PICK d \in Transfers, a \in Attempts : Head(toNode[n]) = <<d, a>> BY <1>1
<1>3. Head(toNode[n])[1] = d /\ Head(toNode[n])[2] = a BY <1>2
<1> DEFINE F(kind, chunk, ok) ==
              [kind |-> kind, d |-> d, a |-> a, chunk |-> chunk, ok |-> ok]
           total == IF disk[n].meta = "other" THEN Total + 1 ELSE Total
           files == {c \in 0 .. total - 1 : c \in disk[n].chunks \cup {Total}}
<1>4. ASSUME NEW kind \in {"ready", "stream", "end"}, NEW chunk \in Nat, NEW ok \in BOOLEAN
      PROVE  F(kind, chunk, ok) \in Frame
  BY DEF Frame
<1>5. total \in Nat BY DownloadAssumption
<1>6. toServer[n] \in Seq(Frame) BY DEF TypeOK
<1>7. CASE disk[n].meta = "none"
  <2> DEFINE x == F("ready", 0, FALSE)
             q == <<x>>
  <2>1. toServer' = [toServer EXCEPT ![n] = Append(@, x)] /\ UNCHANGED streamed
    BY <1>3, <1>7 DEF NodeStreamObjectBegin
  <2>2. x \in Frame /\ x.kind # "stream" /\ x.d = d /\ x.a = a BY <1>4
  <2> HIDE DEF x
  <2>3. q \in Seq(Frame) /\ Len(q) = 1 /\ q[1] = x BY <2>2
  <2>4. toServer[n] \o q = Append(toServer[n], x) BY <1>6, <2>2
  <2>5. Answers(q, n, d, a) /\ \A i \in 1 .. Len(q) : q[i].kind # "stream"
    BY <2>2, <2>3 DEF Answers
  <2> HIDE DEF q
  <2> QED BY <1>1, <1>2, <2>1, <2>3, <2>4, <2>5
<1>8. CASE disk[n].meta # "none"
  <2>1. PICK ids \in InOrder(files) :
          /\ toServer' = [toServer EXCEPT ![n] =
                @ \o (<<F("ready", total, TRUE)>>
                       \o [i \in 1 .. Len(ids) |-> F("stream", ids[i], TRUE)]
                       \o <<F("end", 0, TRUE)>>)]
          /\ streamed' = [streamed EXCEPT ![d][a] = disk[n].chunks]
    BY <1>3, <1>8 DEF NodeStreamObjectBegin
  <2>2. ids \in Seq(files)
    <3>1. IsFiniteSet(0 .. total - 1) BY <1>5, FS_Interval
    <3>2. files \subseteq 0 .. total - 1 OBVIOUS
    <3> HIDE DEF files, total
    <3>3. IsFiniteSet(files) BY <3>1, <3>2, FS_Subset
    <3>4. Cardinality(files) \in Nat BY <3>3, FS_CardinalityType
    <3>5. ids \in [1 .. Cardinality(files) -> files] BY DEF InOrder
    <3> QED BY <3>4, <3>5
  <2> DEFINE x == F("ready", total, TRUE)
             y == [i \in 1 .. Len(ids) |-> F("stream", ids[i], TRUE)]
             z == F("end", 0, TRUE)
             q == <<x>> \o y \o <<z>>
  <2>3. Len(ids) \in Nat /\ \A i \in 1 .. Len(ids) : ids[i] \in files BY <2>2
  <2>4. \A c \in files : c \in Nat /\ (c \in Chunks => c \in disk[n].chunks)
    BY <1>5, DownloadAssumption DEF Chunks
  <2>5. x \in Frame /\ x.kind = "ready" /\ x.d = d /\ x.a = a BY <1>4, <1>5
  <2>6. z \in Frame /\ z.kind = "end" /\ z.d = d /\ z.a = a BY <1>4
  <2>7. /\ y \in Seq(Frame) /\ Len(y) = Len(ids)
        /\ \A i \in 1 .. Len(y) : /\ y[i].d = d /\ y[i].a = a
                                  /\ y[i].chunk \in Chunks => y[i].chunk \in disk[n].chunks
    <3> HIDE DEF files
    <3>1. \A i \in 1 .. Len(ids) : F("stream", ids[i], TRUE) \in Frame BY <1>4, <2>3, <2>4
    <3>2. y \in Seq(Frame) /\ Len(y) = Len(ids) BY <2>3, <3>1
    <3>3. \A i \in 1 .. Len(ids) : y[i] = F("stream", ids[i], TRUE) OBVIOUS
    <3> QED BY <2>3, <2>4, <3>2, <3>3
  <2>8. toServer' = [toServer EXCEPT ![n] = @ \o q] BY <2>1
  <2> HIDE DEF x, y, z
  <2>10. q \in Seq(Frame) /\ Len(q) = Len(y) + 2 /\ q[1] = x /\ q[Len(q)] = z
         /\ \A i \in 2 .. Len(q) - 1 : q[i] = y[i - 1]
    BY <2>5, <2>6, <2>7
  <2>11. Answers(q, n, d, a)
    <3> HIDE DEF q
    <3> SUFFICES ASSUME NEW i \in 1 .. Len(q)
                 PROVE  /\ q[i].d = d /\ q[i].a = a
                        /\ q[i].kind = "stream" /\ q[i].chunk \in Chunks
                              => q[i].chunk \in disk[n].chunks
      BY DEF Answers
    <3>1. CASE i = 1 BY <2>5, <2>10, <3>1
    <3>2. CASE i = Len(q) BY <2>6, <2>10, <3>2
    <3>3. CASE i # 1 /\ i # Len(q)
      <4>1. i \in 2 .. Len(q) - 1 /\ i - 1 \in 1 .. Len(y) BY <2>7, <2>10, <3>3
      <4> QED BY <2>7, <2>10, <4>1
    <3> QED BY <3>1, <3>2, <3>3
  <2> HIDE DEF q
  <2> QED BY <1>1, <1>2, <2>1, <2>8, <2>10, <2>11
<1> QED BY <1>7, <1>8

(* The frames on their way, as far as other nodes and connections go *)
Elsewhere ==
    \/ \E n \in Nodes : NodeStreamObjectBegin(n)
    \/ \E n \in Nodes : LoseFrames(n) \/ GarbleFrame(n) \/ DamageDisk(n)

LEMMA ElsewhereTyped ==
    ASSUME TypeInv, Elsewhere
    PROVE  /\ TypeInv' /\ UNCHANGED <<serverVars, client>>
           /\ disturbances' \in {disturbances, disturbances + 1}
<1>0. TypeOK BY DEF TypeInv
<1>1. ASSUME NEW n \in Nodes, NodeStreamObjectBegin(n)
      PROVE  /\ TypeInv' /\ UNCHANGED <<serverVars, client>>
             /\ disturbances' \in {disturbances, disturbances + 1}
  <2>1. /\ UNCHANGED <<ctx, answer, sent, dropped, metered, health, client, disk, disturbances>>
        /\ toNode' = [toNode EXCEPT ![n] = Tail(@)] /\ toNode[n] # <<>>
    BY <1>1 DEF NodeStreamObjectBegin, serverVars
  <2>2. PICK d \in Transfers, a \in Attempts, q \in Seq(Frame) :
          /\ toServer' = [toServer EXCEPT ![n] = @ \o q]
          /\ \/ streamed' = [streamed EXCEPT ![d][a] = disk[n].chunks]
             \/ UNCHANGED streamed
    BY <1>0, <1>1, NodeAnswers
  <2> HIDE DEF Frame
  <2>3. toServer' \in [Nodes -> Seq(Frame)]
    <3>1. toServer[n] \in Seq(Frame) BY <1>0 DEF TypeOK
    <3>2. toServer[n] \o q \in Seq(Frame) BY <3>1, ConcatProperties
    <3> QED BY <1>0, <2>2, <3>2 DEF TypeOK
  <2>4. toNode' \in [Nodes -> Seq(Transfers \X Attempts)]
    <3>1. Tail(toNode[n]) \in Seq(Transfers \X Attempts) BY <1>0, <2>1 DEF TypeOK
    <3> QED BY <1>0, <2>1, <3>1 DEF TypeOK
  <2>5. streamed' \in [Transfers -> [Attempts -> SUBSET Chunks]]
    <3>1. disk[n].chunks \in SUBSET Chunks BY <1>0 DEF TypeOK
    <3>2. PICK X \in SUBSET Chunks : X = disk[n].chunks BY <3>1
    <3>3. streamed \in [Transfers -> [Attempts -> SUBSET Chunks]] BY <1>0 DEF TypeOK
    <3>4. streamed' = [streamed EXCEPT ![d][a] = X] \/ UNCHANGED streamed BY <2>2, <3>2
    <3>5. PICK B : B = SUBSET Chunks OBVIOUS
    <3>6. streamed \in [Transfers -> [Attempts -> B]] /\ X \in B BY <3>2, <3>3, <3>5
    <3>7. PICK y : y = [streamed[d] EXCEPT ![a] = X] OBVIOUS
    <3>8. y \in [Attempts -> B] BY <3>6, <3>7
    <3>9. streamed' = [streamed EXCEPT ![d] = y] \/ UNCHANGED streamed BY <3>4, <3>7
    <3> HIDE DEF Attempts
    <3>10. streamed' \in [Transfers -> [Attempts -> B]] BY <3>6, <3>8, <3>9
    <3> QED BY <3>5, <3>10
  <2> QED BY <2>1, <2>3, <2>4, <2>5 DEF TypeInv, TypeOK, Fits, serverVars
<1>2. ASSUME NEW n \in Nodes, LoseFrames(n) \/ GarbleFrame(n) \/ DamageDisk(n)
      PROVE  /\ TypeInv' /\ UNCHANGED <<serverVars, client>>
             /\ disturbances' \in {disturbances, disturbances + 1}
  <2>1. /\ UNCHANGED <<ctx, answer, sent, dropped, metered, health, client, streamed>>
        /\ disturbances' \in 0 .. MaxDisturbances
        /\ disturbances' \in {disturbances, disturbances + 1}
    BY <1>0, <1>2, DownloadAssumption
       DEF LoseFrames, GarbleFrame, DamageDisk, serverVars, nodeVars, Disturbed, TypeOK
  <2> DEFINE Q == /\ toNode' \in [Nodes -> Seq(Transfers \X Attempts)]
                  /\ toServer' \in [Nodes -> Seq(Frame)]
                  /\ disk' \in [Nodes -> [meta : {"ok", "other", "none"}, chunks : SUBSET Chunks]]
  <2>2. ASSUME LoseFrames(n) PROVE Q
    <3> HIDE DEF Frame
    <3>0. UNCHANGED disk BY <2>2 DEF LoseFrames, nodeVars
    <3>1. ASSUME NEW q \in WithoutRun(toNode[n]), toNode' = [toNode EXCEPT ![n] = q],
                 UNCHANGED toServer
          PROVE  Q
      <4>1. toNode[n] \in Seq(Transfers \X Attempts) BY <1>0 DEF TypeOK
      <4>2. q \in Seq(Transfers \X Attempts) BY <4>1, RunLost
      <4> QED BY <1>0, <3>0, <3>1, <4>2 DEF TypeOK
    <3>2. ASSUME NEW q \in WithoutRun(toServer[n]), toServer' = [toServer EXCEPT ![n] = q],
                 UNCHANGED toNode
          PROVE  Q
      <4>1. toServer[n] \in Seq(Frame) BY <1>0 DEF TypeOK
      <4>2. q \in Seq(Frame) BY <4>1, RunLost
      <4> QED BY <1>0, <3>0, <3>2, <4>2 DEF TypeOK
    <3> QED BY <2>2, <3>1, <3>2 DEF LoseFrames
  <2>3. ASSUME GarbleFrame(n) PROVE Q
    <3>1. UNCHANGED <<toNode, disk>> /\ toServer[n] # <<>>
          /\ toServer' = [toServer EXCEPT ![n][1].ok = FALSE]
      BY <2>3 DEF GarbleFrame, nodeVars
    <3>2. toServer[n] \in Seq(Frame) /\ 1 \in 1 .. Len(toServer[n]) BY <1>0, <3>1 DEF TypeOK
    <3>3. toServer[n][1] \in Frame BY <3>2
    <3>4. [toServer[n][1] EXCEPT !.ok = FALSE] \in Frame BY <3>3 DEF Frame
    <3> HIDE DEF Frame
    <3>5. [toServer[n] EXCEPT ![1].ok = FALSE] \in Seq(Frame) BY <3>2, <3>4
    <3> QED BY <1>0, <3>1, <3>5 DEF TypeOK
  <2>4. ASSUME DamageDisk(n) PROVE Q
    <3>1. UNCHANGED <<toNode, toServer>> BY <2>4 DEF DamageDisk
    <3>2. disk' \in [Nodes -> [meta : {"ok", "other", "none"}, chunks : SUBSET Chunks]]
      <4>0. disk \in [Nodes -> [meta : {"ok", "other", "none"}, chunks : SUBSET Chunks]]
        BY <1>0 DEF TypeOK
      <4>1. CASE \E c \in disk[n].chunks : disk' = [disk EXCEPT ![n].chunks = @ \ {c}]
        BY <4>0, <4>1
      <4>2. CASE disk' = [disk EXCEPT ![n] = [meta |-> "none", chunks |-> {}]]
        BY <4>0, <4>2
      <4>3. CASE disk' = [disk EXCEPT ![n].meta = "other"]
        BY <4>0, <4>3
      <4> QED BY <2>4, <4>1, <4>2, <4>3 DEF DamageDisk
    <3> QED BY <1>0, <3>1, <3>2 DEF TypeOK
  <2>5. Q BY <1>2, <2>2, <2>3, <2>4
  <2>6. TypeInv' BY <2>1, <2>5 DEF TypeInv, TypeOK, Fits
  <2> QED BY <2>1, <2>6 DEF serverVars
<1> QED BY <1>1, <1>2 DEF Elsewhere

(* Every step is one of the DataServer or of a client, one elsewhere, or no *)
(* step at all.                                                             *)
LEMMA StepDoes ==
    ASSUME TypeInv, [Next]_vars
    PROVE  Does \/ Elsewhere \/ UNCHANGED vars
<1>1. ASSUME NEW d \in Transfers, DownloadBegin(d) PROVE Does BY <1>1, DownloadBeginDoes
<1>2. ASSUME NEW n \in Nodes, NEW err \in Errors, StreamObjectReady(n, err) PROVE Does
  BY <1>2, StreamObjectReadyDoes
<1>3. ASSUME NEW n \in Nodes, NEW err \in Errors, NodeStream(n, err) PROVE Does
  BY <1>3, NodeStreamDoes
<1>4. ASSUME NEW n \in Nodes, NEW err \in Errors, StreamObjectEnd(n, err) PROVE Does
  BY <1>4, StreamObjectEndDoes
<1>5. ASSUME NEW d \in Transfers, NEW err \in Errors, DownloadTimeout(d, err) PROVE Does
  BY <1>5, DownloadTimeoutDoes
<1>6. ASSUME NEW d \in Transfers, ClientFinishes(d) \/ ClientTimeout(d) PROVE Does
  BY <1>6, ClientDoes
<1>7. ASSUME ServerRestart PROVE Does BY <1>7, ServerRestartDoes
<1> QED BY <1>1, <1>2, <1>3, <1>4, <1>5, <1>6, <1>7 DEF Next, Server, Elsewhere

LEMMA StepTyped ==
    ASSUME TypeInv, [Next]_vars
    PROVE  TypeInv' /\ MeterStep
<1>1. CASE Does BY <1>1 DEF Does
<1>2. CASE Elsewhere
  <2>1. /\ TypeInv' /\ UNCHANGED <<ctx, answer, sent, metered, client>>
        /\ disturbances' \in {disturbances, disturbances + 1}
    BY <1>2, ElsewhereTyped DEF serverVars
  <2> QED BY <2>1 DEF MeterStep, Idles
<1>3. CASE UNCHANGED vars
  BY <1>3 DEF vars, serverVars, nodeVars, TypeInv, TypeOK, Fits, MeterStep, Idles
<1> QED BY <1>1, <1>2, <1>3, StepDoes

LEMMA InitTyped == Init => TypeInv
<1> SUFFICES ASSUME Init PROVE TypeInv OBVIOUS
<1>1. TypeOK BY NoCtxType, DownloadAssumption DEF Init, TypeOK, Health, Usable, Intact
<1>2. \A d \in Transfers : Fits(d) BY NoCtxType DEF Init, Fits
<1> QED BY <1>1, <1>2 DEF TypeInv

-----------------------------------------------------------------------------
(* The bytes of a transfer *)
LEMMA ForwardedType ==
    ASSUME TypeInv
    PROVE  /\ IsFiniteSet(Chunks) /\ IsFiniteSet(Transfers)
           /\ \A d \in Transfers : /\ sent[d] \in [Chunks -> Nat]
                                   /\ Forwarded(d) \in Nat /\ metered[d] \in Nat
                                   /\ ctx[d].unflushed \in Nat
<1>1. IsFiniteSet(Chunks) /\ IsFiniteSet(Transfers)
  BY DownloadAssumption, FS_Interval DEF Chunks
<1>2. ASSUME NEW d \in Transfers
      PROVE  /\ sent[d] \in [Chunks -> Nat] /\ metered[d] \in Nat /\ ctx[d].unflushed \in Nat
  BY DEF TypeInv, TypeOK, Ctx
<1>3. ASSUME NEW d \in Transfers PROVE Forwarded(d) \in Nat
  BY <1>1, <1>2, TotalType DEF Forwarded
<1> QED BY <1>1, <1>2, <1>3

(* A chunk sent is one more. *)
LEMMA SentOneMore ==
    ASSUME TypeInv, NEW e \in Transfers, Sends(e)
    PROVE  /\ Forwarded(e)' = Forwarded(e) + 1
           /\ \A x \in Transfers \ {e} : sent'[x] = sent[x]
<1>1. TypeOK /\ IsFiniteSet(Chunks) BY ForwardedType DEF TypeInv
<1>2. PICK k \in Chunks : sent' = [sent EXCEPT ![e][k] = @ + 1] BY DEF Sends
<1>3. sent[e] \in [Chunks -> Nat] /\ sent'[e] = [sent[e] EXCEPT ![k] = @ + 1]
  BY <1>1, <1>2 DEF TypeOK
<1>4. PICK f \in [Chunks -> Nat], g \in [Chunks -> Nat] : f = sent[e] /\ g = sent'[e]
  BY <1>3
<1>5. g[k] = f[k] + 1 /\ \A y \in Chunks \ {k} : g[y] = f[y] BY <1>3, <1>4
<1>6. TotalOf(g) = TotalOf(f) - f[k] + g[k] BY <1>1, <1>5, TotalChange
<1>7. TotalOf(f) \in Nat /\ f[k] \in Nat BY <1>1, TotalType
<1>8. Forwarded(e)' = Forwarded(e) + 1 BY <1>4, <1>5, <1>6, <1>7 DEF Forwarded
<1>9. \A x \in Transfers \ {e} : sent'[x] = sent[x] BY <1>1, <1>2 DEF TypeOK
<1> QED BY <1>8, <1>9

(* What a step does to the counts of a transfer: forwarded, recorded,       *)
(* unflushed.                                                               *)
LEMMA MeterCounts ==
    ASSUME TypeInv, TypeInv', MeterStep, \A d \in Transfers : Unasked(d) /\ Metered(d),
           NEW d \in Transfers
    PROVE  \/ Forwarded(d)' = Forwarded(d) /\ metered'[d] = metered[d]
           \/ /\ Forwarded(d)' = Forwarded(d) /\ metered'[d] = Forwarded(d)
           \/ /\ Forwarded(d)' = Forwarded(d) + 1 /\ metered'[d] = Forwarded(d) + 1
              /\ Used < DailyLimit
              /\ \A e \in Transfers \ {d} : Forwarded(e)' = Forwarded(e)
           \/ /\ Forwarded(d)' = Forwarded(d) + 1 /\ metered'[d] = metered[d]
              /\ Used < DailyLimit
              /\ \A e \in Transfers \ {d} : Forwarded(e)' = Forwarded(e) /\ metered'[e] = metered[e]
              /\ \/ Forwarded(d) + 1 - metered[d] < FlushChunks
                 \/ disturbances' = disturbances + 1
<1>1. TypeOK /\ IsFiniteSet(Chunks) BY ForwardedType DEF TypeInv
<1>2. \A e \in Transfers : sent'[e] = sent[e] => Forwarded(e)' = Forwarded(e) BY DEF Forwarded
<1>3. CASE Idles BY <1>2, <1>3 DEF Idles
<1>4. ASSUME NEW e \in Transfers, Moves(e) \/ Begins(e)
      PROVE  Forwarded(d)' = Forwarded(d) /\ metered'[d] = metered[d]
  BY <1>2, <1>4 DEF Moves, Begins
<1>5. ASSUME NEW e \in Transfers, Closes(e)
      PROVE  /\ Forwarded(d)' = Forwarded(d)
             /\ metered'[d] = metered[d] \/ metered'[d] = Forwarded(d)
  <2>1. Forwarded(e) = metered[e] + ctx[e].unflushed BY <1>5 DEF Closes, Metered
  <2> QED BY <1>1, <1>2, <1>5, <2>1 DEF Closes, TypeOK
<1>6. ASSUME NEW e \in Transfers, Sends(e)
      PROVE  /\ Forwarded(e)' = Forwarded(e) + 1
             /\ \A x \in Transfers \ {e} : Forwarded(x)' = Forwarded(x) /\ metered'[x] = metered[x]
             /\ \/ metered'[e] = Forwarded(e) + 1
                \/ /\ metered'[e] = metered[e]
                   /\ \/ Forwarded(e) + 1 - metered[e] < FlushChunks
                      \/ disturbances' = disturbances + 1
  <2>7. Forwarded(e)' = Forwarded(e) + 1 /\ \A x \in Transfers \ {e} : sent'[x] = sent[x]
    BY <1>6, SentOneMore
  <2>9. Forwarded(e) = metered[e] + ctx[e].unflushed /\ ctx[e].open
    BY <1>6 DEF Sends, Metered
  <2>10. /\ metered[e] \in Nat /\ ctx[e].unflushed \in Nat /\ Forwarded(e) \in Nat
         /\ metered \in [Transfers -> Nat] /\ ctx \in [Transfers -> Ctx]
    BY <1>1, ForwardedType DEF TypeOK
  <2>11. PICK c \in Ctx :
           \/ /\ c.unflushed = 0
              /\ metered' = [metered EXCEPT ![e] = @ + (ctx[e].unflushed + 1)]
           \/ /\ c.unflushed = ctx[e].unflushed + 1 /\ UNCHANGED metered
              /\ c.unflushed < FlushChunks \/ disturbances' = disturbances + 1
    BY <1>6 DEF Sends
  <2>12. \A x \in Transfers \ {e} : metered'[x] = metered[x] BY <2>10, <2>11
  <2>13. \/ metered'[e] = Forwarded(e) + 1
         \/ /\ metered'[e] = metered[e]
            /\ \/ Forwarded(e) + 1 - metered[e] < FlushChunks
               \/ disturbances' = disturbances + 1
    BY <2>9, <2>10, <2>11
  <2> QED BY <1>2, <2>7, <2>12, <2>13
<1>7. ASSUME NEW e \in Transfers, Sends(e) PROVE Used < DailyLimit BY <1>7 DEF Sends
<1>8. ASSUME NEW e \in Transfers, Sends(e), e = d
      PROVE  \/ /\ Forwarded(d)' = Forwarded(d) + 1 /\ metered'[d] = Forwarded(d) + 1
                /\ Used < DailyLimit
                /\ \A x \in Transfers \ {d} : Forwarded(x)' = Forwarded(x)
             \/ /\ Forwarded(d)' = Forwarded(d) + 1 /\ metered'[d] = metered[d]
                /\ Used < DailyLimit
                /\ \A x \in Transfers \ {d} :
                      Forwarded(x)' = Forwarded(x) /\ metered'[x] = metered[x]
                /\ \/ Forwarded(d) + 1 - metered[d] < FlushChunks
                   \/ disturbances' = disturbances + 1
  BY <1>6, <1>7, <1>8
<1>9. ASSUME NEW e \in Transfers, Sends(e), e # d
      PROVE  Forwarded(d)' = Forwarded(d) /\ metered'[d] = metered[d]
  BY <1>6, <1>9
<1> QED BY <1>3, <1>4, <1>5, <1>8, <1>9 DEF MeterStep

(* What is known of a transfer's bytes stays true. *)
LEMMA MeterPieces ==
    ASSUME TypeInv, TypeInv', MeterStep, \A d \in Transfers : Unasked(d) /\ Metered(d),
           NEW d \in Transfers
    PROVE  Unasked(d)' /\ Metered(d)'
<1>0. TypeOK /\ ctx \in [Transfers -> Ctx] /\ Unasked(d) /\ Metered(d) BY DEF TypeInv, TypeOK
<1>1. /\ Forwarded(d) \in Nat /\ metered[d] \in Nat /\ ctx[d].unflushed \in Nat
      /\ sent[d] \in [Chunks -> Nat]
  BY ForwardedType
<1>2. sent'[d] = sent[d] => Forwarded(d)' = Forwarded(d) BY DEF Forwarded
<1>3. ASSUME sent'[d] = sent[d], answer'[d] = answer[d], metered'[d] = metered[d],
             client'[d] = "idle" => client[d] = "idle",
             \/ ~ctx'[d].open
             \/ /\ ctx[d].open /\ ctx'[d].unflushed = ctx[d].unflushed
                /\ client[d] # "idle" => client'[d] # "idle"
      PROVE  Unasked(d)' /\ Metered(d)'
  BY <1>0, <1>2, <1>3 DEF Unasked, Metered
<1>4. CASE Idles
  <2>1. \/ ctx'[d] = ctx[d]
        \/ ~ctx'[d].open
    BY <1>0, <1>4, NoCtxType DEF Idles
  <2>2. /\ sent'[d] = sent[d] /\ answer'[d] = answer[d] /\ metered'[d] = metered[d]
        /\ client'[d] = "idle" => client[d] = "idle"
        /\ client[d] # "idle" => client'[d] # "idle"
    BY <1>4 DEF Idles
  <2> QED BY <1>3, <2>1, <2>2
<1>5. ASSUME NEW e \in Transfers, e # d, Moves(e) \/ Begins(e) \/ Sends(e) \/ Closes(e)
      PROVE  Unasked(d)' /\ Metered(d)'
  <2>0. /\ \E c \in Ctx \cup {NoCtx} : ctx' = [ctx EXCEPT ![e] = c]
        /\ \/ UNCHANGED metered
           \/ \E k \in Nat : metered' = [metered EXCEPT ![e] = @ + k]
        /\ \/ UNCHANGED client
           \/ client' = [client EXCEPT ![e] = "waiting"]
    <3>1. ctx[e].unflushed \in Nat BY ForwardedType
    <3>2. ctx[e].unflushed + 1 \in Nat BY <3>1
    <3> QED BY <1>5, <3>1, <3>2 DEF Moves, Begins, Sends, Closes
  <2>00. sent'[d] = sent[d]
    <3>1. ASSUME Sends(e) PROVE sent'[d] = sent[d] BY <1>5, <3>1, SentOneMore
    <3> QED BY <1>5, <3>1 DEF Moves, Begins, Closes
  <2>1. /\ ctx'[d] = ctx[d] /\ sent'[d] = sent[d] /\ metered'[d] = metered[d]
        /\ client'[d] = client[d]
    BY <1>0, <1>5, <2>0, <2>00 DEF TypeOK
  <2>2. Forwarded(d)' = Forwarded(d) BY <1>2, <2>1
  <2>3. answer'[d] = answer[d]
    <3>1. \/ UNCHANGED answer
          \/ \E final \in {"done", "failed", "cap_reached"} :
                answer' = [answer EXCEPT ![e] = final]
      BY <1>5 DEF Moves, Begins, Sends, Closes
    <3> QED BY <1>0, <1>5, <3>1 DEF TypeOK
  <2> QED BY <1>0, <2>1, <2>2, <2>3 DEF Unasked, Metered
<1>6. CASE Moves(d)
  <2>1. /\ ctx[d].open /\ ctx'[d].unflushed = ctx[d].unflushed
        /\ sent'[d] = sent[d] /\ answer'[d] = answer[d] /\ metered'[d] = metered[d]
        /\ client'[d] = client[d]
    BY <1>0, <1>6 DEF Moves
  <2> QED BY <1>3, <2>1
<1>7. CASE Begins(d)
  <2>1. /\ ctx'[d].unflushed = 0 /\ client'[d] # "idle" /\ client[d] = "idle"
        /\ sent'[d] = sent[d] /\ answer'[d] = answer[d] /\ metered'[d] = metered[d]
    BY <1>0, <1>7 DEF Begins, TypeOK
  <2>2. Forwarded(d) = 0
    <3>1. \A k \in Chunks : sent[d][k] = 0 BY <1>0, <2>1 DEF Unasked
    <3> QED BY <1>1, <3>1, TotalZero DEF Forwarded
  <2> QED BY <1>0, <1>1, <1>2, <2>1, <2>2 DEF Unasked, Metered
<1>8. CASE Sends(d)
  <2>1. /\ ctx[d].open /\ UNCHANGED <<answer, client>> BY <1>8 DEF Sends
  <2>2. /\ Forwarded(d) = metered[d] + ctx[d].unflushed /\ client[d] # "idle"
        /\ answer[d] = "none"
    BY <1>0, <2>1 DEF Metered
  <2>3. Forwarded(d)' = Forwarded(d) + 1 BY <1>8, SentOneMore
  <2>4. PICK c \in Ctx :
           /\ ctx' = [ctx EXCEPT ![d] = c]
           /\ \/ /\ c.unflushed = 0
                 /\ metered' = [metered EXCEPT ![d] = @ + (ctx[d].unflushed + 1)]
              \/ c.unflushed = ctx[d].unflushed + 1 /\ UNCHANGED metered
    BY <1>8 DEF Sends
  <2>5. ctx'[d].unflushed = c.unflushed BY <1>0, <2>4
  <2>6. metered \in [Transfers -> Nat] BY <1>0 DEF TypeOK
  <2>7. /\ Forwarded(d)' = metered'[d] + ctx'[d].unflushed
        /\ metered'[d] <= Forwarded(d)'
    BY <1>1, <2>2, <2>3, <2>4, <2>5, <2>6
  <2> QED BY <2>1, <2>2, <2>7 DEF Unasked, Metered
<1>9. CASE Closes(d)
  <2>1. /\ ~ctx'[d].open /\ UNCHANGED client /\ sent'[d] = sent[d] /\ ctx[d].open
    BY <1>0, <1>9, NoCtxType DEF Closes
  <2>2. metered'[d] = metered[d] + ctx[d].unflushed
    BY <1>0, <1>9 DEF Closes, TypeOK
  <2>3. Forwarded(d) = metered[d] + ctx[d].unflushed /\ client[d] # "idle"
    BY <1>0, <2>1 DEF Metered
  <2> QED BY <1>1, <1>2, <2>1, <2>2, <2>3 DEF Unasked, Metered
<1> QED BY <1>4, <1>5, <1>6, <1>7, <1>8, <1>9 DEF MeterStep

(* What waits for longer than a flush unit, over all transfers *)
LateAll == [d \in Transfers |-> Late(d)]
ForwardedAll == [d \in Transfers |-> Forwarded(d)]

LEMMA LateType ==
    ASSUME TypeInv, \A d \in Transfers : Metered(d)
    PROVE  /\ LateAll \in [Transfers -> Nat] /\ ForwardedAll \in [Transfers -> Nat]
           /\ \A d \in Transfers : Late(d) \in Nat /\ LateAll[d] = Late(d)
                                   /\ ForwardedAll[d] = Forwarded(d)
<1>1. ASSUME NEW d \in Transfers PROVE Late(d) \in Nat /\ Forwarded(d) \in Nat
  <2>1. Forwarded(d) \in Nat /\ metered[d] \in Nat /\ metered[d] <= Forwarded(d)
    BY ForwardedType DEF Metered
  <2>2. Waiting(d) \in Nat BY <2>1 DEF Waiting
  <2> QED BY <2>1, <2>2, DownloadAssumption DEF Late
<1> QED BY <1>1 DEF LateAll, ForwardedAll

LEMMA LateTypeThen ==
    ASSUME TypeInv', \A d \in Transfers : Metered(d)', NEW d \in Transfers
    PROVE  Late(d)' \in Nat /\ Forwarded(d)' \in Nat
<1>1. IsFiniteSet(Chunks) BY DownloadAssumption, FS_Interval DEF Chunks
<1>2. sent'[d] \in [Chunks -> Nat] /\ metered'[d] \in Nat BY DEF TypeInv, TypeOK
<1>3. Forwarded(d)' \in Nat BY <1>1, <1>2, TotalType DEF Forwarded
<1>4. metered'[d] <= Forwarded(d)' BY DEF Metered
<1>5. Waiting(d)' \in Nat BY <1>2, <1>3, <1>4 DEF Waiting
<1> QED BY <1>3, <1>5, DownloadAssumption DEF Late

(* A transfer's part of that grows with a flush that fails, and only then. *)
LEMMA LateStep ==
    ASSUME TypeInv, TypeInv', MeterStep, \A d \in Transfers : Unasked(d) /\ Metered(d),
           \A d \in Transfers : Metered(d)', NEW d \in Transfers
    PROVE  \/ Late(d)' <= Late(d)
           \/ /\ Late(d)' <= Late(d) + 1 /\ disturbances' = disturbances + 1
              /\ \A e \in Transfers \ {d} : Late(e)' = Late(e)
<1>1. /\ Forwarded(d) \in Nat /\ metered[d] \in Nat /\ metered[d] <= Forwarded(d)
      /\ FlushChunks \in Nat \ {0}
  BY ForwardedType, DownloadAssumption DEF Metered
<1>2. Late(d)' = IF Forwarded(d)' - metered'[d] < FlushChunks THEN 0
                 ELSE Forwarded(d)' - metered'[d] - (FlushChunks - 1)
  BY DEF Late, Waiting
<1>3. Late(d) = IF Forwarded(d) - metered[d] < FlushChunks THEN 0
                ELSE Forwarded(d) - metered[d] - (FlushChunks - 1)
  BY DEF Late, Waiting
<1>4. Late(d) \in Nat BY LateType
<1>5. \A e \in Transfers : Forwarded(e)' = Forwarded(e) /\ metered'[e] = metered[e]
                           => Late(e)' = Late(e)
  BY DEF Late, Waiting
<1>6. CASE Forwarded(d)' = Forwarded(d) /\ metered'[d] = metered[d]
  BY <1>4, <1>5, <1>6
<1>7. CASE Forwarded(d)' = Forwarded(d) /\ metered'[d] = Forwarded(d)
  <2>1. Late(d)' = 0 BY <1>1, <1>2, <1>7
  <2> QED BY <1>4, <2>1
<1>8. CASE Forwarded(d)' = Forwarded(d) + 1 /\ metered'[d] = Forwarded(d) + 1
  <2>1. Late(d)' = 0 BY <1>1, <1>2, <1>8
  <2> QED BY <1>4, <2>1
<1>9. CASE /\ Forwarded(d)' = Forwarded(d) + 1 /\ metered'[d] = metered[d]
           /\ \A e \in Transfers \ {d} : Forwarded(e)' = Forwarded(e) /\ metered'[e] = metered[e]
           /\ \/ Forwarded(d) + 1 - metered[d] < FlushChunks
              \/ disturbances' = disturbances + 1
  <2>1. \A e \in Transfers \ {d} : Late(e)' = Late(e) BY <1>5, <1>9
  <2>2. Late(d)' <= Late(d) + 1
        /\ (Forwarded(d) + 1 - metered[d] < FlushChunks => Late(d)' = 0)
    BY <1>1, <1>2, <1>3, <1>9
  <2> QED BY <1>4, <1>9, <2>1, <2>2
<1> QED BY <1>6, <1>7, <1>8, <1>9, MeterCounts

(* The cap: what was forwarded is what transfer_events say, what waits for  *)
(* the next flush, and what is late.                                        *)
LEMMA ForwardedWithin ==
    ASSUME TypeInv, \A d \in Transfers : Metered(d)
    PROVE  /\ TotalOf(ForwardedAll) \in Nat /\ TotalOf(LateAll) \in Nat /\ Used \in Nat
           /\ Cardinality(Transfers) * (FlushChunks - 1) \in Nat
           /\ TotalOf(ForwardedAll)
                <= Used + Cardinality(Transfers) * (FlushChunks - 1) + TotalOf(LateAll)
<1>1. /\ IsFiniteSet(Transfers) /\ FlushChunks \in Nat \ {0} /\ metered \in [Transfers -> Nat]
      /\ LateAll \in [Transfers -> Nat] /\ ForwardedAll \in [Transfers -> Nat]
  BY DownloadAssumption, LateType DEF TypeInv, TypeOK
<1> DEFINE unit == [d \in Transfers |-> FlushChunks - 1]
           more == [d \in Transfers |-> metered[d] + unit[d]]
           bound == [d \in Transfers |-> more[d] + LateAll[d]]
<1>2. FlushChunks - 1 \in Nat BY <1>1
<1>3. unit \in [Transfers -> Nat] /\ \A d \in Transfers : unit[d] <= FlushChunks - 1
  BY <1>2
<1>4. more \in [Transfers -> Nat] /\ \A d \in Transfers : more[d] = metered[d] + unit[d]
  BY <1>1, <1>3
<1>5. bound \in [Transfers -> Nat] /\ \A d \in Transfers : bound[d] = more[d] + LateAll[d]
  BY <1>1, <1>4
<1>6. ASSUME NEW d \in Transfers PROVE ForwardedAll[d] <= bound[d]
  <2>1. /\ Forwarded(d) \in Nat /\ metered[d] \in Nat /\ metered[d] <= Forwarded(d)
        /\ LateAll[d] = Late(d) /\ ForwardedAll[d] = Forwarded(d)
    BY ForwardedType, LateType DEF Metered
  <2>2. Late(d) = IF Forwarded(d) - metered[d] < FlushChunks THEN 0
                  ELSE Forwarded(d) - metered[d] - (FlushChunks - 1)
    BY DEF Late, Waiting
  <2>3. bound[d] = metered[d] + (FlushChunks - 1) + Late(d) BY <2>1
  <2> HIDE DEF bound
  <2> QED BY <1>1, <2>1, <2>2, <2>3
<1> HIDE DEF unit, more, bound
<1>7. TotalOf(unit) <= Cardinality(Transfers) * (FlushChunks - 1)
  BY <1>1, <1>2, <1>3, TotalBound
<1>8. TotalOf(more) = TotalOf(metered) + TotalOf(unit) BY <1>1, <1>3, <1>4, TotalSum
<1>9. TotalOf(bound) = TotalOf(more) + TotalOf(LateAll) BY <1>1, <1>4, <1>5, TotalSum
<1>10. TotalOf(ForwardedAll) <= TotalOf(bound) BY <1>1, <1>5, <1>6, TotalMonotone
<1>11. /\ TotalOf(unit) \in Nat /\ TotalOf(more) \in Nat /\ TotalOf(bound) \in Nat
       /\ TotalOf(LateAll) \in Nat /\ TotalOf(ForwardedAll) \in Nat /\ TotalOf(metered) \in Nat
  BY <1>1, <1>3, <1>4, <1>5, TotalType
<1>12. PICK k : k = Cardinality(Transfers) * (FlushChunks - 1) OBVIOUS
<1>13. k \in Nat
  <2>1. Cardinality(Transfers) \in Nat BY <1>1, FS_CardinalityType
  <2> QED BY <1>2, <1>12, <2>1
<1>14. TotalOf(ForwardedAll) <= TotalOf(metered) + k + TotalOf(LateAll)
  <2>1. TotalOf(unit) <= k BY <1>7, <1>12
  <2> QED BY <1>8, <1>9, <1>10, <1>11, <1>13, <2>1
<1> QED BY <1>11, <1>12, <1>13, <1>14 DEF Used

LEMMA MeterInvStep ==
    ASSUME MeterInv, [Next]_vars
    PROVE  MeterInv'
<1>1. TypeInv /\ TypeInv' /\ MeterStep /\ \A d \in Transfers : Unasked(d) /\ Metered(d)
  BY StepTyped DEF MeterInv
<1>2. \A d \in Transfers : Unasked(d)' /\ Metered(d)' BY <1>1, MeterPieces
<1>3. disturbances \in Nat /\ disturbances' \in {disturbances, disturbances + 1}
  BY <1>1, DownloadAssumption DEF TypeInv, TypeOK, MeterStep
<1>4. IsFiniteSet(Transfers) BY DownloadAssumption
<1>5. /\ LateAll \in [Transfers -> Nat] /\ ForwardedAll \in [Transfers -> Nat]
      /\ \A d \in Transfers : Late(d) \in Nat /\ LateAll[d] = Late(d)
                              /\ ForwardedAll[d] = Forwarded(d)
  BY <1>1, LateType
<1>6. /\ LateAll' \in [Transfers -> Nat] /\ ForwardedAll' \in [Transfers -> Nat]
      /\ \A d \in Transfers : Late(d)' \in Nat /\ LateAll'[d] = Late(d)'
                              /\ ForwardedAll'[d] = Forwarded(d)'
  <2>1. ASSUME NEW d \in Transfers PROVE Late(d)' \in Nat /\ Forwarded(d)' \in Nat
    BY <1>1, <1>2, LateTypeThen
  <2> QED BY <2>1 DEF LateAll, ForwardedAll
<1>7. TotalOf(LateAll) \in Nat /\ TotalOf(LateAll') \in Nat BY <1>4, <1>5, <1>6, TotalType
<1>8. TotalOf(LateAll) <= disturbances BY DEF MeterInv, LateAll
<1>9. TotalOf(LateAll') <= disturbances'
  <2>1. CASE \A d \in Transfers : Late(d)' <= Late(d)
    <3>1. TotalOf(LateAll') <= TotalOf(LateAll) BY <1>4, <1>5, <1>6, <2>1, TotalMonotone
    <3> QED BY <1>3, <1>7, <1>8, <3>1
  <2>2. ASSUME NEW d \in Transfers, Late(d)' <= Late(d) + 1, disturbances' = disturbances + 1,
               \A e \in Transfers \ {d} : Late(e)' = Late(e)
        PROVE  TotalOf(LateAll') <= disturbances'
    <3>1. \A e \in Transfers \ {d} : LateAll'[e] = LateAll[e] BY <1>5, <1>6, <2>2
    <3>2. TotalOf(LateAll') = TotalOf(LateAll) - LateAll[d] + LateAll'[d]
      BY <1>4, <1>5, <1>6, <3>1, TotalChange
    <3>3. LateAll'[d] <= LateAll[d] + 1 /\ LateAll[d] \in Nat /\ LateAll'[d] \in Nat
      BY <1>5, <1>6, <2>2
    <3> QED BY <1>3, <1>7, <1>8, <2>2, <3>2, <3>3
  <2> QED BY <1>1, <1>2, <2>1, <2>2, LateStep
<1>10. PICK n : n = Cardinality(Transfers) * (FlushChunks - 1) OBVIOUS
<1>11. /\ TotalOf(ForwardedAll) \in Nat /\ Used \in Nat /\ n \in Nat
       /\ TotalOf(ForwardedAll) <= Used + n + TotalOf(LateAll)
  BY <1>1, <1>10, ForwardedWithin
<1>12. TotalOf(ForwardedAll) <= DailyLimit + n + disturbances
  BY <1>10 DEF MeterInv, CapOverrunBounded, ForwardedAll
<1>13. DailyLimit \in Nat BY DownloadAssumption
<1>14. TotalOf(ForwardedAll') <= DailyLimit + n + disturbances'
  <2>1. CASE \A d \in Transfers : Forwarded(d)' = Forwarded(d)
    <3>1. ForwardedAll' = ForwardedAll BY <1>5, <1>6, <2>1
    <3> QED BY <1>3, <1>11, <1>12, <1>13, <3>1
  <2>2. ASSUME NEW d \in Transfers, Forwarded(d)' = Forwarded(d) + 1, Used < DailyLimit,
               \A e \in Transfers \ {d} : Forwarded(e)' = Forwarded(e)
        PROVE  TotalOf(ForwardedAll') <= DailyLimit + n + disturbances'
    <3>1. \A e \in Transfers \ {d} : ForwardedAll'[e] = ForwardedAll[e] BY <1>5, <1>6, <2>2
    <3>2. TotalOf(ForwardedAll') = TotalOf(ForwardedAll) - ForwardedAll[d] + ForwardedAll'[d]
      BY <1>4, <1>5, <1>6, <3>1, TotalChange
    <3>3. ForwardedAll'[d] = ForwardedAll[d] + 1 /\ ForwardedAll[d] \in Nat
      BY <1>5, <1>6, <2>2
    <3>4. TotalOf(ForwardedAll') = TotalOf(ForwardedAll) + 1 BY <1>11, <3>2, <3>3
    <3> QED BY <1>3, <1>7, <1>8, <1>11, <1>13, <2>2, <3>4
  <2> QED BY <1>1, <2>1, <2>2, MeterCounts
<1>15. CapOverrunBounded' BY <1>10, <1>14 DEF CapOverrunBounded, ForwardedAll
<1> QED BY <1>1, <1>2, <1>9, <1>15 DEF MeterInv, LateAll

LEMMA InitMeter == Init => MeterInv
<1> SUFFICES ASSUME Init PROVE MeterInv OBVIOUS
<1>1. TypeInv BY InitTyped
<1>2. IsFiniteSet(Transfers) BY DownloadAssumption
<1>3. ASSUME NEW d \in Transfers
      PROVE  Forwarded(d) = 0 /\ metered[d] = 0 /\ Unasked(d) /\ Metered(d)
  <2>1. sent[d] \in [Chunks -> Nat] /\ \A k \in Chunks : sent[d][k] = 0 BY DEF Init
  <2>2. Forwarded(d) = 0 BY <2>1, TotalZero DEF Forwarded
  <2>3. metered[d] = 0 /\ ctx[d] = NoCtx /\ answer[d] = "none" BY DEF Init
  <2> QED BY <2>1, <2>2, <2>3, NoCtxType DEF Unasked, Metered
<1>4. /\ LateAll \in [Transfers -> Nat] /\ ForwardedAll \in [Transfers -> Nat]
      /\ \A d \in Transfers : LateAll[d] = Late(d) /\ ForwardedAll[d] = Forwarded(d)
  BY <1>1, <1>3, LateType
<1>5. \A d \in Transfers : LateAll[d] = 0 /\ ForwardedAll[d] = 0
  BY <1>3, <1>4, DownloadAssumption DEF Late, Waiting
<1>6. TotalOf(LateAll) = 0 /\ TotalOf(ForwardedAll) = 0 BY <1>4, <1>5, TotalZero
<1>7. disturbances = 0 BY DEF Init
<1>8. TotalOf([d \in Transfers |-> Late(d)]) <= disturbances BY <1>6, <1>7 DEF LateAll
<1>9. CapOverrunBounded
  <2>1. PICK n : n = Cardinality(Transfers) * (FlushChunks - 1) OBVIOUS
  <2>2. n \in Nat BY <1>1, <1>3, <2>1, ForwardedWithin
  <2>3. 0 <= DailyLimit + n + disturbances BY <1>7, <2>2, DownloadAssumption
  <2> QED BY <1>6, <2>1, <2>3 DEF CapOverrunBounded, ForwardedAll
<1> QED BY <1>1, <1>3, <1>8, <1>9 DEF MeterInv

(* Every handler finds well-formed contexts, rows and frames, the transfer   *)
(* and the attempt of a frame among them, and leaves them well formed; the  *)
(* attempt of an open transfer is one of its candidates.                    *)
THEOREM DownloadTypeCorrect == Spec => []TypeOK
<1>1. TypeInv /\ [Next]_vars => TypeInv' BY StepTyped
<1> QED BY <1>1, InitTyped, PTL DEF Spec, TypeInv

(* _flush_transfer_meter: when a client has its final answer, exactly what  *)
(* was forwarded to it is in transfer_events, whichever flush failed before *)
(* and however often the transfer changed its replica.                      *)
THEOREM MeteredExactlyAlways == Spec => []MeteredExactly
<1>1. MeterInv => MeteredExactly BY DEF MeterInv, Metered, MeteredExactly
<1> QED BY <1>1, InitMeter, MeterInvStep, PTL DEF Spec

(* check_cap_allow_send: downloads in parallel overrun the daily limit by   *)
(* less than a flush unit each, and by one chunk more for every flush that  *)
(* failed.                                                                  *)
THEOREM CapOverrunBoundedAlways == Spec => []CapOverrunBounded
<1>1. MeterInv => CapOverrunBounded BY DEF MeterInv
<1> QED BY <1>1, InitMeter, MeterInvStep, PTL DEF Spec

-----------------------------------------------------------------------------
(* The attempts *)
Like(f, g) == f.kind = g.kind /\ f.d = g.d /\ f.a = g.a /\ f.chunk = g.chunk
NoNewFrames ==
    \A n \in Nodes : \A i \in 1 .. Len(toServer'[n]) : \E k \in 1 .. Len(toServer[n]) :
        Like(toServer'[n][i], toServer[n][k])
NoNewRequests == \A n \in Nodes : Embeds(toNode'[n], toNode[n])

LEMMA EmbedsSelf == ASSUME NEW p PROVE Embeds(p, p)
<1> DEFINE g == [i \in 1 .. Len(p) |-> i]
<1>1. g \in [1 .. Len(p) -> 1 .. Len(p)] OBVIOUS
<1>2. \A i \in 1 .. Len(p) : p[i] = p[g[i]] OBVIOUS
<1>3. \A i \in 1 .. Len(p), k \in 1 .. Len(p) : g[i] = g[k] => i = k OBVIOUS
<1> HIDE DEF g
<1> QED BY <1>1, <1>2, <1>3 DEF Embeds

LEMMA EmbedsTail ==
    ASSUME NEW S, NEW p \in Seq(S), p # <<>>
    PROVE  Embeds(Tail(p), p)
<1>1. Len(p) \in Nat /\ Len(Tail(p)) = Len(p) - 1
      /\ \A i \in 1 .. Len(Tail(p)) : Tail(p)[i] = p[i + 1]
  OBVIOUS
<1> DEFINE g == [i \in 1 .. Len(Tail(p)) |-> i + 1]
<1>2. g \in [1 .. Len(Tail(p)) -> 1 .. Len(p)] BY <1>1
<1>3. \A i \in 1 .. Len(Tail(p)) : Tail(p)[i] = p[g[i]] BY <1>1
<1>4. \A i \in 1 .. Len(Tail(p)), k \in 1 .. Len(Tail(p)) : g[i] = g[k] => i = k BY <1>1
<1> HIDE DEF g
<1> QED BY <1>2, <1>3, <1>4 DEF Embeds

LEMMA FewerFrames ==
    ASSUME NoNewFrames, NEW d, NEW a, Unheard(d, a)
    PROVE  Unheard(d, a)'
BY DEF NoNewFrames, Unheard, Like

LEMMA FewerRequests ==
    ASSUME NoNewRequests
    PROVE  /\ AskedOnce => AskedOnce'
           /\ \A d, a : Requested(d, a)' => Requested(d, a)
<1>1. ASSUME NEW n \in Nodes
      PROVE  \E g \in [1 .. Len(toNode'[n]) -> 1 .. Len(toNode[n])] :
               /\ \A i \in 1 .. Len(toNode'[n]) : toNode'[n][i] = toNode[n][g[i]]
               /\ \A i \in 1 .. Len(toNode'[n]), k \in 1 .. Len(toNode'[n]) :
                     g[i] = g[k] => i = k
  BY DEF NoNewRequests, Embeds
<1>2. ASSUME AskedOnce, NEW n \in Nodes, NEW m \in Nodes,
             NEW i \in 1 .. Len(toNode'[n]), NEW k \in 1 .. Len(toNode'[m]),
             toNode'[n][i] = toNode'[m][k]
      PROVE  n = m /\ i = k
  <2>1. PICK g \in [1 .. Len(toNode'[n]) -> 1 .. Len(toNode[n])] :
               /\ \A x \in 1 .. Len(toNode'[n]) : toNode'[n][x] = toNode[n][g[x]]
               /\ \A x \in 1 .. Len(toNode'[n]), y \in 1 .. Len(toNode'[n]) :
                     g[x] = g[y] => x = y
    BY <1>1
  <2>2. PICK h \in [1 .. Len(toNode'[m]) -> 1 .. Len(toNode[m])] :
               \A x \in 1 .. Len(toNode'[m]) : toNode'[m][x] = toNode[m][h[x]]
    BY <1>1
  <2>3. toNode[n][g[i]] = toNode[m][h[k]] /\ g[i] \in 1 .. Len(toNode[n])
        /\ h[k] \in 1 .. Len(toNode[m])
    BY <1>2, <2>1, <2>2
  <2>4. n = m /\ g[i] = h[k] BY <1>2, <2>3 DEF AskedOnce
  <2>5. toNode[n][g[k]] = toNode[m][h[k]] /\ g[k] \in 1 .. Len(toNode[n])
    BY <1>2, <2>1, <2>2, <2>4
  <2>6. g[k] = h[k] BY <1>2, <2>3, <2>4, <2>5 DEF AskedOnce
  <2> QED BY <2>1, <2>4, <2>6
<1>3. ASSUME NEW d, NEW a, Requested(d, a)' PROVE Requested(d, a)
  <2>1. PICK n \in Nodes : \E i \in 1 .. Len(toNode'[n]) : toNode'[n][i] = <<d, a>>
    BY <1>3 DEF Requested
  <2>2. PICK i \in 1 .. Len(toNode'[n]) : toNode'[n][i] = <<d, a>> BY <2>1
  <2>3. \E k \in 1 .. Len(toNode[n]) : toNode[n][k] = toNode'[n][i] BY <1>1
  <2> QED BY <2>2, <2>3 DEF Requested
<1> QED BY <1>2, <1>3 DEF AskedOnce

(* Frames that left a connection *)
LEMMA TakenFrames ==
    ASSUME TypeOK, FramesTaken
    PROVE  NoNewFrames
<1> SUFFICES ASSUME NEW n \in Nodes, NEW i \in 1 .. Len(toServer'[n])
             PROVE  \E k \in 1 .. Len(toServer[n]) : Like(toServer'[n][i], toServer[n][k])
  BY DEF NoNewFrames
<1>1. toServer[n] \in Seq(Frame) BY DEF TypeOK
<1>2. CASE toServer'[n] = toServer[n] BY <1>2 DEF Like
<1>3. CASE toServer[n] # <<>> /\ toServer'[n] = Tail(toServer[n])
  <2> HIDE DEF Frame
  <2>1. /\ Len(Tail(toServer[n])) = Len(toServer[n]) - 1 /\ Len(toServer[n]) \in Nat
        /\ i + 1 \in 1 .. Len(toServer[n]) /\ Tail(toServer[n])[i] = toServer[n][i + 1]
    BY <1>1, <1>3
  <2> QED BY <1>3, <2>1 DEF Like
<1> QED BY <1>2, <1>3 DEF FramesTaken

(* What is heard of an attempt was sent for it. *)
LEMMA HeardTrue ==
    ASSUME StreamInv, NEW d \in Transfers, ctx[d].open
    PROVE  /\ Heard(d) \subseteq streamed[d][ctx[d].attempt]
           /\ Unheard(d, ctx[d].attempt) => Heard(d) = {}
<1> SUFFICES ASSUME NEW k \in Heard(d)
             PROVE  k \in streamed[d][ctx[d].attempt] /\ ~Unheard(d, ctx[d].attempt)
  OBVIOUS
<1>1. PICK n \in Nodes : /\ toServer[n] # <<>> /\ Head(toServer[n]).kind = "stream"
                         /\ Head(toServer[n]).d = d /\ Head(toServer[n]).a = ctx[d].attempt
                         /\ Head(toServer[n]).chunk = k /\ k \in Chunks
  BY DEF Heard
<1>2. toServer[n] \in Seq(Frame) BY DEF StreamInv, TypeInv, TypeOK
<1> HIDE DEF Frame
<1>3. 1 \in 1 .. Len(toServer[n]) /\ Head(toServer[n]) = toServer[n][1] BY <1>1, <1>2
<1>4. True(toServer[n][1]) BY <1>3 DEF StreamInv, FramesTrue
<1> QED BY <1>1, <1>3, <1>4 DEF True, Unheard

(* A step that asks no node: what is on its way gets less, at most the      *)
(* frame at the head of a connection is heard.                              *)
LEMMA QuietStep ==
    ASSUME StreamInv, TypeInv', UNCHANGED streamed, ClientsStay, NoNewFrames, NoNewRequests,
           \A d \in Transfers : ctx'[d].open =>
              /\ ctx[d].open /\ ctx'[d].attempt = ctx[d].attempt
              /\ ctx'[d].attemptGot \subseteq ctx[d].attemptGot \cup Heard(d)
    PROVE  StreamInv'
<1>1. \A d \in Transfers, a \in Attempts : Past(d, a) => Past(d, a)'
  BY DEF Past, ClientsStay
<1>2. \A d \in Transfers : client'[d] = "idle" => ~ctx'[d].open
  BY DEF StreamInv, ClientsStay
<1>3. AskedOnce' BY FewerRequests DEF StreamInv
<1>4. NothingBefore'
  <2> SUFFICES ASSUME NEW d \in Transfers, NEW a \in Attempts, Requested(d, a)'
               PROVE  /\ Past(d, a)' /\ Unheard(d, a)'
                      /\ ctx'[d].open /\ ctx'[d].attempt = a => ctx'[d].attemptGot = {}
    BY DEF NothingBefore
  <2>1. Requested(d, a) BY FewerRequests
  <2>2. /\ Past(d, a) /\ Unheard(d, a)
        /\ ctx[d].open /\ ctx[d].attempt = a => ctx[d].attemptGot = {}
    BY <2>1 DEF StreamInv, NothingBefore
  <2>3. Unheard(d, a)' BY <2>2, FewerFrames
  <2>4. ASSUME ctx'[d].open, ctx'[d].attempt = a PROVE ctx'[d].attemptGot = {}
    BY <2>2, <2>4, HeardTrue
  <2> QED BY <1>1, <2>2, <2>3, <2>4
<1>5. FramesTrue'
  <2> SUFFICES ASSUME NEW n \in Nodes, NEW i \in 1 .. Len(toServer'[n])
               PROVE  True(toServer[n][i])'
    BY DEF FramesTrue
  <2>1. PICK k \in 1 .. Len(toServer[n]) : Like(toServer'[n][i], toServer[n][k])
    BY DEF NoNewFrames
  <2>2. True(toServer[n][k]) BY DEF StreamInv, FramesTrue
  <2>3. toServer[n][k] \in Frame BY DEF StreamInv, TypeInv, TypeOK
  <2>4. toServer[n][k].d \in Transfers /\ toServer[n][k].a \in Attempts BY <2>3 DEF Frame
  <2> QED BY <1>1, <2>1, <2>2, <2>4 DEF True, Like, Past
<1>6. GotWasSent' BY HeardTrue DEF StreamInv, GotWasSent
<1> QED BY <1>2, <1>3, <1>4, <1>5, <1>6 DEF StreamInv

(* begin_next_attempt asks for an attempt that nobody was asked for. *)
LEMMA NewAttemptStep ==
    ASSUME StreamInv, TypeInv', UNCHANGED streamed, ClientsStay, NoNewFrames,
           NEW d \in Transfers, NewAttempt(d)
    PROVE  StreamInv'
<1>0. TypeOK BY DEF StreamInv, TypeInv
<1>1. PICK n \in Nodes, a \in Attempts, c \in Ctx :
        /\ toNode' = [toNode EXCEPT ![n] = Append(@, <<d, a>>)]
        /\ ctx' = [ctx EXCEPT ![d] = c] /\ c.attempt = a /\ c.attemptGot = {}
        /\ \/ client[d] = "idle" /\ client'[d] # "idle"
           \/ ctx[d].open /\ a = ctx[d].attempt + 1
  BY DEF NewAttempt
<1>2. /\ ctx'[d] = c /\ \A e \in Transfers \ {d} : ctx'[e] = ctx[e]
      /\ ctx \in [Transfers -> Ctx] /\ a \in Nat /\ ctx[d].attempt \in Nat
  BY <1>0, <1>1 DEF TypeOK, Ctx, Attempts
<1>3. ~Past(d, a) BY <1>1, <1>2 DEF Past
<1>4. ~Requested(d, a) BY <1>3 DEF StreamInv, NothingBefore
<1>5. client'[d] # "idle"
  BY <1>1 DEF StreamInv, ClientsStay
<1>6. \A e \in Transfers, b \in Attempts : Past(e, b) => Past(e, b)'
  <2> SUFFICES ASSUME NEW e \in Transfers, NEW b \in Attempts, Past(e, b) PROVE Past(e, b)'
    OBVIOUS
  <2>1. CASE e # d BY <1>2, <2>1 DEF Past, ClientsStay
  <2>2. CASE e = d
    <3>1. b \in Nat BY DEF Attempts
    <3> QED BY <1>1, <1>2, <1>5, <2>2, <3>1 DEF Past
  <2> QED BY <2>1, <2>2
<1>7. toNode'[n] = Append(toNode[n], <<d, a>>) /\ \A m \in Nodes \ {n} : toNode'[m] = toNode[m]
  BY <1>0, <1>1 DEF TypeOK
<1>8. /\ toNode[n] \in Seq(Transfers \X Attempts) /\ Len(toNode[n]) \in Nat
      /\ Len(toNode'[n]) = Len(toNode[n]) + 1
      /\ toNode'[n][Len(toNode[n]) + 1] = <<d, a>>
      /\ \A i \in 1 .. Len(toNode[n]) : toNode'[n][i] = toNode[n][i]
  BY <1>0, <1>7 DEF TypeOK
<1>9. ASSUME NEW m \in Nodes, NEW i \in 1 .. Len(toNode'[m])
      PROVE  \/ m = n /\ i = Len(toNode[n]) + 1 /\ toNode'[m][i] = <<d, a>>
             \/ i \in 1 .. Len(toNode[m]) /\ toNode'[m][i] = toNode[m][i]
  <2>1. CASE m # n BY <1>7, <2>1
  <2>2. CASE m = n
    <3>1. i \in 1 .. Len(toNode[n]) + 1 BY <1>8, <2>2
    <3>2. CASE i = Len(toNode[n]) + 1 BY <1>8, <2>2, <3>2
    <3>3. CASE i # Len(toNode[n]) + 1
      <4>1. i \in 1 .. Len(toNode[n]) BY <1>8, <3>1, <3>3
      <4> QED BY <1>8, <2>2, <4>1
    <3> QED BY <3>2, <3>3
  <2> QED BY <2>1, <2>2
<1>10. AskedOnce'
  <2> SUFFICES ASSUME NEW m \in Nodes, NEW w \in Nodes, NEW i \in 1 .. Len(toNode'[m]),
                      NEW k \in 1 .. Len(toNode'[w]), toNode'[m][i] = toNode'[w][k]
               PROVE  m = w /\ i = k
    BY DEF AskedOnce
  <2>1. \/ m = n /\ i = Len(toNode[n]) + 1 /\ toNode'[m][i] = <<d, a>>
        \/ i \in 1 .. Len(toNode[m]) /\ toNode'[m][i] = toNode[m][i]
    BY <1>9
  <2>2. \/ w = n /\ k = Len(toNode[n]) + 1 /\ toNode'[w][k] = <<d, a>>
        \/ k \in 1 .. Len(toNode[w]) /\ toNode'[w][k] = toNode[w][k]
    BY <1>9
  <2>3. \A x \in Nodes : \A y \in 1 .. Len(toNode[x]) : toNode[x][y] # <<d, a>>
    BY <1>4 DEF Requested
  <2>4. AskedOnce BY DEF StreamInv
  <2>5. CASE i \in 1 .. Len(toNode[m]) /\ k \in 1 .. Len(toNode[w])
             /\ toNode'[m][i] = toNode[m][i] /\ toNode'[w][k] = toNode[w][k]
    <3>1. toNode[m][i] = toNode[w][k] BY <2>5
    <3>2. \A x \in 1 .. Len(toNode[m]), y \in 1 .. Len(toNode[w]) :
             toNode[m][x] = toNode[w][y] => m = w /\ x = y
      BY <2>4 DEF AskedOnce
    <3> QED BY <2>5, <3>1, <3>2
  <2> QED BY <2>1, <2>2, <2>3, <2>5
<1>11. NothingBefore'
  <2> SUFFICES ASSUME NEW e \in Transfers, NEW b \in Attempts, Requested(e, b)'
               PROVE  /\ Past(e, b)' /\ Unheard(e, b)'
                      /\ ctx'[e].open /\ ctx'[e].attempt = b => ctx'[e].attemptGot = {}
    BY DEF NothingBefore
  <2>1. CASE e = d /\ b = a
    <3>1. Past(d, a)' BY <1>1, <1>2, <1>5 DEF Past
    <3>2. Unheard(d, a) BY <1>3 DEF StreamInv, FramesTrue, True, Unheard
    <3>3. Unheard(d, a)' BY <3>2, FewerFrames
    <3> QED BY <1>1, <1>2, <2>1, <3>1, <3>3
  <2>2. CASE ~(e = d /\ b = a)
    <3>1. Requested(e, b)
      <4>1. PICK m \in Nodes : \E i \in 1 .. Len(toNode'[m]) : toNode'[m][i] = <<e, b>>
        BY DEF Requested
      <4> QED BY <1>9, <2>2, <4>1 DEF Requested
    <3>2. /\ Past(e, b) /\ Unheard(e, b)
          /\ ctx[e].open /\ ctx[e].attempt = b => ctx[e].attemptGot = {}
      BY <3>1 DEF StreamInv, NothingBefore
    <3>3. Unheard(e, b)' BY <3>2, FewerFrames
    <3> QED BY <1>1, <1>2, <1>6, <3>2, <3>3
  <2> QED BY <2>1, <2>2
<1>12. FramesTrue'
  <2> SUFFICES ASSUME NEW m \in Nodes, NEW i \in 1 .. Len(toServer'[m])
               PROVE  True(toServer[m][i])'
    BY DEF FramesTrue
  <2>1. PICK k \in 1 .. Len(toServer[m]) : Like(toServer'[m][i], toServer[m][k])
    BY DEF NoNewFrames
  <2>2. True(toServer[m][k]) BY DEF StreamInv, FramesTrue
  <2>3. toServer[m][k] \in Frame BY <1>0 DEF TypeOK
  <2>4. toServer[m][k].d \in Transfers /\ toServer[m][k].a \in Attempts BY <2>3 DEF Frame
  <2> QED BY <1>6, <2>1, <2>2, <2>4 DEF True, Like, Past
<1>13. GotWasSent'
  <2> SUFFICES ASSUME NEW e \in Transfers, ctx'[e].open
               PROVE  ctx'[e].attemptGot \subseteq streamed'[e][ctx'[e].attempt]
    BY DEF GotWasSent
  <2>1. CASE e = d BY <1>1, <1>2, <2>1
  <2>2. CASE e # d BY <1>2, <2>2 DEF StreamInv, GotWasSent
  <2> QED BY <2>1, <2>2
<1>14. \A e \in Transfers : client'[e] = "idle" => ~ctx'[e].open
  BY <1>2, <1>5 DEF StreamInv, ClientsStay
<1> QED BY <1>10, <1>11, <1>12, <1>13, <1>14 DEF StreamInv

(* A node answers: its request is gone, the frames of its answer follow.    *)
LEMMA NodeAnswerStep ==
    ASSUME StreamInv, TypeInv', UNCHANGED <<ctx, client>>,
           NEW n \in Nodes, NodeStreamObjectBegin(n)
    PROVE  StreamInv'
<1>0. TypeOK BY DEF StreamInv, TypeInv
<1>1. PICK d \in Transfers, a \in Attempts, q \in Seq(Frame) :
        /\ toNode[n] # <<>> /\ Head(toNode[n]) = <<d, a>>
        /\ toServer' = [toServer EXCEPT ![n] = @ \o q] /\ Answers(q, n, d, a)
        /\ \/ streamed' = [streamed EXCEPT ![d][a] = disk[n].chunks]
           \/ UNCHANGED streamed /\ \A i \in 1 .. Len(q) : q[i].kind # "stream"
  BY <1>0, NodeAnswers
<1>2. toNode[n] \in Seq(Transfers \X Attempts) /\ 1 \in 1 .. Len(toNode[n])
      /\ toNode[n][1] = <<d, a>>
  BY <1>0, <1>1 DEF TypeOK
<1>3. Requested(d, a) BY <1>2 DEF Requested
<1>4. /\ Past(d, a) /\ Unheard(d, a)
      /\ ctx[d].open /\ ctx[d].attempt = a => ctx[d].attemptGot = {}
  BY <1>3 DEF StreamInv, NothingBefore
<1>5. toNode' = [toNode EXCEPT ![n] = Tail(@)] BY DEF NodeStreamObjectBegin
<1>6. toNode'[n] = Tail(toNode[n]) /\ \A m \in Nodes \ {n} : toNode'[m] = toNode[m]
  BY <1>0, <1>5 DEF TypeOK
<1>7. NoNewRequests
  <2> SUFFICES ASSUME NEW m \in Nodes PROVE Embeds(toNode'[m], toNode[m])
    BY DEF NoNewRequests
  <2>1. CASE m = n BY <1>1, <1>2, <1>6, <2>1, EmbedsTail
  <2>2. CASE m # n BY <1>6, <2>2, EmbedsSelf
  <2> QED BY <2>1, <2>2
<1>8. AskedOnce' /\ \A e, b : Requested(e, b)' => Requested(e, b)
  BY <1>7, FewerRequests DEF StreamInv
<1>9. ~Requested(d, a)'
  <2> SUFFICES ASSUME NEW m \in Nodes, NEW i \in 1 .. Len(toNode'[m]),
                      toNode'[m][i] = <<d, a>>
               PROVE  FALSE
    BY DEF Requested
  <2>1. \A w \in Nodes : \A y \in 1 .. Len(toNode[w]) :
           toNode[w][y] = <<d, a>> => w = n /\ y = 1
    <3> SUFFICES ASSUME NEW w \in Nodes, NEW y \in 1 .. Len(toNode[w]), toNode[w][y] = <<d, a>>
                 PROVE  w = n /\ y = 1
      OBVIOUS
    <3>1. toNode[w][y] = toNode[n][1] BY <1>2
    <3>2. \A x \in 1 .. Len(toNode[w]), k \in 1 .. Len(toNode[n]) :
             toNode[w][x] = toNode[n][k] => w = n /\ x = k
      BY DEF StreamInv, AskedOnce
    <3> QED BY <1>2, <3>1, <3>2
  <2>2. CASE m # n
    <3>1. i \in 1 .. Len(toNode[m]) /\ toNode[m][i] = <<d, a>> BY <1>6, <2>2
    <3> QED BY <2>1, <2>2, <3>1
  <2>3. CASE m = n
    <3>1. /\ i \in 1 .. Len(Tail(toNode[n])) /\ Tail(toNode[n])[i] = <<d, a>>
      BY <1>6, <2>3
    <3>2. i + 1 \in 1 .. Len(toNode[n]) /\ i + 1 # 1 /\ Tail(toNode[n])[i] = toNode[n][i + 1]
      BY <1>1, <1>2, <3>1
    <3>3. PICK y \in 1 .. Len(toNode[n]) : y = i + 1 BY <3>2
    <3> QED BY <2>1, <3>1, <3>2, <3>3
  <2> QED BY <2>2, <2>3
<1>10. ASSUME NEW m \in Nodes, NEW i \in 1 .. Len(toServer'[m])
       PROVE  \/ i \in 1 .. Len(toServer[m]) /\ toServer'[m][i] = toServer[m][i]
              \/ m = n /\ \E k \in 1 .. Len(q) : toServer'[m][i] = q[k]
  <2>1. CASE m # n BY <1>0, <1>1, <2>1 DEF TypeOK
  <2>2. CASE m = n
    <3> HIDE DEF Frame
    <3>1. toServer[n] \in Seq(Frame) /\ toServer'[n] = toServer[n] \o q
      BY <1>0, <1>1 DEF TypeOK
    <3>2. /\ Len(toServer'[n]) = Len(toServer[n]) + Len(q)
          /\ \A x \in 1 .. Len(toServer[n]) + Len(q) : toServer'[n][x] =
                IF x <= Len(toServer[n]) THEN toServer[n][x] ELSE q[x - Len(toServer[n])]
      BY <3>1, ConcatProperties
    <3>3. Len(toServer[n]) \in Nat /\ Len(q) \in Nat BY <3>1
    <3>4. CASE i <= Len(toServer[n]) BY <2>2, <3>2, <3>3, <3>4
    <3>5. CASE ~(i <= Len(toServer[n]))
      <4>1. i - Len(toServer[n]) \in 1 .. Len(q) BY <2>2, <3>2, <3>3, <3>5
      <4> QED BY <2>2, <3>2, <3>5, <4>1
    <3> QED BY <3>4, <3>5
  <2> QED BY <2>1, <2>2
<1>11. /\ \A e \in Transfers, b \in Attempts :
             e # d \/ b # a => streamed'[e][b] = streamed[e][b]
       /\ \/ streamed'[d][a] = disk[n].chunks
          \/ streamed'[d][a] = streamed[d][a] /\ \A i \in 1 .. Len(q) : q[i].kind # "stream"
  BY <1>0, <1>1 DEF TypeOK
<1>12. NothingBefore'
  <2> SUFFICES ASSUME NEW e \in Transfers, NEW b \in Attempts, Requested(e, b)'
               PROVE  /\ Past(e, b)' /\ Unheard(e, b)'
                      /\ ctx'[e].open /\ ctx'[e].attempt = b => ctx'[e].attemptGot = {}
    BY DEF NothingBefore
  <2>1. /\ Past(e, b) /\ Unheard(e, b)
        /\ ctx[e].open /\ ctx[e].attempt = b => ctx[e].attemptGot = {}
    BY <1>8 DEF StreamInv, NothingBefore
  <2>2. ~(e = d /\ b = a) BY <1>9
  <2>3. Unheard(e, b)'
    <3> SUFFICES ASSUME NEW m \in Nodes, NEW i \in 1 .. Len(toServer'[m])
                 PROVE  ~(toServer'[m][i].d = e /\ toServer'[m][i].a = b)
      BY DEF Unheard
    <3>1. \A k \in 1 .. Len(q) : q[k].d = d /\ q[k].a = a BY <1>1 DEF Answers
    <3> QED BY <1>10, <2>1, <2>2, <3>1 DEF Unheard
  <2> QED BY <2>1, <2>3 DEF Past
<1>13. FramesTrue'
  <2> SUFFICES ASSUME NEW m \in Nodes, NEW i \in 1 .. Len(toServer'[m])
               PROVE  True(toServer[m][i])'
    BY DEF FramesTrue
  <2>1. CASE i \in 1 .. Len(toServer[m]) /\ toServer'[m][i] = toServer[m][i]
    <3>1. PICK f \in Frame : f = toServer[m][i] BY <1>0, <2>1 DEF TypeOK
    <3>2. True(f) /\ ~(f.d = d /\ f.a = a)
      BY <1>4, <2>1, <3>1 DEF Unheard, StreamInv, FramesTrue
    <3>3. f.d \in Transfers /\ f.a \in Attempts BY DEF Frame
    <3>4. streamed'[f.d][f.a] = streamed[f.d][f.a] BY <1>11, <3>2, <3>3
    <3> QED BY <2>1, <3>1, <3>2, <3>4 DEF True, Past
  <2>2. CASE m = n /\ \E k \in 1 .. Len(q) : toServer'[m][i] = q[k]
    <3>1. PICK k \in 1 .. Len(q) : toServer'[m][i] = q[k] BY <2>2
    <3>2. /\ q[k].d = d /\ q[k].a = a
          /\ q[k].kind = "stream" /\ q[k].chunk \in Chunks => q[k].chunk \in disk[n].chunks
      BY <1>1 DEF Answers
    <3> QED BY <1>4, <1>11, <3>1, <3>2 DEF True, Past
  <2> QED BY <1>10, <2>1, <2>2
<1>14. GotWasSent'
  <2> SUFFICES ASSUME NEW e \in Transfers, ctx[e].open
               PROVE  ctx[e].attemptGot \subseteq streamed'[e][ctx[e].attempt]
    BY DEF GotWasSent
  <2>1. ctx[e].attempt \in Attempts
    <3>1. ctx[e] \in Ctx /\ ctx[e].attempt \in 1 .. Len(ctx[e].candidates)
          /\ Len(ctx[e].candidates) <= MaxAttempts
      BY <1>0 DEF TypeOK, StreamInv, TypeInv, Fits
    <3>2. ctx[e].attempt \in 0 .. MaxAttempts /\ ctx[e].attempt >= 1 BY <3>1 DEF Ctx
    <3> QED BY <3>2, DownloadAssumption DEF Attempts
  <2>2. CASE e = d /\ ctx[e].attempt = a BY <1>4, <2>2
  <2>3. CASE ~(e = d /\ ctx[e].attempt = a)
    <3>1. streamed'[e][ctx[e].attempt] = streamed[e][ctx[e].attempt] BY <1>11, <2>1, <2>3
    <3> QED BY <3>1 DEF StreamInv, GotWasSent
  <2> QED BY <2>2, <2>3
<1>15. \A e \in Transfers : client'[e] = "idle" => ~ctx'[e].open BY DEF StreamInv
<1> QED BY <1>8, <1>12, <1>13, <1>14, <1>15 DEF StreamInv

(* Frames are lost, one is garbled, a disk is damaged: nothing new is on    *)
(* its way.                                                                 *)
LEMMA LostFrames ==
    ASSUME TypeOK, NEW n \in Nodes, LoseFrames(n) \/ GarbleFrame(n) \/ DamageDisk(n)
    PROVE  NoNewFrames /\ NoNewRequests /\ UNCHANGED streamed
<1>1. UNCHANGED streamed BY DEF LoseFrames, GarbleFrame, DamageDisk, nodeVars
<1>2. ASSUME UNCHANGED toServer PROVE NoNewFrames BY <1>2 DEF NoNewFrames, Like
<1>3. ASSUME UNCHANGED toNode PROVE NoNewRequests BY <1>3, EmbedsSelf DEF NoNewRequests
<1>4. ASSUME NEW q \in WithoutRun(toNode[n]), toNode' = [toNode EXCEPT ![n] = q],
             UNCHANGED toServer
      PROVE  NoNewFrames /\ NoNewRequests
  <2>1. toNode[n] \in Seq(Transfers \X Attempts) BY DEF TypeOK
  <2>2. Embeds(q, toNode[n]) BY <2>1, RunLost
  <2>3. ASSUME NEW m \in Nodes PROVE Embeds(toNode'[m], toNode[m])
    <3>1. CASE m = n BY <1>4, <2>2, <3>1 DEF TypeOK
    <3>2. CASE m # n
      <4>1. toNode'[m] = toNode[m] BY <1>4, <3>2 DEF TypeOK
      <4> QED BY <4>1, EmbedsSelf
    <3> QED BY <3>1, <3>2
  <2> QED BY <1>2, <1>4, <2>3 DEF NoNewRequests
<1>5. ASSUME NEW q \in WithoutRun(toServer[n]), toServer' = [toServer EXCEPT ![n] = q],
             UNCHANGED toNode
      PROVE  NoNewFrames /\ NoNewRequests
  <2>1. toServer[n] \in Seq(Frame) BY DEF TypeOK
  <2>2. Embeds(q, toServer[n]) BY <2>1, RunLost
  <2>3. ASSUME NEW m \in Nodes, NEW i \in 1 .. Len(toServer'[m])
        PROVE  \E k \in 1 .. Len(toServer[m]) : Like(toServer'[m][i], toServer[m][k])
    <3>1. CASE m = n
      <4>1. toServer'[m] = q BY <1>5, <3>1 DEF TypeOK
      <4>2. \E k \in 1 .. Len(toServer[n]) : q[i] = toServer[n][k]
        BY <2>2, <3>1, <4>1 DEF Embeds
      <4> QED BY <3>1, <4>1, <4>2 DEF Like
    <3>2. CASE m # n BY <1>5, <3>2 DEF TypeOK, Like
    <3> QED BY <3>1, <3>2
  <2> QED BY <1>3, <1>5, <2>3 DEF NoNewFrames
<1>6. ASSUME GarbleFrame(n) PROVE NoNewFrames /\ NoNewRequests
  <2>1. UNCHANGED toNode /\ toServer[n] # <<>>
        /\ toServer' = [toServer EXCEPT ![n][1].ok = FALSE]
    BY <1>6 DEF GarbleFrame
  <2>2. toServer[n] \in Seq(Frame) /\ 1 \in 1 .. Len(toServer[n]) BY <2>1 DEF TypeOK
  <2>3. PICK f \in Frame : f = toServer[n][1] BY <2>2
  <2>4. PICK g : g = [f EXCEPT !.ok = FALSE] OBVIOUS
  <2>5. Like(g, f) BY <2>4 DEF Like, Frame
  <2>6. toServer' = [toServer EXCEPT ![n] = [toServer[n] EXCEPT ![1] = g]]
    BY <2>1, <2>3, <2>4
  <2> HIDE DEF Frame
  <2>7. PICK q : q = [toServer[n] EXCEPT ![1] = g] OBVIOUS
  <2>8. Len(q) = Len(toServer[n]) /\ q[1] = g
        /\ \A i \in 2 .. Len(toServer[n]) : q[i] = toServer[n][i]
    BY <2>2, <2>7
  <2>9. toServer'[n] = q /\ \A m \in Nodes \ {n} : toServer'[m] = toServer[m]
    BY <2>6, <2>7 DEF TypeOK
  <2>10. ASSUME NEW m \in Nodes, NEW i \in 1 .. Len(toServer'[m])
         PROVE  Like(toServer'[m][i], toServer[m][i]) /\ i \in 1 .. Len(toServer[m])
    <3>1. CASE m = n
      <4>1. i \in 1 .. Len(toServer[n]) BY <2>8, <2>9, <3>1
      <4>2. CASE i = 1 BY <2>3, <2>5, <2>8, <2>9, <3>1, <4>1, <4>2
      <4>3. CASE i # 1
        <5>1. i \in 2 .. Len(toServer[n]) BY <2>2, <4>1, <4>3
        <5> QED BY <2>8, <2>9, <3>1, <4>1, <5>1 DEF Like
      <4> QED BY <4>2, <4>3
    <3>2. CASE m # n BY <2>9, <3>2 DEF Like
    <3> QED BY <3>1, <3>2
  <2> QED BY <1>3, <2>1, <2>10 DEF NoNewFrames
<1> QED BY <1>1, <1>2, <1>3, <1>4, <1>5, <1>6 DEF LoseFrames, DamageDisk

LEMMA StreamInvStep ==
    ASSUME StreamInv, [Next]_vars
    PROVE  StreamInv'
<1>1. TypeInv /\ TypeOK /\ TypeInv' BY StepTyped DEF StreamInv, TypeInv
<1>2. ASSUME Does PROVE StreamInv'
  <2>1. UNCHANGED streamed /\ FramesTaken /\ ClientsStay
        /\ (Stays \/ \E d \in Transfers : NewAttempt(d))
    BY <1>2 DEF Does, ServerStep
  <2>2. NoNewFrames BY <1>1, <2>1, TakenFrames
  <2>3. CASE Stays
    <3>1. NoNewRequests BY <2>3, EmbedsSelf DEF Stays, NoNewRequests
    <3> QED BY <1>1, <2>1, <2>2, <2>3, <3>1, QuietStep DEF Stays
  <2>4. ASSUME NEW d \in Transfers, NewAttempt(d) PROVE StreamInv'
    BY <1>1, <2>1, <2>2, <2>4, NewAttemptStep
  <2> QED BY <2>1, <2>3, <2>4
<1>3. ASSUME Elsewhere PROVE StreamInv'
  <2>1. UNCHANGED <<ctx, client>> BY <1>1, <1>3, ElsewhereTyped DEF serverVars
  <2>2. ASSUME NEW n \in Nodes, NodeStreamObjectBegin(n) PROVE StreamInv'
    BY <1>1, <2>1, <2>2, NodeAnswerStep
  <2>3. ASSUME NEW n \in Nodes, LoseFrames(n) \/ GarbleFrame(n) \/ DamageDisk(n)
        PROVE  StreamInv'
    <3>1. NoNewFrames /\ NoNewRequests /\ UNCHANGED streamed BY <1>1, <2>3, LostFrames
    <3>2. ClientsStay BY <2>1 DEF ClientsStay
    <3> QED BY <1>1, <2>1, <3>1, <3>2, QuietStep
  <2> QED BY <1>3, <2>2, <2>3 DEF Elsewhere
<1>4. ASSUME UNCHANGED vars PROVE StreamInv'
  <2>1. UNCHANGED <<ctx, client, toNode, toServer, streamed>>
    BY <1>4 DEF vars, serverVars, nodeVars
  <2>2. NoNewFrames BY <2>1 DEF NoNewFrames, Like
  <2>3. NoNewRequests BY <2>1, EmbedsSelf DEF NoNewRequests
  <2>4. ClientsStay BY <2>1 DEF ClientsStay
  <2> QED BY <1>1, <2>1, <2>2, <2>3, <2>4, QuietStep
<1> QED BY <1>1, <1>2, <1>3, <1>4, StepDoes

LEMMA InitStream == Init => StreamInv
<1> SUFFICES ASSUME Init PROVE StreamInv OBVIOUS
<1>1. TypeInv BY InitTyped
<1>2. /\ \A d \in Transfers : ctx[d] = NoCtx
      /\ \A n \in Nodes : Len(toNode[n]) = 0 /\ Len(toServer[n]) = 0
  BY DEF Init
<1> QED BY <1>1, <1>2, NoCtxType
        DEF StreamInv, AskedOnce, NothingBefore, Requested, FramesTrue, GotWasSent

(* mark_replica_healthy: a replica recorded as healthy sent every chunk of  *)
(* the object in the attempt that is recorded, although chunks of earlier   *)
(* attempts are kept and frames of theirs may still arrive.                 *)
THEOREM HealthyProvedItselfAlways == Spec => HealthyProvedItself
<1>1. StreamInv /\ [Next]_vars =>
        (\A n \in Nodes : health'[n] = "healthy" /\ health[n] # "healthy" =>
           \E d \in Transfers : /\ ctx[d].open /\ CurrentNode(d) = n
                                /\ streamed[d][ctx[d].attempt] = Chunks)
  <2> SUFFICES ASSUME StreamInv, [Next]_vars,
                      NEW n \in Nodes, health'[n] = "healthy", health[n] # "healthy"
               PROVE  \E d \in Transfers : /\ ctx[d].open /\ CurrentNode(d) = n
                                           /\ streamed[d][ctx[d].attempt] = Chunks
    OBVIOUS
  <2>1. TypeInv BY DEF StreamInv
  <2>2. HealthStep
    <3>1. CASE Elsewhere
      <4>1. UNCHANGED health BY <2>1, <3>1, ElsewhereTyped DEF serverVars
      <4> QED BY <4>1
    <3>2. CASE UNCHANGED vars
      <4>1. UNCHANGED health BY <3>2 DEF vars, serverVars
      <4> QED BY <4>1
    <3> QED BY <2>1, <3>1, <3>2, StepDoes DEF Does
  <2>3. PICK d \in Transfers : /\ ctx[d].open /\ CurrentNode(d) = n
                               /\ ctx[d].attemptGot = Chunks
    BY <2>2 DEF HealthStep
  <2>4. Chunks \subseteq streamed[d][ctx[d].attempt] BY <2>3 DEF StreamInv, GotWasSent
  <2>5. ctx[d].attempt \in Attempts
    <3>1. ctx[d] \in Ctx /\ ctx[d].attempt \in 1 .. Len(ctx[d].candidates)
      BY <2>1, <2>3 DEF TypeInv, TypeOK, Fits
    <3>2. ctx[d].attempt \in 0 .. MaxAttempts /\ ctx[d].attempt >= 1 BY <3>1 DEF Ctx
    <3> QED BY <3>2, DownloadAssumption DEF Attempts
  <2>6. streamed[d][ctx[d].attempt] \subseteq Chunks BY <2>1, <2>5 DEF TypeInv, TypeOK
  <2>7. streamed[d][ctx[d].attempt] = Chunks BY <2>4, <2>6
  <2> QED BY <2>3, <2>7
<1> QED BY <1>1, InitStream, StreamInvStep, PTL DEF Spec, HealthyProvedItself
=============================================================================
