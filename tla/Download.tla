------------------------------- MODULE Download -------------------------------
(***************************************************************************)
(* A download: the client sees one transfer, the DataServer asks replica   *)
(* after replica for the chunks (DownloadFailoverState), forwards every    *)
(* chunk that is new to the client, meters it against the daily limit of   *)
(* the user who pays, and records what it learned about each replica.      *)
(*                                                                         *)
(* All transfers are of one object and charged to one user; a chunk is one *)
(* unit of transfer.  Frames between the DataServer and a node keep their  *)
(* order; a broken connection loses a run of them.  A node answers         *)
(* stream_object_begin in one step (node.py does so without looking at its *)
(* socket).  What the DataServer sends to a client arrives.                *)
(***************************************************************************)
EXTENDS Naturals, Sequences, FiniteSets, Functions, Counters

CONSTANTS
    Transfers,       \* transfer_id values; bounds the downloads ever begun
    Nodes,           \* the nodes with a replicas row of the object
    Total,           \* total_chunks of the object
    MaxAttempts,     \* DOWNLOAD_MAX_REPLICA_ATTEMPTS
    FlushChunks,     \* CHUNK_METER_FLUSH_BYTES, in chunks
    DailyLimit,      \* daily egress limit of the user, in chunks
    DbErrors,        \* the database calls that may fail
    MaxDisturbances  \* bounds what happens from outside: see Disturbed

ASSUME DownloadAssumption ==
    /\ IsFiniteSet(Transfers) /\ IsFiniteSet(Nodes)
    /\ Total \in Nat \ {0} /\ MaxAttempts \in Nat \ {0}
    /\ FlushChunks \in Nat \ {0} /\ DailyLimit \in Nat
    /\ DbErrors \subseteq {"record", "flush", "check"}
    /\ MaxDisturbances \in Nat

Chunks == 0 .. Total - 1

VARIABLES
    ctx,          \* DataServer.transfers: TransferCtx with its failover state
    answer,       \* the final answer of the DataServer to each client
    client,       \* what the client of each transfer is doing
    sent,         \* sent[d][c]: how often chunk c was forwarded to client d
    dropped,      \* dropped[d]: chunks in got that a failed call kept from client d
    metered,      \* metered[d]: transfer_events recorded for the transfer
    health,       \* replica_health.status of the object on each node
    toNode,       \* stream_object_begin frames, as attempts, to each node
    toServer,     \* frames on their way from each node
    disk,         \* what each node holds of the object
    streamed,     \* streamed[d][a]: chunks a node has sent for attempt a
    disturbances  \* how many outside events there were

serverVars == <<ctx, answer, sent, dropped, metered, health>>
nodeVars == <<disk, streamed>>
vars == <<serverVars, client, toNode, toServer, nodeVars, disturbances>>

Attempts == 1 .. MaxAttempts
Usable == {"healthy", "pending", "suspect"}
Health == Usable \cup {"missing", "corrupt"}

NoCtx == [open |-> FALSE, candidates |-> <<>>, attempt |-> 0, indexed |-> FALSE,
          got |-> {}, attemptGot |-> {}, unflushed |-> 0]
Ctx == [open : BOOLEAN, candidates : Seq(Nodes), attempt : 0 .. MaxAttempts,
        indexed : BOOLEAN, got : SUBSET Chunks, attemptGot : SUBSET Chunks,
        unflushed : Nat]

(* ok: the status of a ready, whether a chunk has its hash; chunk: the id   *)
(* of a chunk, the total_chunks a ready announces.                          *)
Frame == [kind : {"ready", "stream", "end"}, d : Transfers, a : Attempts,
          chunk : Nat, ok : BOOLEAN]

Intact == [meta |-> "ok", chunks |-> Chunks]

TypeOK ==
    /\ ctx \in [Transfers -> Ctx]
    /\ answer \in [Transfers -> {"none", "done", "failed", "cap_reached"}]
    /\ client \in [Transfers -> {"idle", "waiting", "complete", "failed",
                                 "resend_refused"}]
    /\ sent \in [Transfers -> [Chunks -> Nat]]
    /\ dropped \in [Transfers -> SUBSET Chunks]
    /\ metered \in [Transfers -> Nat]
    /\ health \in [Nodes -> Health]
    /\ toNode \in [Nodes -> Seq(Transfers \X Attempts)]
    /\ toServer \in [Nodes -> Seq(Frame)]
    /\ disk \in [Nodes -> [meta : {"ok", "other", "none"}, chunks : SUBSET Chunks]]
    /\ streamed \in [Transfers -> [Attempts -> SUBSET Chunks]]
    /\ disturbances \in 0 .. MaxDisturbances

Init ==
    /\ ctx = [d \in Transfers |-> NoCtx]
    /\ answer = [d \in Transfers |-> "none"]
    /\ client = [d \in Transfers |-> "idle"]
    /\ sent = [d \in Transfers |-> [c \in Chunks |-> 0]]
    /\ dropped = [d \in Transfers |-> {}]
    /\ metered = [d \in Transfers |-> 0]
    /\ health \in [Nodes -> {"healthy", "suspect"}]
    /\ toNode = [n \in Nodes |-> <<>>]
    /\ toServer = [n \in Nodes |-> <<>>]
    /\ disk = [n \in Nodes |-> Intact]
    /\ streamed = [d \in Transfers |-> [a \in Attempts |-> {}]]
    /\ disturbances = 0

-----------------------------------------------------------------------------
(* Only so many failures and outside events are followed. *)
Disturbed ==
    disturbances < MaxDisturbances /\ disturbances' = disturbances + 1

(* A handler in which the database call err fails, or none. *)
Calls(errs, err) ==
    \/ err = "none" /\ UNCHANGED disturbances
    \/ err \in DbErrors \cap errs /\ Disturbed

CurrentNode(d) == ctx[d].candidates[ctx[d].attempt]

Rank(s) == CASE s = "healthy" -> 0 [] s = "pending" -> 1 [] OTHER -> 2

(* fetch_download_candidates: the online nodes whose replica is usable,     *)
(* best health first; ties are broken by timestamps.                        *)
CandidateLists(online) ==
    LET U == {n \in online : health[n] \in Usable}
        k == IF Cardinality(U) < MaxAttempts THEN Cardinality(U) ELSE MaxAttempts IN
    {q \in [1 .. k -> U] :
        /\ IsInjective(q)
        /\ \A i \in 1 .. k : \A n \in {q[j] : j \in i .. k} \cup (U \ Range(q)) :
               Rank(health[q[i]]) <= Rank(health[n])}

(* Fault: a new attempt forgets the chunks of the earlier ones. *)
AskedAnew(d, c) ==
    /\ ctx' = [ctx EXCEPT ![d] = [c EXCEPT !.attempt = @ + 1, !.attemptGot = {},
                                           !.got = {}, !.indexed = TRUE]]
    /\ toNode' = [toNode EXCEPT ![c.candidates[c.attempt + 1]] =
                    Append(@, <<d, c.attempt + 1>>)]

(* begin_next_attempt and the stream_object_begin that goes with it *)
Asked(d, c) ==
    /\ ctx' = [ctx EXCEPT ![d] = [c EXCEPT !.attempt = @ + 1, !.attemptGot = {},
                                           !.indexed = TRUE]]
    /\ toNode' = [toNode EXCEPT ![c.candidates[c.attempt + 1]] =
                    Append(@, <<d, c.attempt + 1>>)]

(* _record_download_attempt; its failure is logged and otherwise ignored. *)
Recorded(d, s, err) ==
    health' = IF err = "record" THEN health
              ELSE [health EXCEPT ![CurrentNode(d)] = s]

Flushed(d, c) == metered' = [metered EXCEPT ![d] = @ + c.unflushed]

(* Fault: the final answer leaves the last chunks unmetered. *)
FinishUnflushed(d, c, final) ==
    /\ UNCHANGED metered
    /\ answer' = [answer EXCEPT ![d] = final]
    /\ ctx' = [ctx EXCEPT ![d] = NoCtx]

(* _flush_transfer_meter, the final answer and _finish_download_transfer *)
Finish(d, c, final) ==
    /\ Flushed(d, c)
    /\ answer' = [answer EXCEPT ![d] = final]
    /\ ctx' = [ctx EXCEPT ![d] = NoCtx]

(* _client_download_begin once the token is found valid *)
DownloadBegin(d) ==
    /\ client[d] = "idle"
    /\ \E online \in SUBSET Nodes : \E q \in CandidateLists(online) :
         IF q = <<>>
         THEN /\ client' = [client EXCEPT ![d] = "failed"]
              /\ UNCHANGED <<ctx, toNode>>
         ELSE /\ client' = [client EXCEPT ![d] = "waiting"]
              /\ Asked(d, [NoCtx EXCEPT !.open = TRUE, !.candidates = q])
    /\ UNCHANGED <<answer, sent, dropped, metered, health, toServer, nodeVars, disturbances>>

(* _start_next_download_attempt after a failure s of the current one.  When *)
(* the flush of the last one fails, the handler ends with the attempt still *)
(* current and no longer in node_transfer_index; the timeout tries again.   *)
FailAttempt(d, c, s, err) ==
    /\ Calls({"record", "flush"}, err)
    /\ Recorded(d, s, err)
    /\ IF c.attempt < Len(c.candidates)
       THEN err # "flush" /\ Asked(d, c) /\ UNCHANGED <<answer, metered>>
       ELSE /\ UNCHANGED toNode
            /\ IF err = "flush"
               THEN /\ c.unflushed > 0
                    /\ ctx' = [ctx EXCEPT ![d] = [c EXCEPT !.indexed = FALSE]]
                    /\ UNCHANGED <<answer, metered>>
               ELSE Finish(d, c, "failed")
    /\ UNCHANGED <<sent, dropped, nodeVars, client>>

-----------------------------------------------------------------------------
(* Fault: frames are accepted whichever attempt they answer. *)
CurrentTransfer(d, a) == ctx[d].open /\ ctx[d].indexed

(* accepts_frame through node_transfer_index: frames of an earlier attempt  *)
(* and of ended transfers are dropped.                                      *)
Current(d, a) == ctx[d].open /\ ctx[d].indexed /\ a = ctx[d].attempt

Receive(n) ==
    /\ toServer[n] # <<>>
    /\ toServer' = [toServer EXCEPT ![n] = Tail(@)]

Ignored(f) ==
    /\ ~Current(f.d, f.a)
    /\ UNCHANGED <<serverVars, client, toNode, nodeVars, disturbances>>

(* stream_object_ready: an error means the object is not there, another     *)
(* total_chunks that it is not the same object.                             *)
StreamObjectReady(n, err) ==
    /\ Receive(n)
    /\ LET f == Head(toServer[n]) IN
       /\ f.kind = "ready"
       /\ \/ err = "none" /\ Ignored(f)
          \/ /\ Current(f.d, f.a)
             /\ \/ ~f.ok /\ FailAttempt(f.d, ctx[f.d], "missing", err)
                \/ f.ok /\ f.chunk # Total /\ FailAttempt(f.d, ctx[f.d], "corrupt", err)
                \/ /\ f.ok /\ f.chunk = Total /\ err = "none"
                   /\ UNCHANGED <<serverVars, client, toNode, nodeVars, disturbances>>

(* observe_chunk *)
Observed(c, chunk) ==
    [c EXCEPT !.got = @ \cup {chunk}, !.attemptGot = @ \cup {chunk}]

(* Fault: only downloads that ended count against the limit. *)
UsedByEnded == TotalOf([d \in Transfers |-> IF ctx[d].open THEN 0 ELSE metered[d]])

Used == TotalOf(metered)

(* A new chunk is forwarded if check_cap_allow_send finds room for it in    *)
(* what transfer_events say; otherwise the meter is flushed and the         *)
(* download ends.  When the check, or that flush, fails, the handler ends   *)
(* without an answer: the transfer goes on, and the chunk, in got already,  *)
(* is never forwarded.                                                      *)
ForwardNew(d, c, chunk, err) ==
    /\ Calls({"check", "flush"}, err)
    /\ UNCHANGED <<health, toNode, nodeVars, client>>
    /\ LET more == [c EXCEPT !.unflushed = @ + 1] IN
       \/ /\ \/ err = "check"
             \/ err = "flush" /\ Used >= DailyLimit /\ c.unflushed > 0
          /\ ctx' = [ctx EXCEPT ![d] = c]
          /\ dropped' = [dropped EXCEPT ![d] = @ \cup {chunk}]
          /\ UNCHANGED <<sent, metered, answer>>
       \/ /\ err = "none" /\ Used >= DailyLimit
          /\ Finish(d, c, "cap_reached")
          /\ UNCHANGED <<sent, dropped>>
       \/ /\ err # "check" /\ Used < DailyLimit
          /\ sent' = [sent EXCEPT ![d][chunk] = @ + 1]
          /\ UNCHANGED <<answer, dropped>>
          /\ IF more.unflushed >= FlushChunks /\ err = "none"
             THEN /\ Flushed(d, more)
                  /\ ctx' = [ctx EXCEPT ![d] = [more EXCEPT !.unflushed = 0]]
             ELSE /\ err = "flush" => more.unflushed >= FlushChunks
                  /\ ctx' = [ctx EXCEPT ![d] = more]
                  /\ UNCHANGED metered

(* _handle_node_stream *)
NodeStream(n, err) ==
    /\ Receive(n)
    /\ LET f == Head(toServer[n])
           c == ctx[f.d] IN
       /\ f.kind = "stream"
       /\ \/ err = "none" /\ Ignored(f)
          \/ /\ Current(f.d, f.a)
             /\ \/ ~f.ok /\ FailAttempt(f.d, c, "corrupt", err)
                \/ f.ok /\ f.chunk \notin Chunks /\ FailAttempt(f.d, c, "suspect", err)
                \/ /\ f.ok /\ f.chunk \in c.got /\ err = "none"
                   /\ ctx' = [ctx EXCEPT ![f.d] = Observed(c, f.chunk)]
                   /\ UNCHANGED <<answer, sent, dropped, metered, health, client,
                                  toNode, nodeVars, disturbances>>
                \/ /\ f.ok /\ f.chunk \in Chunks \ c.got
                   /\ ForwardNew(f.d, Observed(c, f.chunk), f.chunk, err)

(* Fault: a replica is recorded with a status that is none. *)
EndOfStreamIncomplete(d, c, err) ==
    /\ Calls({"record", "flush"}, err)
    /\ Recorded(d, IF c.attemptGot = Chunks THEN "healthy" ELSE "incomplete", err)
    /\ IF err = "flush"
       THEN c.unflushed > 0 /\ UNCHANGED <<ctx, answer, metered>>
       ELSE Finish(d, c, "done")
    /\ UNCHANGED <<sent, dropped, client, toNode, nodeVars>>

(* stream_object_end of a replica that sent all it has: the download is     *)
(* done when nothing is missing over all attempts; the replica is healthy   *)
(* only if it sent every chunk itself.  A failed flush ends the handler     *)
(* before the answer.                                                       *)
EndOfStream(d, c, err) ==
    /\ Calls({"record", "flush"}, err)
    /\ Recorded(d, IF c.attemptGot = Chunks THEN "healthy" ELSE "missing", err)
    /\ IF err = "flush"
       THEN c.unflushed > 0 /\ UNCHANGED <<ctx, answer, metered>>
       ELSE Finish(d, c, "done")
    /\ UNCHANGED <<sent, dropped, client, toNode, nodeVars>>

StreamObjectEnd(n, err) ==
    /\ Receive(n)
    /\ LET f == Head(toServer[n])
           c == ctx[f.d] IN
       /\ f.kind = "end"
       /\ \/ err = "none" /\ Ignored(f)
          \/ /\ Current(f.d, f.a)
             /\ \/ c.got # Chunks /\ FailAttempt(f.d, c, "missing", err)
                \/ c.got = Chunks /\ EndOfStream(f.d, c, err)

(* Fault: a replica is given up only before its first chunk. *)
DownloadTimeoutBeforeData(d, err) ==
    /\ ctx[d].open /\ ctx[d].attemptGot = {}
    /\ FailAttempt(d, ctx[d], "suspect", err)
    /\ UNCHANGED toServer

(* _process_download_timeouts: the current replica has been silent. *)
DownloadTimeout(d, err) ==
    /\ ctx[d].open
    /\ FailAttempt(d, ctx[d], "suspect", err)
    /\ UNCHANGED toServer

-----------------------------------------------------------------------------
(* The chunks of C in the order of their ids *)
InOrder(C) == {q \in [1 .. Cardinality(C) -> C] :
                 \A i, k \in DOMAIN q : i < k => q[i] < q[k]}

(* stream_object_begin on the node: ready, the chunk files that exist, end. *)
(* The hash it sends is computed from the file, so it always fits.          *)
NodeStreamObjectBegin(n) ==
    /\ toNode[n] # <<>>
    /\ toNode' = [toNode EXCEPT ![n] = Tail(@)]
    /\ LET d == Head(toNode[n])[1]
           a == Head(toNode[n])[2]
           F(kind, chunk, ok) ==
               [kind |-> kind, d |-> d, a |-> a, chunk |-> chunk, ok |-> ok]
           total == IF disk[n].meta = "other" THEN Total + 1 ELSE Total
           files == {c \in 0 .. total - 1 : c \in disk[n].chunks \cup {Total}}
       IN IF disk[n].meta = "none"
          THEN /\ toServer' = [toServer EXCEPT ![n] =
                                 Append(@, F("ready", 0, FALSE))]
               /\ UNCHANGED streamed
          ELSE /\ \E ids \in InOrder(files) :
                    toServer' = [toServer EXCEPT ![n] =
                      @ \o (<<F("ready", total, TRUE)>>
                            \o [i \in 1 .. Len(ids) |-> F("stream", ids[i], TRUE)]
                            \o <<F("end", 0, TRUE)>>)]
               /\ streamed' = [streamed EXCEPT ![d][a] = disk[n].chunks]
    /\ UNCHANGED <<serverVars, client, disk, disturbances>>

(* The client after its final answer.  It asks for what it did not get with *)
(* download_resend, which _client_download_resend refuses: the transfer is  *)
(* gone.                                                                    *)
ClientFinishes(d) ==
    /\ client[d] = "waiting"
    /\ answer[d] # "none"
    /\ client' = [client EXCEPT ![d] =
         IF answer[d] # "done" THEN "failed"
         ELSE IF \A c \in Chunks : sent[d][c] > 0 THEN "complete"
         ELSE "resend_refused"]
    /\ UNCHANGED <<serverVars, toNode, toServer, nodeVars, disturbances>>

(* RCVTIMEO of the desktop bridge; nobody tells the DataServer. *)
ClientTimeout(d) ==
    /\ client[d] = "waiting"
    /\ answer[d] = "none"
    /\ Disturbed
    /\ client' = [client EXCEPT ![d] = "failed"]
    /\ UNCHANGED <<serverVars, toNode, toServer, nodeVars>>

(* The DataServer stops and starts again: its memory is gone, and with it   *)
(* the bytes that were forwarded and not yet recorded.                      *)
ServerRestart ==
    /\ Disturbed
    /\ ctx' = [d \in Transfers |-> NoCtx]
    /\ UNCHANGED <<answer, client, sent, dropped, metered, health, toNode, toServer,
                   nodeVars>>

(* A run of frames is lost with a connection or a node's restart. *)
WithoutRun(q) == {SubSeq(q, 1, r[1] - 1) \o SubSeq(q, r[2] + 1, Len(q)) :
                    r \in {r \in (1 .. Len(q)) \X (1 .. Len(q)) : r[1] <= r[2]}}

LoseFrames(n) ==
    /\ Disturbed
    /\ \/ \E q \in WithoutRun(toNode[n]) :
            toNode' = [toNode EXCEPT ![n] = q] /\ UNCHANGED toServer
       \/ \E q \in WithoutRun(toServer[n]) :
            toServer' = [toServer EXCEPT ![n] = q] /\ UNCHANGED toNode
    /\ UNCHANGED <<serverVars, client, nodeVars>>

(* The hash of a chunk does not fit when it arrives. *)
GarbleFrame(n) ==
    /\ Disturbed
    /\ toServer[n] # <<>>
    /\ Head(toServer[n]).kind = "stream"
    /\ toServer' = [toServer EXCEPT ![n][1].ok = FALSE]
    /\ UNCHANGED <<serverVars, client, toNode, nodeVars>>

(* The object directory of a node is damaged: a chunk is gone, everything   *)
(* is gone, or its metadata belong to another upload.                       *)
DamageDisk(n) ==
    /\ Disturbed
    /\ \/ \E c \in disk[n].chunks : disk' = [disk EXCEPT ![n].chunks = @ \ {c}]
       \/ disk' = [disk EXCEPT ![n] = [meta |-> "none", chunks |-> {}]]
       \/ disk[n].meta = "ok" /\ disk' = [disk EXCEPT ![n].meta = "other"]
    /\ UNCHANGED <<serverVars, client, toNode, toServer, streamed>>

Errors == DbErrors \cup {"none"}

Server ==
    \/ \E d \in Transfers : DownloadBegin(d)
    \/ \E n \in Nodes, err \in Errors :
         \/ StreamObjectReady(n, err)
         \/ NodeStream(n, err)
         \/ StreamObjectEnd(n, err)
    \/ \E d \in Transfers, err \in Errors : DownloadTimeout(d, err)

Next ==
    \/ Server
    \/ \E n \in Nodes : NodeStreamObjectBegin(n)
    \/ \E d \in Transfers : ClientFinishes(d) \/ ClientTimeout(d)
    \/ ServerRestart
    \/ \E n \in Nodes : LoseFrames(n) \/ GarbleFrame(n) \/ DamageDisk(n)

Spec == Init /\ [][Next]_vars

(* The loop of serve_forever looks at every transfer at least every 100 ms; *)
(* a replica that stays silent is given up after DOWNLOAD_NODE_TIMEOUT_SEC. *)
FairSpec ==
    /\ Spec
    /\ \A d \in Transfers : WF_vars(DownloadTimeout(d, "none"))

-----------------------------------------------------------------------------
(* A download refines the promise made to its client, for each transfer. *)
Promise(d) == INSTANCE Delivery WITH
                  sent <- sent[d], dropped <- dropped[d],
                  answer <- answer[d]

(* Whatever replica fails at whatever moment, late frames of earlier        *)
(* attempts included: each chunk goes to the client at most once, "done"    *)
(* means that all of them went but the dropped ones, and a chunk is dropped *)
(* only when the limit check or the flush at the limit fails for it.        *)
KeepsPromise ==
    /\ \A d \in Transfers : Promise(d)!Init
    /\ [][\A d \in Transfers :
            /\ [Promise(d)!Next]_<<sent[d], dropped[d], answer[d]>>
            /\ dropped'[d] # dropped[d] =>
                 /\ DbErrors \cap {"check", "flush"} # {}
                 /\ disturbances' = disturbances + 1]_vars

(* mark_replica_healthy after a download: the replica sent every chunk of   *)
(* the object in that very attempt, not another replica for it.             *)
HealthyProvedItself ==
    [][\A n \in Nodes : health'[n] = "healthy" /\ health[n] # "healthy" =>
         \E d \in Transfers : /\ ctx[d].open /\ CurrentNode(d) = n
                              /\ streamed[d][ctx[d].attempt] = Chunks]_vars

Forwarded(d) == TotalOf(sent[d])

(* transfer_events hold exactly what was forwarded once the client has its  *)
(* final answer, however often attempts, flushes and answers failed before. *)
MeteredExactly ==
    \A d \in Transfers : answer[d] # "none" => metered[d] = Forwarded(d)

(* The cap is looked up in transfer_events, which lag behind what was       *)
(* forwarded: downloads in parallel exceed it, each by less than one flush  *)
(* unit, and by one chunk more for each flush that fails.                   *)
CapOverrunBounded ==
    TotalOf([d \in Transfers |-> Forwarded(d)])
        <= DailyLimit + Cardinality(Transfers) * (FlushChunks - 1) + disturbances

(* A transfer never stays in the DataServer's memory for ever. *)
TransferEnds == \A d \in Transfers : ctx[d].open ~> ~ctx[d].open
=============================================================================
