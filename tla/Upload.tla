-------------------------------- MODULE Upload --------------------------------
(***************************************************************************)
(* An upload: the DataServer reserves capacity, opens a session on every   *)
(* chosen node, relays the client's chunks, and commits in two rounds      *)
(* (commit_check, commit_finalize).  A file that fits on no ReplicaCount   *)
(* nodes is cut into parts, each an object with a session of its own, and  *)
(* becomes one item at the end.                                            *)
(*                                                                         *)
(* The DataServer handles one client request at a time and waits inside    *)
(* the handler for the nodes (busy).  The client is the desktop bridge:    *)
(* one request after the other, each given up after RCVTIMEO, none         *)
(* repeated.  Frames to and from a node keep their order; a broken         *)
(* connection loses a run of them.                                         *)
(*                                                                         *)
(* Sizes and capacities count chunks, and are those the server reckons     *)
(* with: it reserves the size of the plain file (server.py:844, 931).  The *)
(* files of a node are larger by a nonce and a tag for every chunk and by  *)
(* meta.json; no limit of the code looks at that, and nothing here does.   *)
(***************************************************************************)
EXTENDS Naturals, Sequences, FiniteSets, FiniteSetsExt, Counters

CONSTANTS
    Uploads,         \* the files uploaded; bounds the uploads
    Nodes,           \* storage nodes in the country of the uploader
    Sizes,           \* file sizes
    Capacity,        \* nodes.capacity_bytes
    ReplicaCount,    \* 3 in _select_3_nodes and _plan_multipart
    MaxDisturbances  \* bounds what happens from outside: see Disturbed

ASSUME UploadAssumption ==
    /\ IsFiniteSet(Uploads) /\ IsFiniteSet(Nodes)
    /\ IsFiniteSet(Sizes) /\ Sizes # {} /\ Sizes \subseteq Nat \ {0}
    /\ Capacity \in [Nodes -> Nat] /\ ReplicaCount \in Nat \ {0}
    /\ MaxDisturbances \in Nat

VARIABLES
    rows,         \* rows[u]: upload_sessions with their objects and replicas
    multipart,    \* multipart_uploads.status of each upload
    item,         \* item[u]: the parts the item of the upload consists of
    reserved,     \* nodes.reserved_bytes
    metered,      \* sessions with an object_lifetimes row and ingress event
    known,        \* DataServer.uploads: sessions that may receive chunks
    busy,         \* the request the DataServer is waiting in
    client,       \* what the client of each upload is doing
    toNode,       \* frames on their way to each node
    toServer,     \* replies on their way from each node
    open,         \* open[n]: node.upload_sessions, in memory
    tmp,          \* tmp[n]: chunk files below the session directories
    stored,       \* stored[n]: objects the node has finalized
    lossy,        \* nodes that restarted, or that frames never reached
    troubled,     \* did anything go wrong outside of this code, or time out?
    disturbances  \* how many outside events there were

dbVars == <<rows, multipart, item, reserved, metered>>
channels == <<toNode, toServer>>
nodeVars == <<open, tmp, stored>>
history == <<lossy, troubled, disturbances>>
vars == <<dbVars, known, busy, client, channels, nodeVars, history>>

Parts == 1 .. Max(Sizes)
Sessions == Uploads \X Parts
Idle == [op |-> "idle"]

(* The row of session s = <<u, i>> and what it says. *)
Row(s) == rows[s[1]][s[2]]
Exists(s) == s[2] \in DOMAIN rows[s[1]]

Frame == [op : {"init_session", "data", "commit_check", "commit_finalize",
                "delete_object", "chunk_ack", "commit_check_reply",
                "commit_finalize_reply"},
          s : Sessions, chunk : Nat, ok : BOOLEAN]
F(op, s, chunk, ok) == [op |-> op, s |-> s, chunk |-> chunk, ok |-> ok]

TypeOK ==
    /\ rows \in [Uploads -> Seq([size : Nat, nodes : SUBSET Nodes,
                                 status : {"UPLOADING", "COMMITTED", "ABORTED"}])]
    /\ multipart \in [Uploads -> {"none", "UPLOADING", "FINALIZED"}]
    /\ item \in [Uploads -> SUBSET Parts]
    /\ reserved \in [Nodes -> Nat]
    /\ metered \subseteq Sessions /\ known \subseteq Sessions
    /\ busy \in {Idle} \cup
         [op : {"chunk_ack", "commit_check_reply", "commit_finalize_reply"},
          s : Sessions, replied : SUBSET Nodes, ok : BOOLEAN]
    /\ client \in [Uploads -> [state : {"idle", "active", "waiting", "done",
                                        "refused", "failed"},
                               size : Nat, part : Nat, chunk : Nat]]
    /\ toNode \in [Nodes -> Seq(Frame)] /\ toServer \in [Nodes -> Seq(Frame)]
    /\ open \in [Nodes -> SUBSET Sessions]
    /\ tmp \in [Nodes -> SUBSET (Sessions \X Nat)]
    /\ stored \in [Nodes -> SUBSET Sessions]
    /\ lossy \subseteq Nodes /\ troubled \in BOOLEAN
    /\ disturbances \in 0 .. MaxDisturbances

Init ==
    /\ rows = [u \in Uploads |-> <<>>]
    /\ multipart = [u \in Uploads |-> "none"]
    /\ item = [u \in Uploads |-> {}]
    /\ reserved = [n \in Nodes |-> 0]
    /\ metered = {} /\ known = {} /\ busy = Idle
    /\ client \in [Uploads -> [state : {"idle"}, size : Sizes, part : {1}, chunk : {1}]]
    /\ toNode = [n \in Nodes |-> <<>>] /\ toServer = [n \in Nodes |-> <<>>]
    /\ open = [n \in Nodes |-> {}] /\ tmp = [n \in Nodes |-> {}]
    /\ stored = [n \in Nodes |-> {}]
    /\ lossy = {} /\ troubled = FALSE /\ disturbances = 0

-----------------------------------------------------------------------------
(* Only so many failures and outside events are followed. *)
Disturbed ==
    /\ disturbances < MaxDisturbances
    /\ disturbances' = disturbances + 1
    /\ troubled' = TRUE

Quiet == UNCHANGED <<troubled, disturbances>>

(* Frame f to each node of ns *)
SentTo(ns, f) == [n \in Nodes |-> IF n \in ns THEN Append(toNode[n], f) ELSE toNode[n]]

(* The request of the client is answered, or its handler goes on waiting. *)
Answer(u, state) == client' = [client EXCEPT ![u].state = state]
Wait(op, s) == busy' = [op |-> op, s |-> s, replied |-> {}, ok |-> TRUE]

Free(n) == Capacity[n] - reserved[n]

(* Fault: what is reserved on a node is not looked at. *)
LargestNodes(online, size) ==
    LET fit == {n \in online : Capacity[n] >= size} IN
    {K \in SUBSET fit : /\ Cardinality(K) = ReplicaCount
                        /\ \A a \in K, b \in fit \ K : Capacity[a] >= Capacity[b]}

(* Fault: a part goes to fewer nodes when there are not enough with room. *)
AvailableNodes(online, size) ==
    LET fit == {n \in online : Free(n) >= size} IN
    {K \in SUBSET fit : Cardinality(K) = Min({ReplicaCount, Cardinality(fit)}) /\ K # {}}

(* _select_3_nodes: online nodes with room, the largest capacity first *)
SelectedNodes(online, size) ==
    LET fit == {n \in online : Free(n) >= size}
        Before(a, b) == \/ Capacity[a] > Capacity[b]
                        \/ Capacity[a] = Capacity[b] /\ Free(a) >= Free(b) IN
    {K \in SUBSET fit : /\ Cardinality(K) = ReplicaCount
                        /\ \A a \in K, b \in fit \ K : Before(a, b)}

(* _plan_multipart: the parts into which size is cut, given the room free.  *)
(* Each part goes to the nodes with most room left and is as large as they  *)
(* allow; without enough nodes there is no plan.                            *)
TopNodes(free) ==
    LET some == {n \in Nodes : free[n] > 0}
        Before(a, b) == \/ free[a] > free[b]
                        \/ free[a] = free[b] /\ Capacity[a] >= Capacity[b] IN
    {K \in SUBSET some : /\ Cardinality(K) = ReplicaCount
                         /\ \A a \in K, b \in some \ K : Before(a, b)}

PartSize(size, free, K) == Min({size} \cup {free[n] : n \in K})

(* What the first k parts of a plan take: on a node, and of the file *)
OnNode(plan, k, n) ==
    TotalOf([i \in 1 .. k |-> IF n \in plan[i].nodes THEN plan[i].size ELSE 0])
Placed(plan, k) == TotalOf([i \in 1 .. k |-> plan[i].size])

Plans(total, room) ==
    LET sets == {K \in SUBSET Nodes : Cardinality(K) = ReplicaCount}
        part == [size : 1 .. total, nodes : sets] IN
    {plan \in UNION {[1 .. k -> part] : k \in 1 .. total} :
        /\ Placed(plan, Len(plan)) = total
        /\ \A i \in DOMAIN plan :
             LET left == total - Placed(plan, i - 1)
                 free == [n \in Nodes |-> room[n] - OnNode(plan, i - 1, n)] IN
             /\ plan[i].nodes \in TopNodes(free)
             /\ plan[i].size = PartSize(left, free, plan[i].nodes)}

(* _reserve of the first k parts of a plan *)
ReservedUpTo(plan, k) == [n \in Nodes |-> reserved[n] + OnNode(plan, k, n)]

(* The init_session frames of the parts S, in their order *)
InitFrames(u, S) ==
    {[k \in 1 .. Cardinality(S) |-> F("init_session", <<u, q[k]>>, 0, TRUE)] :
        q \in {q \in [1 .. Cardinality(S) -> S] :
                 \A j, k \in DOMAIN q : j < k => q[j] < q[k]}}

(* Fault: the release is not limited to the nodes of the part. *)
ReleasedEverywhere(part) == [n \in Nodes |-> reserved[n] - part.size]

(* _release of one part *)
Released(part) ==
    [n \in Nodes |-> IF n \notin part.nodes THEN reserved[n]
                     ELSE IF reserved[n] < part.size THEN 0
                     ELSE reserved[n] - part.size]

(* The memory of a DataServer that stops and starts again *)
Forgotten == known' = {} /\ busy' = Idle

-----------------------------------------------------------------------------
(* The handlers of the DataServer, each with the client's next request.     *)

(* _client_init_upload.  Every part is reserved in one transaction and      *)
(* recorded in the next; k of these are done when the server stops.         *)
InitUpload(u) ==
    /\ client[u].state = "idle" /\ busy = Idle
    /\ \E online \in SUBSET Nodes :
         LET size == client[u].size
             whole == {<<[size |-> size, nodes |-> K]>> : K \in SelectedNodes(online, size)}
             free == [n \in Nodes |-> IF n \in online THEN Free(n) ELSE 0]
             plans == IF whole # {} THEN whole ELSE Plans(size, free) IN
         \/ /\ plans = {} /\ Answer(u, "refused") /\ Quiet
            /\ UNCHANGED <<rows, multipart, reserved, known, busy, toNode>>
         \/ \E plan \in plans : \E k \in 0 .. 2 * Len(plan) :
              LET made == 1 .. k \div 2
                  On(n) == {i \in made : n \in plan[i].nodes} IN
              /\ multipart' = [multipart EXCEPT ![u] =
                                 IF plan \in whole THEN "none" ELSE "UPLOADING"]
              /\ reserved' = ReservedUpTo(plan, (k + 1) \div 2)
              /\ rows' = [rows EXCEPT ![u] =
                            [i \in made |-> [size |-> plan[i].size, nodes |-> plan[i].nodes,
                                             status |-> "UPLOADING"]]]
              /\ \E inits \in [Nodes -> UNION {InitFrames(u, S) : S \in SUBSET made}] :
                   /\ \A n \in Nodes : inits[n] \in InitFrames(u, On(n))
                   /\ toNode' = [n \in Nodes |-> toNode[n] \o inits[n]]
              /\ \/ k = 2 * Len(plan) /\ Answer(u, "active") /\ Quiet
                    /\ known' = known \cup {<<u, i>> : i \in made} /\ UNCHANGED busy
                 \/ k < 2 * Len(plan) /\ Answer(u, "waiting") /\ Disturbed /\ Forgotten
    /\ UNCHANGED <<item, metered, toServer, nodeVars, lossy>>

(* The client sends the next chunk: _client_chunk up to its wait for an ack *)
ClientChunk(u) ==
    LET s == <<u, client[u].part>> IN
    /\ client[u].state = "active" /\ busy = Idle
    /\ Exists(s) /\ client[u].chunk <= Row(s).size
    /\ IF s \in known
       THEN /\ toNode' = SentTo(Row(s).nodes, F("data", s, client[u].chunk, TRUE))
            /\ Wait("chunk_ack", s) /\ Answer(u, "waiting")
       ELSE Answer(u, "failed") /\ UNCHANGED <<toNode, busy>>
    /\ Quiet /\ UNCHANGED <<dbVars, known, toServer, nodeVars, lossy>>

(* _client_commit up to its first wait; the session is read from the        *)
(* database, so a restarted server accepts it too.                          *)
ClientCommit(u) ==
    LET s == <<u, client[u].part>> IN
    /\ client[u].state = "active" /\ busy = Idle
    /\ Exists(s) /\ client[u].chunk > Row(s).size
    /\ toNode' = SentTo(Row(s).nodes, F("commit_check", s, 0, TRUE))
    /\ Wait("commit_check_reply", s) /\ Answer(u, "waiting")
    /\ Quiet /\ UNCHANGED <<dbVars, known, toServer, nodeVars, lossy>>

(* _client_commit_multipart *)
ClientCommitMultipart(u) ==
    /\ client[u].state = "active" /\ busy = Idle
    /\ client[u].part > Len(rows[u])
    /\ IF \A i \in DOMAIN rows[u] : rows[u][i].status = "COMMITTED"
       THEN /\ item' = [item EXCEPT ![u] = DOMAIN rows[u]]
            /\ multipart' = [multipart EXCEPT ![u] = "FINALIZED"]
            /\ Answer(u, "done")
       ELSE Answer(u, "failed") /\ UNCHANGED <<item, multipart>>
    /\ Quiet /\ UNCHANGED <<rows, reserved, metered, known, busy, channels, nodeVars, lossy>>

(* A handler ends and answers its client, unless the client has gone. *)
Ends(u, c) ==
    /\ busy' = Idle
    /\ client' = IF client[u].state = "waiting" THEN [client EXCEPT ![u] = c] ELSE client

(* A client that was answered goes on with this chunk. *)
GoesOn(c, part, chunk) ==
    [state |-> "active", size |-> c.size, part |-> part, chunk |-> chunk]

(* Fault: ingress is metered before the nodes' replies are judged. *)
AbortMetered(s, late) ==
    /\ metered' = metered \cup {s}
    /\ reserved' = Released(Row(s))
    /\ rows' = [rows EXCEPT ![s[1]][s[2]].status = "ABORTED"]
    /\ toNode' = SentTo(Row(s).nodes, F("delete_object", s, 0, TRUE))
    /\ Ends(s[1], [client[s[1]] EXCEPT !.state = "failed"])
    /\ troubled' = (troubled \/ late)
    /\ UNCHANGED <<multipart, item, known, disturbances, lossy>>

(* commit_finalize failed: release, tell the nodes, record.  The server may *)
(* stop after the first or the second of the three.                         *)
Abort(s, late) ==
    LET u == s[1] IN
    /\ reserved' = Released(Row(s))
    /\ \/ /\ rows' = [rows EXCEPT ![u][s[2]].status = "ABORTED"]
          /\ toNode' = SentTo(Row(s).nodes, F("delete_object", s, 0, TRUE))
          /\ Ends(u, [client[u] EXCEPT !.state = "failed"])
          /\ troubled' = (troubled \/ late) /\ UNCHANGED <<known, disturbances, lossy>>
       \/ /\ \/ /\ toNode' = SentTo(Row(s).nodes, F("delete_object", s, 0, TRUE))
                /\ UNCHANGED lossy
             \/ lossy' = lossy \cup Row(s).nodes /\ UNCHANGED toNode
          /\ Disturbed /\ Forgotten /\ UNCHANGED <<rows, client>>
    /\ UNCHANGED <<multipart, item, metered>>

(* Fault: a part creates the item as an upload in one piece does. *)
CommitWithItem(s) ==
    LET u == s[1] IN
    /\ rows' = [rows EXCEPT ![u][s[2]].status = "COMMITTED"]
    /\ item' = [item EXCEPT ![u] = DOMAIN rows[u]]
    /\ metered' = metered \cup {s}
    /\ Ends(u, IF s[2] = Len(rows[u]) THEN [client[u] EXCEPT !.state = "done"]
               ELSE GoesOn(client[u], client[u].part + 1, 1))
    /\ UNCHANGED <<multipart, reserved, toNode, known, history>>

(* Every node finalized: one transaction commits the session, and creates   *)
(* the item of an upload in one piece; metering follows in its own.         *)
Commit(s) ==
    LET u == s[1]
        whole == multipart[u] = "none" IN
    /\ rows' = [rows EXCEPT ![u][s[2]].status = "COMMITTED"]
    /\ item' = IF whole THEN [item EXCEPT ![u] = DOMAIN rows[u]] ELSE item
    /\ \/ /\ metered' = metered \cup {s}
          /\ Ends(u, IF whole THEN [client[u] EXCEPT !.state = "done"]
                     ELSE GoesOn(client[u], client[u].part + 1, 1))
          /\ Quiet /\ UNCHANGED known
       \/ Disturbed /\ Forgotten /\ UNCHANGED <<metered, client>>
    /\ UNCHANGED <<multipart, reserved, toNode, lossy>>

-----------------------------------------------------------------------------
(* The waits inside the handlers: frames nobody waits for are dispatched    *)
(* (an upload's are ignored).                                               *)
Taken(n) ==
    /\ toServer[n] # <<>>
    /\ toServer' = [toServer EXCEPT ![n] = Tail(@)]

(* Fault: any reply of the session counts as the one waited for. *)
AwaitedAnyReply(n) == busy # Idle /\ Head(toServer[n]).s = busy.s

Awaited(n) ==
    /\ busy # Idle
    /\ Head(toServer[n]).op = busy.op /\ Head(toServer[n]).s = busy.s

Replied(n) ==
    [busy EXCEPT !.replied = @ \cup {n}, !.ok = @ /\ Head(toServer[n]).ok]

ReceiveOther(n) ==
    /\ Taken(n) /\ ~Awaited(n)
    /\ UNCHANGED <<dbVars, known, busy, client, toNode, nodeVars, history>>

(* An ack of any node, for any chunk of the session, will do. *)
ReceiveAck(n) ==
    /\ Taken(n) /\ Awaited(n) /\ busy.op = "chunk_ack"
    /\ LET u == busy.s[1] IN
       Ends(u, GoesOn(client[u], client[u].part, client[u].chunk + 1))
    /\ UNCHANGED <<dbVars, known, toNode, nodeVars, history>>

(* The nodes' commit_check replies; ok says that nothing is missing. *)
ReceiveCheck(n) ==
    /\ Taken(n) /\ Awaited(n) /\ busy.op = "commit_check_reply"
    /\ LET b == Replied(n)
           u == b.s[1] IN
       IF b.replied # Row(b.s).nodes
       THEN busy' = b /\ UNCHANGED <<client, toNode>>
       ELSE IF b.ok
       THEN /\ toNode' = SentTo(b.replied, F("commit_finalize", b.s, 0, TRUE))
            /\ Wait("commit_finalize_reply", b.s) /\ UNCHANGED client
       ELSE Ends(u, [client[u] EXCEPT !.state = "failed"]) /\ UNCHANGED toNode
    /\ UNCHANGED <<dbVars, known, nodeVars, history>>

ReceiveFinalize(n) ==
    /\ Taken(n) /\ Awaited(n) /\ busy.op = "commit_finalize_reply"
    /\ LET b == Replied(n) IN
       \/ /\ b.replied # Row(b.s).nodes /\ busy' = b
          /\ UNCHANGED <<dbVars, known, client, toNode, history>>
       \/ b.replied = Row(b.s).nodes /\ b.ok /\ Commit(b.s)
       \/ b.replied = Row(b.s).nodes /\ ~b.ok /\ Abort(b.s, FALSE)
    /\ UNCHANGED nodeVars

(* Fault: a check given up gives the reservation back. *)
WaitTimeoutReleasing ==
    /\ busy # Idle /\ busy.op = "commit_check_reply"
    /\ Ends(busy.s[1], [client[busy.s[1]] EXCEPT !.state = "failed"])
    /\ reserved' = Released(Row(busy.s))
    /\ troubled' = TRUE
    /\ UNCHANGED <<rows, multipart, item, metered, known, toNode, disturbances,
                   lossy, toServer, nodeVars>>

(* The deadline of a wait.  Chunks and checks given up keep their session   *)
(* and its reservation; a finalize given up aborts it.                      *)
WaitTimeout ==
    /\ busy # Idle
    /\ IF busy.op = "commit_finalize_reply"
       THEN Abort(busy.s, TRUE)
       ELSE /\ Ends(busy.s[1], [client[busy.s[1]] EXCEPT !.state = "failed"])
            /\ troubled' = TRUE
            /\ UNCHANGED <<dbVars, known, toNode, disturbances, lossy>>
    /\ UNCHANGED <<toServer, nodeVars>>

-----------------------------------------------------------------------------
(* A node works through its frames. *)
Got(n, op) ==
    /\ toNode[n] # <<>> /\ Head(toNode[n]).op = op
    /\ toNode' = [toNode EXCEPT ![n] = Tail(@)]

Reply(n, op, s, ok) ==
    toServer' = [toServer EXCEPT ![n] = Append(@, F(op, s, 0, ok))]

(* Fault: one chunk more than there is. *)
ChunksOffByOne(s) == {<<s, c>> : c \in 1 .. Row(s).size + 1}

Chunks(s) == {<<s, c>> : c \in 1 .. Row(s).size}

NodeInitSession(n) ==
    /\ Got(n, "init_session")
    /\ open' = [open EXCEPT ![n] = @ \cup {Head(toNode[n]).s}]
    /\ UNCHANGED <<dbVars, known, busy, client, toServer, tmp, stored, history>>

(* A chunk is acknowledged whatever becomes of it: it is dropped when the   *)
(* session is unknown or the hash is wrong.                                 *)
NodeData(n) ==
    LET f == Head(toNode[n]) IN
    /\ Got(n, "data")
    /\ Reply(n, "chunk_ack", f.s, TRUE)
    /\ \/ Quiet /\ tmp' = IF f.s \in open[n] THEN [tmp EXCEPT ![n] = @ \cup {<<f.s, f.chunk>>}]
                          ELSE tmp
       \/ Disturbed /\ UNCHANGED tmp
    /\ UNCHANGED <<dbVars, known, busy, client, open, stored, lossy>>

(* A node that does not know the session reports nothing missing. *)
NodeCommitCheck(n) ==
    LET s == Head(toNode[n]).s IN
    /\ Got(n, "commit_check")
    /\ Reply(n, "commit_check_reply", s, s \in open[n] => Chunks(s) \subseteq tmp[n])
    /\ UNCHANGED <<dbVars, known, busy, client, nodeVars, history>>

(* _finalize_upload moves the chunks one by one and then writes meta.json.  *)
(* It fails at a chunk that is missing, or when a move or the write fails,  *)
(* and what it moved stays moved; whatever happens the session is gone.     *)
(* Such a remainder of an object is not in stored; delete_object takes it.  *)
(* The chunks it did not reach stay in tmp: nobody sends delete_session.    *)
NodeCommitFinalize(n) ==
    LET s == Head(toNode[n]).s IN
    /\ Got(n, "commit_finalize")
    /\ open' = [open EXCEPT ![n] = @ \ {s}]
    /\ \/ /\ s \notin open[n] /\ Quiet
          /\ Reply(n, "commit_finalize_reply", s, FALSE) /\ UNCHANGED <<stored, tmp>>
       \/ /\ s \in open[n] /\ Chunks(s) \subseteq tmp[n] /\ Quiet
          /\ Reply(n, "commit_finalize_reply", s, TRUE)
          /\ stored' = [stored EXCEPT ![n] = @ \cup {s}]
          /\ tmp' = [tmp EXCEPT ![n] = @ \ Chunks(s)]
       \/ /\ s \in open[n]
          /\ Reply(n, "commit_finalize_reply", s, FALSE) /\ UNCHANGED stored
          /\ \E k \in 0 .. Row(s).size :
               /\ ({s} \X (1 .. k)) \subseteq tmp[n]
               /\ tmp' = [tmp EXCEPT ![n] = @ \ ({s} \X (1 .. k))]
               /\ IF k < Row(s).size /\ <<s, k + 1>> \notin tmp[n] THEN Quiet ELSE Disturbed
    /\ UNCHANGED <<dbVars, known, busy, client, lossy>>

(* Fault: only a session that is still open is erased. *)
NodeDeleteOpenObject(n) ==
    /\ Got(n, "delete_object")
    /\ stored' = IF Head(toNode[n]).s \in open[n]
                 THEN [stored EXCEPT ![n] = @ \ {Head(toNode[n]).s}] ELSE stored
    /\ UNCHANGED <<dbVars, known, busy, client, toServer, open, tmp, history>>

NodeDeleteObject(n) ==
    /\ Got(n, "delete_object")
    /\ stored' = [stored EXCEPT ![n] = @ \ {Head(toNode[n]).s}]
    /\ UNCHANGED <<dbVars, known, busy, client, toServer, open, tmp, history>>

-----------------------------------------------------------------------------
(* What happens from outside *)

(* Frames the server has not handed to a node's machine are lost with it. *)
ServerRestart ==
    /\ Disturbed /\ Forgotten
    /\ \E lost \in SUBSET {n \in Nodes : toNode[n] # <<>>} :
         /\ toNode' = [n \in Nodes |-> IF n \in lost THEN <<>> ELSE toNode[n]]
         /\ lossy' = lossy \cup lost
    /\ UNCHANGED <<dbVars, client, toServer, nodeVars>>

(* upload_sessions of a node are in memory, its chunk files are not. *)
NodeRestart(n) ==
    /\ Disturbed
    /\ open' = [open EXCEPT ![n] = {}]
    /\ toNode' = [toNode EXCEPT ![n] = <<>>]
    /\ toServer' \in {toServer, [toServer EXCEPT ![n] = <<>>]}
    /\ lossy' = lossy \cup {n}
    /\ UNCHANGED <<dbVars, known, busy, client, tmp, stored>>

(* A broken connection loses the frames that were on it. *)
LoseFrames(n) ==
    /\ Disturbed
    /\ \/ toNode[n] # <<>> /\ toNode' = [toNode EXCEPT ![n] = <<>>] /\ UNCHANGED toServer
       \/ toServer[n] # <<>> /\ toServer' = [toServer EXCEPT ![n] = <<>>] /\ UNCHANGED toNode
    /\ lossy' = lossy \cup {n}
    /\ UNCHANGED <<dbVars, known, busy, client, nodeVars>>

(* RCVTIMEO of a client nobody will answer; or the client's process stops. *)
ClientTimeout(u) ==
    /\ client[u].state = "waiting"
    /\ busy # Idle => busy.s[1] # u
    /\ Answer(u, "failed")
    /\ UNCHANGED <<dbVars, known, busy, channels, nodeVars, history>>

ClientLeaves(u) ==
    /\ client[u].state \in {"active", "waiting"}
    /\ Disturbed
    /\ Answer(u, "failed")
    /\ UNCHANGED <<dbVars, known, busy, channels, nodeVars, lossy>>

-----------------------------------------------------------------------------
ClientNext(u) ==
    InitUpload(u) \/ ClientChunk(u) \/ ClientCommit(u) \/ ClientCommitMultipart(u)

Receive(n) == ReceiveOther(n) \/ ReceiveAck(n) \/ ReceiveCheck(n) \/ ReceiveFinalize(n)

NodeNext(n) ==
    \/ NodeInitSession(n) \/ NodeData(n) \/ NodeCommitCheck(n)
    \/ NodeCommitFinalize(n) \/ NodeDeleteObject(n)

Next ==
    \/ \E u \in Uploads : ClientNext(u) \/ ClientTimeout(u) \/ ClientLeaves(u)
    \/ \E n \in Nodes : Receive(n) \/ NodeNext(n) \/ NodeRestart(n) \/ LoseFrames(n)
    \/ WaitTimeout \/ ServerRestart

Spec == Init /\ [][Next]_vars

-----------------------------------------------------------------------------
Outcome(s) ==
    IF ~Exists(s) THEN "none"
    ELSE [UPLOADING |-> "open", COMMITTED |-> "committed",
          ABORTED |-> "aborted"][Row(s).status]

Chosen(s) == IF Exists(s) THEN Row(s).nodes ELSE {}
Holders(s) == {n \in Nodes : s \in stored[n]}

(* The upload of a part refines the promise AtomicUpload makes for it. *)
Promise(s) == INSTANCE AtomicUpload WITH
                  chosen <- Chosen(s), stored <- Holders(s), outcome <- Outcome(s)

(* Whatever the order of frames, restarts and deadlines: a session commits  *)
(* only while every chosen node holds all of it, it ends once, and no late  *)
(* delete_object takes a copy of what was committed.                        *)
KeepsAtomicity ==
    /\ \A s \in Sessions : Promise(s)!Init
    /\ [][\A s \in Sessions :
            [Promise(s)!Next]_<<Chosen(s), Holders(s), Outcome(s)>>]_vars

SizeOn(n, S) == TotalOf([s \in {s \in S : n \in Row(s).nodes} |-> Row(s).size])

(* reserved_bytes covers what is committed on a node, whatever was aborted  *)
(* next to it, and never exceeds what the node offers, however uploads      *)
(* interleave and whatever the plan of a cut file puts on the same node.    *)
ReservationsSound ==
    \A n \in Nodes :
        /\ SizeOn(n, {s \in Sessions : Outcome(s) = "committed"}) <= reserved[n]
        /\ reserved[n] <= Capacity[n]

(* What a node has of sessions it was not told to erase, open or finalized *)
NodeHolds(n) ==
    {s \in open[n] \cup stored[n] :
        ~ \E i \in DOMAIN toNode[n] :
            toNode[n][i].op = "delete_object" /\ toNode[n][i].s = s}

(* The server's account of a node agrees with the node, as long as that     *)
(* keeps up: a reservation is not given back before the delete_object that  *)
(* makes the node let go of the session is on its way, and room given back  *)
(* is not reserved and used again before the node has worked through it.    *)
(* Sizes are those the server reserves; the node's files are larger.        *)
HeldIsReserved ==
    \A n \in Nodes \ lossy :
        /\ SizeOn(n, NodeHolds(n)) <= reserved[n]
        /\ SizeOn(n, open[n] \cup stored[n]) <= Capacity[n]

(* An item consists of all of its parts, each committed, and they add up to *)
(* the file that was uploaded.                                              *)
ItemComplete ==
    \A u \in Uploads : item[u] # {} =>
        /\ item[u] = DOMAIN rows[u]
        /\ \A i \in item[u] : Outcome(<<u, i>>) = "committed"
        /\ client[u].size = TotalOf([i \in item[u] |-> rows[u][i].size])

(* A copy of an aborted session is on its way out, unless a failure lost    *)
(* the delete_object, which no queue repeats.                               *)
AbortedErased ==
    \A s \in Sessions, n \in Nodes :
        Outcome(s) = "aborted" /\ s \in stored[n] /\ n \notin lossy =>
            \E i \in DOMAIN toNode[n] :
                toNode[n][i].op = "delete_object" /\ toNode[n][i].s = s

(* Nothing but an outside failure or a missed deadline makes an upload      *)
(* fail: neither late acks nor another client's requests in between do.     *)
FailureNeedsCause ==
    (\E u \in Uploads : client[u].state = "failed") => troubled

(* The client's point of view: once it is told that its file is uploaded,   *)
(* there is an item, and ReplicaCount nodes store each part of it - and go  *)
(* on doing so, whatever is lost, restarted or aborted afterwards.          *)
DoneIsStored ==
    \A u \in Uploads : client[u].state = "done" =>
        /\ item[u] # {}
        /\ \A i \in item[u] : Cardinality(Holders(<<u, i>>)) >= ReplicaCount

(* Billing: ingress is charged for committed sessions only, and for all of  *)
(* a file whose client was told that it is uploaded.                        *)
IngressMetered ==
    /\ \A s \in metered : Outcome(s) = "committed"
    /\ \A u \in Uploads : client[u].state = "done" =>
           \A i \in item[u] : <<u, i>> \in metered
=============================================================================
