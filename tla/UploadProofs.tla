----------------------------- MODULE UploadProofs -----------------------------
(***************************************************************************)
(* Uploads are atomic for every number of uploads, nodes and parts and     *)
(* every capacity: a session commits only while every chosen node stores   *)
(* all of it, ends at most once, and no late delete_object takes a copy of *)
(* what was committed.                                                     *)
(*                                                                         *)
(* The reason is that the commit_finalize round of a session is begun at   *)
(* most once (MayFinalize): before it, nothing about the session's end is  *)
(* on its way, and after it nobody waits for the answers.                  *)
(***************************************************************************)
EXTENDS Upload, FiniteSetTheorems, TLAPS

(* What the proof needs of types; parts are not bounded. *)
AnySession == Uploads \X Nat

RowType == [size : Nat, nodes : SUBSET Nodes,
            status : {"UPLOADING", "COMMITTED", "ABORTED"}]

FrameType == [op : {"init_session", "data", "commit_check", "commit_finalize",
                    "delete_object", "chunk_ack", "commit_check_reply",
                    "commit_finalize_reply"},
              s : AnySession, chunk : Nat, ok : BOOLEAN]
Frames == Seq(FrameType)
Rows == Seq(RowType)

WaitType == [op : {"chunk_ack", "commit_check_reply", "commit_finalize_reply"},
             s : AnySession, replied : SUBSET Nodes, ok : BOOLEAN]

ClientType == [state : {"idle", "active", "waiting", "done", "refused", "failed"},
               size : Nat, part : Nat, chunk : Nat]

Typed ==
    /\ rows \in [Uploads -> Rows]
    /\ busy \in {Idle} \cup WaitType
    /\ client \in [Uploads -> ClientType]
    /\ toNode \in [Nodes -> Frames] /\ toServer \in [Nodes -> Frames]
    /\ stored \in [Nodes -> SUBSET AnySession]

Has(q, op, s) == \E k \in 1 .. Len(q) : q[k].op = op /\ q[k].s = s
Confirms(q, s) ==
    \E k \in 1 .. Len(q) : q[k].op = "commit_finalize_reply" /\ q[k].s = s /\ q[k].ok

(* The DataServer waits for a client that waits for it, or that has gone. *)
OneHandler ==
    busy # Idle =>
        LET c == client[busy.s[1]] IN
        /\ Exists(busy.s)
        /\ c.state \in {"waiting", "failed"}
        /\ c.state = "waiting" => c.part = busy.s[2]

BeginsWithNothing ==
    \A u \in Uploads : client[u].state = "idle" => rows[u] = <<>>

(* The commit_finalize round of s is still to come. *)
MayFinalize(s) ==
    \/ client[s[1]].state \in {"idle", "active"} /\ client[s[1]].part <= s[2]
    \/ /\ busy # Idle /\ busy.s[1] = s[1] /\ busy.s[2] <= s[2]
       /\ busy.op = "commit_finalize_reply" => busy.s[2] # s[2]

Finalizing(s) == busy # Idle /\ busy.op = "commit_finalize_reply" /\ busy.s = s

(* Before it, nothing that ends the session is known anywhere. *)
NothingEnded(s) ==
    MayFinalize(s) =>
        /\ ~Finalizing(s)
        /\ Exists(s) => Row(s).status = "UPLOADING"
        /\ \A n \in Nodes : /\ ~Has(toNode[n], "commit_finalize", s)
                            /\ ~Has(toNode[n], "delete_object", s)
                            /\ ~Has(toServer[n], "commit_finalize_reply", s)
                            /\ s \notin stored[n]

(* While it lasts, a confirmation means a stored copy. *)
RepliesTrue(s) ==
    Finalizing(s) =>
        /\ Row(s).status = "UPLOADING"
        /\ busy.ok => \A n \in busy.replied : s \in stored[n]
        /\ \A n \in Nodes : /\ ~Has(toNode[n], "delete_object", s)
                            /\ Confirms(toServer[n], s) => s \in stored[n]

(* Afterwards a committed session is stored and nothing will erase it. *)
CommittedStored(s) ==
    Exists(s) /\ Row(s).status = "COMMITTED" =>
        /\ \A n \in Row(s).nodes : s \in stored[n]
        /\ \A n \in Nodes : ~Has(toNode[n], "delete_object", s)

(* Only chosen nodes are asked to store or to erase. *)
OnlyChosenAsked(s) ==
    \A n \in Nodes :
        Has(toNode[n], "commit_finalize", s) \/ Has(toNode[n], "delete_object", s)
        => Exists(s) /\ n \in Row(s).nodes

SessionInv(s) == /\ NothingEnded(s) /\ RepliesTrue(s)
                 /\ CommittedStored(s) /\ OnlyChosenAsked(s)

Base == Typed /\ OneHandler /\ BeginsWithNothing
AtomicInv == Base /\ \A s \in AnySession : SessionInv(s)

(* Every session takes a step of its promise, or none. *)
StepKept ==
    \A s \in Sessions : [Promise(s)!Next]_<<Chosen(s), Holders(s), Outcome(s)>>

-----------------------------------------------------------------------------
(* Queues *)

LEMMA HeadAndTail ==
    ASSUME NEW q \in Frames, q # <<>>
    PROVE  /\ Head(q) \in FrameType /\ Tail(q) \in Frames
           /\ \A op, s : Has(Tail(q), op, s) => Has(q, op, s)
           /\ \A s : Confirms(Tail(q), s) => Confirms(q, s)
           /\ Has(q, Head(q).op, Head(q).s)
           /\ Head(q).op = "commit_finalize_reply" /\ Head(q).ok => Confirms(q, Head(q).s)
<1>1. Len(q) \in Nat \ {0} /\ Head(q) = q[1] /\ Len(Tail(q)) = Len(q) - 1
      /\ \A k \in 1 .. Len(Tail(q)) : Tail(q)[k] = q[k + 1]
  BY DEF Frames
<1>2. Head(q) \in FrameType /\ Tail(q) \in Frames BY DEF Frames
<1>3. \A k \in 1 .. Len(Tail(q)) : k + 1 \in 1 .. Len(q) BY <1>1
<1>4. 1 \in 1 .. Len(q) BY <1>1
<1> QED BY <1>1, <1>2, <1>3, <1>4 DEF Has, Confirms

LEMMA Appended ==
    ASSUME NEW q \in Frames, NEW f \in FrameType
    PROVE  /\ Append(q, f) \in Frames
           /\ \A op, s : Has(Append(q, f), op, s) <=> Has(q, op, s) \/ (f.op = op /\ f.s = s)
           /\ \A s : Confirms(Append(q, f), s)
                     <=> \/ Confirms(q, s)
                         \/ f.op = "commit_finalize_reply" /\ f.s = s /\ f.ok
<1>1. Append(q, f) \in Frames BY DEF Frames
<1>2. /\ Len(q) \in Nat /\ Len(Append(q, f)) = Len(q) + 1
      /\ Append(q, f)[Len(q) + 1] = f
      /\ \A k \in 1 .. Len(q) : Append(q, f)[k] = q[k]
  BY DEF Frames
<1>3. \A k \in 1 .. Len(q) + 1 : k \in 1 .. Len(q) \/ k = Len(q) + 1 BY <1>2
<1>4. /\ \A k \in 1 .. Len(q) : k \in 1 .. Len(Append(q, f))
      /\ Len(q) + 1 \in 1 .. Len(Append(q, f))
  BY <1>2
<1> QED BY <1>1, <1>2, <1>3, <1>4 DEF Has, Confirms

LEMMA Empty == /\ <<>> \in Frames /\ \A op, s : ~Has(<<>>, op, s)
               /\ \A s : ~Confirms(<<>>, s)
BY DEF Frames, Has, Confirms

(* The frames that matter are no more than before. *)
Fewer ==
    \A n \in Nodes, s \in AnySession :
        /\ \A op \in {"commit_finalize", "delete_object"} :
             Has(toNode'[n], op, s) => Has(toNode[n], op, s)
        /\ Has(toServer'[n], "commit_finalize_reply", s)
             => Has(toServer[n], "commit_finalize_reply", s)
        /\ Confirms(toServer'[n], s) => Confirms(toServer[n], s)

-----------------------------------------------------------------------------
(* A step that neither begins nor answers a commit_finalize round *)
LEMMA Calm ==
    ASSUME AtomicInv, Base', UNCHANGED <<rows, stored>>, Fewer,
           busy' = busy \/ busy' = Idle \/ busy'.op # "commit_finalize_reply",
           \A s \in AnySession : MayFinalize(s)' => MayFinalize(s)
    PROVE  AtomicInv' /\ StepKept
<1>1. \A s \in AnySession : Exists(s)' = Exists(s) /\ Row(s)' = Row(s)
  BY DEF Exists, Row
<1>2. ASSUME NEW s \in AnySession PROVE SessionInv(s)'
  <2>0. SessionInv(s) /\ Exists(s)' = Exists(s) /\ Row(s)' = Row(s) BY <1>1 DEF AtomicInv
  <2>1. Finalizing(s)' => Finalizing(s) /\ busy' = busy BY DEF Finalizing
  <2>2. NothingEnded(s)' BY <2>0, <2>1 DEF SessionInv, NothingEnded, Fewer
  <2>3. RepliesTrue(s)' BY <2>0, <2>1 DEF SessionInv, RepliesTrue, Fewer
  <2>4. CommittedStored(s)' BY <2>0 DEF SessionInv, CommittedStored, Fewer
  <2>5. OnlyChosenAsked(s)' BY <2>0 DEF SessionInv, OnlyChosenAsked, Fewer
  <2> QED BY <2>2, <2>3, <2>4, <2>5 DEF SessionInv
<1>3. StepKept BY DEF StepKept, Chosen, Holders, Outcome, Exists, Row
<1> QED BY <1>2, <1>3 DEF AtomicInv

-----------------------------------------------------------------------------
(* What the steps are made of *)

LEMMA FrameTyped ==
    ASSUME NEW s \in AnySession, NEW op \in {"init_session", "data", "commit_check",
               "commit_finalize", "delete_object", "chunk_ack", "commit_check_reply",
               "commit_finalize_reply"},
           NEW chunk \in Nat, NEW ok \in BOOLEAN
    PROVE  /\ F(op, s, chunk, ok) \in FrameType
           /\ F(op, s, chunk, ok).op = op /\ F(op, s, chunk, ok).s = s
           /\ F(op, s, chunk, ok).ok = ok
BY DEF F, FrameType

LEMMA SentFrames ==
    ASSUME Typed, NEW f \in FrameType, NEW ns
    PROVE  /\ SentTo(ns, f) \in [Nodes -> Frames]
           /\ \A n \in Nodes : \A op, s :
                Has(SentTo(ns, f)[n], op, s)
                <=> Has(toNode[n], op, s) \/ (n \in ns /\ f.op = op /\ f.s = s)
<1>1. ASSUME NEW n \in Nodes
      PROVE  /\ SentTo(ns, f)[n] = IF n \in ns THEN Append(toNode[n], f) ELSE toNode[n]
             /\ toNode[n] \in Frames
  BY DEF SentTo, Typed
<1>2. SentTo(ns, f) \in [Nodes -> Frames] BY <1>1, Appended DEF SentTo
<1>3. ASSUME NEW n \in Nodes, NEW op, NEW s
      PROVE  Has(SentTo(ns, f)[n], op, s)
             <=> Has(toNode[n], op, s) \/ (n \in ns /\ f.op = op /\ f.s = s)
  <2>1. CASE n \in ns BY <1>1, <2>1, Appended
  <2>2. CASE n \notin ns BY <1>1, <2>2
  <2> QED BY <2>1, <2>2
<1> QED BY <1>2, <1>3

(* The DataServer takes a frame. *)
LEMMA TakenFrames ==
    ASSUME Typed, NEW n \in Nodes, Taken(n)
    PROVE  /\ toServer' \in [Nodes -> Frames] /\ Head(toServer[n]) \in FrameType
           /\ \A m \in Nodes : \A op, s : Has(toServer'[m], op, s) => Has(toServer[m], op, s)
           /\ \A m \in Nodes : \A s : Confirms(toServer'[m], s) => Confirms(toServer[m], s)
           /\ Head(toServer[n]).op = "commit_finalize_reply" /\ Head(toServer[n]).ok
                => Confirms(toServer[n], Head(toServer[n]).s)
<1>1. toServer[n] \in Frames /\ toServer[n] # <<>> BY DEF Typed, Taken
<1>2. \A m \in Nodes : toServer'[m] = IF m = n THEN Tail(toServer[n]) ELSE toServer[m]
  BY DEF Typed, Taken
<1>3. toServer' \in [Nodes -> Frames] BY <1>1, HeadAndTail DEF Typed, Taken
<1> QED BY <1>1, <1>2, <1>3, HeadAndTail

(* A node takes a frame. *)
LEMMA GotFrames ==
    ASSUME Typed, NEW n \in Nodes, NEW op, Got(n, op)
    PROVE  /\ toNode' \in [Nodes -> Frames] /\ Head(toNode[n]).s \in AnySession
           /\ \A m \in Nodes : \A o, s : Has(toNode'[m], o, s) => Has(toNode[m], o, s)
           /\ Has(toNode[n], op, Head(toNode[n]).s)
<1>1. toNode[n] \in Frames /\ toNode[n] # <<>> /\ Head(toNode[n]).op = op
  BY DEF Typed, Got
<1>2. \A m \in Nodes : toNode'[m] = IF m = n THEN Tail(toNode[n]) ELSE toNode[m]
  BY DEF Typed, Got
<1>3. toNode' \in [Nodes -> Frames] BY <1>1, HeadAndTail DEF Typed, Got
<1>4. Head(toNode[n]).s \in AnySession BY <1>1, HeadAndTail DEF FrameType
<1> QED BY <1>1, <1>2, <1>3, <1>4, HeadAndTail

(* A node replies. *)
LEMMA RepliedTyped ==
    ASSUME Typed, NEW n \in Nodes, NEW s \in AnySession, NEW ok \in BOOLEAN,
           NEW op \in {"chunk_ack", "commit_check_reply", "commit_finalize_reply"},
           Reply(n, op, s, ok)
    PROVE  toServer' \in [Nodes -> Frames]
<1>1. F(op, s, 0, ok) \in FrameType BY FrameTyped
<1>2. Append(toServer[n], F(op, s, 0, ok)) \in Frames BY <1>1, Appended DEF Typed
<1> QED BY <1>2 DEF Typed, Reply

LEMMA RepliedFrames ==
    ASSUME Typed, NEW n \in Nodes, NEW s \in AnySession, NEW ok \in BOOLEAN,
           NEW op \in {"chunk_ack", "commit_check_reply", "commit_finalize_reply"},
           Reply(n, op, s, ok), NEW m \in Nodes, NEW t
    PROVE  /\ \A o : Has(toServer'[m], o, t)
                     <=> Has(toServer[m], o, t) \/ (m = n /\ o = op /\ t = s)
           /\ Confirms(toServer'[m], t)
              <=> \/ Confirms(toServer[m], t)
                  \/ m = n /\ op = "commit_finalize_reply" /\ t = s /\ ok
<1> DEFINE f == F(op, s, 0, ok)
<1>1. f \in FrameType /\ f.op = op /\ f.s = s /\ f.ok = ok BY FrameTyped
<1>2. /\ toServer' = [toServer EXCEPT ![n] = Append(toServer[n], f)]
      /\ toServer[n] \in Frames
  BY DEF Reply, Typed
<1> HIDE DEF f
<1>3. toServer'[m] = IF m = n THEN Append(toServer[n], f) ELSE toServer[m]
  BY <1>2 DEF Typed
<1> QED BY <1>1, <1>2, <1>3, Appended

-----------------------------------------------------------------------------
(* Steps in which only clients and waits change *)

(* A handler begins to wait for acks or checks. *)
LEMMA WaitBegun ==
    ASSUME AtomicInv, NEW u \in Uploads, client[u].state = "active", busy = Idle,
           Exists(<<u, client[u].part>>), NEW f \in FrameType, NEW ns,
           f.op \notin {"commit_finalize", "delete_object"},
           NEW op \in {"chunk_ack", "commit_check_reply"},
           Wait(op, <<u, client[u].part>>), Answer(u, "waiting"),
           toNode' = SentTo(ns, f), UNCHANGED <<rows, toServer, stored>>
    PROVE  AtomicInv' /\ StepKept
<1> DEFINE s == <<u, client[u].part>>
<1>0. Typed /\ OneHandler /\ BeginsWithNothing /\ client[u] \in ClientType
  BY DEF AtomicInv, Base, Typed
<1>1. s \in AnySession BY <1>0 DEF AnySession, ClientType
<1>2. busy' = [op |-> op, s |-> s, replied |-> {}, ok |-> TRUE] BY DEF Wait
<1>3. busy' \in WaitType /\ busy' # Idle /\ busy'.op = op /\ busy'.s = s
  BY <1>1, <1>2 DEF WaitType, Idle
<1>4. /\ client' \in [Uploads -> ClientType]
      /\ client'[u].state = "waiting" /\ client'[u].part = client[u].part
      /\ \A v \in Uploads \ {u} : client'[v] = client[v]
  BY <1>0 DEF Answer, Typed, ClientType
<1>5. Typed' BY <1>0, <1>3, <1>4, SentFrames DEF Typed
<1>6. OneHandler' BY <1>3, <1>4 DEF OneHandler, Exists
<1>7. BeginsWithNothing' BY <1>0, <1>4 DEF BeginsWithNothing
<1>8. Fewer BY <1>0, SentFrames DEF Fewer, Typed
<1>9. \A t \in AnySession : MayFinalize(t)' => MayFinalize(t)
  BY <1>3, <1>4 DEF MayFinalize, AnySession
<1> QED BY <1>3, <1>5, <1>6, <1>7, <1>8, <1>9, Calm DEF Base

(* A client is answered for good or gives up. *)
LEMMA ClientStops ==
    ASSUME AtomicInv, NEW u \in Uploads, NEW state \in {"done", "refused", "failed"},
           Answer(u, state), busy # Idle /\ busy.s[1] = u => state = "failed",
           UNCHANGED <<rows, busy, toNode, toServer, stored>>
    PROVE  AtomicInv' /\ StepKept
<1>0. Typed /\ OneHandler /\ BeginsWithNothing BY DEF AtomicInv, Base
<1>1. /\ client' \in [Uploads -> ClientType] /\ client'[u].state = state
      /\ \A v \in Uploads \ {u} : client'[v] = client[v]
  BY <1>0 DEF Answer, Typed, ClientType
<1>2. Typed' BY <1>0, <1>1 DEF Typed
<1>3. busy # Idle => busy.s[1] \in Uploads BY <1>0 DEF Typed, WaitType, AnySession
<1>4. OneHandler' BY <1>0, <1>1, <1>3 DEF OneHandler, Exists
<1>5. BeginsWithNothing' BY <1>0, <1>1 DEF BeginsWithNothing
<1>6. Fewer BY DEF Fewer
<1>7. \A t \in AnySession : MayFinalize(t)' => MayFinalize(t)
  BY <1>1 DEF MayFinalize, AnySession
<1> QED BY <1>2, <1>4, <1>5, <1>6, <1>7, Calm DEF Base

(* A handler ends: what its client goes on with. *)
LEMMA ClientAfter ==
    ASSUME Base, busy # Idle, NEW c \in ClientType, Ends(busy.s[1], c),
           c.state \in {"active", "done", "failed"},
           c.state = "active" => c.part >= client[busy.s[1]].part
    PROVE  /\ busy' = Idle /\ client' \in [Uploads -> ClientType]
           /\ \A u \in Uploads : client'[u].state = "idle" => client[u].state = "idle"
           /\ \A t \in AnySession : MayFinalize(t)' => MayFinalize(t) \/ t = busy.s
           /\ \A t \in AnySession : t = busy.s /\ MayFinalize(t)'
                                   => c.state = "active" /\ c.part <= t[2]
<1>0. /\ Typed /\ OneHandler /\ busy.s \in AnySession /\ busy.s[1] \in Uploads
      /\ busy.s[2] \in Nat
  BY DEF Base, Typed, WaitType, AnySession
<1> DEFINE u == busy.s[1]
<1>1. /\ busy' = Idle
      /\ client' = IF client[u].state = "waiting" THEN [client EXCEPT ![u] = c] ELSE client
  BY DEF Ends
<1>2. client' \in [Uploads -> ClientType] BY <1>0, <1>1 DEF Typed
<1>3. \A v \in Uploads : client'[v].state = "idle" => client[v].state = "idle"
  BY <1>0, <1>1 DEF Typed
<1>4. ASSUME NEW t \in AnySession, MayFinalize(t)'
      PROVE  /\ client'[t[1]].state \in {"idle", "active"} /\ client'[t[1]].part <= t[2]
             /\ t[1] \in Uploads /\ t[2] \in Nat
  BY <1>1, <1>4 DEF MayFinalize, AnySession
<1>5. ASSUME NEW t \in AnySession, MayFinalize(t)' PROVE MayFinalize(t) \/ t = busy.s
  <2>1. CASE client'[t[1]] = client[t[1]] BY <1>4, <1>5, <2>1 DEF MayFinalize
  <2>2. CASE t[1] = u /\ client[u].state = "waiting" /\ client'[u] = c
    <3>1. c.state = "active" /\ c.part <= t[2] BY <1>4, <1>5, <2>2
    <3>2. client[u].part = busy.s[2] BY <1>0, <2>2 DEF OneHandler
    <3>3. c.part \in Nat /\ busy.s[2] <= t[2] BY <1>0, <1>4, <1>5, <3>1, <3>2 DEF ClientType
    <3>4. CASE busy.s[2] = t[2] BY <1>0, <1>5, <2>2, <3>4 DEF AnySession
    <3>5. CASE busy.s[2] # t[2] BY <2>2, <3>3, <3>5 DEF MayFinalize
    <3> QED BY <3>4, <3>5
  <2> QED BY <1>0, <1>1, <1>4, <1>5, <2>1, <2>2 DEF Typed
<1>6. \A t \in AnySession : t = busy.s /\ MayFinalize(t)' => c.state = "active" /\ c.part <= t[2]
  BY <1>0, <1>1, <1>4 DEF OneHandler, Typed
<1> QED BY <1>1, <1>2, <1>3, <1>5, <1>6

(* A handler ends without having committed or aborted anything. *)
LEMMA HandlerGivesUp ==
    ASSUME AtomicInv, busy # Idle, busy.op # "commit_finalize_reply",
           NEW c \in ClientType, Ends(busy.s[1], c), c.state \in {"active", "failed"},
           c.state = "active" => c.part = client[busy.s[1]].part,
           UNCHANGED <<rows, toNode, stored>>, toServer' \in [Nodes -> Frames], Fewer
    PROVE  AtomicInv' /\ StepKept
<1>0. Base /\ Typed /\ BeginsWithNothing /\ busy.s \in AnySession /\ busy.s[1] \in Uploads
  BY DEF AtomicInv, Base, Typed, WaitType, AnySession
<1>1. client[busy.s[1]] \in ClientType BY <1>0 DEF Typed
<1>2. c.state = "active" => c.part >= client[busy.s[1]].part BY <1>1 DEF ClientType
<1>3. /\ busy' = Idle /\ client' \in [Uploads -> ClientType]
      /\ \A u \in Uploads : client'[u].state = "idle" => client[u].state = "idle"
      /\ \A t \in AnySession : MayFinalize(t)' => MayFinalize(t) \/ t = busy.s
  BY <1>0, <1>2, ClientAfter
<1>4. MayFinalize(busy.s) BY <1>0 DEF MayFinalize, AnySession
<1>5. Typed' /\ OneHandler' /\ BeginsWithNothing'
  BY <1>0, <1>3 DEF Typed, OneHandler, BeginsWithNothing
<1> QED BY <1>3, <1>4, <1>5, Calm DEF Base

(* The node hears something that is no commit_finalize or delete_object. *)
LEMMA NodeCalm ==
    ASSUME AtomicInv, NEW n \in Nodes,
           NEW op \in {"init_session", "data", "commit_check"}, Got(n, op),
           UNCHANGED <<rows, busy, client, stored>>,
           \/ UNCHANGED toServer
           \/ \E ok \in BOOLEAN, o \in {"chunk_ack", "commit_check_reply"} :
                Reply(n, o, Head(toNode[n]).s, ok)
    PROVE  AtomicInv' /\ StepKept
<1>0. Typed /\ OneHandler /\ BeginsWithNothing BY DEF AtomicInv, Base
<1>1. /\ toNode' \in [Nodes -> Frames] /\ Head(toNode[n]).s \in AnySession
      /\ \A m \in Nodes : \A o, s : Has(toNode'[m], o, s) => Has(toNode[m], o, s)
  BY <1>0, GotFrames
<1>2. /\ toServer' \in [Nodes -> Frames]
      /\ \A m \in Nodes : \A s : /\ Has(toServer'[m], "commit_finalize_reply", s)
                                    => Has(toServer[m], "commit_finalize_reply", s)
                                 /\ Confirms(toServer'[m], s) => Confirms(toServer[m], s)
  <2>1. CASE UNCHANGED toServer BY <1>0, <2>1 DEF Typed
  <2>2. ASSUME NEW ok \in BOOLEAN, NEW o \in {"chunk_ack", "commit_check_reply"},
               Reply(n, o, Head(toNode[n]).s, ok)
        PROVE  <1>2!1 /\ <1>2!2
    <3> DEFINE s == Head(toNode[n]).s
    <3>0. /\ s \in AnySession /\ Reply(n, o, s, ok)
          /\ o \in {"chunk_ack", "commit_check_reply", "commit_finalize_reply"}
      BY <1>1, <2>2
    <3> HIDE DEF s
    <3>1. toServer' \in [Nodes -> Frames] BY <1>0, <3>0, RepliedTyped
    <3>2. o # "commit_finalize_reply" OBVIOUS
    <3>3. ASSUME NEW m \in Nodes, NEW t, Has(toServer'[m], "commit_finalize_reply", t)
          PROVE  Has(toServer[m], "commit_finalize_reply", t)
      BY <1>0, <3>0, <3>2, <3>3, RepliedFrames
    <3>4. ASSUME NEW m \in Nodes, NEW t, Confirms(toServer'[m], t)
          PROVE  Confirms(toServer[m], t)
      BY <1>0, <3>0, <3>2, <3>4, RepliedFrames
    <3> QED BY <3>1, <3>3, <3>4
  <2> QED BY <2>1, <2>2
<1>3. Fewer BY <1>1, <1>2 DEF Fewer
<1>4. Typed' /\ OneHandler' /\ BeginsWithNothing'
  BY <1>0, <1>1, <1>2 DEF Typed, OneHandler, Exists, BeginsWithNothing
<1> QED BY <1>3, <1>4, Calm DEF Base, MayFinalize

-----------------------------------------------------------------------------
(* The commit_finalize round *)

(* Every node has everything: the round begins. *)
LEMMA RoundBegun ==
    ASSUME AtomicInv, NEW n \in Nodes, Taken(n), busy # Idle,
           busy.op = "commit_check_reply", NEW ns, ns = Row(busy.s).nodes,
           toNode' = SentTo(ns, F("commit_finalize", busy.s, 0, TRUE)),
           Wait("commit_finalize_reply", busy.s), UNCHANGED <<rows, client, stored>>
    PROVE  AtomicInv' /\ StepKept
<1> DEFINE s == busy.s
           f == F("commit_finalize", s, 0, TRUE)
<1>0. /\ Typed /\ OneHandler /\ BeginsWithNothing
      /\ s \in AnySession /\ s[1] \in Uploads /\ s[2] \in Nat /\ Exists(s)
  BY DEF AtomicInv, Base, Typed, WaitType, AnySession, OneHandler
<1>1. /\ f \in FrameType /\ f.op = "commit_finalize" /\ f.s = s
      /\ toNode' = SentTo(ns, f)
  BY <1>0 DEF F, FrameType
<1> HIDE DEF f
<1>2. busy' = [op |-> "commit_finalize_reply", s |-> s, replied |-> {}, ok |-> TRUE]
  BY DEF Wait
<1>3. /\ busy' \in WaitType /\ busy' # Idle /\ busy'.op = "commit_finalize_reply"
      /\ busy'.s = s /\ busy'.replied = {}
  BY <1>0, <1>2 DEF WaitType, Idle
<1>4. /\ toNode' \in [Nodes -> Frames]
      /\ \A m \in Nodes : \A t : /\ Has(toNode'[m], "commit_finalize", t)
                                    <=> \/ Has(toNode[m], "commit_finalize", t)
                                        \/ m \in ns /\ t = s
                                 /\ Has(toNode'[m], "delete_object", t)
                                    <=> Has(toNode[m], "delete_object", t)
  <2>1. /\ SentTo(ns, f) \in [Nodes -> Frames]
        /\ \A m \in Nodes : \A o, t :
             Has(SentTo(ns, f)[m], o, t)
             <=> Has(toNode[m], o, t) \/ (m \in ns /\ f.op = o /\ f.s = t)
    BY <1>0, <1>1, SentFrames
  <2>2. ASSUME NEW m \in Nodes, NEW t
        PROVE  /\ Has(toNode'[m], "commit_finalize", t)
                  <=> Has(toNode[m], "commit_finalize", t) \/ (m \in ns /\ t = s)
               /\ Has(toNode'[m], "delete_object", t) <=> Has(toNode[m], "delete_object", t)
    <3>1. Has(toNode'[m], "commit_finalize", t)
          <=> Has(toNode[m], "commit_finalize", t) \/ (m \in ns /\ t = s)
      BY <1>1, <2>1
    <3>2. f.op # "delete_object" BY <1>1
    <3>3. Has(toNode'[m], "delete_object", t) <=> Has(toNode[m], "delete_object", t)
      BY <1>1, <2>1, <3>2
    <3> QED BY <3>1, <3>3
  <2> QED BY <1>1, <2>1, <2>2
<1>5. /\ toServer' \in [Nodes -> Frames]
      /\ \A m \in Nodes : \A o, t : Has(toServer'[m], o, t) => Has(toServer[m], o, t)
      /\ \A m \in Nodes : \A t : Confirms(toServer'[m], t) => Confirms(toServer[m], t)
  BY <1>0, TakenFrames
<1>6. Base'
  BY <1>0, <1>3, <1>4, <1>5 DEF Base, Typed, OneHandler, BeginsWithNothing, Exists
<1>7. \A t \in AnySession : MayFinalize(t)' => MayFinalize(t) /\ t # s
  BY <1>0, <1>3 DEF MayFinalize, OneHandler, AnySession
<1>8. MayFinalize(s) BY <1>0 DEF MayFinalize
<1>9. ASSUME NEW t \in AnySession PROVE SessionInv(t)'
  <2>0. SessionInv(t) /\ Exists(t)' = Exists(t) /\ Row(t)' = Row(t)
    BY DEF AtomicInv, Exists, Row
  <2>1. Finalizing(t)' <=> t = s BY <1>3 DEF Finalizing
  <2>2. NothingEnded(t)'
    BY <1>4, <1>5, <1>7, <2>0, <2>1 DEF SessionInv, NothingEnded
  <2>3. RepliesTrue(t)'
    <3> SUFFICES ASSUME t = s PROVE RepliesTrue(t)'
      BY <2>1 DEF RepliesTrue
    <3>1. /\ Row(s).status = "UPLOADING"
          /\ \A m \in Nodes : /\ ~Has(toNode[m], "delete_object", s)
                              /\ ~Has(toServer[m], "commit_finalize_reply", s)
      BY <1>0, <1>8, <2>0 DEF SessionInv, NothingEnded
    <3>2. \A m \in Nodes : ~Confirms(toServer[m], s) BY <3>1 DEF Confirms, Has
    <3> QED BY <1>3, <1>4, <1>5, <2>0, <3>1, <3>2 DEF RepliesTrue
  <2>4. CommittedStored(t)' BY <1>4, <2>0 DEF SessionInv, CommittedStored
  <2>5. OnlyChosenAsked(t)' BY <1>0, <1>4, <2>0 DEF SessionInv, OnlyChosenAsked
  <2> QED BY <2>2, <2>3, <2>4, <2>5 DEF SessionInv
<1>10. StepKept BY DEF StepKept, Chosen, Holders, Outcome, Exists, Row
<1> QED BY <1>6, <1>9, <1>10 DEF AtomicInv

(* One of the answers, but not the last *)
LEMMA AnswerCounted ==
    ASSUME AtomicInv, NEW n \in Nodes, Taken(n), Awaited(n),
           busy.op = "commit_finalize_reply", busy' = Replied(n),
           UNCHANGED <<rows, client, toNode, stored>>
    PROVE  AtomicInv' /\ StepKept
<1> DEFINE s == busy.s
           ok == Head(toServer[n]).ok
<1>0. /\ Typed /\ OneHandler /\ BeginsWithNothing /\ busy \in WaitType
      /\ s \in AnySession /\ busy # Idle
  BY DEF AtomicInv, Base, Typed, WaitType, Awaited
<1>1. /\ toServer' \in [Nodes -> Frames] /\ ok \in BOOLEAN
      /\ \A m \in Nodes : \A o, t : Has(toServer'[m], o, t) => Has(toServer[m], o, t)
      /\ \A m \in Nodes : \A t : Confirms(toServer'[m], t) => Confirms(toServer[m], t)
      /\ ok => Confirms(toServer[n], s)
  BY <1>0, TakenFrames DEF Awaited, FrameType
<1>2. /\ busy' \in WaitType /\ busy' # Idle /\ busy'.s = s
      /\ busy'.op = "commit_finalize_reply"
      /\ busy'.replied = busy.replied \cup {n} /\ busy'.ok = (busy.ok /\ ok)
  BY <1>0, <1>1 DEF Replied, WaitType, Idle
<1>3. Base'
  BY <1>0, <1>1, <1>2 DEF Base, Typed, OneHandler, BeginsWithNothing, Exists
<1>4. ASSUME NEW t \in AnySession PROVE SessionInv(t)'
  <2>0. SessionInv(t) /\ Exists(t)' = Exists(t) /\ Row(t)' = Row(t)
    BY DEF AtomicInv, Exists, Row
  <2>1. /\ Finalizing(t)' <=> Finalizing(t)
        /\ MayFinalize(t)' <=> MayFinalize(t)
    BY <1>0, <1>2 DEF Finalizing, MayFinalize
  <2>2. NothingEnded(t)' BY <1>1, <2>0, <2>1 DEF SessionInv, NothingEnded
  <2>3. RepliesTrue(t)'
    BY <1>1, <1>2, <2>0, <2>1 DEF SessionInv, RepliesTrue, Finalizing
  <2>4. CommittedStored(t)' BY <2>0 DEF SessionInv, CommittedStored
  <2>5. OnlyChosenAsked(t)' BY <2>0 DEF SessionInv, OnlyChosenAsked
  <2> QED BY <2>2, <2>3, <2>4, <2>5 DEF SessionInv
<1>5. StepKept BY DEF StepKept, Chosen, Holders, Outcome, Exists, Row
<1> QED BY <1>3, <1>4, <1>5 DEF AtomicInv

LEMMA RowTyped ==
    ASSUME Typed, NEW s \in AnySession, Exists(s)
    PROVE  /\ Row(s).nodes \subseteq Nodes
           /\ Row(s).status \in {"UPLOADING", "COMMITTED", "ABORTED"}
<1>1. s[1] \in Uploads BY DEF AnySession
<1>2. rows[s[1]] \in Seq(RowType) BY <1>1 DEF Typed, Rows
<1>3. \A k \in DOMAIN rows[s[1]] : rows[s[1]][k] \in RowType BY <1>2
<1> QED BY <1>3 DEF Exists, Row, RowType

(* What a session's row says of its outcome *)
LEMMA OutcomeOf ==
    ASSUME NEW s
    PROVE  /\ ~Exists(s) => Outcome(s) = "none"
           /\ Exists(s) /\ Row(s).status = "UPLOADING" => Outcome(s) = "open"
           /\ Exists(s) /\ Row(s).status = "COMMITTED" => Outcome(s) = "committed"
           /\ Exists(s) /\ Row(s).status = "ABORTED" => Outcome(s) = "aborted"
BY DEF Outcome

(* A session is recorded as ended. *)
LEMMA RowEnded ==
    ASSUME Typed, NEW s \in AnySession, Exists(s), NEW status \in {"COMMITTED", "ABORTED"},
           rows' = [rows EXCEPT ![s[1]][s[2]].status = status]
    PROVE  /\ rows' \in [Uploads -> Rows]
           /\ \A u \in Uploads : /\ rows[u] = <<>> => rows'[u] = <<>>
                                /\ DOMAIN rows'[u] = DOMAIN rows[u]
           /\ \A t \in AnySession :
                /\ Exists(t)' <=> Exists(t)
                /\ Exists(t) => /\ Row(t)'.nodes = Row(t).nodes
                                /\ Row(t)'.size = Row(t).size
                                /\ Row(t)'.status = IF t = s THEN status ELSE Row(t).status
<1> DEFINE u == s[1]
           i == s[2]
           r == [rows[u][i] EXCEPT !.status = status]
<1>0. u \in Uploads /\ i \in Nat /\ s = <<u, i>> BY DEF AnySession
<1>1. /\ rows[u] \in Seq(RowType) /\ i \in 1 .. Len(rows[u]) /\ DOMAIN rows[u] = 1 .. Len(rows[u])
  BY <1>0 DEF Typed, Rows, Exists
<1>2. rows[u][i] \in RowType BY <1>1
<1>3. r \in RowType /\ r.status = status /\ r.nodes = rows[u][i].nodes /\ r.size = rows[u][i].size
  BY <1>2 DEF RowType
<1>4. rows' = [rows EXCEPT ![u] = [rows[u] EXCEPT ![i] = r]] BY <1>0 DEF Typed
<1> HIDE DEF r
<1>5. /\ [rows[u] EXCEPT ![i] = r] \in Seq(RowType)
      /\ DOMAIN [rows[u] EXCEPT ![i] = r] = DOMAIN rows[u]
  BY <1>1, <1>3
<1>6. rows' \in [Uploads -> Rows] BY <1>0, <1>4, <1>5 DEF Typed, Rows
<1>7. rows[u] # <<>> BY <1>1
<1>8. \A v \in Uploads : /\ DOMAIN rows'[v] = DOMAIN rows[v]
                         /\ v # u => rows'[v] = rows[v]
  BY <1>0, <1>4, <1>5 DEF Typed
<1>9. \A k \in DOMAIN rows[u] : rows'[u][k] = IF k = i THEN r ELSE rows[u][k]
  BY <1>0, <1>1, <1>4 DEF Typed
<1>10. ASSUME NEW t \in AnySession
       PROVE  /\ Exists(t)' <=> Exists(t)
              /\ Exists(t) => /\ Row(t)'.nodes = Row(t).nodes
                              /\ Row(t)'.size = Row(t).size
                              /\ Row(t)'.status = IF t = s THEN status ELSE Row(t).status
  <2>1. t[1] \in Uploads /\ t[2] \in Nat /\ t = <<t[1], t[2]>> BY DEF AnySession
  <2>2. Exists(t)' <=> Exists(t) BY <1>8, <2>1 DEF Exists
  <2>3. CASE t = s BY <1>0, <1>1, <1>3, <1>9, <2>2, <2>3 DEF Row
  <2>4. CASE t # s
    <3>1. Exists(t) => Row(t)' = Row(t) BY <1>0, <1>8, <1>9, <2>1, <2>4 DEF Row, Exists
    <3> QED BY <2>2, <2>4, <3>1
  <2> QED BY <2>3, <2>4
<1> QED BY <1>6, <1>7, <1>8, <1>10

(* A commit_finalize round is over: it is not begun again. *)
LEMMA RoundOver ==
    ASSUME Base, Finalizing(busy.s), NEW c \in ClientType,
           c.state \in {"active", "done", "failed"},
           c.state = "active" => c.part = client[busy.s[1]].part + 1,
           Ends(busy.s[1], c) \/ (busy' = Idle /\ UNCHANGED client)
    PROVE  /\ busy' = Idle /\ client' \in [Uploads -> ClientType]
           /\ \A u \in Uploads : client'[u].state = "idle" => client[u].state = "idle"
           /\ \A t \in AnySession : MayFinalize(t)' => MayFinalize(t) /\ t # busy.s
<1>0. /\ Typed /\ OneHandler /\ busy # Idle /\ busy.s \in AnySession
      /\ busy.s[1] \in Uploads /\ busy.s[2] \in Nat
  BY DEF Base, Typed, WaitType, AnySession, Finalizing
<1>1. CASE busy' = Idle /\ UNCHANGED client
  <2>1. client[busy.s[1]].state \in {"waiting", "failed"} BY <1>0 DEF OneHandler
  <2>2. \A t \in AnySession : MayFinalize(t)' => MayFinalize(t) /\ t # busy.s
    BY <1>1, <2>1 DEF MayFinalize
  <2> QED BY <1>0, <1>1, <2>2 DEF Typed
<1>2. CASE Ends(busy.s[1], c)
  <2>1. client[busy.s[1]] \in ClientType BY <1>0 DEF Typed
  <2>2. c.state = "active" => c.part >= client[busy.s[1]].part BY <2>1 DEF ClientType
  <2>3. /\ busy' = Idle /\ client' \in [Uploads -> ClientType]
        /\ \A u \in Uploads : client'[u].state = "idle" => client[u].state = "idle"
        /\ \A t \in AnySession : MayFinalize(t)' => MayFinalize(t) \/ t = busy.s
    BY <1>0, <1>2, <2>2, ClientAfter
  <2>4. ASSUME NEW t \in AnySession, t = busy.s, MayFinalize(t)' PROVE FALSE
    <3>1. /\ client'[t[1]].state \in {"idle", "active"} /\ client'[t[1]].part <= t[2]
          /\ t[1] \in Uploads /\ t[2] \in Nat
      BY <2>3, <2>4 DEF MayFinalize, AnySession
    <3>2. client' = IF client[t[1]].state = "waiting"
                    THEN [client EXCEPT ![t[1]] = c] ELSE client
      BY <1>2, <2>4 DEF Ends
    <3>3. client[t[1]].state \in {"waiting", "failed"}
          /\ (client[t[1]].state = "waiting" => client[t[1]].part = t[2])
      BY <1>0, <2>4 DEF OneHandler
    <3>4. client[t[1]].state = "waiting" /\ client'[t[1]] = c
      BY <1>0, <3>1, <3>2, <3>3 DEF Typed
    <3>5. c.part = t[2] + 1 BY <2>4, <3>1, <3>3, <3>4
    <3> QED BY <3>1, <3>4, <3>5
  <2> QED BY <2>3, <2>4
<1> QED BY <1>1, <1>2

(* A commit_finalize round is over, and status is what its session becomes. *)
LEMMA RoundEnds ==
    ASSUME AtomicInv, NEW s, s = busy.s, Finalizing(s),
           NEW status \in {"UPLOADING", "COMMITTED", "ABORTED"},
           status = "COMMITTED" => Row(s).nodes \subseteq Holders(s),
           rows' \in [Uploads -> Rows],
           \A u \in Uploads : rows[u] = <<>> => rows'[u] = <<>>,
           \A t \in AnySession :
             /\ Exists(t)' <=> Exists(t)
             /\ Exists(t) => /\ Row(t)'.nodes = Row(t).nodes
                             /\ Row(t)'.status = IF t = s THEN status ELSE Row(t).status,
           NEW c \in ClientType, c.state \in {"active", "done", "failed"},
           c.state = "active" => c.part = client[s[1]].part + 1,
           Ends(s[1], c) \/ (busy' = Idle /\ UNCHANGED client),
           toServer' \in [Nodes -> Frames], toNode' \in [Nodes -> Frames], UNCHANGED stored,
           \A m \in Nodes : \A o, t : Has(toServer'[m], o, t) => Has(toServer[m], o, t),
           \A m \in Nodes : \A t : Has(toNode'[m], "commit_finalize", t)
                                   => Has(toNode[m], "commit_finalize", t),
           \A m \in Nodes : \A t : Has(toNode'[m], "delete_object", t)
                                   => \/ Has(toNode[m], "delete_object", t)
                                      \/ t = s /\ status # "COMMITTED" /\ m \in Row(s).nodes
    PROVE  AtomicInv' /\ StepKept
<1>0. /\ Base /\ Typed /\ BeginsWithNothing /\ s \in AnySession /\ SessionInv(s) /\ Exists(s)
      /\ Row(s).status = "UPLOADING" /\ \A m \in Nodes : ~Has(toNode[m], "delete_object", s)
  BY DEF AtomicInv, Base, Typed, WaitType, Finalizing, OneHandler, SessionInv, RepliesTrue
<1>1. /\ busy' = Idle /\ client' \in [Uploads -> ClientType]
      /\ \A u \in Uploads : client'[u].state = "idle" => client[u].state = "idle"
      /\ \A t \in AnySession : MayFinalize(t)' => MayFinalize(t) /\ t # s
  BY <1>0, RoundOver
<1>2. Base'
  BY <1>0, <1>1 DEF Base, Typed, OneHandler, BeginsWithNothing
<1>3. ASSUME NEW t \in AnySession PROVE SessionInv(t)'
  <2>0. SessionInv(t) /\ ~Finalizing(t)' BY <1>1 DEF AtomicInv, Finalizing
  <2>1. NothingEnded(t)' BY <1>1, <2>0 DEF SessionInv, NothingEnded
  <2>2. RepliesTrue(t)' BY <2>0 DEF RepliesTrue
  <2>3. CommittedStored(t)'
    <3>1. CASE t = s BY <1>0, <3>1 DEF CommittedStored, Holders
    <3>2. CASE t # s BY <2>0, <3>2 DEF CommittedStored, SessionInv
    <3> QED BY <3>1, <3>2
  <2>4. OnlyChosenAsked(t)' BY <1>0, <2>0 DEF SessionInv, OnlyChosenAsked
  <2> QED BY <2>1, <2>2, <2>3, <2>4 DEF SessionInv
<1>4. ASSUME NEW t \in Sessions
      PROVE  [Promise(t)!Next]_<<Chosen(t), Holders(t), Outcome(t)>>
  <2>0. t \in AnySession BY DEF Sessions, Parts, AnySession
  <2>1. Chosen(t)' = Chosen(t) /\ Holders(t)' = Holders(t)
    BY <2>0 DEF Chosen, Holders
  <2>2. CASE t = s
    <3>1. /\ Outcome(s) = "open" /\ Chosen(s) = Row(s).nodes
          /\ Exists(s)' /\ Row(s)'.status = status
      BY <1>0, OutcomeOf DEF Chosen
    <3>2. CASE status = "UPLOADING" BY <2>1, <2>2, <3>1, <3>2 DEF Outcome
    <3>3. CASE status = "COMMITTED"
      <4>1. Outcome(s)' = "committed" BY <3>1, <3>3 DEF Outcome
      <4> QED BY <2>1, <2>2, <3>1, <3>3, <4>1 DEF Promise!Next, Promise!Commit
    <3>4. CASE status = "ABORTED"
      <4>1. Outcome(s)' = "aborted" BY <3>1, <3>4 DEF Outcome
      <4> QED BY <2>1, <2>2, <3>1, <3>4, <4>1 DEF Promise!Next, Promise!Abort
    <3> QED BY <3>2, <3>3, <3>4
  <2>3. CASE t # s BY <2>0, <2>1, <2>3 DEF Outcome
  <2> QED BY <2>2, <2>3
<1> QED BY <1>2, <1>3, <1>4 DEF AtomicInv, StepKept

(* What a handler leaves to its client *)
LEMMA ClientNextState ==
    ASSUME NEW c \in ClientType
    PROVE  \A state \in {"active", "done", "failed", "waiting"} :
                /\ [c EXCEPT !.state = state] \in ClientType
                /\ [c EXCEPT !.state = state].state = state
<1>1. c.size \in Nat /\ c.part \in Nat /\ c.chunk \in Nat BY DEF ClientType
<1>2. ASSUME NEW state \in {"active", "done", "failed", "waiting"}
      PROVE  /\ [c EXCEPT !.state = state] \in ClientType
             /\ [c EXCEPT !.state = state].state = state
  <2>1. [c EXCEPT !.state = state]
        = [state |-> state, size |-> c.size, part |-> c.part, chunk |-> c.chunk]
    BY DEF ClientType
  <2> QED BY <1>1, <2>1 DEF ClientType
<1> QED BY <1>2

LEMMA ClientGoesOn ==
    ASSUME NEW c \in ClientType, NEW part \in Nat, NEW chunk \in Nat
    PROVE  /\ GoesOn(c, part, chunk) \in ClientType
           /\ GoesOn(c, part, chunk).state = "active" /\ GoesOn(c, part, chunk).part = part
BY DEF GoesOn, ClientType

(* The last answer, and every node finalized *)
LEMMA RoundCommitted ==
    ASSUME AtomicInv, NEW n \in Nodes, Taken(n), Awaited(n),
           busy.op = "commit_finalize_reply", Replied(n).replied = Row(busy.s).nodes,
           Replied(n).ok, Commit(busy.s), UNCHANGED stored
    PROVE  AtomicInv' /\ StepKept
<1> DEFINE s == busy.s
           u == s[1]
<1>0. /\ Typed /\ OneHandler /\ busy \in WaitType /\ s \in AnySession /\ busy # Idle
      /\ Finalizing(s) /\ Exists(s) /\ SessionInv(s) /\ u \in Uploads
  BY DEF AtomicInv, Base, Typed, WaitType, Awaited, Finalizing, OneHandler, AnySession
<1>1. /\ toServer' \in [Nodes -> Frames]
      /\ \A m \in Nodes : \A o, t : Has(toServer'[m], o, t) => Has(toServer[m], o, t)
      /\ Head(toServer[n]).ok => Confirms(toServer[n], s)
  BY <1>0, TakenFrames DEF Awaited
<1>2. /\ Row(s).nodes = busy.replied \cup {n} /\ busy.ok /\ Head(toServer[n]).ok
  BY <1>0 DEF Replied, WaitType
<1>3. Row(s).nodes \subseteq Holders(s)
  BY <1>0, <1>1, <1>2 DEF SessionInv, RepliesTrue, Holders, WaitType
<1>4. /\ rows' = [rows EXCEPT ![s[1]][s[2]].status = "COMMITTED"] /\ UNCHANGED toNode
      /\ \/ Ends(u, [client[u] EXCEPT !.state = "done"])
         \/ Ends(u, GoesOn(client[u], client[u].part + 1, 1))
         \/ busy' = Idle /\ UNCHANGED client
  BY DEF Commit, Forgotten
<1>5. /\ rows' \in [Uploads -> Rows]
      /\ \A v \in Uploads : rows[v] = <<>> => rows'[v] = <<>>
      /\ \A t \in AnySession :
           /\ Exists(t)' <=> Exists(t)
           /\ Exists(t) => /\ Row(t)'.nodes = Row(t).nodes
                           /\ Row(t)'.status = IF t = s THEN "COMMITTED" ELSE Row(t).status
  BY <1>0, <1>4, RowEnded
<1>6. client[u] \in ClientType BY <1>0 DEF Typed
<1>7. PICK c \in ClientType :
        /\ c.state \in {"active", "done", "failed"}
        /\ c.state = "active" => c.part = client[u].part + 1
        /\ Ends(u, c) \/ (busy' = Idle /\ UNCHANGED client)
  <2> DEFINE d == [client[u] EXCEPT !.state = "done"]
             a == GoesOn(client[u], client[u].part + 1, 1)
  <2>1. d \in ClientType /\ d.state = "done" BY <1>6, ClientNextState
  <2>2. a \in ClientType /\ a.state = "active" /\ a.part = client[u].part + 1
    <3>1. client[u].part + 1 \in Nat /\ 1 \in Nat BY <1>6 DEF ClientType
    <3> QED BY <1>6, <3>1 DEF GoesOn, ClientType
  <2>3. Ends(u, d) \/ Ends(u, a) \/ (busy' = Idle /\ UNCHANGED client) BY <1>4
  <2> HIDE DEF d, a
  <2> QED BY <2>1, <2>2, <2>3
<1>8. toNode' \in [Nodes -> Frames] /\ toNode' = toNode BY <1>0, <1>4 DEF Typed
<1> HIDE DEF s, u
<1> QED BY <1>0, <1>1, <1>3, <1>5, <1>7, <1>8, RoundEnds DEF s, u

(* The round failed, by an answer or by its deadline. *)
LEMMA RoundAborted ==
    ASSUME AtomicInv, Finalizing(busy.s), NEW late, Abort(busy.s, late), UNCHANGED stored,
           toServer' \in [Nodes -> Frames],
           \A m \in Nodes : \A o, t : Has(toServer'[m], o, t) => Has(toServer[m], o, t)
    PROVE  AtomicInv' /\ StepKept
<1> DEFINE s == busy.s
           u == s[1]
           f == F("delete_object", s, 0, TRUE)
           ns == Row(s).nodes
           c == [client[u] EXCEPT !.state = "failed"]
<1>0. /\ Typed /\ busy \in WaitType /\ s \in AnySession /\ Exists(s) /\ u \in Uploads
  BY DEF AtomicInv, Base, Typed, WaitType, Finalizing, OneHandler, AnySession
<1>1. /\ f \in FrameType /\ f.op = "delete_object" /\ f.s = s BY <1>0 DEF F, FrameType
<1>2. c \in ClientType /\ c.state = "failed" BY <1>0, ClientNextState DEF Typed
<1>3. /\ \/ rows' = [rows EXCEPT ![s[1]][s[2]].status = "ABORTED"]
         \/ UNCHANGED rows
      /\ toNode' = SentTo(ns, f) \/ UNCHANGED toNode
      /\ Ends(u, c) \/ (busy' = Idle /\ UNCHANGED client)
  BY DEF Abort, Forgotten
<1>4. /\ SentTo(ns, f) \in [Nodes -> Frames]
      /\ \A m \in Nodes : \A o, t :
           Has(SentTo(ns, f)[m], o, t)
           <=> Has(toNode[m], o, t) \/ (m \in ns /\ f.op = o /\ f.s = t)
  BY <1>0, <1>1, SentFrames
<1> HIDE DEF s, u, f, ns, c
<1>5. /\ toNode' \in [Nodes -> Frames]
      /\ \A m \in Nodes : \A o, t : Has(toNode'[m], o, t)
                                    => Has(toNode[m], o, t) \/ (m \in ns /\ f.op = o /\ f.s = t)
  <2>1. CASE toNode' = SentTo(ns, f) BY <1>4, <2>1
  <2>2. CASE UNCHANGED toNode BY <1>0, <2>2 DEF Typed
  <2> QED BY <1>3, <2>1, <2>2
<1>6. f.op # "commit_finalize" BY <1>1
<1>7. /\ \A m \in Nodes : \A t : Has(toNode'[m], "commit_finalize", t)
                                 => Has(toNode[m], "commit_finalize", t)
      /\ \A m \in Nodes : \A t : Has(toNode'[m], "delete_object", t)
                                 => Has(toNode[m], "delete_object", t) \/ (t = s /\ m \in ns)
  BY <1>1, <1>5, <1>6
<1>8. PICK status \in {"UPLOADING", "ABORTED"} :
        /\ rows' \in [Uploads -> Rows]
        /\ \A v \in Uploads : rows[v] = <<>> => rows'[v] = <<>>
        /\ \A t \in AnySession :
             /\ Exists(t)' <=> Exists(t)
             /\ Exists(t) => /\ Row(t)'.nodes = Row(t).nodes
                             /\ Row(t)'.status = IF t = s THEN status ELSE Row(t).status
  <2>1. CASE rows' = [rows EXCEPT ![s[1]][s[2]].status = "ABORTED"]
    <3>1. /\ rows' \in [Uploads -> Rows]
          /\ \A v \in Uploads : rows[v] = <<>> => rows'[v] = <<>>
          /\ \A t \in AnySession :
               /\ Exists(t)' <=> Exists(t)
               /\ Exists(t) => /\ Row(t)'.nodes = Row(t).nodes
                               /\ Row(t)'.status = IF t = s THEN "ABORTED" ELSE Row(t).status
      BY <1>0, <2>1, RowEnded
    <3> QED BY <3>1
  <2>2. CASE UNCHANGED rows
    <3>1. Row(s).status = "UPLOADING"
      BY <1>0 DEF AtomicInv, SessionInv, RepliesTrue, s
    <3>2. /\ rows' \in [Uploads -> Rows]
          /\ \A v \in Uploads : rows[v] = <<>> => rows'[v] = <<>>
      BY <1>0, <2>2 DEF Typed
    <3>3. ASSUME NEW t \in AnySession
          PROVE  /\ Exists(t)' <=> Exists(t)
                 /\ Exists(t) => /\ Row(t)'.nodes = Row(t).nodes
                                 /\ Row(t)'.status = IF t = s THEN "UPLOADING" ELSE Row(t).status
      <4>1. (Exists(t)' <=> Exists(t)) /\ Row(t)' = Row(t) BY <2>2 DEF Exists, Row
      <4> QED BY <3>1, <4>1
    <3> QED BY <3>2, <3>3
  <2> QED BY <1>3, <2>1, <2>2
<1>9. s = busy.s /\ Finalizing(s) /\ u = s[1] /\ ns = Row(s).nodes BY DEF s, u, ns
<1>10. /\ status \in {"UPLOADING", "COMMITTED", "ABORTED"} /\ status # "COMMITTED"
       /\ c.state \in {"active", "done", "failed"} /\ c.state # "active"
  BY <1>2, <1>8
<1> QED BY <1>2, <1>3, <1>5, <1>7, <1>8, <1>9, <1>10, RoundEnds

-----------------------------------------------------------------------------
(* A node stores and erases *)

(* All chunks are moved and the object is stored, or some are and it is not. *)
Finalized(n, s, ok, X) ==
    /\ Got(n, "commit_finalize") /\ Reply(n, "commit_finalize_reply", s, ok)
    /\ open' = [open EXCEPT ![n] = @ \ {s}]
    /\ stored' = IF ok THEN [stored EXCEPT ![n] = @ \cup {s}] ELSE stored
    /\ UNCHANGED tmp \/ tmp' = [tmp EXCEPT ![n] = @ \ X]
    /\ ok => s \in open[n] /\ X = Chunks(s) /\ tmp' = [tmp EXCEPT ![n] = @ \ X]
    /\ UNCHANGED <<dbVars, known, busy, client, lossy>>

LEMMA FinalizeEnds ==
    ASSUME NEW n \in Nodes, NodeCommitFinalize(n), NEW s, s = Head(toNode[n]).s
    PROVE  \E ok \in BOOLEAN, X \in SUBSET ({s} \X Int) : Finalized(n, s, ok, X)
<1> USE DEF Finalized
<1>0. ASSUME NEW k PROVE {s} \X (1 .. k) \in SUBSET ({s} \X Int) OBVIOUS
<1>1. CASE Reply(n, "commit_finalize_reply", s, FALSE) /\ UNCHANGED <<stored, tmp>>
  <2>1. {} \in SUBSET ({s} \X Int) OBVIOUS
  <2> QED BY <1>1, <2>1 DEF NodeCommitFinalize
<1>2. CASE /\ s \in open[n] /\ Reply(n, "commit_finalize_reply", s, TRUE)
           /\ stored' = [stored EXCEPT ![n] = @ \cup {s}]
           /\ tmp' = [tmp EXCEPT ![n] = @ \ Chunks(s)]
  <2>1. Chunks(s) \in SUBSET ({s} \X Int) BY DEF Chunks
  <2> QED BY <1>2, <2>1 DEF NodeCommitFinalize
<1>3. ASSUME NEW k, Reply(n, "commit_finalize_reply", s, FALSE), UNCHANGED stored,
             tmp' = [tmp EXCEPT ![n] = @ \ ({s} \X (1 .. k))]
      PROVE  \E X \in SUBSET ({s} \X Int) : tmp' = [tmp EXCEPT ![n] = @ \ X]
  BY <1>0, <1>3
<1>4. CASE /\ Reply(n, "commit_finalize_reply", s, FALSE) /\ UNCHANGED stored
           /\ \E k : tmp' = [tmp EXCEPT ![n] = @ \ ({s} \X (1 .. k))]
  BY <1>3, <1>4 DEF NodeCommitFinalize
<1> QED BY <1>1, <1>2, <1>4 DEF NodeCommitFinalize

LEMMA NodeCommitFinalizeKeeps ==
    ASSUME AtomicInv, NEW n \in Nodes, NodeCommitFinalize(n)
    PROVE  AtomicInv' /\ StepKept
<1> DEFINE s == Head(toNode[n]).s
<1>0. Typed /\ OneHandler /\ BeginsWithNothing BY DEF AtomicInv, Base
<1>2. PICK ok \in BOOLEAN :
      /\ Got(n, "commit_finalize") /\ Reply(n, "commit_finalize_reply", s, ok)
      /\ stored' = IF ok THEN [stored EXCEPT ![n] = @ \cup {s}] ELSE stored
      /\ UNCHANGED <<rows, busy, client>>
  <2>1. \E ok \in BOOLEAN, X \in SUBSET ({s} \X Int) : Finalized(n, s, ok, X)
    BY FinalizeEnds
  <2> QED BY <2>1 DEF Finalized, dbVars
<1>1. /\ Got(n, "commit_finalize") /\ Reply(n, "commit_finalize_reply", s, ok)
      /\ stored' = IF ok THEN [stored EXCEPT ![n] = @ \cup {s}] ELSE stored
      /\ UNCHANGED <<rows, busy, client>>
  BY <1>2
<1>3. /\ toNode' \in [Nodes -> Frames] /\ s \in AnySession
      /\ \A m \in Nodes : \A o, t : Has(toNode'[m], o, t) => Has(toNode[m], o, t)
      /\ Has(toNode[n], "commit_finalize", s)
  BY <1>0, <1>1, GotFrames
<1> HIDE DEF s
<1>4. toServer' \in [Nodes -> Frames]
  BY <1>0, <1>1, <1>2, <1>3, RepliedTyped
<1>5. \A m \in Nodes : \A t : Has(toServer'[m], "commit_finalize_reply", t)
                              => Has(toServer[m], "commit_finalize_reply", t) \/ t = s
  BY <1>0, <1>1, <1>2, <1>3, RepliedFrames
<1>6. \A m \in Nodes : \A t : Confirms(toServer'[m], t)
                              => Confirms(toServer[m], t) \/ (m = n /\ t = s /\ ok)
  BY <1>0, <1>1, <1>2, <1>3, RepliedFrames
<1>7. /\ stored' \in [Nodes -> SUBSET AnySession]
      /\ \A m \in Nodes : /\ stored[m] \subseteq stored'[m]
                          /\ stored'[m] \subseteq stored[m] \cup {s}
                          /\ m # n => stored'[m] = stored[m]
                          /\ m = n /\ ok => s \in stored'[m]
  BY <1>0, <1>1, <1>3 DEF Typed
<1>8. Base'
  BY <1>0, <1>1, <1>3, <1>4, <1>7 DEF Base, Typed, OneHandler, Exists, BeginsWithNothing
<1>9. /\ SessionInv(s) /\ ~MayFinalize(s) /\ Exists(s) /\ n \in Row(s).nodes
  BY <1>3 DEF AtomicInv, SessionInv, NothingEnded, OnlyChosenAsked
<1>10. ASSUME NEW t \in AnySession PROVE SessionInv(t)'
  <2>0. /\ SessionInv(t) /\ (Exists(t)' <=> Exists(t)) /\ Row(t)' = Row(t)
        /\ MayFinalize(t)' = MayFinalize(t) /\ Finalizing(t)' = Finalizing(t)
        /\ busy' = busy
    BY <1>1 DEF AtomicInv, Exists, Row, MayFinalize, Finalizing
  <2>1. NothingEnded(t)'
    BY <1>3, <1>5, <1>7, <1>9, <2>0 DEF SessionInv, NothingEnded
  <2>2. RepliesTrue(t)'
    BY <1>0, <1>3, <1>6, <1>7, <2>0
    DEF SessionInv, RepliesTrue, Finalizing, Typed, WaitType
  <2>3. CommittedStored(t)'
    <3>1. Exists(t) => Row(t).nodes \subseteq Nodes BY <1>0, RowTyped
    <3> QED BY <1>3, <1>7, <2>0, <3>1 DEF SessionInv, CommittedStored
  <2>4. OnlyChosenAsked(t)' BY <1>3, <2>0 DEF SessionInv, OnlyChosenAsked
  <2> QED BY <2>1, <2>2, <2>3, <2>4 DEF SessionInv
<1>11. ASSUME NEW t \in Sessions
       PROVE  [Promise(t)!Next]_<<Chosen(t), Holders(t), Outcome(t)>>
  <2>0. /\ Exists(t)' = Exists(t) /\ Row(t)' = Row(t) BY <1>1 DEF Exists, Row
  <2>1. Chosen(t)' = Chosen(t) /\ Outcome(t)' = Outcome(t) BY <2>0 DEF Chosen, Outcome
  <2>2. CASE stored' = stored BY <2>1, <2>2 DEF Holders
  <2>3. CASE t # s
    <3>1. Holders(t)' = Holders(t) BY <1>7, <2>3 DEF Holders
    <3> QED BY <2>1, <3>1
  <2>4. CASE stored' # stored /\ t = s
    <3>1. ok BY <1>1, <2>4
    <3>2. Holders(t)' = Holders(t) \cup {n} BY <1>7, <2>4, <3>1 DEF Holders
    <3>3. CASE Row(s).status = "COMMITTED"
      <4>1. n \in Holders(t) BY <1>9, <2>4, <3>3 DEF SessionInv, CommittedStored, Holders
      <4> QED BY <2>1, <3>2, <4>1
    <3>4. CASE Row(s).status # "COMMITTED"
      <4>1. Row(s).status \in {"UPLOADING", "ABORTED"}
        BY <1>0, <1>3, <1>9, <3>4, RowTyped
      <4>2. Outcome(t) \in {"open", "aborted"} BY <1>9, <2>4, <4>1, OutcomeOf
      <4>3. n \in Chosen(t) BY <1>9, <2>4 DEF Chosen
      <4>4. Promise(t)!Store(n) BY <2>1, <3>2, <4>2, <4>3 DEF Promise!Store
      <4> QED BY <4>4 DEF Promise!Next
    <3> QED BY <3>3, <3>4
  <2> QED BY <2>2, <2>3, <2>4
<1> QED BY <1>8, <1>10, <1>11 DEF AtomicInv, StepKept

LEMMA NodeDeleteObjectKeeps ==
    ASSUME AtomicInv, NEW n \in Nodes, NodeDeleteObject(n)
    PROVE  AtomicInv' /\ StepKept
<1> DEFINE s == Head(toNode[n]).s
<1>0. Typed /\ OneHandler /\ BeginsWithNothing BY DEF AtomicInv, Base
<1>1. /\ Got(n, "delete_object") /\ stored' = [stored EXCEPT ![n] = @ \ {s}]
      /\ UNCHANGED <<rows, busy, client, toServer>>
  BY DEF NodeDeleteObject, dbVars
<1>2. /\ toNode' \in [Nodes -> Frames] /\ s \in AnySession
      /\ \A m \in Nodes : \A o, t : Has(toNode'[m], o, t) => Has(toNode[m], o, t)
      /\ Has(toNode[n], "delete_object", s)
  BY <1>0, <1>1, GotFrames
<1> HIDE DEF s
<1>3. /\ stored' \in [Nodes -> SUBSET AnySession]
      /\ \A m \in Nodes, t \in AnySession :
           /\ t \in stored'[m] => t \in stored[m]
           /\ t # s => (t \in stored'[m] <=> t \in stored[m])
      /\ \A m \in Nodes : stored'[m] = IF m = n THEN stored[m] \ {s} ELSE stored[m]
  BY <1>0, <1>1 DEF Typed
<1>4. Base'
  BY <1>0, <1>1, <1>2, <1>3 DEF Base, Typed, OneHandler, Exists, BeginsWithNothing
<1>5. /\ SessionInv(s) /\ ~Finalizing(s) /\ Exists(s) /\ Row(s).status # "COMMITTED"
  BY <1>2 DEF AtomicInv, SessionInv, RepliesTrue, CommittedStored, OnlyChosenAsked
<1>6. ASSUME NEW t \in AnySession PROVE SessionInv(t)'
  <2>0. /\ SessionInv(t) /\ (Exists(t)' <=> Exists(t)) /\ Row(t)' = Row(t)
        /\ MayFinalize(t)' = MayFinalize(t) /\ Finalizing(t)' = Finalizing(t)
        /\ busy' = busy /\ toServer' = toServer
    BY <1>1 DEF AtomicInv, Exists, Row, MayFinalize, Finalizing
  <2>1. NothingEnded(t)' BY <1>2, <1>3, <2>0 DEF SessionInv, NothingEnded
  <2>2. RepliesTrue(t)'
    BY <1>0, <1>2, <1>3, <1>5, <2>0
    DEF SessionInv, RepliesTrue, Finalizing, Typed, WaitType
  <2>3. CommittedStored(t)'
    <3>1. Exists(t) => Row(t).nodes \subseteq Nodes BY <1>0, RowTyped
    <3> QED BY <1>2, <1>3, <1>5, <2>0, <3>1 DEF SessionInv, CommittedStored
  <2>4. OnlyChosenAsked(t)' BY <1>2, <2>0 DEF SessionInv, OnlyChosenAsked
  <2> QED BY <2>1, <2>2, <2>3, <2>4 DEF SessionInv
<1>7. ASSUME NEW t \in Sessions
      PROVE  [Promise(t)!Next]_<<Chosen(t), Holders(t), Outcome(t)>>
  <2>0. /\ Exists(t)' = Exists(t) /\ Row(t)' = Row(t) BY <1>1 DEF Exists, Row
  <2>1. Chosen(t)' = Chosen(t) /\ Outcome(t)' = Outcome(t) BY <2>0 DEF Chosen, Outcome
  <2>2. CASE t # s
    <3>1. Holders(t)' = Holders(t) BY <1>3, <2>2 DEF Holders
    <3> QED BY <2>1, <3>1
  <2>3. CASE t = s
    <3>1. Holders(t)' = Holders(t) \ {n} BY <1>3, <2>3 DEF Holders
    <3>2. Row(s).status \in {"UPLOADING", "ABORTED"}
      BY <1>0, <1>2, <1>5, RowTyped
    <3>3. Outcome(t) \in {"open", "aborted"} BY <1>5, <2>3, <3>2, OutcomeOf
    <3>4. Promise(t)!Erase(n) BY <2>1, <3>1, <3>3 DEF Promise!Erase
    <3> QED BY <3>4 DEF Promise!Next
  <2> QED BY <2>2, <2>3
<1> QED BY <1>4, <1>6, <1>7 DEF AtomicInv, StepKept

-----------------------------------------------------------------------------
(* An upload begins *)

LEMMA Concatenated ==
    ASSUME NEW q \in Frames, NEW r \in Frames,
           \A k \in 1 .. Len(r) : r[k].op = "init_session"
    PROVE  /\ q \o r \in Frames
           /\ \A op \in {"commit_finalize", "delete_object"} : \A s :
                Has(q \o r, op, s) => Has(q, op, s)
<1>1. /\ q \o r \in Frames /\ Len(q) \in Nat /\ Len(r) \in Nat
      /\ Len(q \o r) = Len(q) + Len(r)
      /\ \A k \in 1 .. Len(q) + Len(r) :
           (q \o r)[k] = IF k <= Len(q) THEN q[k] ELSE r[k - Len(q)]
  BY DEF Frames
<1>2. ASSUME NEW op \in {"commit_finalize", "delete_object"}, NEW s, Has(q \o r, op, s)
      PROVE  Has(q, op, s)
  <2>1. PICK k \in 1 .. Len(q) + Len(r) : (q \o r)[k].op = op /\ (q \o r)[k].s = s
    BY <1>1, <1>2 DEF Has
  <2>2. op # "init_session" OBVIOUS
  <2>3. ~(k - Len(q) \in 1 .. Len(r) /\ (q \o r)[k] = r[k - Len(q)]) BY <2>1, <2>2
  <2>4. k \in 1 .. Len(q) /\ (q \o r)[k] = q[k] BY <1>1, <2>3
  <2> QED BY <2>1, <2>4 DEF Has
<1> QED BY <1>1, <1>2

LEMMA InitFramesTyped ==
    ASSUME NEW u \in Uploads, NEW k \in Nat, NEW S \in SUBSET (1 .. k),
           NEW r \in InitFrames(u, S)
    PROVE  r \in Frames /\ \A i \in 1 .. Len(r) : r[i].op = "init_session"
<1>1. IsFiniteSet(1 .. k) BY FS_Interval
<1>2. IsFiniteSet(S) BY <1>1, FS_Subset
<1>3. Cardinality(S) \in Nat BY <1>2, FS_CardinalityType
<1> DEFINE c == Cardinality(S)
<1>4. PICK q \in [1 .. c -> S] : r = [i \in 1 .. c |-> F("init_session", <<u, q[i]>>, 0, TRUE)]
  BY DEF InitFrames
<1> HIDE DEF c
<1>5. c \in Nat BY <1>3 DEF c
<1>6. ASSUME NEW i \in 1 .. c
      PROVE  r[i] \in FrameType /\ r[i].op = "init_session"
  <2>0. \A x \in S : x \in Nat OBVIOUS
  <2>1. q[i] \in S /\ q[i] \in Nat BY <1>4, <2>0, Zenon
  <2>2. <<u, q[i]>> \in AnySession BY <2>1 DEF AnySession
  <2>3. r[i] = F("init_session", <<u, q[i]>>, 0, TRUE) BY <1>4
  <2>4. F("init_session", <<u, q[i]>>, 0, TRUE) \in FrameType
        /\ F("init_session", <<u, q[i]>>, 0, TRUE).op = "init_session"
    BY <2>2 DEF F, FrameType
  <2> QED BY <2>3, <2>4
<1>7. r \in [1 .. c -> FrameType]
  <2>1. r = [i \in 1 .. c |-> r[i]] BY <1>4
  <2> QED BY <1>6, <2>1
<1>8. r \in Seq(FrameType) /\ Len(r) = c
  BY <1>5, <1>7
<1> QED BY <1>6, <1>8 DEF Frames

(* A plan lists parts. *)
LEMMA PlanTyped ==
    ASSUME NEW online \in SUBSET Nodes, NEW size \in Nat, NEW room, NEW plan,
           \/ \E K \in SelectedNodes(online, size) : plan = <<[size |-> size, nodes |-> K]>>
           \/ plan \in Plans(size, room)
    PROVE  /\ Len(plan) \in Nat
           /\ \A i \in 1 .. Len(plan) : plan[i].size \in Nat /\ plan[i].nodes \in SUBSET Nodes
<1>1. CASE \E K \in SelectedNodes(online, size) : plan = <<[size |-> size, nodes |-> K]>>
  <2>1. PICK K \in SelectedNodes(online, size) : plan = <<[size |-> size, nodes |-> K]>>
    BY <1>1
  <2>2. K \in SUBSET Nodes BY DEF SelectedNodes
  <2>3. Len(plan) = 1 /\ plan[1] = [size |-> size, nodes |-> K] BY <2>1
  <2> QED BY <2>2, <2>3
<1>2. CASE plan \in Plans(size, room)
  <2> DEFINE sets == {K \in SUBSET Nodes : Cardinality(K) = ReplicaCount}
             part == [size : 1 .. size, nodes : sets]
  <2>1. PICK k \in 1 .. size : plan \in [1 .. k -> part] BY <1>2 DEF Plans
  <2>2. part \subseteq [size : Nat, nodes : SUBSET Nodes] OBVIOUS
  <2> HIDE DEF part
  <2>3. Len(plan) = k /\ k \in Nat BY <2>1
  <2>4. \A i \in 1 .. k : plan[i] \in [size : Nat, nodes : SUBSET Nodes] BY <2>1, <2>2
  <2> QED BY <2>3, <2>4
<1> QED BY <1>1, <1>2

(* The sessions of an upload are recorded. *)
LEMMA SessionsOpened ==
    ASSUME AtomicInv, NEW u \in Uploads, client[u].state = "idle", busy = Idle,
           NEW r \in Rows, \A i \in DOMAIN r : r[i].status = "UPLOADING",
           rows' = [rows EXCEPT ![u] = r], NEW state \in {"active", "waiting"},
           Answer(u, state), busy' = Idle, NEW inits,
           \A n \in Nodes : /\ inits[n] \in Frames
                            /\ \A k \in 1 .. Len(inits[n]) : inits[n][k].op = "init_session",
           toNode' = [n \in Nodes |-> toNode[n] \o inits[n]], UNCHANGED <<toServer, stored>>
    PROVE  AtomicInv' /\ StepKept
<1>0. Typed /\ OneHandler /\ BeginsWithNothing /\ rows[u] = <<>>
  BY DEF AtomicInv, Base, BeginsWithNothing
<1>1. /\ client' \in [Uploads -> ClientType]
      /\ client'[u].state = state /\ client'[u].part = client[u].part
      /\ \A v \in Uploads \ {u} : client'[v] = client[v]
  BY <1>0 DEF Answer, Typed, ClientType
<1>2. ASSUME NEW n \in Nodes
      PROVE  /\ toNode'[n] \in Frames
             /\ \A op \in {"commit_finalize", "delete_object"} : \A s :
                  Has(toNode'[n], op, s) => Has(toNode[n], op, s)
  <2>1. toNode[n] \in Frames /\ inits[n] \in Frames BY <1>0 DEF Typed
  <2>2. toNode'[n] = toNode[n] \o inits[n] OBVIOUS
  <2> QED BY <2>1, <2>2, Concatenated
<1>3. toNode' \in [Nodes -> Frames] BY <1>2
<1>4. /\ rows' \in [Uploads -> Rows] /\ rows'[u] = r
      /\ \A v \in Uploads \ {u} : rows'[v] = rows[v]
  BY <1>0 DEF Typed
<1>5. Base'
  BY <1>0, <1>1, <1>3, <1>4 DEF Base, Typed, OneHandler, BeginsWithNothing
<1>6. ASSUME NEW t \in AnySession
      PROVE  /\ t[1] # u => Exists(t)' = Exists(t) /\ Row(t)' = Row(t)
             /\ t[1] = u => /\ ~Exists(t)
                            /\ Exists(t)' => Row(t)'.status = "UPLOADING"
  <2>1. t[1] \in Uploads BY DEF AnySession
  <2>2. CASE t[1] # u BY <1>4, <2>1, <2>2 DEF Exists, Row
  <2>3. CASE t[1] = u BY <1>0, <1>4, <2>3 DEF Exists, Row
  <2> QED BY <2>2, <2>3
<1>7. \A t \in AnySession : MayFinalize(t)' => MayFinalize(t)
  BY <1>1 DEF MayFinalize, AnySession
<1>8. ASSUME NEW t \in AnySession PROVE SessionInv(t)'
  <2>0. SessionInv(t) /\ ~Finalizing(t)' BY DEF AtomicInv, Finalizing
  <2>1. NothingEnded(t)' BY <1>2, <1>6, <1>7, <2>0 DEF SessionInv, NothingEnded
  <2>2. RepliesTrue(t)' BY <2>0 DEF RepliesTrue
  <2>3. CommittedStored(t)' BY <1>2, <1>6, <2>0 DEF SessionInv, CommittedStored
  <2>4. OnlyChosenAsked(t)' BY <1>2, <1>6, <2>0 DEF SessionInv, OnlyChosenAsked
  <2> QED BY <2>1, <2>2, <2>3, <2>4 DEF SessionInv
<1>9. ASSUME NEW t \in Sessions
      PROVE  [Promise(t)!Next]_<<Chosen(t), Holders(t), Outcome(t)>>
  <2>0. t \in AnySession BY DEF Sessions, Parts, AnySession
  <2>1. Holders(t)' = Holders(t) BY DEF Holders
  <2>2. CASE t[1] # u
    <3>1. Exists(t)' = Exists(t) /\ Row(t)' = Row(t) BY <1>6, <2>0, <2>2
    <3>2. Outcome(t)' = Outcome(t) /\ Chosen(t)' = Chosen(t) BY <3>1 DEF Outcome, Chosen
    <3> QED BY <2>1, <3>2
  <2>3. CASE t[1] = u
    <3>1. ~Exists(t) /\ Outcome(t) = "none" /\ Chosen(t) = {}
      BY <1>6, <2>0, <2>3 DEF Outcome, Chosen
    <3>2. CASE ~Exists(t)' BY <2>1, <3>1, <3>2 DEF Outcome, Chosen
    <3>3. CASE Exists(t)'
      <4>1. Outcome(t)' = "open" BY <1>6, <2>0, <2>3, <3>3 DEF Outcome
      <4>2. Chosen(t)' \in SUBSET Nodes
        <5>1. t[2] \in DOMAIN r /\ Row(t)' = r[t[2]] BY <1>4, <2>3, <3>3 DEF Exists, Row
        <5>2. r \in Seq(RowType) BY DEF Rows
        <5>3. \A i \in DOMAIN r : r[i] \in RowType BY <5>2
        <5>4. Row(t)'.nodes \in SUBSET Nodes BY <5>1, <5>3 DEF RowType
        <5> QED BY <3>3, <5>4 DEF Chosen
      <4> QED BY <2>1, <3>1, <4>1, <4>2 DEF Promise!Next, Promise!Open
    <3> QED BY <3>2, <3>3
  <2> QED BY <2>2, <2>3
<1> QED BY <1>5, <1>8, <1>9 DEF AtomicInv, StepKept

LEMMA InitUploadKeeps ==
    ASSUME AtomicInv, NEW u \in Uploads, InitUpload(u)
    PROVE  AtomicInv' /\ StepKept
<1> DEFINE size == client[u].size
<1>0. /\ client[u].state = "idle" /\ busy = Idle /\ UNCHANGED <<toServer, stored>>
      /\ size \in Nat
  BY DEF InitUpload, nodeVars, AtomicInv, Base, Typed, ClientType
<1>1. CASE Answer(u, "refused") /\ UNCHANGED <<rows, busy, toNode>>
  BY <1>0, <1>1, ClientStops
<1>2. CASE ~(Answer(u, "refused") /\ UNCHANGED <<rows, busy, toNode>>)
  <2>1. PICK online \in SUBSET Nodes :
          LET sz == client[u].size
              whole == {<<[size |-> sz, nodes |-> K]>> : K \in SelectedNodes(online, sz)}
              free == [n \in Nodes |-> IF n \in online THEN Free(n) ELSE 0]
              plans == IF whole # {} THEN whole ELSE Plans(sz, free) IN
          \E plan \in plans : \E k \in 0 .. 2 * Len(plan) :
            LET made == 1 .. k \div 2 IN
            /\ rows' = [rows EXCEPT ![u] =
                          [i \in made |-> [size |-> plan[i].size, nodes |-> plan[i].nodes,
                                           status |-> "UPLOADING"]]]
            /\ \E inits \in [Nodes -> UNION {InitFrames(u, S) : S \in SUBSET made}] :
                 toNode' = [n \in Nodes |-> toNode[n] \o inits[n]]
            /\ \/ Answer(u, "active") /\ UNCHANGED busy
               \/ Answer(u, "waiting") /\ Forgotten
    BY <1>2 DEF InitUpload
  <2> DEFINE whole == {<<[size |-> size, nodes |-> K]>> : K \in SelectedNodes(online, size)}
             free == [n \in Nodes |-> IF n \in online THEN Free(n) ELSE 0]
             plans == IF whole # {} THEN whole ELSE Plans(size, free)
  <2>2. PICK plan \in plans : \E k \in 0 .. 2 * Len(plan) :
          /\ rows' = [rows EXCEPT ![u] =
                        [i \in 1 .. k \div 2 |-> [size |-> plan[i].size, nodes |-> plan[i].nodes,
                                                  status |-> "UPLOADING"]]]
          /\ \E inits \in [Nodes -> UNION {InitFrames(u, S) : S \in SUBSET (1 .. k \div 2)}] :
               toNode' = [n \in Nodes |-> toNode[n] \o inits[n]]
          /\ \/ Answer(u, "active") /\ UNCHANGED busy
             \/ Answer(u, "waiting") /\ Forgotten
    BY <2>1, Zenon
  <2>3. PICK k \in 0 .. 2 * Len(plan) :
          /\ rows' = [rows EXCEPT ![u] =
                        [i \in 1 .. k \div 2 |-> [size |-> plan[i].size, nodes |-> plan[i].nodes,
                                                  status |-> "UPLOADING"]]]
          /\ \E inits \in [Nodes -> UNION {InitFrames(u, S) : S \in SUBSET (1 .. k \div 2)}] :
               toNode' = [n \in Nodes |-> toNode[n] \o inits[n]]
          /\ \/ Answer(u, "active") /\ UNCHANGED busy
             \/ Answer(u, "waiting") /\ Forgotten
    BY <2>2, Zenon
  <2>4. PICK inits \in [Nodes -> UNION {InitFrames(u, S) : S \in SUBSET (1 .. k \div 2)}] :
          toNode' = [n \in Nodes |-> toNode[n] \o inits[n]]
    BY <2>3, Zenon
  <2>5. /\ busy' = Idle
        /\ Answer(u, "active") \/ Answer(u, "waiting")
    BY <1>0, <2>3 DEF Forgotten
  <2>6. \/ \E K \in SelectedNodes(online, size) : plan = <<[size |-> size, nodes |-> K]>>
        \/ plan \in Plans(size, free)
    BY Zenon
  <2> DEFINE c == k \div 2
             r == [i \in 1 .. c |-> [size |-> plan[i].size, nodes |-> plan[i].nodes,
                                     status |-> "UPLOADING"]]
  <2>7. /\ Len(plan) \in Nat
        /\ \A i \in 1 .. Len(plan) : plan[i].size \in Nat /\ plan[i].nodes \in SUBSET Nodes
    BY <1>0, <2>6, PlanTyped
  <2>8. c \in Nat /\ c <= Len(plan) BY <2>7
  <2> HIDE DEF c
  <2>9. \A i \in 1 .. c : r[i] \in RowType /\ r[i].status = "UPLOADING"
    BY <2>7, <2>8 DEF RowType
  <2>10. r \in Rows /\ DOMAIN r = 1 .. c BY <2>8, <2>9 DEF Rows
  <2>11. ASSUME NEW n \in Nodes
        PROVE  /\ inits[n] \in Frames
               /\ \A j \in 1 .. Len(inits[n]) : inits[n][j].op = "init_session"
    <3>1. PICK S \in SUBSET (1 .. c) : inits[n] \in InitFrames(u, S) BY DEF c
    <3> QED BY <2>8, <3>1, InitFramesTyped
  <2>12. rows' = [rows EXCEPT ![u] = r] BY <2>3 DEF c
  <2> HIDE DEF r
  <2> QED BY <1>0, <2>4, <2>5, <2>9, <2>10, <2>11, <2>12, SessionsOpened
<1> QED BY <1>1, <1>2

-----------------------------------------------------------------------------
(* Every step *)

LEMMA ClientKeeps ==
    ASSUME AtomicInv, NEW u \in Uploads,
           ClientNext(u) \/ ClientTimeout(u) \/ ClientLeaves(u)
    PROVE  AtomicInv' /\ StepKept
<1> DEFINE s == <<u, client[u].part>>
<1>0. /\ Typed /\ OneHandler /\ s \in AnySession /\ client[u].chunk \in Nat
  BY DEF AtomicInv, Base, Typed, ClientType, AnySession
<1>1. CASE InitUpload(u) BY <1>1, InitUploadKeeps
<1>2. CASE ClientChunk(u)
  <2>1. /\ client[u].state = "active" /\ busy = Idle /\ Exists(s)
        /\ UNCHANGED <<rows, toServer, stored>>
    BY <1>2 DEF ClientChunk, dbVars, nodeVars
  <2>2. CASE s \notin known
    <3>1. Answer(u, "failed") /\ UNCHANGED <<toNode, busy>> BY <1>2, <2>2 DEF ClientChunk
    <3> QED BY <2>1, <3>1, ClientStops
  <2>3. CASE s \in known
    <3> DEFINE f == F("data", s, client[u].chunk, TRUE)
               ns == Row(s).nodes
    <3>1. /\ toNode' = SentTo(ns, f) /\ Wait("chunk_ack", s) /\ Answer(u, "waiting")
      BY <1>2, <2>3 DEF ClientChunk
    <3>2. f \in FrameType /\ f.op = "data" BY <1>0 DEF F, FrameType
    <3> HIDE DEF f, ns
    <3>3. f.op \notin {"commit_finalize", "delete_object"} BY <3>2
    <3> QED BY <2>1, <3>1, <3>2, <3>3, WaitBegun
  <2> QED BY <2>2, <2>3
<1>3. CASE ClientCommit(u)
  <2> DEFINE f == F("commit_check", s, 0, TRUE)
             ns == Row(s).nodes
  <2>1. /\ client[u].state = "active" /\ busy = Idle /\ Exists(s)
        /\ UNCHANGED <<rows, toServer, stored>>
        /\ toNode' = SentTo(ns, f) /\ Wait("commit_check_reply", s) /\ Answer(u, "waiting")
    BY <1>3 DEF ClientCommit, dbVars, nodeVars
  <2>2. f \in FrameType /\ f.op = "commit_check" BY <1>0 DEF F, FrameType
  <2> HIDE DEF f, ns
  <2>3. f.op \notin {"commit_finalize", "delete_object"} BY <2>2
  <2> QED BY <2>1, <2>2, <2>3, WaitBegun
<1>4. CASE ClientCommitMultipart(u)
  <2>1. /\ busy = Idle
        /\ Answer(u, "done") \/ Answer(u, "failed")
        /\ UNCHANGED <<rows, busy, toNode, toServer, stored>>
    BY <1>4 DEF ClientCommitMultipart, channels, nodeVars
  <2> QED BY <1>4, <2>1, ClientStops DEF ClientCommitMultipart
<1>5. CASE ClientTimeout(u) \/ ClientLeaves(u)
  <2>1. Answer(u, "failed") /\ UNCHANGED <<rows, busy, toNode, toServer, stored>>
    BY <1>5 DEF ClientTimeout, ClientLeaves, dbVars, channels, nodeVars
  <2> QED BY <2>1, ClientStops
<1> QED BY <1>1, <1>2, <1>3, <1>4, <1>5 DEF ClientNext

LEMMA ReceiveKeeps ==
    ASSUME AtomicInv, NEW n \in Nodes, Receive(n)
    PROVE  AtomicInv' /\ StepKept
<1>0. /\ Base /\ Typed /\ OneHandler /\ BeginsWithNothing /\ Taken(n)
      /\ busy # Idle => /\ busy \in WaitType /\ busy.s \in AnySession
                        /\ busy.s[1] \in Uploads /\ client[busy.s[1]] \in ClientType
  BY DEF AtomicInv, Base, Typed, WaitType, AnySession, Receive, ReceiveOther, ReceiveAck,
         ReceiveCheck, ReceiveFinalize
<1>1. /\ toServer' \in [Nodes -> Frames] /\ Head(toServer[n]) \in FrameType
      /\ \A m \in Nodes : \A op, s : Has(toServer'[m], op, s) => Has(toServer[m], op, s)
      /\ \A m \in Nodes : \A s : Confirms(toServer'[m], s) => Confirms(toServer[m], s)
  BY <1>0, TakenFrames
<1>2. CASE ReceiveOther(n)
  <2>1. UNCHANGED <<rows, busy, client, toNode, stored>>
    BY <1>2 DEF ReceiveOther, dbVars, nodeVars
  <2>2. Base' /\ Fewer
    BY <1>0, <1>1, <2>1 DEF Base, Typed, OneHandler, Exists, BeginsWithNothing, Fewer
  <2> QED BY <2>1, <2>2, Calm DEF MayFinalize
<1>3. CASE ReceiveAck(n)
  <2> DEFINE x == client[busy.s[1]]
             c == GoesOn(x, x.part, x.chunk + 1)
  <2>1. /\ busy # Idle /\ busy.op = "chunk_ack" /\ Ends(busy.s[1], c)
        /\ UNCHANGED <<rows, toNode, stored>>
    BY <1>3 DEF ReceiveAck, Awaited, dbVars, nodeVars
  <2>2. c \in ClientType /\ c.state = "active" /\ c.part = client[busy.s[1]].part
    <3>1. x \in ClientType /\ x.part \in Nat /\ x.chunk + 1 \in Nat
      BY <1>0, <2>1 DEF ClientType
    <3> QED BY <3>1, ClientGoesOn
  <2>3. Fewer BY <1>1, <2>1 DEF Fewer
  <2>4. busy.op # "commit_finalize_reply" BY <2>1
  <2> HIDE DEF c
  <2> QED BY <1>1, <2>1, <2>2, <2>3, <2>4, HandlerGivesUp
<1>4. CASE ReceiveCheck(n)
  <2> DEFINE b == Replied(n)
             ns == Row(busy.s).nodes
  <2>1. /\ Awaited(n) /\ busy # Idle /\ busy.op = "commit_check_reply"
        /\ UNCHANGED <<rows, stored>>
    BY <1>4 DEF ReceiveCheck, Awaited, dbVars, nodeVars
  <2>2. /\ b \in WaitType /\ b.s = busy.s /\ b.op = "commit_check_reply" /\ b # Idle
    BY <1>0, <1>1, <2>1 DEF Replied, WaitType, FrameType, Idle
  <2>3. CASE b.replied # ns
    <3>1. busy' = b /\ UNCHANGED <<client, toNode>> BY <1>4, <2>2, <2>3 DEF ReceiveCheck
    <3> HIDE DEF b, ns
    <3>2. Base' /\ Fewer
      BY <1>0, <1>1, <2>1, <2>2, <3>1
      DEF Base, Typed, OneHandler, Exists, BeginsWithNothing, Fewer
    <3>3. \A t \in AnySession : MayFinalize(t)' => MayFinalize(t)
      BY <2>1, <2>2, <3>1 DEF MayFinalize
    <3> QED BY <2>1, <2>2, <3>1, <3>2, <3>3, Calm
  <2>4. CASE b.replied = ns /\ b.ok
    <3>1. /\ toNode' = SentTo(ns, F("commit_finalize", busy.s, 0, TRUE))
          /\ Wait("commit_finalize_reply", busy.s) /\ UNCHANGED client
      BY <1>4, <2>2, <2>4 DEF ReceiveCheck
    <3> HIDE DEF b
    <3> QED BY <1>0, <2>1, <3>1, RoundBegun
  <2>5. CASE b.replied = ns /\ ~b.ok
    <3> DEFINE c == [client[busy.s[1]] EXCEPT !.state = "failed"]
    <3>1. Ends(busy.s[1], c) /\ UNCHANGED toNode BY <1>4, <2>2, <2>5 DEF ReceiveCheck
    <3>2. c \in ClientType /\ c.state = "failed" BY <1>0, <2>1, ClientNextState
    <3>3. Fewer BY <1>1, <3>1 DEF Fewer
    <3>4. busy.op # "commit_finalize_reply" BY <2>1
    <3> HIDE DEF b, c
    <3> QED BY <1>1, <2>1, <3>1, <3>2, <3>3, <3>4, HandlerGivesUp
  <2> QED BY <2>3, <2>4, <2>5
<1>5. CASE ReceiveFinalize(n)
  <2>1. /\ Awaited(n) /\ busy # Idle /\ busy.op = "commit_finalize_reply"
        /\ Replied(n).s = busy.s /\ UNCHANGED stored
    BY <1>0, <1>5 DEF ReceiveFinalize, Awaited, Replied, WaitType, nodeVars
  <2>2. CASE busy' = Replied(n) /\ UNCHANGED <<dbVars, client, toNode>>
    BY <1>0, <2>1, <2>2, AnswerCounted DEF dbVars
  <2>3. CASE Replied(n).replied = Row(busy.s).nodes /\ Replied(n).ok /\ Commit(busy.s)
    BY <1>0, <2>1, <2>3, RoundCommitted
  <2>4. CASE Abort(busy.s, FALSE)
    BY <1>0, <1>1, <2>1, <2>4, RoundAborted DEF Finalizing
  <2> QED BY <1>5, <2>1, <2>2, <2>3, <2>4 DEF ReceiveFinalize
<1> QED BY <1>2, <1>3, <1>4, <1>5 DEF Receive

LEMMA WaitTimeoutKeeps ==
    ASSUME AtomicInv, WaitTimeout
    PROVE  AtomicInv' /\ StepKept
<1>0. /\ busy # Idle /\ UNCHANGED <<toServer, stored>> /\ Typed
      /\ toServer' \in [Nodes -> Frames]
      /\ busy.s[1] \in Uploads /\ client[busy.s[1]] \in ClientType
  BY DEF AtomicInv, Base, Typed, WaitType, AnySession, WaitTimeout, nodeVars
<1>1. CASE busy.op = "commit_finalize_reply"
  BY <1>0, <1>1, RoundAborted DEF WaitTimeout, Finalizing
<1>2. CASE busy.op # "commit_finalize_reply"
  <2> DEFINE c == [client[busy.s[1]] EXCEPT !.state = "failed"]
  <2>1. Ends(busy.s[1], c) /\ UNCHANGED <<rows, toNode>>
    BY <1>2 DEF WaitTimeout, dbVars
  <2>2. c \in ClientType /\ c.state = "failed" BY <1>0, ClientNextState
  <2>3. Fewer BY <1>0, <2>1 DEF Fewer
  <2> HIDE DEF c
  <2> QED BY <1>0, <1>2, <2>1, <2>2, <2>3, HandlerGivesUp
<1> QED BY <1>1, <1>2

LEMMA NodeKeeps ==
    ASSUME AtomicInv, NEW n \in Nodes, NodeNext(n)
    PROVE  AtomicInv' /\ StepKept
<1>1. CASE NodeInitSession(n)
  <2>1. /\ Got(n, "init_session") /\ UNCHANGED <<rows, busy, client, toServer, stored>>
    BY <1>1 DEF NodeInitSession, dbVars
  <2> QED BY <2>1, NodeCalm
<1>2. CASE NodeData(n)
  <2>1. /\ Got(n, "data") /\ Reply(n, "chunk_ack", Head(toNode[n]).s, TRUE)
        /\ UNCHANGED <<rows, busy, client, stored>>
    BY <1>2 DEF NodeData, dbVars
  <2> QED BY <2>1, NodeCalm
<1>3. CASE NodeCommitCheck(n)
  <2> DEFINE s == Head(toNode[n]).s
             ok == s \in open[n] => Chunks(s) \subseteq tmp[n]
  <2>1. /\ Got(n, "commit_check") /\ Reply(n, "commit_check_reply", Head(toNode[n]).s, ok)
        /\ UNCHANGED <<rows, busy, client, stored>>
    BY <1>3 DEF NodeCommitCheck, dbVars, nodeVars
  <2>2. ok \in BOOLEAN OBVIOUS
  <2> HIDE DEF s, ok
  <2> QED BY <2>1, <2>2, NodeCalm
<1>4. CASE NodeCommitFinalize(n) BY <1>4, NodeCommitFinalizeKeeps
<1>5. CASE NodeDeleteObject(n) BY <1>5, NodeDeleteObjectKeeps
<1> QED BY <1>1, <1>2, <1>3, <1>4, <1>5 DEF NodeNext

(* Frames are lost, and the DataServer's memory may be. *)
LEMMA FramesLost ==
    ASSUME AtomicInv, UNCHANGED <<rows, client, stored>>, busy' = busy \/ busy' = Idle,
           \A n \in Nodes : toNode'[n] = toNode[n] \/ toNode'[n] = <<>>,
           \A n \in Nodes : toServer'[n] = toServer[n] \/ toServer'[n] = <<>>,
           toNode' = [n \in Nodes |-> toNode'[n]], toServer' = [n \in Nodes |-> toServer'[n]]
    PROVE  AtomicInv' /\ StepKept
<1>0. Base /\ Typed /\ OneHandler /\ BeginsWithNothing BY DEF AtomicInv, Base
<1>1. ASSUME NEW n \in Nodes PROVE toNode'[n] \in Frames /\ toServer'[n] \in Frames
  BY <1>0, Empty DEF Typed
<1>2. toNode' \in [Nodes -> Frames] /\ toServer' \in [Nodes -> Frames] BY <1>1
<1>3. Fewer BY Empty DEF Fewer
<1>4. Base'
  BY <1>0, <1>2 DEF Base, Typed, OneHandler, Exists, BeginsWithNothing
<1>5. \A t \in AnySession : MayFinalize(t)' => MayFinalize(t) BY DEF MayFinalize
<1> QED BY <1>3, <1>4, <1>5, Calm

LEMMA OutsideKeeps ==
    ASSUME AtomicInv,
           ServerRestart \/ \E n \in Nodes : NodeRestart(n) \/ LoseFrames(n)
    PROVE  AtomicInv' /\ StepKept
<1>0. Typed BY DEF AtomicInv, Base
<1>1. CASE ServerRestart
  <2>1. PICK lost \in SUBSET Nodes :
          toNode' = [n \in Nodes |-> IF n \in lost THEN <<>> ELSE toNode[n]]
    BY <1>1 DEF ServerRestart
  <2>2. busy' = Idle /\ UNCHANGED <<rows, client, toServer, stored>>
    BY <1>1 DEF ServerRestart, Forgotten, dbVars, nodeVars
  <2>3. toServer' = [n \in Nodes |-> toServer'[n]] BY <1>0, <2>2 DEF Typed
  <2> QED BY <2>1, <2>2, <2>3, FramesLost
<1>2. ASSUME NEW n \in Nodes, NodeRestart(n) \/ LoseFrames(n)
      PROVE  AtomicInv' /\ StepKept
  <2>1. /\ toNode' = toNode \/ toNode' = [toNode EXCEPT ![n] = <<>>]
        /\ toServer' = toServer \/ toServer' = [toServer EXCEPT ![n] = <<>>]
        /\ UNCHANGED <<rows, busy, client, stored>>
    BY <1>2 DEF NodeRestart, LoseFrames, dbVars, nodeVars
  <2>2. /\ \A m \in Nodes : toNode'[m] = toNode[m] \/ toNode'[m] = <<>>
        /\ toNode' = [m \in Nodes |-> toNode'[m]]
    BY <1>0, <2>1 DEF Typed
  <2>3. /\ \A m \in Nodes : toServer'[m] = toServer[m] \/ toServer'[m] = <<>>
        /\ toServer' = [m \in Nodes |-> toServer'[m]]
    BY <1>0, <2>1 DEF Typed
  <2> QED BY <2>1, <2>2, <2>3, FramesLost
<1> QED BY <1>1, <1>2

LEMMA InitKeeps ==
    ASSUME Init
    PROVE  AtomicInv /\ \A s \in Sessions : Promise(s)!Init
<1>1. Typed
  <2>1. \A u \in Uploads : rows[u] \in Rows BY DEF Init, Rows
  <2>2. rows \in [Uploads -> Rows] BY <2>1 DEF Init
  <2>3. toNode \in [Nodes -> Frames] /\ toServer \in [Nodes -> Frames] BY Empty DEF Init
  <2>4. client \in [Uploads -> ClientType]
    <3>1. \A size \in Sizes : size \in Nat BY UploadAssumption
    <3>2. [state : {"idle"}, size : Sizes, part : {1}, chunk : {1}] \subseteq ClientType
      BY <3>1 DEF ClientType
    <3> QED BY <3>2 DEF Init
  <2> QED BY <2>2, <2>3, <2>4 DEF Init, Typed
<1>2. Base BY <1>1 DEF Init, Base, OneHandler, BeginsWithNothing
<1>3. ASSUME NEW s \in AnySession PROVE ~Exists(s)
  BY DEF Init, Exists, AnySession
<1>4. ASSUME NEW s \in AnySession PROVE SessionInv(s)
  <2>1. \A n \in Nodes : \A op : ~Has(toNode[n], op, s) /\ ~Has(toServer[n], op, s)
    BY Empty DEF Init
  <2>2. ~Finalizing(s) /\ \A n \in Nodes : s \notin stored[n] BY DEF Init, Finalizing
  <2> QED BY <1>3, <2>1, <2>2 DEF SessionInv, NothingEnded, RepliesTrue, CommittedStored,
                                  OnlyChosenAsked
<1>5. ASSUME NEW s \in Sessions PROVE Promise(s)!Init
  <2>1. s \in AnySession BY DEF Sessions, Parts, AnySession
  <2>2. Outcome(s) = "none" /\ Chosen(s) = {} BY <1>3, <2>1 DEF Outcome, Chosen
  <2>3. Holders(s) = {} BY DEF Init, Holders
  <2> QED BY <2>2, <2>3 DEF Promise!Init
<1> QED BY <1>2, <1>4, <1>5 DEF AtomicInv

LEMMA NextKeeps ==
    ASSUME AtomicInv, [Next]_vars
    PROVE  AtomicInv' /\ StepKept
<1>1. ASSUME NEW u \in Uploads, ClientNext(u) \/ ClientTimeout(u) \/ ClientLeaves(u)
      PROVE  AtomicInv' /\ StepKept
  BY <1>1, ClientKeeps
<1>2. ASSUME NEW n \in Nodes, Receive(n) PROVE AtomicInv' /\ StepKept
  BY <1>2, ReceiveKeeps
<1>3. ASSUME NEW n \in Nodes, NodeNext(n) PROVE AtomicInv' /\ StepKept
  BY <1>3, NodeKeeps
<1>4. CASE WaitTimeout BY <1>4, WaitTimeoutKeeps
<1>5. CASE ServerRestart \/ \E n \in Nodes : NodeRestart(n) \/ LoseFrames(n)
  BY <1>5, OutsideKeeps
<1>6. CASE UNCHANGED vars
  <2>1. UNCHANGED <<rows, busy, client, toNode, toServer, stored>>
    BY <1>6 DEF vars, dbVars, channels, nodeVars
  <2>2. Base' /\ Fewer
    BY <2>1 DEF AtomicInv, Base, Typed, OneHandler, Exists, BeginsWithNothing, Fewer
  <2> QED BY <2>1, <2>2, Calm DEF MayFinalize
<1> QED BY <1>1, <1>2, <1>3, <1>4, <1>5, <1>6 DEF Next

(* Whatever files are uploaded to whatever nodes, and in whatever order     *)
(* frames, deadlines, lost frames and restarts come: a session commits only *)
(* while every chosen node stores all of it, ends at most once, and no late *)
(* delete_object takes a copy of what was committed.                        *)
THEOREM UploadsAreAtomic == Spec => KeepsAtomicity
<1>1. Init => AtomicInv /\ \A s \in Sessions : Promise(s)!Init
  BY InitKeeps
<1>2. AtomicInv /\ [Next]_vars => AtomicInv' /\ StepKept
  BY NextKeeps
<1>3. Spec => []AtomicInv
  BY <1>1, <1>2, PTL DEF Spec
<1>4. Spec => [][StepKept]_vars
  BY <1>2, <1>3, PTL DEF Spec
<1> QED BY <1>1, <1>4, PTL DEF Spec, KeepsAtomicity, StepKept
=============================================================================
